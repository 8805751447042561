---------------------------- MODULE ContextProofs ---------------------------
(***************************************************************************)
(* For any tasks, stack sizes, sections and depth of interrupts: a task    *)
(* finds its context as it left it, critical sections balance and keep the *)
(* processor, and Reserve bytes of a stack are enough for the kernel.      *)
(*                                                                         *)
(* The invariant says of every task what the words on its stack are: of    *)
(* one that does not run, those of its whole context; of the one that      *)
(* runs, those that its next instruction leads one to expect.              *)
(***************************************************************************)
EXTENDS Context, FiniteSetTheorems, SequenceTheorems, TLAPS

-----------------------------------------------------------------------------
\* Words.
LEMMA WordIn ==
    ASSUME NEW w, w \in Words
    PROVE  /\ w = <<w[1], w[2], w[3], w[4]>>
           /\ w[1] \in Registers \cup {"SREG", "EECR", "zero"} \cup Labels
           /\ w[2] \in Task \cup {Kernel} /\ w[3] \in {0, 1} /\ w[4] \in {0, 1}
  BY DEF Words

LEMMA WordOf ==
    ASSUME NEW a \in Registers \cup {"SREG", "EECR", "zero"} \cup Labels,
           NEW b \in Task \cup {Kernel}, NEW c \in {0, 1}, NEW d \in {0, 1}
    PROVE  <<a, b, c, d>> \in Words
  BY DEF Words

LEMMA Masking1 ==
    ASSUME NEW w \in Words
    PROVE  /\ Masked(w) \in Words /\ Unmasked(w) \in Words
           /\ ~Enabled(Masked(w)) /\ Enabled(Unmasked(w))
           /\ Masked(w)[1] = w[1] /\ Unmasked(w)[1] = w[1]
           /\ Masked(Masked(w)) = Masked(w) /\ Masked(Unmasked(w)) = Masked(w)
           /\ Unmasked(Masked(w)) = Unmasked(w) /\ Unmasked(Unmasked(w)) = Unmasked(w)
           /\ Enabled(w) => w = Unmasked(w)
           /\ ~Enabled(w) => w = Masked(w)
           /\ Enabled(w) => w = Unmasked(Masked(w))
  <1>. PICK a \in Registers \cup {"SREG", "EECR", "zero"} \cup Labels,
            b \in Task \cup {Kernel}, c \in {0, 1}, d \in {0, 1} : w = <<a, b, c, d>>
    BY WordIn
  <1>1. Masked(w) = <<a, b, c, 0>> /\ Unmasked(w) = <<a, b, c, 1>>
    BY DEF Masked, Unmasked
  <1>2. <<a, b, c, 0>> \in Words /\ <<a, b, c, 1>> \in Words
    BY WordOf
  <1>. QED
    BY <1>1, <1>2 DEF Masked, Unmasked, Enabled

-----------------------------------------------------------------------------
\* Counting.
LEMMA CountNone ==
    ASSUME NEW K
    PROVE  Count(<<>>, K) = 0
  <1>1. {i \in DOMAIN <<>> : <<>>[i][1] \in K} = {}
    OBVIOUS
  <1>. QED
    BY <1>1, FS_EmptySet DEF Count

LEMMA CountPrefix ==
    ASSUME NEW S, NEW s \in Seq(S), NEW k \in 0..(Len(s) - 1), NEW K
    PROVE  Count(SubSeq(s, 1, k + 1), K) =
               Count(SubSeq(s, 1, k), K) + (IF s[k + 1][1] \in K THEN 1 ELSE 0)
  <1>. DEFINE A == {i \in DOMAIN SubSeq(s, 1, k) : SubSeq(s, 1, k)[i][1] \in K}
              B == {i \in DOMAIN SubSeq(s, 1, k + 1) : SubSeq(s, 1, k + 1)[i][1] \in K}
  <1>1. A = {i \in 1..k : s[i][1] \in K} /\ B = {i \in 1..(k + 1) : s[i][1] \in K}
    OBVIOUS
  <1>2. IsFiniteSet(A)
    <2>1. A \in SUBSET (1..k) /\ IsFiniteSet(1..k)
      BY <1>1, FS_Interval
    <2>. QED
      BY <2>1, FS_Subset
  <1>3. B = IF s[k + 1][1] \in K THEN A \cup {k + 1} ELSE A
    <2>1. 1..(k + 1) = (1..k) \cup {k + 1}
      OBVIOUS
    <2>. QED
      BY <1>1, <2>1
  <1>4. k + 1 \notin A
    BY <1>1
  <1>5. Cardinality(A \cup {k + 1}) = Cardinality(A) + 1 /\ Cardinality(A) \in Nat
    BY <1>2, <1>4, FS_AddElement, FS_CardinalityType
  <1>6. Count(SubSeq(s, 1, k), K) = Cardinality(A)
        /\ Count(SubSeq(s, 1, k + 1), K) = Cardinality(B)
    BY DEF Count
  <1>. HIDE DEF A, B
  <1>. QED
    BY <1>3, <1>5, <1>6

LEMMA CountSet ==
    ASSUME NEW S, NEW s \in Seq(S), NEW K
    PROVE  IsFiniteSet({i \in DOMAIN s : s[i][1] \in K})
  <1>. DEFINE A == {i \in DOMAIN s : s[i][1] \in K}
  <1>1. A \in SUBSET (1..Len(s)) /\ Len(s) \in Nat
    OBVIOUS
  <1>2. IsFiniteSet(1..Len(s))
    BY <1>1, FS_Interval
  <1>. HIDE DEF A
  <1>3. IsFiniteSet(A)
    BY <1>1, <1>2, FS_Subset
  <1>. QED
    BY <1>3 DEF A

LEMMA CountNat ==
    ASSUME NEW S, NEW s \in Seq(S), NEW K
    PROVE  Count(s, K) \in Nat
  <1>1. IsFiniteSet({i \in DOMAIN s : s[i][1] \in K})
    BY CountSet
  <1>. QED
    BY <1>1, FS_CardinalityType DEF Count

LEMMA CountZero ==
    ASSUME NEW S, NEW s \in Seq(S), NEW K, Count(s, K) = 0
    PROVE  \A i \in DOMAIN s : s[i][1] \notin K
  <1>. DEFINE A == {i \in DOMAIN s : s[i][1] \in K}
  <1>1. IsFiniteSet(A) /\ Cardinality(A) = 0
    BY CountSet DEF Count
  <1>. HIDE DEF A
  <1>2. A = {}
    BY <1>1, FS_EmptySet
  <1>. QED
    BY <1>2 DEF A

-----------------------------------------------------------------------------
\* Bytes and nested interrupts, word by word.
Size(w) ==
    IF w[1] = "r2" THEN 22
    ELSE IF w[1] = "r26" THEN 6
    ELSE IF w[1] = "r24" THEN 2
    ELSE IF w[1] \in Labels THEN AddressSize
    ELSE IF w[1] = "zero" THEN 0
    ELSE 1

OneIf(w, kind) == IF w[1] = kind THEN 1 ELSE 0

LEMMA Address23 == AddressSize \in {2, 3}
  BY DEF AddressSize

LEMMA NoWords == Bytes(<<>>) = 0 /\ Nested(<<>>) = 0
  BY CountNone, Address23 DEF Bytes, Nested

LEMMA Weight ==
    ASSUME NEW e \in Nat
    PROVE  AddressSize * e \in Nat
  BY Address23

LEMMA Weighing ==
    ASSUME NEW e \in Nat, NEW f \in Nat, NEW g, g = e + f
    PROVE  AddressSize * g = AddressSize * e + AddressSize * f
  <1>1. CASE AddressSize = 2
    BY <1>1
  <1>2. CASE AddressSize = 3
    BY <1>2
  <1>. QED
    BY <1>1, <1>2, Address23

LEMMA Naturals1 ==
    ASSUME NEW s \in Seq(Words)
    PROVE  Bytes(s) \in Nat /\ Nested(s) \in Nat
  <1>. DEFINE O == {"r0", "r1", "SREG", "EECR", "EIND", "RAMPZ"}
  <1>1. /\ Count(s, {"r2"}) \in Nat /\ Count(s, {"r26"}) \in Nat
        /\ Count(s, {"r24"}) \in Nat /\ Count(s, O) \in Nat
        /\ Count(s, Labels) \in Nat /\ Count(s, {"isr"}) \in Nat
    BY CountNat
  <1>2. Bytes(s) = 22 * Count(s, {"r2"}) + 6 * Count(s, {"r26"}) + 2 * Count(s, {"r24"})
                     + Count(s, O) + AddressSize * Count(s, Labels)
    BY DEF Bytes
  <1>3. AddressSize * Count(s, Labels) \in Nat
    BY <1>1, Weight
  <1>. HIDE DEF O
  <1>. QED
    BY <1>1, <1>2, <1>3, SMTT(30) DEF Nested

\* The first k + 1 words weigh what the first k do, and the last of them.
LEMMA OneMore ==
    ASSUME NEW s \in Seq(Words), NEW k \in 0..(Len(s) - 1)
    PROVE  /\ Bytes(SubSeq(s, 1, k + 1)) = Bytes(SubSeq(s, 1, k)) + Size(s[k + 1])
           /\ Nested(SubSeq(s, 1, k + 1)) =
                Nested(SubSeq(s, 1, k)) + OneIf(s[k + 1], "isr")
  <1>. DEFINE w == s[k + 1]
              kind == w[1]
              one(K) == IF kind \in K THEN 1 ELSE 0
              A == {"r2"}
              B == {"r26"}
              C == {"r24"}
              O == {"r0", "r1", "SREG", "EECR", "EIND", "RAMPZ"}
              I == {"isr"}
              a == SubSeq(s, 1, k)
              b == SubSeq(s, 1, k + 1)
  <1>1. \A K : Count(b, K) = Count(a, K) + one(K)
    BY CountPrefix
  <1>2. w \in Words
    OBVIOUS
  <1>3. kind \in Registers \cup {"SREG", "EECR", "zero"} \cup Labels
    BY <1>2, WordIn
  <1>4. a \in Seq(Words)
    OBVIOUS
  <1>5. \A K : Count(a, K) \in Nat
    BY <1>4, CountNat
  <1>6. Size(w) = 22 * one(A) + 6 * one(B) + 2 * one(C) + one(O) + AddressSize * one(Labels)
    BY <1>3, Address23 DEF Size, Labels, Registers
  <1>7. OneIf(w, "isr") = one(I)
    BY DEF OneIf
  <1>8. \A K : one(K) \in Nat
    OBVIOUS
  <1>9. /\ Bytes(a) = 22 * Count(a, A) + 6 * Count(a, B) + 2 * Count(a, C) + Count(a, O)
                         + AddressSize * Count(a, Labels)
        /\ Bytes(b) = 22 * Count(b, A) + 6 * Count(b, B) + 2 * Count(b, C) + Count(b, O)
                         + AddressSize * Count(b, Labels)
        /\ Nested(a) = Count(a, I) /\ Nested(b) = Count(b, I)
    BY DEF Bytes, Nested
  <1>. HIDE DEF one, a, b, A, B, C, O, I
  <1>10. /\ Count(b, A) = Count(a, A) + one(A) /\ Count(b, B) = Count(a, B) + one(B)
         /\ Count(b, C) = Count(a, C) + one(C) /\ Count(b, O) = Count(a, O) + one(O)
         /\ Count(b, Labels) = Count(a, Labels) + one(Labels)
         /\ Count(b, I) = Count(a, I) + one(I)
    BY <1>1
  <1>11. AddressSize * one(Labels) \in Nat /\ AddressSize * Count(a, Labels) \in Nat
    BY <1>5, <1>8, Weight
  <1>12. AddressSize * Count(b, Labels) =
            AddressSize * Count(a, Labels) + AddressSize * one(Labels)
    BY <1>5, <1>8, <1>10, Weighing
  <1>13. /\ Count(a, A) \in Nat /\ Count(a, B) \in Nat /\ Count(a, C) \in Nat
         /\ Count(a, O) \in Nat /\ one(A) \in Nat /\ one(B) \in Nat /\ one(C) \in Nat
         /\ one(O) \in Nat
    BY <1>5, <1>8
  <1>14. Bytes(b) = Bytes(a) + Size(w)
    <2>0. PICK na \in Nat, nb \in Nat, nc \in Nat, no \in Nat, nl \in Nat,
              oa \in Nat, ob \in Nat, oc \in Nat, oo \in Nat, ol \in Nat :
                /\ na = Count(a, A) /\ nb = Count(a, B) /\ nc = Count(a, C) /\ no = Count(a, O)
                /\ nl = AddressSize * Count(a, Labels)
                /\ oa = one(A) /\ ob = one(B) /\ oc = one(C) /\ oo = one(O)
                /\ ol = AddressSize * one(Labels)
      BY <1>11, <1>13
    <2>1. Bytes(a) = 22 * na + 6 * nb + 2 * nc + no + nl
      BY <1>9, <2>0
    <2>2. Size(w) = 22 * oa + 6 * ob + 2 * oc + oo + ol
      BY <1>6, <2>0
    <2>3. Bytes(b) = 22 * (na + oa) + 6 * (nb + ob) + 2 * (nc + oc) + (no + oo) + (nl + ol)
      BY <1>9, <1>10, <1>12, <2>0
    <2>4. 22 * (na + oa) + 6 * (nb + ob) + 2 * (nc + oc) + (no + oo) + (nl + ol) =
            (22 * na + 6 * nb + 2 * nc + no + nl) + (22 * oa + 6 * ob + 2 * oc + oo + ol)
      OBVIOUS
    <2>. QED
      BY <2>1, <2>2, <2>3, <2>4
  <1>15. Nested(b) = Nested(a) + OneIf(w, "isr")
    BY <1>7, <1>9, <1>10
  <1>. QED
    BY <1>14, <1>15 DEF a, b

LEMMA NoElements ==
    ASSUME NEW S, NEW s \in Seq(S), DOMAIN s = {}
    PROVE  s = <<>> /\ Len(s) = 0
  <1>1. Len(s) \in Nat /\ DOMAIN s = 1..Len(s)
    OBVIOUS
  <1>2. Len(s) = 0
    <2>1. Len(s) # 0 => 1 \in 1..Len(s)
      BY <1>1
    <2>. QED
      BY <1>1, <2>1
  <1>. QED
    BY <1>2

LEMMA Whole ==
    ASSUME NEW S, NEW s \in Seq(S)
    PROVE  SubSeq(s, 1, Len(s)) = s
  OBVIOUS

Concatenates(s, r) ==
    /\ Len(s \o r) = Len(s) + Len(r)
    /\ \A i \in 1..Len(s) : (s \o r)[i] = s[i]
    /\ \A i \in 1..Len(r) : (s \o r)[Len(s) + i] = r[i]

LEMMA Concatenated ==
    ASSUME NEW S, NEW s \in Seq(S), NEW r \in Seq(S)
    PROVE  s \o r \in Seq(S) /\ Concatenates(s, r)
  BY DEF Concatenates

LEMMA FirstOn ==
    ASSUME NEW S, NEW s \in Seq(S), NEW w
    PROVE  Append(SubSeq(s, 1, 0), w) = <<w>>
  <1>1. SubSeq(s, 1, 0) = <<>>
    OBVIOUS
  <1>2. Append(<<>>, w) = <<w>>
    OBVIOUS
  <1>. QED
    BY <1>1, <1>2

LEMMA Appended ==
    ASSUME NEW s \in Seq(Words), NEW w \in Words
    PROVE  /\ Append(s, w) \in Seq(Words)
           /\ Bytes(Append(s, w)) = Bytes(s) + Size(w)
           /\ Nested(Append(s, w)) = Nested(s) + OneIf(w, "isr")
  <1>. DEFINE r == Append(s, w)
  <1>1. r \in Seq(Words) /\ Len(r) = Len(s) + 1 /\ r[Len(s) + 1] = w
    OBVIOUS
  <1>2. SubSeq(r, 1, Len(s)) = s /\ SubSeq(r, 1, Len(s) + 1) = r
    OBVIOUS
  <1>3. Len(s) \in 0..(Len(r) - 1)
    BY <1>1
  <1>. HIDE DEF r
  <1>4. /\ Bytes(SubSeq(r, 1, Len(s) + 1)) =
             Bytes(SubSeq(r, 1, Len(s))) + Size(r[Len(s) + 1])
        /\ Nested(SubSeq(r, 1, Len(s) + 1)) =
             Nested(SubSeq(r, 1, Len(s))) + OneIf(r[Len(s) + 1], "isr")
    BY <1>1, <1>3, OneMore
  <1>5. Bytes(r) = Bytes(s) + Size(w) /\ Nested(r) = Nested(s) + OneIf(w, "isr")
    BY <1>1, <1>2, <1>4
  <1>. QED
    BY <1>1, <1>5 DEF r

\* r is s with w on top.
IsPushed(r, s, w) ==
    /\ r = Append(s, w)
    /\ Len(r) = Len(s) + 1 /\ r[Len(s) + 1] = w /\ \A i \in 1..Len(s) : r[i] = s[i]
    /\ Bytes(r) = Bytes(s) + Size(w) /\ Nested(r) = Nested(s) + OneIf(w, "isr")

LEMMA Pushed ==
    ASSUME NEW s \in Seq(Words), NEW w \in Words
    PROVE  \E r \in Seq(Words) : IsPushed(r, s, w)
  <1>1. Append(s, w) \in Seq(Words)
    OBVIOUS
  <1>2. PICK r \in Seq(Words) : r = Append(s, w)
    BY <1>1
  <1>3. Len(r) = Len(s) + 1 /\ r[Len(s) + 1] = w /\ \A i \in 1..Len(s) : r[i] = s[i]
    BY <1>2
  <1>4. Bytes(r) = Bytes(s) + Size(w) /\ Nested(r) = Nested(s) + OneIf(w, "isr")
    BY <1>2, Appended
  <1>5. IsPushed(r, s, w)
    BY <1>2, <1>3, <1>4 DEF IsPushed
  <1>. QED
    BY <1>5

\* d is s with a, b, c and e on top.
AreFourOn(d, s, a, b, c, e) ==
    /\ d = s \o <<a, b, c, e>>
    /\ Len(d) = Len(s) + 4 /\ \A i \in 1..Len(s) : d[i] = s[i]
    /\ d[Len(s) + 1] = a /\ d[Len(s) + 2] = b /\ d[Len(s) + 3] = c /\ d[Len(s) + 4] = e
    /\ Bytes(d) = Bytes(s) + Size(a) + Size(b) + Size(c) + Size(e)
    /\ Nested(d) = Nested(s) + OneIf(a, "isr") + OneIf(b, "isr") + OneIf(c, "isr")
                     + OneIf(e, "isr")

LEMMA FourOn ==
    ASSUME NEW s \in Seq(Words), NEW a \in Words, NEW b \in Words, NEW c \in Words,
           NEW e \in Words
    PROVE  \E d \in Seq(Words) : AreFourOn(d, s, a, b, c, e)
  <1>1. PICK p \in Seq(Words) : IsPushed(p, s, a)
    BY Pushed
  <1>2. PICK q \in Seq(Words) : IsPushed(q, p, b)
    BY Pushed
  <1>3. PICK r \in Seq(Words) : IsPushed(r, q, c)
    BY Pushed
  <1>4. PICK d \in Seq(Words) : IsPushed(d, r, e)
    BY Pushed
  <1>5. d = s \o <<a, b, c, e>>
    <2>. DEFINE f == s \o <<a, b, c, e>>
    <2>1. d = Append(Append(Append(Append(s, a), b), c), e)
      BY <1>1, <1>2, <1>3, <1>4 DEF IsPushed
    <2>2. <<a, b, c, e>> \in Seq(Words) /\ Len(<<a, b, c, e>>) = 4
      OBVIOUS
    <2>3. f \in Seq(Words) /\ Len(d) = Len(s) + 4 /\ Len(f) = Len(s) + 4
      BY <2>1, <2>2
    <2>4. \A i \in 1..(Len(s) + 4) : d[i] = f[i]
      BY <2>1, <2>2, SMTT(30)
    <2>5. d = f
      <3>. HIDE DEF f
      <3>. QED
        BY <2>3, <2>4
    <2>. QED
      BY <2>5
  <1>6. /\ Bytes(d) = Bytes(s) + Size(a) + Size(b) + Size(c) + Size(e)
        /\ Nested(d) = Nested(s) + OneIf(a, "isr") + OneIf(b, "isr") + OneIf(c, "isr")
                         + OneIf(e, "isr")
    BY <1>1, <1>2, <1>3, <1>4 DEF IsPushed
  <1>7. /\ Len(d) = Len(s) + 4 /\ \A i \in 1..Len(s) : d[i] = s[i]
        /\ d[Len(s) + 1] = a /\ d[Len(s) + 2] = b /\ d[Len(s) + 3] = c /\ d[Len(s) + 4] = e
    BY <1>5
  <1>8. AreFourOn(d, s, a, b, c, e)
    BY <1>5, <1>6, <1>7 DEF AreFourOn
  <1>. QED
    BY <1>8

LEMMA Popped ==
    ASSUME NEW s \in Seq(Words), s # <<>>
    PROVE  /\ Front(s) \in Seq(Words) /\ Last(s) \in Words
           /\ Len(Front(s)) = Len(s) - 1
           /\ Bytes(Front(s)) = Bytes(s) - Size(Last(s))
           /\ Nested(Front(s)) = Nested(s) - OneIf(Last(s), "isr")
  <1>. DEFINE k == Len(s) - 1
  <1>5. Len(s) \in Nat \ {0}
    OBVIOUS
  <1>6. k \in 0..(Len(s) - 1) /\ k + 1 = Len(s)
    BY <1>5
  <1>7. Front(s) = SubSeq(s, 1, k) /\ Last(s) = s[k + 1] /\ s = SubSeq(s, 1, k + 1)
    BY <1>5 DEF Front, Last
  <1>8. SubSeq(s, 1, k) \in Seq(Words) /\ Len(SubSeq(s, 1, k)) = k /\ s[k + 1] \in Words
    <2>1. k + 1 \in 1..Len(s) /\ k \in Nat
      BY <1>5
    <2>2. s[k + 1] \in Words
      BY <2>1
    <2>3. Len(SubSeq(s, 1, k)) = k
      <3>. HIDE DEF k
      <3>. QED
        BY <2>1, <1>6
    <2>4. SubSeq(s, 1, k) \in Seq(Words)
      BY <1>6
    <2>. QED
      BY <2>2, <2>3, <2>4
  <1>1. /\ Front(s) = SubSeq(s, 1, k) /\ Last(s) = s[k + 1] /\ s = SubSeq(s, 1, k + 1)
        /\ k \in 0..(Len(s) - 1) /\ Front(s) \in Seq(Words) /\ Len(Front(s)) = Len(s) - 1
        /\ Last(s) \in Words
    BY <1>6, <1>7, <1>8
  <1>2. Bytes(Front(s)) \in Nat /\ Nested(Front(s)) \in Nat
    BY <1>1, Naturals1
  <1>3. /\ Bytes(SubSeq(s, 1, k + 1)) = Bytes(SubSeq(s, 1, k)) + Size(s[k + 1])
        /\ Nested(SubSeq(s, 1, k + 1)) =
                Nested(SubSeq(s, 1, k)) + OneIf(s[k + 1], "isr")
    BY <1>1, OneMore
  <1>4. Size(Last(s)) \in Nat /\ OneIf(Last(s), "isr") \in Nat
    BY Address23 DEF Size, OneIf
  <1>9. /\ Bytes(s) = Bytes(Front(s)) + Size(Last(s))
        /\ Nested(s) = Nested(Front(s)) + OneIf(Last(s), "isr")
    BY <1>1, <1>3
  <1>. QED
    BY <1>1, <1>2, <1>4, <1>9

-----------------------------------------------------------------------------
(***************************************************************************)
(* The inductive invariant.  A task is stopped at l when l is the label in *)
(* its own code (its entry function, arch_yield, the last instructions of  *)
(* arch_tick in arch_yield, the hook) at which it was interrupted, or      *)
(* "unmasked" when it yielded; n is how many interrupts it has not left.   *)
(***************************************************************************)
Stops == {"own", "yield", "pushed", "read", "unmasked", "restoring", "returning",
          "hook", "gone"}

SREGs == {f \in Words : f[1] = "SREG"}

\* What the stack of a task holds that is stopped at l.
Under(t, l) ==
    IF l \in {"hook", "gone"} THEN <<>>
    ELSE IF l = "own" THEN Base(t)
    ELSE IF l \in {"yield", "returning"} THEN Append(Base(t), Label("own"))
    ELSE Append(Append(Base(t), Label("own")), Own(t, "r0"))

\* f is the SREG of t, whatever its interrupt flag.
IsSreg(t, f) == f \in SREGs /\ Masked(f) = Own(t, "SREG")

\* What r0 holds there.
IsR0(t, l, w) ==
    IF l \in {"read", "unmasked", "restoring"} THEN IsSreg(t, w) ELSE w = Own(t, "r0")

\* f is what SREG is to be when the n-th interrupt of a task stopped at l is left, or
\* its yield.
IsFlags(t, l, n, f) ==
    IF n = 0 THEN IsSreg(t, f)
    ELSE /\ f \in SREGs /\ ~Enabled(f)
         /\ n = 1 /\ l # "unmasked" => f = Own(t, "SREG")

\* The j-th interrupt's words on the stack s, as far as s goes: three of them, the last
\* r0, in which the flags of the one before wait to be written to SREG.
Level(t, l, j, s) ==
    LET i == Len(Under(t, l)) + 3 * j IN
    /\ i - 2 <= Len(s) => s[i - 2] = Label(IF j = 1 THEN l ELSE "unmasked")
    /\ i - 1 <= Len(s) => s[i - 1] = Label("isr")
    /\ i <= Len(s) => IF j = 1 THEN IsR0(t, l, s[i]) ELSE IsFlags(t, l, j - 1, s[i])

Levels(t, l, n, s) ==
    /\ Len(Under(t, l)) <= Len(s)
    /\ \A i \in 1..Len(Under(t, l)) : s[i] = Under(t, l)[i]
    /\ \A j \in 1..n : Level(t, l, j, s)

\* Bytes up to the flags of the n-th interrupt, and what SaveRest pushes with them.
LevelBytes == IF port = "mega2560" THEN 7 ELSE 5
Full(t, l, n) == Bytes(Under(t, l)) + LevelBytes * n
RestBytes == IF port = "mega2560" THEN 33 ELSE 31

\* On the ATmega128 interrupts stay off until a task goes on.
MayNest(l, n) ==
    /\ n \in 0..MaxNested
    /\ port = "mega128" => n = 0 \/ (n = 1 /\ l # "unmasked")

Rests(t, l) ==
    /\ l \in Stops
    /\ open[t] = <<>>
    /\ l \in {"hook", "gone"} => t # Idle
    /\ t \notin live => l = "gone"

\* The words of t's whole context lie on its stack, where its stackPtr says.
Saved(t, l, n) ==
    LET top == Len(Under(t, l)) + 3 * n + 1 IN
    /\ Rests(t, l) /\ Levels(t, l, n, stack[t]) /\ MayNest(l, n)
    /\ n = 0 => l = "unmasked"
    /\ Len(stack[t]) = top + Len(SaveOrder)
    /\ IsFlags(t, l, n, stack[t][top])
    /\ \A i \in 1..Len(SaveOrder) : stack[t][top + i] = Own(t, SaveOrder[i])
    /\ stackPtr[t] = <<t, Len(stack[t])>>
    /\ Bytes(stack[t]) = Full(t, l, n) + 1 + RestBytes
    /\ Nested(stack[t]) = n

OtherRegisters(t) == sp = t /\ \A r \in Registers \ {"r0"} : reg[r] = Own(t, r)

\* s is base with a copy of EECR on it for each critical section of o.
Holds(base, s, o) ==
    /\ Len(s) = Len(base) + Depth(o)
    /\ \A i \in 1..Len(base) : s[i] = base[i]
    /\ \A i \in 1..Depth(o) : s[Len(base) + i] = Eecr

\* The task's own code.
OwnStack(t) ==
    IF port = "mega2560" THEN Holds(Base(t), stack[t], open[t]) ELSE stack[t] = Base(t)

AtOwn(t) ==
    /\ pc = "own" /\ t \in live
    /\ OtherRegisters(t) /\ reg["r0"] = Own(t, "r0")
    /\ Masked(sreg) = Own(t, "SREG")
    /\ Enabled(sreg) => started /\ open[t] = <<>>
    /\ OwnStack(t)

\* The other instructions of a task's own code.
AtStop(t, l) ==
    /\ pc = l /\ l # "own" /\ Rests(t, l) /\ started
    /\ OtherRegisters(t) /\ IsR0(t, l, reg["r0"])
    /\ stack[t] = Under(t, l)
    /\ IF l = "unmasked" THEN Enabled(sreg) ELSE IsSreg(t, sreg)

\* The n-th interrupt of t is being left.
Leaves(t, l, n) ==
    /\ n # 0 /\ MayNest(l, n) /\ Rests(t, l) /\ started
    /\ OtherRegisters(t)
    /\ Levels(t, l, n, stack[t])

LeavesUnmasked(t, l, n) ==
    /\ pc = "unmasked" /\ Enabled(sreg) /\ Leaves(t, l, n)
    /\ Len(stack[t]) = Len(Under(t, l)) + 3 * n /\ IsFlags(t, l, n, reg["r0"])
    /\ Bytes(stack[t]) = Full(t, l, n) /\ Nested(stack[t]) = n

LeavesRestoring(t, l, n) ==
    /\ pc = "restoring" /\ Leaves(t, l, n) /\ IsFlags(t, l, n, sreg)
    /\ Len(stack[t]) = Len(Under(t, l)) + 3 * n
    /\ Bytes(stack[t]) = Full(t, l, n) /\ Nested(stack[t]) = n

\* r0 has been popped again.
R0Back(t, l, n) ==
    IF n = 1 THEN IsR0(t, l, reg["r0"]) ELSE IsFlags(t, l, n - 1, reg["r0"])

LeavesReturning(t, l, n) ==
    /\ pc = "returning" /\ Leaves(t, l, n) /\ IsFlags(t, l, n, sreg) /\ R0Back(t, l, n)
    /\ Len(stack[t]) = Len(Under(t, l)) + 3 * n - 1
    /\ Bytes(stack[t]) = Full(t, l, n) - 1 /\ Nested(stack[t]) = n

LeavesIsr(t, l, n) ==
    /\ pc = "isr" /\ Leaves(t, l, n) /\ IsFlags(t, l, n, sreg) /\ R0Back(t, l, n)
    /\ Len(stack[t]) = Len(Under(t, l)) + 3 * n - 2
    /\ Bytes(stack[t]) = Full(t, l, n) - 1 - AddressSize /\ Nested(stack[t]) = n - 1

InKernel(t, l, n) ==
    /\ pc = "kernel" /\ sp = Kernel /\ started /\ ~Enabled(sreg)
    /\ Saved(t, l, n)

Leaving(t) ==
    \E l \in Stops, n \in Nat :
        \/ LeavesUnmasked(t, l, n) \/ LeavesRestoring(t, l, n)
        \/ LeavesReturning(t, l, n) \/ LeavesIsr(t, l, n)

Switching(t) == \E l \in Stops, n \in Nat : InKernel(t, l, n)

Running ==
    \E t \in Task :
        /\ currentTask = t
        /\ AtOwn(t) \/ (\E l \in Stops : AtStop(t, l)) \/ Leaving(t) \/ Switching(t)

IsSaved(t) == \E l \in Stops, n \in Nat : Saved(t, l, n)

Parked == \A t \in live : t # currentTask => IsSaved(t)

\* What the sections a task is in remember.
Remembers(t) ==
    \A i \in DOMAIN open[t] :
        /\ Masked(open[t][i][2]) = Own(t, "SREG")
        /\ Enabled(open[t][i][2]) => started /\ i = 1

Sections ==
    /\ \A t \in Task : t # currentTask => open[t] = <<>>
    /\ \A t \in Task : Remembers(t) /\ Len(open[t]) <= MaxOpen
    /\ \A t \in Task :
          currentTask = t =>
              kCriticalNesting = (IF port = "mega2560" THEN 0 ELSE Depth(open[t]))

KernelStack ==
    /\ kStackPointer = 0
    /\ stack[Kernel] = IF pc = "kernel" THEN <<Label("kernel")>> ELSE <<>>

Phases ==
    /\ ~started => pc = "own" /\ currentTask = Idle
    /\ pc = "unmasked" => port = "mega2560"

ContextInv ==
    /\ ContextTypeOK /\ Running /\ Parked /\ Sections /\ KernelStack /\ Phases
    /\ StackSuffices

-----------------------------------------------------------------------------
\* What is what kind of word.
LEMMA OwnIn ==
    ASSUME ContextTypeOK, NEW t \in Task, NEW r \in Registers \cup {"SREG"}
    PROVE  /\ Own(t, r) \in Words /\ ~Enabled(Own(t, r)) /\ Own(t, r)[1] = r
           /\ Own(t, r) = <<r, t, computed[t], 0>>
           /\ Unmasked(Own(t, r)) = <<r, t, computed[t], 1>>
  <1>1. computed[t] \in {0, 1}
    BY DEF ContextTypeOK
  <1>2. <<r, t, computed[t], 0>> \in Words
    BY <1>1, WordOf
  <1>. QED
    BY <1>2 DEF Own, Word, Enabled, Unmasked

LEMMA LabelIn ==
    ASSUME NEW l \in Labels
    PROVE  Label(l) \in Words /\ Label(l)[1] = l
  <1>1. <<l, Kernel, 0, 0>> \in Words
    BY WordOf
  <1>. QED
    BY <1>1 DEF Label, Word

LEMMA SregIn ==
    ASSUME ContextTypeOK, NEW t \in Task, NEW f, IsSreg(t, f)
    PROVE  f \in Words /\ f[1] = "SREG"
  BY DEF IsSreg, SREGs

LEMMA FlagsIn ==
    ASSUME ContextTypeOK, NEW t \in Task, NEW l, NEW n, NEW f, IsFlags(t, l, n, f)
    PROVE  f \in Words /\ f[1] = "SREG"
  BY DEF IsFlags, IsSreg, SREGs

LEMMA R0In ==
    ASSUME ContextTypeOK, NEW t \in Task, NEW l, NEW w, IsR0(t, l, w)
    PROVE  w \in Words /\ Size(w) = 1 /\ w[1] # "isr" /\ OneIf(w, "isr") = 0
  <1>1. "r0" \in Registers
    BY DEF Registers
  <1>2. Own(t, "r0") \in Words /\ Own(t, "r0")[1] = "r0"
    BY <1>1, OwnIn
  <1>. QED
    BY <1>2 DEF IsR0, IsSreg, SREGs, Size, Labels, OneIf

\* The bytes of the words that are on stacks.
LEMMA Sizes ==
    ASSUME NEW w
    PROVE  /\ w[1] \in Labels => Size(w) = AddressSize
           /\ w[1] \in {"r0", "r1", "SREG", "EIND", "RAMPZ"} => Size(w) = 1
           /\ w[1] = "r2" => Size(w) = 22
           /\ w[1] = "r24" => Size(w) = 2
           /\ w[1] = "r26" => Size(w) = 6
           /\ w[1] # "isr" => OneIf(w, "isr") = 0
           /\ w[1] = "isr" => OneIf(w, "isr") = 1
  BY DEF Size, Labels, OneIf

LEMMA UnderIs ==
    ASSUME ContextTypeOK, NEW t \in Task, NEW l
    PROVE  /\ Under(t, l) \in Seq(Words) /\ Len(Under(t, l)) \in 0..3
           /\ Base(t) \in Seq(Words) /\ Len(Base(t)) \in 0..1
           /\ Bytes(Under(t, l)) \in 0..LevelBytes
           /\ Nested(Under(t, l)) = 0
  <1>. DEFINE b == Base(t)
              c == Append(b, Label("own"))
              d == Append(c, Own(t, "r0"))
              h == Label("hook")
              o == Label("own")
              r == Own(t, "r0")
  <1>1. /\ h \in Words /\ Size(h) = AddressSize /\ OneIf(h, "isr") = 0
        /\ o \in Words /\ Size(o) = AddressSize /\ OneIf(o, "isr") = 0
    <2>1. "hook" \in Labels /\ "own" \in Labels
      BY DEF Labels
    <2>. QED
      BY <2>1, LabelIn, Sizes
  <1>2. r \in Words /\ Size(r) = 1 /\ OneIf(r, "isr") = 0
    <2>1. "r0" \in Registers
      BY DEF Registers
    <2>. QED
      BY <2>1, OwnIn, Sizes
  <1>3. /\ <<>> \in Seq(Words) /\ Len(<<>>) = 0 /\ Bytes(<<>>) = 0 /\ Nested(<<>>) = 0
    BY NoWords
  <1>4. /\ b \in Seq(Words) /\ Len(b) \in 0..1 /\ Bytes(b) \in 0..AddressSize
        /\ Nested(b) = 0
    <2>1. CASE t = Idle
      BY <2>1, <1>3, Address23 DEF Base
    <2>2. CASE t # Idle
      <3>1. b = Append(<<>>, h)
        BY <2>2 DEF Base
      <3>2. b \in Seq(Words) /\ Bytes(b) = 0 + AddressSize /\ Nested(b) = 0 + 0
        BY <3>1, <1>1, <1>3, Appended
      <3>3. Len(b) = 1
        BY <2>2 DEF Base
      <3>. QED
        BY <3>2, <3>3, Address23
    <2>. QED
      BY <2>1, <2>2
  <1>. HIDE DEF b, h, o, r
  <1>5. /\ c \in Seq(Words) /\ Len(c) = Len(b) + 1 /\ Bytes(c) = Bytes(b) + AddressSize
        /\ Nested(c) = 0
    <2>1. c = Append(b, o)
      BY DEF o
    <2>2. c \in Seq(Words) /\ Bytes(c) = Bytes(b) + Size(o)
          /\ Nested(c) = Nested(b) + OneIf(o, "isr")
      BY <1>1, <1>4, <2>1, Appended
    <2>. QED
      BY <1>1, <1>4, <2>1, <2>2
  <1>6. /\ d \in Seq(Words) /\ Len(d) = Len(c) + 1 /\ Bytes(d) = Bytes(c) + 1
        /\ Nested(d) = 0
    <2>1. d = Append(c, r)
      BY DEF r
    <2>. HIDE DEF c, d
    <2>2. d \in Seq(Words) /\ Bytes(d) = Bytes(c) + Size(r)
          /\ Nested(d) = Nested(c) + OneIf(r, "isr")
      BY <1>2, <1>5, <2>1, Appended
    <2>. QED
      BY <1>2, <1>5, <2>1, <2>2
  <1>7. Under(t, l) \in {<<>>, b, c, d}
    BY DEF Under, b
  <1>. HIDE DEF c, d
  <1>8. LevelBytes \in Nat /\ LevelBytes = AddressSize + AddressSize + 1
    BY DEF LevelBytes, AddressSize
  <1>11. AddressSize \in Nat /\ Bytes(b) \in Nat /\ Bytes(b) <= AddressSize
    BY <1>4, Address23
  <1>9. /\ Len(c) \in 0..3 /\ Bytes(c) \in 0..LevelBytes
        /\ Len(d) \in 0..3 /\ Bytes(d) \in 0..LevelBytes
        /\ Len(b) \in 0..3 /\ Bytes(b) \in 0..LevelBytes
    <2>1. Len(b) \in 0..3 /\ Len(c) \in 0..3 /\ Len(d) \in 0..3
      <3>1. PICK n \in 0..1 : n = Len(b)
        BY <1>4
      <3>2. Len(c) = n + 1 /\ Len(d) = (n + 1) + 1
        BY <1>5, <1>6, <3>1
      <3>3. n \in 0..3 /\ n + 1 \in 0..3 /\ (n + 1) + 1 \in 0..3
        OBVIOUS
      <3>. QED
        BY <3>1, <3>2, <3>3
    <2>2. Bytes(c) = Bytes(b) + AddressSize /\ Bytes(d) = Bytes(b) + AddressSize + 1
      BY <1>5, <1>6
    <2>3. PICK x \in Nat, y \in Nat, z \in Nat :
             x = Bytes(b) /\ y = AddressSize /\ z = LevelBytes
      BY <1>8, <1>11
    <2>4. x <= y /\ z = y + y + 1
      BY <1>8, <1>11, <2>3
    <2>5. x \in 0..z /\ x + y \in 0..z /\ x + y + 1 \in 0..z
      BY <2>4
    <2>. QED
      BY <2>1, <2>2, <2>3, <2>5
  <1>10. 0 \in 0..3 /\ 0 \in 0..LevelBytes
    BY <1>8
  <1>. QED
    BY <1>3, <1>4, <1>5, <1>6, <1>7, <1>9, <1>10 DEF b

-----------------------------------------------------------------------------
\* The registers that are saved and restored together.
LEMMA OrderLength ==
    /\ Len(SaveOrder) \in {4, 6} /\ (Len(SaveOrder) = 6 <=> port = "mega2560")
    /\ Len(RestoreOrder) = Len(SaveOrder)
    /\ \A i \in 1..Len(SaveOrder) : SaveOrder[i] \in Registers /\ SaveOrder[i] # "r0"
  BY DEF SaveOrder, SaveOrder2560, SaveOrder128, RestoreOrder, RestoreOrder2560,
         RestoreOrder128, Registers

LEMMA Order ==
    ASSUME ContextTypeOK
    PROVE  /\ \A r \in Registers \ {"r0"} :
                 \E i \in 1..Len(SaveOrder) : SaveOrder[i] = r
           /\ \A i \in 1..Len(SaveOrder) :
                 RestoreOrder[i] = SaveOrder[Len(SaveOrder) + 1 - i]
           /\ \A i, j \in 1..Len(SaveOrder) : SaveOrder[i] = SaveOrder[j] => i = j
  <1>1. CASE port = "mega2560"
    BY <1>1 DEF SaveOrder, SaveOrder2560, RestoreOrder, RestoreOrder2560, Registers
  <1>2. CASE port # "mega2560"
    BY <1>2 DEF SaveOrder, SaveOrder128, RestoreOrder, RestoreOrder128, Registers
  <1>. QED
    BY <1>1, <1>2

\* What a context on a stack weighs, but for r0 and SREG.
LEMMA OrderBytes ==
    ASSUME NEW s \in Seq(Words), NEW k \in Nat, Len(s) = k + Len(SaveOrder),
           \A i \in 1..Len(SaveOrder) : s[k + i][1] = SaveOrder[i]
    PROVE  /\ SubSeq(s, 1, k) \in Seq(Words) /\ Len(SubSeq(s, 1, k)) = k
           /\ Bytes(s) = Bytes(SubSeq(s, 1, k)) + RestBytes
           /\ Nested(s) = Nested(SubSeq(s, 1, k))
  <1>. DEFINE p(i) == SubSeq(s, 1, k + i)
              at(i) == s[k + i]
              n == Len(SaveOrder)
  <1>1. n \in {4, 6} /\ (n = 6 <=> port = "mega2560")
    BY OrderLength
  <1>2. \A i \in 1..n : at(i)[1] = SaveOrder[i]
    OBVIOUS
  <1>3. \A i \in 0..(n - 1) :
           /\ Bytes(p(i + 1)) = Bytes(p(i)) + Size(at(i + 1))
           /\ Nested(p(i + 1)) = Nested(p(i)) + OneIf(at(i + 1), "isr")
    <2>. TAKE i \in 0..(n - 1)
    <2>1. k + i \in 0..(Len(s) - 1) /\ k + (i + 1) = (k + i) + 1
      BY <1>1
    <2>2. s[(k + i) + 1] = at(i + 1)
      BY <2>1
    <2>. QED
      BY <2>1, <2>2, OneMore
  <1>4. p(n) = s
    BY <1>1, Whole
  <1>5. p(0) = SubSeq(s, 1, k) /\ p(0) \in Seq(Words) /\ Len(p(0)) = k
    BY <1>1
  <1>6. Bytes(p(0)) \in Nat /\ Nested(p(0)) \in Nat
    BY <1>5, Naturals1
  <1>7. \A i \in 1..n : OneIf(at(i), "isr") = 0
    <2>1. \A i \in 1..n : SaveOrder[i] # "isr"
      BY OrderLength DEF Registers
    <2>. HIDE DEF at
    <2>. QED
      BY <1>2, <2>1, Sizes
  <1>. HIDE DEF p, at, n
  <1>8. CASE port = "mega2560"
    <2>1. n = 6
      BY <1>1, <1>8
    <2>2. /\ SaveOrder[1] = "EIND" /\ SaveOrder[2] = "RAMPZ" /\ SaveOrder[3] = "r1"
          /\ SaveOrder[4] = "r2" /\ SaveOrder[5] = "r24" /\ SaveOrder[6] = "r26"
      BY <1>8 DEF SaveOrder, SaveOrder2560
    <2>3. /\ Size(at(1)) = 1 /\ Size(at(2)) = 1 /\ Size(at(3)) = 1
          /\ Size(at(4)) = 22 /\ Size(at(5)) = 2 /\ Size(at(6)) = 6
      BY <1>2, <2>1, <2>2, Sizes
    <2>4. /\ Bytes(p(1)) = Bytes(p(0)) + 1 /\ Nested(p(1)) = Nested(p(0)) + 0
          /\ Bytes(p(2)) = Bytes(p(1)) + 1 /\ Nested(p(2)) = Nested(p(1)) + 0
          /\ Bytes(p(3)) = Bytes(p(2)) + 1 /\ Nested(p(3)) = Nested(p(2)) + 0
          /\ Bytes(p(4)) = Bytes(p(3)) + 22 /\ Nested(p(4)) = Nested(p(3)) + 0
          /\ Bytes(p(5)) = Bytes(p(4)) + 2 /\ Nested(p(5)) = Nested(p(4)) + 0
          /\ Bytes(p(6)) = Bytes(p(5)) + 6 /\ Nested(p(6)) = Nested(p(5)) + 0
      <3>1. /\ 0 + 1 = 1 /\ 1 + 1 = 2 /\ 2 + 1 = 3 /\ 3 + 1 = 4 /\ 4 + 1 = 5 /\ 5 + 1 = 6
            /\ {0, 1, 2, 3, 4, 5} \subseteq 0..(n - 1) /\ 1..n = {1, 2, 3, 4, 5, 6}
        BY <2>1
      <3>. QED
        BY <1>3, <1>7, <2>3, <3>1
    <2>5. Bytes(p(6)) = Bytes(p(0)) + 33 /\ Nested(p(6)) = Nested(p(0))
      BY <1>6, <2>4
    <2>. QED
      BY <1>4, <1>5, <1>8, <2>1, <2>5 DEF RestBytes
  <1>9. CASE port # "mega2560"
    <2>1. n = 4
      BY <1>1, <1>9
    <2>2. /\ SaveOrder[1] = "r1" /\ SaveOrder[2] = "r2" /\ SaveOrder[3] = "r24"
          /\ SaveOrder[4] = "r26"
      BY <1>9 DEF SaveOrder, SaveOrder128
    <2>3. /\ Size(at(1)) = 1 /\ Size(at(2)) = 22 /\ Size(at(3)) = 2 /\ Size(at(4)) = 6
      BY <1>2, <2>1, <2>2, Sizes
    <2>4. /\ Bytes(p(1)) = Bytes(p(0)) + 1 /\ Nested(p(1)) = Nested(p(0)) + 0
          /\ Bytes(p(2)) = Bytes(p(1)) + 22 /\ Nested(p(2)) = Nested(p(1)) + 0
          /\ Bytes(p(3)) = Bytes(p(2)) + 2 /\ Nested(p(3)) = Nested(p(2)) + 0
          /\ Bytes(p(4)) = Bytes(p(3)) + 6 /\ Nested(p(4)) = Nested(p(3)) + 0
      <3>1. /\ 0 + 1 = 1 /\ 1 + 1 = 2 /\ 2 + 1 = 3 /\ 3 + 1 = 4
            /\ {0, 1, 2, 3} \subseteq 0..(n - 1) /\ 1..n = {1, 2, 3, 4}
        BY <2>1
      <3>. QED
        BY <1>3, <1>7, <2>3, <3>1
    <2>5. Bytes(p(4)) = Bytes(p(0)) + 31 /\ Nested(p(4)) = Nested(p(0))
      BY <1>6, <2>4
    <2>. QED
      BY <1>4, <1>5, <1>9, <2>1, <2>5 DEF RestBytes
  <1>. QED
    BY <1>8, <1>9

LEMMA SavedBytes ==
    ASSUME ContextTypeOK, NEW t \in Task, NEW s \in Seq(Words), NEW k \in Nat,
           Len(s) = k + Len(SaveOrder),
           \A i \in 1..Len(SaveOrder) : s[k + i] = Own(t, SaveOrder[i])
    PROVE  /\ SubSeq(s, 1, k) \in Seq(Words) /\ Len(SubSeq(s, 1, k)) = k
           /\ Bytes(s) = Bytes(SubSeq(s, 1, k)) + RestBytes
           /\ Nested(s) = Nested(SubSeq(s, 1, k))
  <1>1. \A i \in 1..Len(SaveOrder) : s[k + i][1] = SaveOrder[i]
    BY OrderLength, OwnIn
  <1>. QED
    BY <1>1, OrderBytes

-----------------------------------------------------------------------------
\* What depends on the port and on what a task computed does not change with anything
\* else.
LEMMA SamePort ==
    ASSUME port' = port
    PROVE  /\ Words' = Words /\ SREGs' = SREGs /\ Registers' = Registers
           /\ SaveOrder' = SaveOrder /\ RestBytes' = RestBytes
           /\ LevelBytes' = LevelBytes /\ AddressSize' = AddressSize
           /\ \A s : Bytes(s)' = Bytes(s)
           /\ \A l, n : MayNest(l, n) => MayNest(l, n)'
  <1>1. Registers' = Registers
    BY DEF Registers
  <1>2. Words' = Words
    BY <1>1 DEF Words
  <1>3. SREGs' = SREGs
    BY <1>2 DEF SREGs
  <1>4. /\ SaveOrder' = SaveOrder /\ RestBytes' = RestBytes
        /\ LevelBytes' = LevelBytes /\ AddressSize' = AddressSize
    BY DEF SaveOrder, SaveOrder2560, SaveOrder128, RestBytes, LevelBytes, AddressSize
  <1>5. \A s : Bytes(s)' = Bytes(s)
    BY <1>4 DEF Bytes
  <1>7. \A l, n : MayNest(l, n) => MayNest(l, n)'
    BY DEF MayNest
  <1>. QED
    BY <1>1, <1>2, <1>3, <1>4, <1>5, <1>7

LEMMA SameTask ==
    ASSUME port' = port, NEW t, computed'[t] = computed[t]
    PROVE  /\ \A r : Own(t, r)' = Own(t, r)
           /\ \A l : Under(t, l)' = Under(t, l)
           /\ \A f : IsSreg(t, f) => IsSreg(t, f)'
           /\ \A l, w : IsR0(t, l, w) => IsR0(t, l, w)'
           /\ \A l, n : Full(t, l, n)' = Full(t, l, n)
           /\ \A l, n, f : IsFlags(t, l, n, f) => IsFlags(t, l, n, f)'
           /\ \A l, n, s : Levels(t, l, n, s) => Levels(t, l, n, s)'
  <1>1. \A r : Own(t, r)' = Own(t, r)
    BY DEF Own, Word
  <1>2. \A l : Under(t, l)' = Under(t, l)
    BY <1>1 DEF Under
  <1>8. \A f : IsSreg(t, f) => IsSreg(t, f)'
    BY <1>1, SamePort DEF IsSreg, Masked
  <1>3. \A l, w : IsR0(t, l, w) => IsR0(t, l, w)'
    BY <1>1, <1>8 DEF IsR0
  <1>4. \A l, n : Full(t, l, n)' = Full(t, l, n)
    BY <1>2, SamePort DEF Full
  <1>5. \A l, n, f : IsFlags(t, l, n, f) => IsFlags(t, l, n, f)'
    BY <1>1, <1>8, SamePort DEF IsFlags, Enabled
  <1>6. \A l, j, s : Level(t, l, j, s) => Level(t, l, j, s)'
    BY <1>2, <1>3, <1>5 DEF Level
  <1>7. \A l, n, s : Levels(t, l, n, s) => Levels(t, l, n, s)'
    BY <1>2, <1>6 DEF Levels
  <1>. QED
    BY <1>1, <1>2, <1>3, <1>4, <1>5, <1>7, <1>8

LEMMA RestsKept ==
    ASSUME port' = port, NEW t, open'[t] = open[t], t \in live => t \in live',
           NEW l, Rests(t, l)
    PROVE  Rests(t, l)'
  BY SamePort DEF Rests

LEMMA SavedKept ==
    ASSUME port' = port, NEW t, computed'[t] = computed[t], stack'[t] = stack[t],
           stackPtr'[t] = stackPtr[t], open'[t] = open[t], t \in live => t \in live',
           NEW l, NEW n, Saved(t, l, n)
    PROVE  Saved(t, l, n)'
  <1>1. Rests(t, l)'
    BY RestsKept DEF Saved
  <1>2. Levels(t, l, n, stack[t])' /\ MayNest(l, n)'
    BY SamePort, SameTask DEF Saved
  <1>3. \A f : IsFlags(t, l, n, f) => IsFlags(t, l, n, f)'
    BY SameTask
  <1>4. /\ Under(t, l)' = Under(t, l) /\ SaveOrder' = SaveOrder /\ RestBytes' = RestBytes
        /\ Full(t, l, n)' = Full(t, l, n) /\ \A r : Own(t, r)' = Own(t, r)
        /\ \A s : Bytes(s)' = Bytes(s)
    BY SamePort, SameTask
  <1>. QED
    BY <1>1, <1>2, <1>3, <1>4 DEF Saved

-----------------------------------------------------------------------------
\* Bytes suffice.
LEMMA ContextFits ==
    ASSUME ContextTypeOK, NEW t \in Task, NEW l, NEW n, MayNest(l, n)
    PROVE  /\ Full(t, l, n) \in Nat
           /\ Full(t, l, n) + 1 + RestBytes <= Reserve
  <1>1. PICK x \in Nat : x = Bytes(Under(t, l)) /\ x <= LevelBytes
    <2>1. Bytes(Under(t, l)) \in 0..LevelBytes /\ LevelBytes \in Nat
      BY UnderIs DEF LevelBytes
    <2>. QED
      BY <2>1
  <1>2. n \in Nat /\ n <= MaxNested /\ MaxNested \in Nat
    BY ContextAssumption DEF MayNest
  <1>3. CASE port = "mega2560"
    <2>1. Full(t, l, n) = x + 7 * n /\ RestBytes = 33 /\ x <= 7
      BY <1>1, <1>3 DEF Full, LevelBytes, RestBytes
    <2>2. Reserve = 48 + 7 * (MaxNested - 1)
      BY <1>3 DEF Reserve
    <2>. QED
      BY <1>2, <2>1, <2>2
  <1>4. CASE port # "mega2560"
    <2>1. port = "mega128"
      BY <1>4, ContextAssumption DEF ContextTypeOK
    <2>2. Full(t, l, n) = x + 5 * n /\ RestBytes = 31 /\ x <= 5 /\ Reserve = 42
      BY <1>1, <1>4 DEF Full, LevelBytes, RestBytes, Reserve
    <2>3. n <= 1
      BY <1>2, <2>1 DEF MayNest
    <2>. QED
      BY <1>2, <2>2, <2>3
  <1>. QED
    BY <1>3, <1>4

LEMMA UnderFits ==
    ASSUME ContextTypeOK, NEW t \in Task, NEW l
    PROVE  Bytes(Under(t, l)) <= Reserve
  <1>1. PICK x \in Nat : x = Bytes(Under(t, l)) /\ x <= LevelBytes
    <2>1. Bytes(Under(t, l)) \in 0..LevelBytes /\ LevelBytes \in Nat
      BY UnderIs DEF LevelBytes
    <2>. QED
      BY <2>1
  <1>2. MaxNested \in Nat \ {0}
    BY ContextAssumption
  <1>3. LevelBytes <= Reserve /\ LevelBytes \in Nat /\ Reserve \in Nat
    BY <1>2 DEF LevelBytes, Reserve
  <1>. QED
    BY <1>1, <1>3

LEMMA WithinStack ==
    ASSUME ContextTypeOK, NEW t \in Task, NEW s \in Seq(Words), Bytes(s) <= Reserve,
           own[t] + Reserve + TopOffset <= StackSize
    PROVE  Address(t, s) \in 0..StackSize /\ Spoils(t, s) = {}
  <1>1. PICK x \in Nat : x = Bytes(s)
    BY Naturals1
  <1>2. PICK y \in Nat : y = own[t]
    BY ContextAssumption DEF ContextTypeOK
  <1>3. PICK z \in {1, 2} : z = TopOffset
    BY DEF TopOffset
  <1>4. PICK r \in Nat : r = Reserve
    <2>1. Reserve \in Nat
      BY ContextAssumption DEF Reserve
    <2>. QED
      BY <2>1
  <1>5. Address(t, s) = StackSize - z - y - x
    BY <1>1, <1>2, <1>3 DEF Address
  <1>6. x <= r /\ y + r + z <= StackSize /\ StackSize \in Nat
    BY <1>1, <1>2, <1>3, <1>4, ContextAssumption
  <1>7. StackSize - z - y - x \in 0..StackSize
    BY <1>6
  <1>. QED
    BY <1>5, <1>7 DEF Spoils

LEMMA SpoilsNone ==
    ASSUME ContextTypeOK, StackSuffices, port' = port, own' = own, panicked' = panicked,
           NEW t \in Task, NEW s \in Seq(Words), Bytes(s) <= Reserve,
           spoiled' = spoiled \cup Spoils(t, s)
    PROVE  StackSuffices' /\ spoiled' \subseteq Task \ {Idle}
  <1>1. Spoils(t, s) \subseteq {t} \ {Idle}
    BY DEF Spoils
  <1>2. Reserve' = Reserve /\ TopOffset' = TopOffset
    BY DEF Reserve, TopOffset
  <1>3. own[t] + Reserve + TopOffset <= StackSize => Spoils(t, s) = {}
    BY WithinStack
  <1>. HIDE DEF Reserve, TopOffset
  <1>4. StackSuffices'
    BY <1>1, <1>2, <1>3 DEF StackSuffices
  <1>. QED
    BY <1>1, <1>4 DEF ContextTypeOK

LEMMA SpoilsSame ==
    ASSUME ContextTypeOK, StackSuffices, port' = port, own' = own, panicked' = panicked,
           spoiled' = spoiled
    PROVE  StackSuffices'
  <1>1. Reserve' = Reserve /\ TopOffset' = TopOffset
    BY DEF Reserve, TopOffset
  <1>. QED
    BY <1>1 DEF StackSuffices

-----------------------------------------------------------------------------
\* Words pushed on top change nothing below them.
LEMMA LevelsOn ==
    ASSUME NEW t, NEW l, NEW n \in Nat, NEW s, NEW r, Levels(t, l, n, s),
           Len(Under(t, l)) \in Nat, Len(s) \in Nat, Len(r) \in Nat,
           Len(s) <= Len(r), \A i \in 1..Len(s) : r[i] = s[i],
           Len(Under(t, l)) + 3 * n <= Len(s)
    PROVE  Levels(t, l, n, r)
  <1>. DEFINE b == Len(Under(t, l))
  <1>1. b <= Len(r) /\ \A i \in 1..b : r[i] = Under(t, l)[i]
    BY DEF Levels
  <1>2. ASSUME NEW j \in 1..n
        PROVE  Level(t, l, j, r)
    <2>1. b + 3 * j <= Len(s) /\ b + 3 * j - 2 \in 1..Len(s) /\ b + 3 * j - 1 \in 1..Len(s)
          /\ b + 3 * j \in 1..Len(s)
      OBVIOUS
    <2>2. Level(t, l, j, s)
      BY <1>2 DEF Levels
    <2>3. /\ r[b + 3 * j - 2] = s[b + 3 * j - 2] /\ r[b + 3 * j - 1] = s[b + 3 * j - 1]
          /\ r[b + 3 * j] = s[b + 3 * j]
      BY <2>1
    <2>. QED
      BY <2>1, <2>2, <2>3, SMTT(30) DEF Level
  <1>. QED
    BY <1>1, <1>2 DEF Levels

\* What is taken off the top leaves what is below.
LEMMA LevelsOff ==
    ASSUME NEW t, NEW l, NEW n \in Nat, NEW s, NEW r, Levels(t, l, n, s),
           Len(Under(t, l)) \in Nat, Len(s) \in Nat, Len(r) \in Nat,
           Len(r) <= Len(s), \A i \in 1..Len(r) : r[i] = s[i],
           Len(Under(t, l)) <= Len(r)
    PROVE  Levels(t, l, n, r)
  <1>. DEFINE b == Len(Under(t, l))
  <1>1. b <= Len(r) /\ \A i \in 1..b : r[i] = Under(t, l)[i]
    BY DEF Levels
  <1>2. ASSUME NEW j \in 1..n
        PROVE  Level(t, l, j, r)
    <2>1. b + 3 * j - 2 >= 1 /\ b + 3 * j - 1 >= 1 /\ b + 3 * j >= 1
      OBVIOUS
    <2>2. Level(t, l, j, s)
      BY <1>2 DEF Levels
    <2>4. \A i \in Nat : i >= 1 /\ i <= Len(r) => r[i] = s[i] /\ i <= Len(s)
      OBVIOUS
    <2>5. b + 3 * j - 2 \in Nat /\ b + 3 * j - 1 \in Nat /\ b + 3 * j \in Nat
      BY <2>1
    <2>. DEFINE x == b + 3 * j - 2
                y == b + 3 * j - 1
                z == b + 3 * j
    <2>. HIDE DEF x, y, z
    <2>3. /\ x <= Len(r) => r[x] = s[x] /\ x <= Len(s)
          /\ y <= Len(r) => r[y] = s[y] /\ y <= Len(s)
          /\ z <= Len(r) => r[z] = s[z] /\ z <= Len(s)
      BY <2>1, <2>4, <2>5 DEF x, y, z
    <2>. QED
      BY <2>2, <2>3, SMTT(30) DEF Level, x, y, z
  <1>. QED
    BY <1>1, <1>2 DEF Levels

\* One more interrupt.
LEMMA LevelsUp ==
    ASSUME NEW t, NEW l, NEW n \in Nat, NEW r, Levels(t, l, n, r),
           Level(t, l, n + 1, r)
    PROVE  Levels(t, l, n + 1, r)
  <1>1. 1..(n + 1) = (1..n) \cup {n + 1}
    OBVIOUS
  <1>. QED
    BY <1>1 DEF Levels

\* One less.
LEMMA LevelsDown ==
    ASSUME NEW t, NEW l, NEW n \in Nat, NEW m \in Nat, m <= n, NEW r, Levels(t, l, n, r)
    PROVE  Levels(t, l, m, r)
  BY DEF Levels

-----------------------------------------------------------------------------
\* What the tasks that do not run have on their stacks, and the sections.
LEMMA ParkedKept ==
    ASSUME ContextTypeOK, Parked, NEW c \in Task, currentTask = c, currentTask' = c,
           port' = port, live' \subseteq live,
           \A t \in Task : t # c => /\ computed'[t] = computed[t] /\ stack'[t] = stack[t]
                                    /\ stackPtr'[t] = stackPtr[t] /\ open'[t] = open[t]
    PROVE  Parked'
  <1>. SUFFICES ASSUME NEW t \in live', t # c
                PROVE  IsSaved(t)'
    BY DEF Parked
  <1>1. t \in Task /\ t \in live
    BY DEF ContextTypeOK
  <1>2. PICK l \in Stops, n \in Nat : Saved(t, l, n)
    BY <1>1 DEF Parked, IsSaved
  <1>3. Saved(t, l, n)'
    BY <1>1, <1>2, SavedKept
  <1>. QED
    BY <1>3 DEF IsSaved, Stops

LEMMA SectionsKept ==
    ASSUME Sections, port' = port, open' = open, currentTask' = currentTask,
           kCriticalNesting' = kCriticalNesting, started' = started, computed' = computed
    PROVE  Sections'
  <1>1. \A t \in Task : Remembers(t) => Remembers(t)'
    BY DEF Remembers, Own, Word, Masked, Enabled
  <1>. QED
    BY <1>1 DEF Sections

-----------------------------------------------------------------------------
\* The registers are saved on top of base, and the kernel goes on.
LEMMA SaveRestSaves ==
    ASSUME ContextInv, NEW t \in Task, currentTask = t, NEW l \in Stops, NEW n \in Nat,
           NEW base \in Seq(Words), SaveRest(base), OtherRegisters(t), Rests(t, l),
           MayNest(l, n), started, n = 0 => l = "unmasked",
           Levels(t, l, n, base), Len(base) = Len(Under(t, l)) + 3 * n + 1,
           IsFlags(t, l, n, base[Len(base)]),
           Bytes(base) = Full(t, l, n) + 1, Nested(base) = n
    PROVE  ContextInv'
  <1>. DEFINE K == Len(SaveOrder)
              k == Len(base)
              q == [j \in DOMAIN SaveOrder |-> reg[SaveOrder[j]]]
  <1>1. ContextTypeOK /\ Parked /\ Sections /\ KernelStack /\ Phases /\ StackSuffices
    BY DEF ContextInv
  <1>2. port' = port
    BY DEF SaveRest
  <1>3. /\ K \in {4, 6} /\ DOMAIN SaveOrder = 1..K
        /\ \A i \in 1..K : SaveOrder[i] \in Registers
        /\ \A i \in 1..K : reg[SaveOrder[i]] = Own(t, SaveOrder[i])
    <2>1. DOMAIN SaveOrder = 1..K
      <3>1. CASE port = "mega2560"
        BY <3>1 DEF SaveOrder, SaveOrder2560
      <3>2. CASE port # "mega2560"
        BY <3>2 DEF SaveOrder, SaveOrder128
      <3>. QED
        BY <3>1, <3>2
    <2>. QED
      BY <2>1, OrderLength DEF OtherRegisters
  <1>4. \A i \in 1..K : Own(t, SaveOrder[i]) \in Words
    BY <1>1, <1>3, OwnIn
  <1>5. PICK s \in Seq(Words) :
           /\ s = base \o q /\ Len(s) = k + K /\ \A i \in 1..k : s[i] = base[i]
           /\ \A i \in 1..K : s[k + i] = Own(t, SaveOrder[i])
    <2>1. q \in Seq(Words) /\ Len(q) = K /\ \A i \in 1..K : q[i] = Own(t, SaveOrder[i])
      BY <1>3, <1>4
    <2>2. PICK rest \in Seq(Words) : rest = q
      BY <2>1
    <2>. HIDE DEF q, K, k
    <2>3. Concatenates(base, rest)
      BY Concatenated
    <2>4. /\ Len(base \o rest) = k + K /\ base \o rest \in Seq(Words)
          /\ \A i \in 1..k : (base \o rest)[i] = base[i]
          /\ \A i \in 1..K : (base \o rest)[k + i] = rest[i]
      BY <2>1, <2>2, <2>3, SMTT(30) DEF Concatenates, k
    <2>5. base \o rest = base \o q
      BY <2>2
    <2>6. \A i \in 1..K : (base \o rest)[k + i] = Own(t, SaveOrder[i])
      BY <2>1, <2>2, <2>4
    <2>7. PICK s \in Seq(Words) : s = base \o rest
      BY <2>4
    <2>8. /\ s = base \o q /\ Len(s) = k + K /\ \A i \in 1..k : s[i] = base[i]
          /\ \A i \in 1..K : s[k + i] = Own(t, SaveOrder[i])
      BY <2>4, <2>5, <2>6, <2>7
    <2>. QED
      BY <2>8
  <1>6. /\ sp = t
        /\ stack' = [stack EXCEPT ![t] = s,
                          ![Kernel] = Append(SubSeq(@, 1, kStackPointer), Label("kernel"))]
        /\ stackPtr' = [stackPtr EXCEPT ![t] = <<t, Len(s)>>]
        /\ spoiled' = spoiled \cup Spoils(t, s)
    BY <1>5 DEF SaveRest, OtherRegisters
  <1>. HIDE DEF q, K, k
  <1>7. k \in Nat /\ Len(Under(t, l)) \in Nat /\ k = Len(base) /\ Len(s) \in Nat
        /\ K = Len(SaveOrder) /\ k = Len(Under(t, l)) + 3 * n + 1
    BY <1>1, UnderIs DEF k, K
  <1>8. SubSeq(s, 1, k) = base
    BY <1>3, <1>5, <1>7
  <1>9. Bytes(s) = Full(t, l, n) + 1 + RestBytes /\ Nested(s) = n
    <2>1. Bytes(s) = Bytes(SubSeq(s, 1, k)) + RestBytes /\ Nested(s) = Nested(SubSeq(s, 1, k))
      BY <1>1, <1>5, <1>7, SavedBytes
    <2>. QED
      BY <1>8, <2>1
  <1>10. Bytes(s) <= Reserve
    BY <1>1, <1>9, ContextFits
  <1>11. Levels(t, l, n, s)
    <2>1. Len(base) <= Len(s) /\ Len(Under(t, l)) + 3 * n <= Len(base)
      BY <1>3, <1>5, <1>7
    <2>2. \A i \in 1..Len(base) : s[i] = base[i]
      BY <1>5, <1>7
    <2>. QED
      BY <1>7, <2>1, <2>2, LevelsOn
  <1>12. /\ Kernel # t /\ Kernel \notin Task
         /\ stack'[t] = s /\ stack'[Kernel] = <<Label("kernel")>>
         /\ \A u \in Task : u # t => stack'[u] = stack[u] /\ stackPtr'[u] = stackPtr[u]
    <2>1. Kernel # t /\ stack \in [Task \cup {Kernel} -> Seq(Words)]
          /\ stackPtr \in [Task -> (Task \cup {Kernel}) \X Nat]
      BY <1>1, ContextAssumption DEF ContextTypeOK
    <2>2. Append(SubSeq(stack[Kernel], 1, kStackPointer), Label("kernel")) =
             <<Label("kernel")>>
      <3>1. kStackPointer = 0 /\ stack[Kernel] \in Seq(Words)
        BY <1>1, <2>1 DEF KernelStack
      <3>. QED
        BY <3>1, FirstOn
    <2>. QED
      BY <1>6, <2>1, <2>2, ContextAssumption
  <1>13. /\ sreg' = <<"SREG", Kernel, sreg[3], 0>> /\ sp' = Kernel /\ pc' = "kernel"
         /\ reg' = [r \in Registers |-> IF r = "r1" THEN Zero ELSE Word(r, Kernel, 0)]
         /\ kStackPointer' = kStackPointer /\ currentTask' = currentTask /\ live' = live
         /\ own' = own /\ panicked' = panicked /\ kCriticalNesting' = kCriticalNesting
         /\ open' = open /\ started' = started /\ computed' = computed
    BY DEF SaveRest, tasks, sections
  <1>14. StackSuffices' /\ spoiled' \subseteq Task \ {Idle}
    BY <1>1, <1>2, <1>5, <1>6, <1>10, <1>13, SpoilsNone
  <1>15. ContextTypeOK'
    <2>1. sreg[3] \in {0, 1}
      BY <1>1, WordIn DEF ContextTypeOK
    <2>2. sreg' \in Words /\ sreg'[1] = "SREG"
      BY <1>13, <2>1, WordOf
    <2>3. \A r \in Registers :
             <<r, Kernel, 0, 0>> \in Words /\ <<"zero", Kernel, 0, 0>> \in Words
      BY WordOf
    <2>4. reg' \in [Registers -> Words]
      BY <1>13, <2>3 DEF Word, Zero
    <2>5. Label("kernel") \in Words /\ "kernel" \in Labels
      BY LabelIn DEF Labels
    <2>6. stack' \in [Task \cup {Kernel} -> Seq(Words)]
      <3>1. Append(SubSeq(stack[Kernel], 1, kStackPointer), Label("kernel")) \in Seq(Words)
        BY <1>1, <2>5 DEF ContextTypeOK, KernelStack
      <3>. QED
        BY <1>1, <1>5, <1>6, <3>1 DEF ContextTypeOK
    <2>7. stackPtr' \in [Task -> (Task \cup {Kernel}) \X Nat]
      <3>1. Len(s) \in Nat
        BY <1>5
      <3>. QED
        BY <1>1, <1>6, <3>1 DEF ContextTypeOK
    <2>. QED
      BY <1>1, <1>2, <1>13, <1>14, <2>2, <2>4, <2>5, <2>6, <2>7, SamePort DEF ContextTypeOK
  <1>16. Parked'
    BY <1>1, <1>2, <1>12, <1>13, ParkedKept
  <1>17. Sections'
    BY <1>1, <1>2, <1>13, SectionsKept
  <1>18. KernelStack' /\ Phases'
    BY <1>1, <1>12, <1>13 DEF KernelStack, Phases
  <1>19. Running'
    <2>1. Saved(t, l, n)'
      <3>1. Rests(t, l)'
        BY <1>2, <1>13, RestsKept
      <3>2. Levels(t, l, n, s)' /\ MayNest(l, n)'
        BY <1>2, <1>11, <1>13, SamePort, SameTask
      <3>3. \A f : IsFlags(t, l, n, f) => IsFlags(t, l, n, f)'
        BY <1>2, <1>13, SameTask
      <3>4. /\ Under(t, l)' = Under(t, l) /\ SaveOrder' = SaveOrder /\ RestBytes' = RestBytes
            /\ Full(t, l, n)' = Full(t, l, n) /\ \A r : Own(t, r)' = Own(t, r)
            /\ \A x : Bytes(x)' = Bytes(x)
        BY <1>2, <1>13, SamePort, SameTask
      <3>5. /\ Len(s) = (Len(Under(t, l)) + 3 * n + 1) + Len(SaveOrder)
            /\ IsFlags(t, l, n, s[Len(Under(t, l)) + 3 * n + 1])
            /\ \A i \in 1..Len(SaveOrder) :
                  s[(Len(Under(t, l)) + 3 * n + 1) + i] = Own(t, SaveOrder[i])
        <4>1. s[k] = base[k] /\ k >= 1
          BY <1>5, <1>7
        <4>. QED
          BY <1>5, <1>7, <4>1
      <3>6. stackPtr'[t] = <<t, Len(s)>>
        BY <1>1, <1>6 DEF ContextTypeOK
      <3>. QED
        BY <1>9, <1>12, <3>1, <3>2, <3>3, <3>4, <3>5, <3>6 DEF Saved
    <2>2. InKernel(t, l, n)'
      <3>1. ~Enabled(sreg)'
        BY <1>13 DEF Enabled
      <3>. QED
        BY <1>13, <2>1, <3>1 DEF InKernel
    <2>3. Switching(t)'
      BY <2>2 DEF Switching, Stops
    <2>. QED
      BY <1>13, <2>3 DEF Running
  <1>. QED
    BY <1>14, <1>15, <1>16, <1>17, <1>18, <1>19 DEF ContextInv

-----------------------------------------------------------------------------
\* What the label says of the current task.
Whereabouts(t) ==
    /\ currentTask = t
    /\ pc = "own" => AtOwn(t)
    /\ \A l \in {"yield", "pushed", "read", "hook", "gone"} : pc = l => AtStop(t, l)
    /\ pc = "unmasked" =>
          AtStop(t, "unmasked") \/ \E l \in Stops, n \in Nat : LeavesUnmasked(t, l, n)
    /\ pc = "restoring" =>
          AtStop(t, "restoring") \/ \E l \in Stops, n \in Nat : LeavesRestoring(t, l, n)
    /\ pc = "returning" =>
          AtStop(t, "returning") \/ \E l \in Stops, n \in Nat : LeavesReturning(t, l, n)
    /\ pc = "isr" => \E l \in Stops, n \in Nat : LeavesIsr(t, l, n)
    /\ pc = "kernel" => Switching(t)

LEMMA Where ==
    ASSUME Running
    PROVE  \E t \in Task : Whereabouts(t)
  <1>1. PICK t \in Task :
           /\ currentTask = t
           /\ AtOwn(t) \/ (\E l \in Stops : AtStop(t, l)) \/ Leaving(t) \/ Switching(t)
    BY DEF Running
  <1>2. CASE AtOwn(t)
    BY <1>1, <1>2 DEF AtOwn, Whereabouts
  <1>3. CASE \E l \in Stops : AtStop(t, l)
    <2>1. PICK l \in Stops : AtStop(t, l)
      BY <1>3
    <2>2. pc = l /\ l # "own"
      BY <2>1 DEF AtStop
    <2>. QED
      BY <1>1, <2>1, <2>2 DEF Whereabouts, Stops
  <1>4. CASE Leaving(t)
    <2>1. PICK l \in Stops, n \in Nat :
             \/ LeavesUnmasked(t, l, n) \/ LeavesRestoring(t, l, n)
             \/ LeavesReturning(t, l, n) \/ LeavesIsr(t, l, n)
      BY <1>4 DEF Leaving
    <2>2. /\ LeavesUnmasked(t, l, n) => pc = "unmasked"
          /\ LeavesRestoring(t, l, n) => pc = "restoring"
          /\ LeavesReturning(t, l, n) => pc = "returning"
          /\ LeavesIsr(t, l, n) => pc = "isr"
      BY DEF LeavesUnmasked, LeavesRestoring, LeavesReturning, LeavesIsr
    <2>. QED
      BY <1>1, <2>1, <2>2 DEF Whereabouts
  <1>5. CASE Switching(t)
    <2>1. pc = "kernel"
      BY <1>5 DEF Switching, InKernel
    <2>. QED
      BY <1>1, <1>5, <2>1 DEF Whereabouts
  <1>. QED
    BY <1>1, <1>2, <1>3, <1>4, <1>5

\* A task's own instruction at l has no interrupt's words on its stack.
LEMMA NoLevels ==
    ASSUME ContextTypeOK, NEW t \in Task, NEW l, NEW s, s = Under(t, l)
    PROVE  /\ s \in Seq(Words) /\ Len(s) = Len(Under(t, l)) + 3 * 0
           /\ Levels(t, l, 0, s) /\ Bytes(s) = Full(t, l, 0) /\ Nested(s) = 0
           /\ MayNest(l, 0)
  <1>1. Under(t, l) \in Seq(Words) /\ Len(Under(t, l)) \in Nat
        /\ Bytes(Under(t, l)) \in Nat /\ Nested(Under(t, l)) = 0
    BY UnderIs, Naturals1
  <1>2. LevelBytes * 0 = 0
    BY DEF LevelBytes
  <1>3. Bytes(s) = Full(t, l, 0)
    BY <1>1, <1>2 DEF Full
  <1>4. Levels(t, l, 0, s)
    BY <1>1 DEF Levels
  <1>5. MayNest(l, 0)
    BY ContextAssumption DEF MayNest
  <1>. QED
    BY <1>1, <1>3, <1>4, <1>5

LEMMA FullNext ==
    ASSUME ContextTypeOK, NEW t \in Task, NEW l, NEW n \in Nat
    PROVE  /\ Full(t, l, n) \in Nat
           /\ Full(t, l, n + 1) = Full(t, l, n) + AddressSize + AddressSize + 1
  <1>1. PICK x \in Nat : x = Bytes(Under(t, l))
    BY UnderIs, Naturals1
  <1>2. CASE port = "mega2560"
    BY <1>1, <1>2 DEF Full, LevelBytes, AddressSize
  <1>3. CASE port # "mega2560"
    BY <1>1, <1>3 DEF Full, LevelBytes, AddressSize
  <1>. QED
    BY <1>2, <1>3

\* _arch_save_context_m in arch_yield.
LEMMA SaveOnYieldKeeps ==
    ASSUME ContextInv, SaveOnYield
    PROVE  ContextInv'
  <1>1. ContextTypeOK
    BY DEF ContextInv
  <1>2. PICK t \in Task : currentTask = t /\ AtStop(t, "read")
    BY Where DEF ContextInv, SaveOnYield, Whereabouts
  <1>. DEFINE l == "unmasked"
  <1>3. Under(t, l) = Under(t, "read") /\ l \in Stops
    BY DEF Under, Stops
  <1>4. /\ stack[t] = Under(t, l) /\ IsR0(t, "read", reg["r0"]) /\ sp = t
        /\ started /\ OtherRegisters(t) /\ Rests(t, "read")
    BY <1>2, <1>3 DEF AtStop, OtherRegisters
  <1>5. PICK base \in Seq(Words) :
           /\ IsPushed(base, stack[t], reg["r0"])
           /\ Bytes(base) = Bytes(stack[t]) + 1 /\ Nested(base) = Nested(stack[t])
    <2>1. reg["r0"] \in Words /\ Size(reg["r0"]) = 1 /\ OneIf(reg["r0"], "isr") = 0
      BY <1>1, <1>4, R0In
    <2>2. stack[t] \in Seq(Words) /\ Nested(stack[t]) \in Nat
      BY <1>1, <1>4, NoLevels, Naturals1
    <2>3. PICK base \in Seq(Words) : IsPushed(base, stack[t], reg["r0"])
      BY <2>1, <2>2, Pushed
    <2>4. Bytes(base) = Bytes(stack[t]) + 1 /\ Nested(base) = Nested(stack[t])
      BY <2>1, <2>2, <2>3 DEF IsPushed
    <2>. QED
      BY <2>3, <2>4
  <1>6. /\ stack[t] \in Seq(Words) /\ Levels(t, l, 0, stack[t])
        /\ Bytes(stack[t]) = Full(t, l, 0) /\ Nested(stack[t]) = 0 /\ MayNest(l, 0)
    BY <1>1, <1>4, NoLevels
  <1>7. Len(Under(t, l)) \in Nat /\ Len(base) = Len(Under(t, l)) + 3 * 0 + 1
        /\ base[Len(base)] = reg["r0"]
        /\ \A i \in 1..Len(Under(t, l)) : base[i] = stack[t][i]
    <2>1. base = Append(stack[t], reg["r0"])
      BY <1>5 DEF IsPushed
    <2>. QED
      BY <1>1, <1>3, <1>4, <1>6, <2>1
  <1>8. Levels(t, l, 0, base)
    BY <1>4, <1>7 DEF Levels
  <1>9. IsFlags(t, l, 0, base[Len(base)])
    BY <1>4, <1>7 DEF IsFlags, IsR0
  <1>10. Rests(t, l)
    BY <1>4 DEF Rests, Stops
  <1>11. SaveRest(base)
    BY <1>4, <1>5 DEF SaveOnYield, IsPushed
  <1>12. Bytes(base) = Full(t, l, 0) + 1 /\ Nested(base) = 0
    BY <1>5, <1>6
  <1>. QED
    BY <1>2, <1>3, <1>4, <1>6, <1>7, <1>8, <1>9, <1>10, <1>11, <1>12, SaveRestSaves

-----------------------------------------------------------------------------
\* An interrupt comes, the n + 1st on t's stack.
LEMMA InterruptAt ==
    ASSUME ContextInv, Interrupt, NEW t \in Task, currentTask = t, NEW l \in Stops,
           NEW n \in Nat, OtherRegisters(t), Rests(t, l), MayNest(l, n), started,
           port = "mega128" => n = 0,
           pc = (IF n = 0 THEN l ELSE "unmasked"),
           Levels(t, l, n, stack[t]), Len(stack[t]) = Len(Under(t, l)) + 3 * n,
           Bytes(stack[t]) = Full(t, l, n), Nested(stack[t]) = n,
           n = 0 => IsR0(t, l, reg["r0"]),
           n # 0 => IsFlags(t, l, n, reg["r0"]),
           n = 0 /\ l # "unmasked" => Masked(sreg) = Own(t, "SREG")
    PROVE  ContextInv'
  <1>1. ContextTypeOK /\ Phases
    BY DEF ContextInv
  <1>2. /\ sp = t /\ n < MaxNested
        /\ SaveRest(stack[t] \o <<Label(pc), Label("isr"), reg["r0"], Masked(sreg)>>)
    BY DEF Interrupt, OtherRegisters
  <1>3. MayNest(l, n + 1)
    <2>1. l = "unmasked" => port = "mega2560"
      BY <1>1, ContextAssumption DEF ContextInv, Phases, ContextTypeOK
    <2>. QED
      BY <1>2, <2>1, ContextAssumption DEF MayNest
  <1>4. stack[t] \in Seq(Words) /\ Len(stack[t]) \in Nat /\ Len(Under(t, l)) \in Nat
    BY <1>1, UnderIs DEF ContextTypeOK
  <1>5. /\ Label(pc) \in Words /\ Size(Label(pc)) = AddressSize /\ OneIf(Label(pc), "isr") = 0
        /\ Label("isr") \in Words /\ Size(Label("isr")) = AddressSize
        /\ OneIf(Label("isr"), "isr") = 1
    <2>1. pc \in Labels /\ pc # "isr" /\ "isr" \in Labels
      BY DEF Stops, Labels
    <2>2. /\ Label(pc) \in Words /\ Label(pc)[1] = pc
          /\ Label("isr") \in Words /\ Label("isr")[1] = "isr"
      BY <2>1, LabelIn
    <2>. QED
      BY <2>1, <2>2, Sizes
  <1>6. reg["r0"] \in Words /\ Size(reg["r0"]) = 1 /\ OneIf(reg["r0"], "isr") = 0
    <2>1. CASE n = 0
      BY <1>1, <2>1, R0In
    <2>2. CASE n # 0
      <3>1. reg["r0"] \in Words /\ reg["r0"][1] = "SREG"
        BY <1>1, <2>2, FlagsIn
      <3>. QED
        BY <3>1, Sizes
    <2>. QED
      BY <2>1, <2>2
  <1>7. /\ Masked(sreg) \in Words /\ Masked(sreg)[1] = "SREG" /\ ~Enabled(Masked(sreg))
        /\ Size(Masked(sreg)) = 1 /\ OneIf(Masked(sreg), "isr") = 0
    <2>1. sreg \in Words /\ sreg[1] = "SREG"
      BY <1>1 DEF ContextTypeOK
    <2>2. Masked(sreg) \in Words /\ Masked(sreg)[1] = "SREG" /\ ~Enabled(Masked(sreg))
      BY <2>1, Masking1
    <2>. QED
      BY <2>2, Sizes
  <1>8. IsFlags(t, l, n + 1, Masked(sreg))
    BY <1>7 DEF IsFlags, SREGs
  <1>9. PICK d \in Seq(Words) :
           AreFourOn(d, stack[t], Label(pc), Label("isr"), reg["r0"], Masked(sreg))
    BY <1>4, <1>5, <1>6, <1>7, FourOn
  <1>. DEFINE k == Len(stack[t])
  <1>14. SaveRest(d)
    BY <1>2, <1>9 DEF AreFourOn
  <1>15. /\ Len(d) = k + 4 /\ \A i \in 1..k : d[i] = stack[t][i]
         /\ d[k + 1] = Label(pc) /\ d[k + 2] = Label("isr") /\ d[k + 3] = reg["r0"]
         /\ d[k + 4] = Masked(sreg)
    BY <1>9 DEF AreFourOn
  <1>16. Bytes(d) = Full(t, l, n + 1) + 1 /\ Nested(d) = n + 1
    <2>1. /\ Bytes(d) = Full(t, l, n) + AddressSize + AddressSize + 1 + 1
          /\ Nested(d) = n + 0 + 1 + 0 + 0
      BY <1>5, <1>6, <1>7, <1>9 DEF AreFourOn
    <2>2. Full(t, l, n) \in Nat
          /\ Full(t, l, n + 1) = Full(t, l, n) + AddressSize + AddressSize + 1
      BY <1>1, FullNext
    <2>. QED
      BY <2>1, <2>2, Address23
  <1>17. Levels(t, l, n + 1, d)
    <2>1. Levels(t, l, n, d)
      <3>1. /\ Len(d) \in Nat /\ Len(stack[t]) <= Len(d)
            /\ Len(Under(t, l)) + 3 * n <= Len(stack[t])
            /\ \A i \in 1..Len(stack[t]) : d[i] = stack[t][i]
        BY <1>4, <1>15
      <3>2. PICK s \in Seq(Words) : s = stack[t]
        BY <1>4
      <3>3. /\ Levels(t, l, n, s) /\ Len(s) \in Nat /\ Len(s) <= Len(d)
            /\ Len(Under(t, l)) + 3 * n <= Len(s) /\ \A i \in 1..Len(s) : d[i] = s[i]
        BY <3>1, <3>2
      <3>. QED
        BY <1>4, <3>1, <3>3, LevelsOn
    <2>2. Level(t, l, n + 1, d)
      <3>1. Len(Under(t, l)) + 3 * (n + 1) = k + 3
        BY <1>4
      <3>2. (k + 3) - 2 = k + 1 /\ (k + 3) - 1 = k + 2 /\ (n + 1) - 1 = n
            /\ (n + 1 = 1 <=> n = 0)
        BY <1>4
      <3>. HIDE DEF k
      <3>3. d[(k + 3) - 2] = Label(IF n + 1 = 1 THEN l ELSE "unmasked")
        BY <1>15, <3>2
      <3>4. IF n + 1 = 1 THEN IsR0(t, l, d[k + 3]) ELSE IsFlags(t, l, (n + 1) - 1, d[k + 3])
        BY <1>15, <3>2
      <3>. QED
        BY <1>15, <3>1, <3>2, <3>3, <3>4 DEF Level
    <2>. QED
      BY <2>1, <2>2, LevelsUp
  <1>18. Len(d) = Len(Under(t, l)) + 3 * (n + 1) + 1 /\ Len(d) = k + 4
    BY <1>4, <1>15
  <1>19. IsFlags(t, l, n + 1, d[Len(d)])
    BY <1>8, <1>15, <1>18
  <1>20. n + 1 \in Nat /\ n + 1 # 0
    OBVIOUS
  <1>. QED
    BY <1>3, <1>14, <1>16, <1>17, <1>18, <1>19, <1>20, SaveRestSaves

\* A task in no section has nothing but its return address on its stack.
LEMMA OwnBare ==
    ASSUME ContextTypeOK, NEW t \in Task, OwnStack(t), open[t] = <<>>
    PROVE  stack[t] = Base(t) /\ Under(t, "own") = Base(t)
  <1>1. stack[t] \in Seq(Words) /\ Base(t) \in Seq(Words) /\ Len(Base(t)) \in Nat
    <2>1. stack[t] \in Seq(Words)
      BY DEF ContextTypeOK
    <2>2. Base(t) \in Seq(Words) /\ Len(Base(t)) \in 0..1
      BY UnderIs
    <2>. QED
      BY <2>1, <2>2
  <1>2. stack[t] = Base(t)
    <2>1. CASE port = "mega2560"
      <3>1. Depth(open[t]) = 0
        BY CountNone DEF Depth
      <3>2. /\ Len(stack[t]) = Len(Base(t))
            /\ \A i \in 1..Len(Base(t)) : stack[t][i] = Base(t)[i]
        BY <1>1, <2>1, <3>1 DEF OwnStack, Holds
      <3>. QED
        BY <1>1, <3>2
    <2>. QED
      BY <2>1 DEF OwnStack
  <1>. QED
    BY <1>2 DEF Under

LEMMA InterruptKeeps ==
    ASSUME ContextInv, Interrupt
    PROVE  ContextInv'
  <1>1. ContextTypeOK /\ Phases /\ Running /\ Enabled(sreg)
    BY DEF ContextInv, Interrupt
  <1>2. PICK t \in Task : Whereabouts(t)
    BY <1>1, Where
  <1>3. currentTask = t /\ pc \in Labels /\ sreg \in Words /\ sreg[1] = "SREG"
    BY <1>1, <1>2 DEF Whereabouts, ContextTypeOK
  <1>4. \A l, n : n # 0 => ~IsFlags(t, l, n, sreg)
    BY <1>1 DEF IsFlags
  <1>5. 0 \in Nat
    OBVIOUS
  <1>6. CASE pc = "own"
    <2>1. AtOwn(t)
      BY <1>2, <1>6 DEF Whereabouts
    <2>2. started /\ open[t] = <<>>
      BY <1>1, <2>1 DEF AtOwn
    <2>4. stack[t] = Under(t, "own")
      BY <1>1, <2>1, <2>2, OwnBare DEF AtOwn
    <2>5. Rests(t, "own") /\ "own" \in Stops
      BY <2>1, <2>2 DEF Rests, Stops, AtOwn
    <2>6. /\ Levels(t, "own", 0, stack[t]) /\ Len(stack[t]) = Len(Under(t, "own")) + 3 * 0
          /\ Bytes(stack[t]) = Full(t, "own", 0) /\ Nested(stack[t]) = 0 /\ MayNest("own", 0)
      BY <1>1, <2>4, NoLevels
    <2>7. IsR0(t, "own", reg["r0"]) /\ OtherRegisters(t) /\ Masked(sreg) = Own(t, "SREG")
      BY <2>1 DEF AtOwn, IsR0
    <2>. QED
      BY <1>3, <1>5, <1>6, <2>2, <2>5, <2>6, <2>7, InterruptAt
  <1>7. ASSUME NEW l \in Stops, AtStop(t, l)
        PROVE  ContextInv'
    <2>1. /\ pc = l /\ stack[t] = Under(t, l) /\ Rests(t, l) /\ started
          /\ OtherRegisters(t) /\ IsR0(t, l, reg["r0"])
          /\ l # "unmasked" => Masked(sreg) = Own(t, "SREG")
      BY <1>7 DEF AtStop, IsSreg
    <2>2. /\ Levels(t, l, 0, stack[t]) /\ Len(stack[t]) = Len(Under(t, l)) + 3 * 0
          /\ Bytes(stack[t]) = Full(t, l, 0) /\ Nested(stack[t]) = 0 /\ MayNest(l, 0)
      BY <1>1, <2>1, NoLevels
    <2>. QED
      BY <1>3, <1>5, <2>1, <2>2, InterruptAt
  <1>8. ASSUME NEW l \in Stops, NEW n \in Nat, LeavesUnmasked(t, l, n)
        PROVE  ContextInv'
    <2>1. /\ pc = "unmasked" /\ n # 0 /\ MayNest(l, n) /\ Rests(t, l) /\ started
          /\ OtherRegisters(t) /\ Levels(t, l, n, stack[t])
          /\ Len(stack[t]) = Len(Under(t, l)) + 3 * n /\ IsFlags(t, l, n, reg["r0"])
          /\ Bytes(stack[t]) = Full(t, l, n) /\ Nested(stack[t]) = n
      BY <1>8 DEF LeavesUnmasked, Leaves
    <2>2. port = "mega2560"
      BY <1>1, <2>1 DEF Phases
    <2>. QED
      BY <1>3, <2>1, <2>2, InterruptAt
  <1>9. CASE pc \in {"yield", "pushed", "read", "hook", "gone"}
    <2>1. AtStop(t, pc) /\ pc \in Stops
      BY <1>2, <1>9 DEF Whereabouts, Stops
    <2>2. PICK l \in Stops : l = pc
      BY <2>1
    <2>3. AtStop(t, l)
      BY <2>1, <2>2
    <2>. QED
      BY <1>7, <2>3
  <1>10. CASE pc = "unmasked"
    BY <1>2, <1>7, <1>8, <1>10 DEF Whereabouts, Stops
  <1>11. CASE pc = "restoring"
    <2>1. ~ \E l \in Stops, n \in Nat : LeavesRestoring(t, l, n)
      BY <1>4 DEF LeavesRestoring, Leaves
    <2>. QED
      BY <1>2, <1>7, <1>11, <2>1 DEF Whereabouts, Stops
  <1>12. CASE pc = "returning"
    <2>1. ~ \E l \in Stops, n \in Nat : LeavesReturning(t, l, n)
      BY <1>4 DEF LeavesReturning, Leaves
    <2>. QED
      BY <1>2, <1>7, <1>12, <2>1 DEF Whereabouts, Stops
  <1>13. CASE pc = "isr"
    BY <1>2, <1>4, <1>13 DEF Whereabouts, LeavesIsr, Leaves
  <1>14. CASE pc = "kernel"
    BY <1>1, <1>2, <1>14 DEF Whereabouts, Switching, InKernel
  <1>. QED
    BY <1>3, <1>6, <1>9, <1>10, <1>11, <1>12, <1>13, <1>14 DEF Labels

-----------------------------------------------------------------------------
\* What the current task's own step, or one of the instructions that give it the
\* processor back, leaves true whatever it does.
LEMMA StepOfTask ==
    ASSUME ContextInv, NEW t \in Task, currentTask = t, pc # "kernel", NEW s \in Seq(Words),
           port' = port, currentTask' = currentTask, stack' = [stack EXCEPT ![t] = s],
           stackPtr' = stackPtr, kStackPointer' = kStackPointer, own' = own,
           panicked' = panicked, kCriticalNesting' = kCriticalNesting, open' = open,
           started' = started, computed' = computed, live' \subseteq live, Idle \in live',
           \/ spoiled' = spoiled
           \/ spoiled' = spoiled \cup Spoils(t, s) /\ Bytes(s) <= Reserve,
           started, pc' \in Labels \ {"kernel"}, pc' = "unmasked" => port = "mega2560",
           reg' \in [Registers -> Words], sreg' \in Words, sreg'[1] = "SREG", sp' = t
    PROVE  ContextTypeOK' /\ Parked' /\ Sections' /\ KernelStack' /\ Phases' /\ StackSuffices'
  <1>1. ContextTypeOK /\ Parked /\ Sections /\ KernelStack /\ Phases /\ StackSuffices
    BY DEF ContextInv
  <1>2. StackSuffices' /\ spoiled' \subseteq Task \ {Idle}
    <2>1. CASE spoiled' = spoiled
      BY <1>1, <2>1, SpoilsSame DEF ContextTypeOK
    <2>2. CASE spoiled' = spoiled \cup Spoils(t, s) /\ Bytes(s) <= Reserve
      BY <1>1, <2>2, SpoilsNone
    <2>. QED
      BY <2>1, <2>2
  <1>3. /\ Kernel # t /\ stack'[Kernel] = stack[Kernel]
        /\ \A u \in Task : u # t => stack'[u] = stack[u]
        /\ stack' \in [Task \cup {Kernel} -> Seq(Words)]
    BY <1>1, ContextAssumption DEF ContextTypeOK
  <1>4. ContextTypeOK'
    BY <1>1, <1>2, <1>3, SamePort DEF ContextTypeOK
  <1>5. Parked'
    BY <1>1, <1>3, ParkedKept
  <1>6. Sections'
    BY <1>1, SectionsKept
  <1>7. KernelStack' /\ Phases'
    BY <1>1, <1>3 DEF KernelStack, Phases
  <1>. QED
    BY <1>2, <1>4, <1>5, <1>6, <1>7

LEMMA OtherKept ==
    ASSUME NEW t, OtherRegisters(t), port' = port, computed' = computed, sp' = t,
           \A r \in Registers \ {"r0"} : reg'[r] = reg[r]
    PROVE  OtherRegisters(t)'
  BY SamePort DEF OtherRegisters, Own, Word

\* A word on top, and off it.
LEMMA OneOn ==
    ASSUME NEW S, NEW s \in Seq(S), NEW w \in S
    PROVE  s \o <<w>> = Append(s, w)
  OBVIOUS

LEMMA TopOff ==
    ASSUME NEW S, NEW s \in Seq(S), NEW w \in S
    PROVE  Front(Append(s, w)) = s /\ Last(Append(s, w)) = w
  <1>. DEFINE r == Append(s, w)
  <1>1. r \in Seq(S) /\ Len(r) = Len(s) + 1 /\ r[Len(r)] = w
    OBVIOUS
  <1>2. SubSeq(r, 1, Len(r) - 1) = s
    OBVIOUS
  <1>. HIDE DEF r
  <1>3. Front(r) = s /\ Last(r) = w
    BY <1>1, <1>2 DEF Front, Last
  <1>. QED
    BY <1>3 DEF r

\* A task at l, once its step is taken.
LEMMA StopsAt ==
    ASSUME ContextTypeOK', Parked', Sections', KernelStack', Phases', StackSuffices',
           NEW t \in Task, NEW l \in Stops, currentTask' = t, AtStop(t, l)'
    PROVE  ContextInv'
  <1>1. Running'
    BY DEF Running, Stops
  <1>. QED
    BY <1>1 DEF ContextInv

LEMMA GoesOn ==
    ASSUME ContextTypeOK', Parked', Sections', KernelStack', Phases', StackSuffices',
           NEW t \in Task, currentTask' = t, AtOwn(t)'
    PROVE  ContextInv'
  <1>1. Running'
    BY DEF Running
  <1>. QED
    BY <1>1 DEF ContextInv

LEMMA LeavesOn ==
    ASSUME ContextTypeOK', Parked', Sections', KernelStack', Phases', StackSuffices',
           NEW t \in Task, currentTask' = t, NEW l \in Stops, NEW n \in Nat,
           \/ LeavesUnmasked(t, l, n)' \/ LeavesRestoring(t, l, n)'
           \/ LeavesReturning(t, l, n)' \/ LeavesIsr(t, l, n)'
    PROVE  ContextInv'
  <1>1. Leaving(t)'
    BY DEF Leaving, Stops
  <1>2. Running'
    BY <1>1 DEF Running
  <1>. QED
    BY <1>2 DEF ContextInv

-----------------------------------------------------------------------------
\* arch_yield up to where it saves the context.
LEMMA CallYieldKeeps ==
    ASSUME ContextInv, CallYield
    PROVE  ContextInv'
  <1>. DEFINE l == "yield"
  <1>1. ContextTypeOK /\ pc = "own"
    BY DEF ContextInv, CallYield
  <1>2. PICK t \in Task : currentTask = t /\ AtOwn(t)
    BY <1>1, Where DEF ContextInv, Whereabouts
  <1>3. /\ open[t] = <<>> /\ started /\ sp = t /\ OtherRegisters(t) /\ OwnStack(t)
        /\ Masked(sreg) = Own(t, "SREG") /\ reg["r0"] = Own(t, "r0") /\ t \in live
        /\ sreg \in Words /\ sreg[1] = "SREG"
    BY <1>1, <1>2 DEF CallYield, AtOwn, OtherRegisters, ContextTypeOK
  <1>4. IsSreg(t, sreg)
    BY <1>3 DEF IsSreg, SREGs
  <1>5. PICK s \in Seq(Words) : s = Under(t, l) /\ s = stack[t] \o <<Label("own")>>
    <2>1. stack[t] = Base(t)
      BY <1>1, <1>3, OwnBare
    <2>2. Label("own") \in Words /\ Base(t) \in Seq(Words)
      BY <1>1, LabelIn, UnderIs DEF Labels
    <2>3. Under(t, l) = Append(Base(t), Label("own"))
      BY DEF Under
    <2>4. Under(t, l) \in Seq(Words)
      BY <1>1, UnderIs
    <2>5. stack[t] \o <<Label("own")>> = Append(Base(t), Label("own"))
      BY <2>1, <2>2, OneOn
    <2>. QED
      BY <2>3, <2>4, <2>5
  <1>6. /\ port' = port /\ sp' = sp /\ reg' = reg /\ sreg' = sreg /\ stackPtr' = stackPtr
        /\ kStackPointer' = kStackPointer /\ currentTask' = currentTask /\ live' = live
        /\ own' = own /\ panicked' = panicked /\ kCriticalNesting' = kCriticalNesting
        /\ open' = open /\ started' = started /\ computed' = computed
        /\ pc' = l /\ stack' = [stack EXCEPT ![t] = s] /\ spoiled' = spoiled \cup Spoils(t, s)
    <2>1. stack' = [stack EXCEPT ![t] = s]
      BY <1>3, <1>5 DEF CallYield, Push
    <2>2. stack'[sp] = s
      BY <1>1, <1>3, <2>1 DEF ContextTypeOK
    <2>. QED
      BY <1>3, <2>1, <2>2 DEF CallYield, tasks, sections
  <1>7. Bytes(s) <= Reserve
    BY <1>1, <1>5, UnderFits
  <1>8. stack'[t] = s
    BY <1>1, <1>6 DEF ContextTypeOK
  <1>9. AtStop(t, l)'
    <2>1. Rests(t, l)'
      BY <1>3, <1>6 DEF Rests, Stops
    <2>2. OtherRegisters(t)'
      BY <1>3, <1>6, OtherKept
    <2>3. Under(t, l)' = Under(t, l)
      BY <1>6, SameTask
    <2>4. IsR0(t, l, reg["r0"])' /\ IsSreg(t, sreg)'
      <3>1. IsR0(t, l, reg["r0"])
        BY <1>3 DEF IsR0
      <3>. QED
        BY <1>4, <1>6, <3>1, SameTask
    <2>5. l # "unmasked" /\ l # "own"
      OBVIOUS
    <2>. HIDE DEF l
    <2>. QED
      BY <1>3, <1>5, <1>6, <1>8, <2>1, <2>2, <2>3, <2>4, <2>5 DEF AtStop
  <1>10. /\ ContextTypeOK' /\ Parked' /\ Sections' /\ KernelStack' /\ Phases'
         /\ StackSuffices'
    BY <1>1, <1>2, <1>3, <1>6, <1>7, StepOfTask DEF Labels, ContextTypeOK
  <1>. QED
    BY <1>2, <1>6, <1>9, <1>10, StopsAt DEF Stops

LEMMA PushR0Keeps ==
    ASSUME ContextInv, PushR0
    PROVE  ContextInv'
  <1>. DEFINE l == "pushed"
  <1>1. ContextTypeOK /\ pc = "yield"
    BY DEF ContextInv, PushR0
  <1>2. PICK t \in Task : currentTask = t /\ AtStop(t, "yield")
    BY <1>1, Where DEF ContextInv, Whereabouts
  <1>3. /\ started /\ sp = t /\ OtherRegisters(t) /\ reg["r0"] = Own(t, "r0")
        /\ IsSreg(t, sreg) /\ Rests(t, "yield")
        /\ stack[t] = Append(Base(t), Label("own"))
    BY <1>2 DEF AtStop, OtherRegisters, IsR0, Under
  <1>4. PICK s \in Seq(Words) : s = Under(t, l) /\ s = stack[t] \o <<reg["r0"]>>
    <2>1. Own(t, "r0") \in Words /\ stack[t] \in Seq(Words)
      BY <1>1, OwnIn DEF Registers, ContextTypeOK
    <2>2. Under(t, l) = Append(stack[t], Own(t, "r0"))
      BY <1>3 DEF Under
    <2>3. Under(t, l) \in Seq(Words)
      BY <1>1, UnderIs
    <2>4. stack[t] \o <<Own(t, "r0")>> = Append(stack[t], Own(t, "r0"))
      BY <2>1, OneOn
    <2>. QED
      BY <1>3, <2>2, <2>3, <2>4
  <1>5. /\ port' = port /\ sp' = sp /\ reg' = reg /\ sreg' = sreg /\ stackPtr' = stackPtr
        /\ kStackPointer' = kStackPointer /\ currentTask' = currentTask /\ live' = live
        /\ own' = own /\ panicked' = panicked /\ kCriticalNesting' = kCriticalNesting
        /\ open' = open /\ started' = started /\ computed' = computed
        /\ pc' = l /\ stack' = [stack EXCEPT ![t] = s] /\ spoiled' = spoiled \cup Spoils(t, s)
    <2>1. stack' = [stack EXCEPT ![t] = s]
      BY <1>3, <1>4 DEF PushR0, Push
    <2>2. stack'[sp] = s
      BY <1>1, <1>3, <2>1 DEF ContextTypeOK
    <2>. QED
      BY <1>3, <2>1, <2>2 DEF PushR0, tasks, sections
  <1>6. Bytes(s) <= Reserve
    BY <1>1, <1>4, UnderFits
  <1>7. stack'[t] = s
    BY <1>1, <1>5 DEF ContextTypeOK
  <1>8. AtStop(t, l)'
    <2>1. Rests(t, l)'
      BY <1>3, <1>5 DEF Rests, Stops
    <2>2. OtherRegisters(t)'
      BY <1>3, <1>5, OtherKept
    <2>3. Under(t, l)' = Under(t, l)
      BY <1>5, SameTask
    <2>4. IsR0(t, l, reg["r0"])' /\ IsSreg(t, sreg)'
      <3>1. IsR0(t, l, reg["r0"])
        BY <1>3 DEF IsR0
      <3>. QED
        BY <1>3, <1>5, <3>1, SameTask
    <2>5. l # "unmasked" /\ l # "own"
      OBVIOUS
    <2>. HIDE DEF l
    <2>. QED
      BY <1>3, <1>4, <1>5, <1>7, <2>1, <2>2, <2>3, <2>4, <2>5 DEF AtStop
  <1>9. /\ ContextTypeOK' /\ Parked' /\ Sections' /\ KernelStack' /\ Phases'
        /\ StackSuffices'
    BY <1>1, <1>2, <1>3, <1>5, <1>6, StepOfTask DEF Labels, ContextTypeOK
  <1>. QED
    BY <1>2, <1>5, <1>8, <1>9, StopsAt DEF Stops

LEMMA ReadSregKeeps ==
    ASSUME ContextInv, ReadSreg
    PROVE  ContextInv'
  <1>. DEFINE l == "read"
  <1>1. ContextTypeOK /\ pc = "pushed"
    BY DEF ContextInv, ReadSreg
  <1>2. PICK t \in Task : currentTask = t /\ AtStop(t, "pushed")
    BY <1>1, Where DEF ContextInv, Whereabouts
  <1>3. /\ started /\ sp = t /\ OtherRegisters(t)
        /\ IsSreg(t, sreg) /\ Rests(t, "pushed")
        /\ stack[t] = Under(t, l)
    BY <1>2 DEF AtStop, OtherRegisters, Under
  <1>4. PICK s \in Seq(Words) : s = stack[t]
    BY <1>1 DEF ContextTypeOK
  <1>5. /\ port' = port /\ sp' = sp /\ sreg' = sreg /\ stackPtr' = stackPtr
        /\ kStackPointer' = kStackPointer /\ currentTask' = currentTask /\ live' = live
        /\ own' = own /\ panicked' = panicked /\ kCriticalNesting' = kCriticalNesting
        /\ open' = open /\ started' = started /\ computed' = computed
        /\ pc' = l /\ stack' = stack /\ spoiled' = spoiled
        /\ reg' = [reg EXCEPT !["r0"] = sreg]
    BY DEF ReadSreg, memory, tasks, sections
  <1>6. stack' = [stack EXCEPT ![t] = s]
    BY <1>1, <1>4, <1>5 DEF ContextTypeOK
  <1>7. /\ reg' \in [Registers -> Words] /\ reg'["r0"] = sreg
        /\ \A r \in Registers \ {"r0"} : reg'[r] = reg[r]
    <2>1. "r0" \in Registers
      BY DEF Registers
    <2>. QED
      BY <1>1, <1>5, <2>1 DEF ContextTypeOK
  <1>8. AtStop(t, l)'
    <2>1. Rests(t, l)'
      BY <1>3, <1>5 DEF Rests, Stops
    <2>2. OtherRegisters(t)'
      BY <1>3, <1>5, <1>7, OtherKept
    <2>3. Under(t, l)' = Under(t, l) /\ IsSreg(t, sreg)'
      BY <1>3, <1>5, SameTask
    <2>4. IsR0(t, l, reg["r0"])'
      BY <1>5, <1>7, <2>3 DEF IsR0
    <2>5. l # "unmasked" /\ l # "own"
      OBVIOUS
    <2>. HIDE DEF l
    <2>. QED
      BY <1>3, <1>5, <1>7, <2>1, <2>2, <2>3, <2>4, <2>5 DEF AtStop
  <1>9. /\ ContextTypeOK' /\ Parked' /\ Sections' /\ KernelStack' /\ Phases'
        /\ StackSuffices'
    BY <1>1, <1>2, <1>3, <1>5, <1>6, <1>7, StepOfTask DEF Labels, ContextTypeOK
  <1>. QED
    BY <1>2, <1>5, <1>8, <1>9, StopsAt DEF Stops

-----------------------------------------------------------------------------
\* The last instructions of _arch_restore_context_m, ret and reti.
LEMMA WriteSregKeeps ==
    ASSUME ContextInv, WriteSreg
    PROVE  ContextInv'
  <1>. DEFINE l == "restoring"
  <1>1. ContextTypeOK /\ pc = "unmasked"
    BY DEF ContextInv, WriteSreg
  <1>2. PICK t \in Task :
           /\ currentTask = t
           /\ AtStop(t, "unmasked") \/ \E k \in Stops, n \in Nat : LeavesUnmasked(t, k, n)
    BY <1>1, Where DEF ContextInv, Whereabouts
  <1>3. /\ port' = port /\ sp' = sp /\ reg' = reg /\ stackPtr' = stackPtr
        /\ kStackPointer' = kStackPointer /\ currentTask' = currentTask /\ live' = live
        /\ own' = own /\ panicked' = panicked /\ kCriticalNesting' = kCriticalNesting
        /\ open' = open /\ started' = started /\ computed' = computed
        /\ pc' = l /\ stack' = stack /\ spoiled' = spoiled
        /\ sreg' = reg["r0"]
    BY DEF WriteSreg, memory, tasks, sections
  <1>4. PICK s \in Seq(Words) : s = stack[t]
    BY <1>1 DEF ContextTypeOK
  <1>5. stack' = [stack EXCEPT ![t] = s]
    BY <1>1, <1>3, <1>4 DEF ContextTypeOK
  <1>6. ASSUME started, OtherRegisters(t), reg["r0"] \in Words, reg["r0"][1] = "SREG"
        PROVE  /\ ContextTypeOK' /\ Parked' /\ Sections' /\ KernelStack' /\ Phases'
               /\ StackSuffices'
    <2>1. sp = t
      BY <1>6 DEF OtherRegisters
    <2>. QED
      BY <1>1, <1>2, <1>3, <1>5, <1>6, <2>1, StepOfTask DEF Labels, ContextTypeOK
  <1>7. CASE AtStop(t, "unmasked")
    <2>1. /\ started /\ sp = t /\ OtherRegisters(t) /\ Rests(t, "unmasked")
          /\ IsSreg(t, reg["r0"]) /\ stack[t] = Under(t, l)
      BY <1>7 DEF AtStop, OtherRegisters, IsR0, Under
    <2>2. reg["r0"] \in Words /\ reg["r0"][1] = "SREG"
      BY <1>1, <2>1, SregIn
    <2>3. AtStop(t, l)'
      <3>1. Rests(t, l)'
        BY <2>1, <1>3 DEF Rests, Stops
      <3>2. OtherRegisters(t)'
        BY <2>1, <1>3, OtherKept
      <3>3. Under(t, l)' = Under(t, l) /\ IsSreg(t, sreg)'
        BY <1>3, <2>1, SameTask
      <3>4. IsR0(t, l, reg["r0"])'
        BY <1>3, <3>3 DEF IsR0
      <3>5. l # "unmasked" /\ l # "own"
        OBVIOUS
      <3>. HIDE DEF l
      <3>. QED
        BY <1>3, <2>1, <3>1, <3>2, <3>3, <3>4, <3>5 DEF AtStop
    <2>. QED
      BY <1>2, <1>3, <1>6, <2>1, <2>2, <2>3, StopsAt DEF Stops
  <1>8. ASSUME NEW k \in Stops, NEW n \in Nat, LeavesUnmasked(t, k, n)
        PROVE  ContextInv'
    <2>1. /\ n # 0 /\ MayNest(k, n) /\ Rests(t, k) /\ started /\ OtherRegisters(t)
          /\ Levels(t, k, n, stack[t]) /\ IsFlags(t, k, n, reg["r0"])
          /\ Len(stack[t]) = Len(Under(t, k)) + 3 * n
          /\ Bytes(stack[t]) = Full(t, k, n) /\ Nested(stack[t]) = n
      BY <1>8 DEF LeavesUnmasked, Leaves
    <2>2. reg["r0"] \in Words /\ reg["r0"][1] = "SREG"
      BY <1>1, <2>1, FlagsIn
    <2>3. PICK f : f = reg["r0"]
      OBVIOUS
    <2>4. LeavesRestoring(t, k, n)'
      <3>1. Rests(t, k)'
        BY <2>1, <1>3, RestsKept
      <3>2. OtherRegisters(t)'
        BY <2>1, <1>3, OtherKept DEF OtherRegisters
      <3>3. IsFlags(t, k, n, f)' /\ Levels(t, k, n, s)' /\ MayNest(k, n)'
        BY <1>3, <1>4, <2>1, <2>3, SameTask, SamePort
      <3>4. Under(t, k)' = Under(t, k) /\ Full(t, k, n)' = Full(t, k, n)
            /\ Bytes(s)' = Bytes(s)
        BY <1>3, SameTask, SamePort
      <3>5. stack'[t] = s /\ sreg' = f
        BY <1>3, <1>4, <2>3
      <3>6. Leaves(t, k, n)'
        BY <1>3, <2>1, <3>1, <3>2, <3>3, <3>5 DEF Leaves
      <3>. QED
        BY <1>3, <1>4, <2>1, <3>3, <3>4, <3>5, <3>6 DEF LeavesRestoring
    <2>. QED
      BY <1>2, <1>3, <1>6, <2>1, <2>2, <2>4, LeavesOn
  <1>. QED
    BY <1>2, <1>7, <1>8

\* The words of the n-th interrupt come off one after the other.
LEMMA LevelTop ==
    ASSUME ContextTypeOK, NEW t \in Task, NEW l \in Stops, NEW n \in Nat, n # 0,
           NEW s \in Seq(Words), Levels(t, l, n, s), NEW c \in {0, 1, 2},
           Len(s) = Len(Under(t, l)) + 3 * n - c
    PROVE  /\ Front(s) \in Seq(Words) /\ Len(Front(s)) = Len(s) - 1
           /\ Levels(t, l, n, Front(s))
           /\ c = 0 => /\ IF n = 1 THEN IsR0(t, l, Last(s))
                          ELSE IsFlags(t, l, n - 1, Last(s))
                       /\ Bytes(Front(s)) = Bytes(s) - 1 /\ Nested(Front(s)) = Nested(s)
           /\ c = 1 => /\ Last(s) = Label("isr")
                       /\ Bytes(Front(s)) = Bytes(s) - AddressSize
                       /\ Nested(Front(s)) = Nested(s) - 1
           /\ c = 2 => /\ Last(s) = Label(IF n = 1 THEN l ELSE "unmasked")
                       /\ Bytes(Front(s)) = Bytes(s) - AddressSize
                       /\ Nested(Front(s)) = Nested(s)
  <1>1. PICK u \in Nat : u = Len(Under(t, l))
    BY UnderIs
  <1>2. Len(s) = u + 3 * n - c /\ Len(s) \in Nat /\ Len(s) >= 1 /\ u <= Len(s) - 1
    BY <1>1
  <1>3. s # <<>>
    BY <1>2
  <1>4. /\ Front(s) \in Seq(Words) /\ Last(s) \in Words
        /\ Len(Front(s)) = Len(s) - 1
        /\ Bytes(Front(s)) = Bytes(s) - Size(Last(s))
        /\ Nested(Front(s)) = Nested(s) - OneIf(Last(s), "isr")
    BY <1>3, Popped
  <1>5. Last(s) = s[Len(s)] /\ \A i \in 1..(Len(s) - 1) : Front(s)[i] = s[i]
    BY <1>2, <1>3 DEF Last, Front
  <1>6. Levels(t, l, n, Front(s))
    <2>1. PICK r \in Seq(Words) : r = Front(s)
      BY <1>4
    <2>2. /\ Len(r) \in Nat /\ Len(r) <= Len(s) /\ \A i \in 1..Len(r) : r[i] = s[i]
          /\ Len(Under(t, l)) <= Len(r) /\ Len(Under(t, l)) \in Nat /\ Len(s) \in Nat
      BY <1>1, <1>2, <1>4, <1>5, <2>1
    <2>. QED
      BY <2>1, <2>2, LevelsOff
  <1>7. Level(t, l, n, s)
    BY DEF Levels
  <1>8. Bytes(s) \in Nat /\ Nested(s) \in Nat
    BY Naturals1
  <1>9. CASE c = 0
    <2>1. u + 3 * n <= Len(s) /\ s[u + 3 * n] = Last(s)
      BY <1>2, <1>5, <1>9
    <2>2. IF n = 1 THEN IsR0(t, l, Last(s)) ELSE IsFlags(t, l, n - 1, Last(s))
      BY <1>1, <1>7, <2>1 DEF Level
    <2>3. Size(Last(s)) = 1 /\ OneIf(Last(s), "isr") = 0
      BY <2>2, R0In, FlagsIn, Sizes
    <2>. QED
      BY <1>4, <1>6, <1>8, <1>9, <2>2, <2>3
  <1>10. CASE c = 1
    <2>1. u + 3 * n - 1 <= Len(s) /\ s[u + 3 * n - 1] = Last(s)
      BY <1>2, <1>5, <1>10
    <2>2. Last(s) = Label("isr")
      BY <1>1, <1>7, <2>1 DEF Level
    <2>3. Size(Last(s)) = AddressSize /\ OneIf(Last(s), "isr") = 1
      <3>1. "isr" \in Labels
        BY DEF Labels
      <3>. QED
        BY <2>2, <3>1, LabelIn, Sizes
    <2>. QED
      BY <1>4, <1>6, <1>8, <1>10, <2>2, <2>3
  <1>11. CASE c = 2
    <2>1. u + 3 * n - 2 <= Len(s) /\ s[u + 3 * n - 2] = Last(s)
      BY <1>2, <1>5, <1>11
    <2>2. Last(s) = Label(IF n = 1 THEN l ELSE "unmasked")
      BY <1>1, <1>7, <2>1 DEF Level
    <2>3. Size(Last(s)) = AddressSize /\ OneIf(Last(s), "isr") = 0
      <3>1. PICK x : x = IF n = 1 THEN l ELSE "unmasked"
        OBVIOUS
      <3>2. x \in Labels /\ x # "isr"
        BY <3>1 DEF Labels, Stops
      <3>. QED
        BY <2>2, <3>1, <3>2, LabelIn, Sizes
    <2>. QED
      BY <1>4, <1>6, <1>8, <1>11, <2>2, <2>3
  <1>. QED
    BY <1>9, <1>10, <1>11

LEMMA PopR0Keeps ==
    ASSUME ContextInv, PopR0
    PROVE  ContextInv'
  <1>. DEFINE l == "returning"
  <1>1. ContextTypeOK /\ pc = "restoring" /\ Phases
    BY DEF ContextInv, PopR0
  <1>2. PICK t \in Task :
           /\ currentTask = t
           /\ AtStop(t, "restoring") \/ \E k \in Stops, n \in Nat : LeavesRestoring(t, k, n)
    BY <1>1, Where DEF ContextInv, Whereabouts
  <1>3. sp = t /\ started
    BY <1>2 DEF AtStop, LeavesRestoring, Leaves, OtherRegisters
  <1>4. PICK s \in Seq(Words) : s = stack[t]
    BY <1>1 DEF ContextTypeOK
  <1>5. /\ port' = port /\ sp' = t /\ sreg' = sreg /\ stackPtr' = stackPtr
        /\ kStackPointer' = kStackPointer /\ currentTask' = currentTask /\ live' = live
        /\ own' = own /\ panicked' = panicked /\ kCriticalNesting' = kCriticalNesting
        /\ open' = open /\ started' = started /\ computed' = computed
        /\ pc' = l /\ stack' = [stack EXCEPT ![t] = Front(s)] /\ spoiled' = spoiled
        /\ reg' = [reg EXCEPT !["r0"] = Last(s)]
    BY <1>3, <1>4 DEF PopR0, tasks, sections
  <1>6. ASSUME Front(s) \in Seq(Words), Last(s) \in Words
        PROVE  /\ ContextTypeOK' /\ Parked' /\ Sections' /\ KernelStack' /\ Phases'
               /\ StackSuffices' /\ stack'[t] = Front(s) /\ reg'["r0"] = Last(s)
               /\ \A r \in Registers \ {"r0"} : reg'[r] = reg[r]
    <2>1. "r0" \in Registers
      BY DEF Registers
    <2>2. reg' \in [Registers -> Words]
      BY <1>1, <1>5, <1>6 DEF ContextTypeOK
    <2>3. PICK r \in Seq(Words) : r = Front(s)
      BY <1>6
    <2>4. stack' = [stack EXCEPT ![t] = r]
      BY <1>5, <2>3
    <2>5. /\ ContextTypeOK' /\ Parked' /\ Sections' /\ KernelStack' /\ Phases'
          /\ StackSuffices'
      BY <1>1, <1>2, <1>3, <1>5, <2>2, <2>4, StepOfTask DEF Labels, ContextTypeOK
    <2>. QED
      BY <1>1, <1>5, <2>1, <2>5 DEF ContextTypeOK
  <1>7. CASE AtStop(t, "restoring")
    <2>1. /\ OtherRegisters(t) /\ Rests(t, "restoring") /\ IsSreg(t, sreg)
          /\ s = Append(Under(t, l), Own(t, "r0"))
      BY <1>4, <1>7 DEF AtStop, Under
    <2>2. Own(t, "r0") \in Words /\ Under(t, l) \in Seq(Words)
      BY <1>1, OwnIn, UnderIs DEF Registers
    <2>3. Front(s) = Under(t, l) /\ Last(s) = Own(t, "r0")
      BY <2>1, <2>2, TopOff
    <2>4. PICK x \in Words, r \in Seq(Words) : x = Last(s) /\ r = Front(s)
      BY <2>2, <2>3
    <2>5. /\ ContextTypeOK' /\ Parked' /\ Sections' /\ KernelStack' /\ Phases'
          /\ StackSuffices' /\ stack'[t] = r /\ reg'["r0"] = x
          /\ \A q \in Registers \ {"r0"} : reg'[q] = reg[q]
      BY <1>6, <2>4
    <2>6. AtStop(t, l)'
      <3>1. Rests(t, l)'
        BY <1>5, <2>1 DEF Rests, Stops
      <3>2. OtherRegisters(t)'
        BY <1>5, <2>1, <2>5, OtherKept
      <3>3. Under(t, l)' = Under(t, l) /\ IsSreg(t, sreg)'
        BY <1>5, <2>1, SameTask
      <3>4. IsR0(t, l, reg["r0"])'
        <4>1. Own(t, "r0")' = Own(t, "r0")
          BY <1>5, SameTask
        <4>. QED
          BY <2>3, <2>4, <2>5, <4>1 DEF IsR0
      <3>5. l # "unmasked" /\ l # "own"
        OBVIOUS
      <3>. HIDE DEF l
      <3>. QED
        BY <1>3, <1>5, <2>1, <2>3, <2>4, <2>5, <3>1, <3>2, <3>3, <3>4, <3>5 DEF AtStop
    <2>. QED
      BY <1>2, <1>5, <2>5, <2>6, StopsAt DEF Stops
  <1>8. ASSUME NEW k \in Stops, NEW n \in Nat, LeavesRestoring(t, k, n)
        PROVE  ContextInv'
    <2>1. /\ n # 0 /\ MayNest(k, n) /\ Rests(t, k) /\ OtherRegisters(t)
          /\ Levels(t, k, n, s) /\ IsFlags(t, k, n, sreg)
          /\ Len(s) = Len(Under(t, k)) + 3 * n
          /\ Bytes(s) = Full(t, k, n) /\ Nested(s) = n
      BY <1>4, <1>8 DEF LeavesRestoring, Leaves
    <2>2. Len(s) = Len(Under(t, k)) + 3 * n - 0
      BY <2>1
    <2>3. /\ Front(s) \in Seq(Words) /\ Len(Front(s)) = Len(s) - 1
          /\ Levels(t, k, n, Front(s))
          /\ IF n = 1 THEN IsR0(t, k, Last(s)) ELSE IsFlags(t, k, n - 1, Last(s))
          /\ Bytes(Front(s)) = Bytes(s) - 1 /\ Nested(Front(s)) = Nested(s)
      <3>1. 0 \in {0, 1, 2} /\ 0 = 0
        OBVIOUS
      <3>. HIDE DEF l
      <3>. QED
        BY <1>1, <2>1, <2>2, <3>1, LevelTop
    <2>4. Last(s) \in Words
      BY <1>1, <2>3, R0In, FlagsIn
    <2>5. PICK x \in Words, r \in Seq(Words), f \in Words :
             x = Last(s) /\ r = Front(s) /\ f = sreg
      BY <1>1, <2>3, <2>4 DEF ContextTypeOK
    <2>6. /\ ContextTypeOK' /\ Parked' /\ Sections' /\ KernelStack' /\ Phases'
          /\ StackSuffices' /\ stack'[t] = r /\ reg'["r0"] = x
          /\ \A q \in Registers \ {"r0"} : reg'[q] = reg[q]
      BY <1>6, <2>4, <2>5
    <2>7. LeavesReturning(t, k, n)'
      <3>1. Rests(t, k)'
        BY <2>1, <1>5, RestsKept
      <3>2. OtherRegisters(t)'
        BY <2>1, <1>5, <2>6, OtherKept
      <3>3. IsFlags(t, k, n, f)' /\ Levels(t, k, n, r)' /\ MayNest(k, n)'
        BY <1>5, <2>1, <2>3, <2>5, SameTask, SamePort
      <3>4. Under(t, k)' = Under(t, k) /\ Full(t, k, n)' = Full(t, k, n)
            /\ Bytes(r)' = Bytes(r)
        BY <1>5, SameTask, SamePort
      <3>5. IF n = 1 THEN IsR0(t, k, x)' ELSE IsFlags(t, k, n - 1, x)'
        BY <1>5, <2>3, <2>5, SameTask
      <3>6. Leaves(t, k, n)'
        BY <1>3, <1>5, <2>1, <2>6, <3>1, <3>2, <3>3 DEF Leaves
      <3>7. R0Back(t, k, n)'
        BY <2>6, <3>5 DEF R0Back
      <3>8. Bytes(r) = Full(t, k, n) - 1 /\ Nested(r) = n
            /\ Len(r) = Len(Under(t, k)) + 3 * n - 1 /\ sreg' = f
        BY <1>5, <2>1, <2>3, <2>5
      <3>. QED
        BY <1>5, <2>6, <3>3, <3>4, <3>6, <3>7, <3>8 DEF LeavesReturning
    <2>. QED
      BY <1>2, <1>5, <2>6, <2>7, LeavesOn
  <1>. QED
    BY <1>2, <1>7, <1>8

\* What ret and reti have in common.
LEMMA Returns ==
    ASSUME ContextInv, NEW t \in Task, currentTask = t, sp = t, pc # "kernel", started,
           NEW s \in Seq(Words), s = stack[t], Front(s) \in Seq(Words), ReturnTo,
           Last(s)[1] \in Labels \ {"kernel"}, Last(s)[1] = "unmasked" => port = "mega2560",
           sreg' \in Words, sreg'[1] = "SREG", live' = live
    PROVE  /\ ContextTypeOK' /\ Parked' /\ Sections' /\ KernelStack' /\ Phases'
           /\ StackSuffices' /\ stack'[t] = Front(s) /\ pc' = Last(s)[1]
           /\ port' = port /\ sp' = t /\ reg' = reg /\ currentTask' = currentTask
           /\ open' = open /\ started' = started /\ computed' = computed
  <1>1. /\ port' = port /\ sp' = t /\ reg' = reg /\ stackPtr' = stackPtr
        /\ kStackPointer' = kStackPointer /\ currentTask' = currentTask
        /\ own' = own /\ panicked' = panicked /\ kCriticalNesting' = kCriticalNesting
        /\ open' = open /\ started' = started /\ computed' = computed
        /\ pc' = Last(s)[1] /\ stack' = [stack EXCEPT ![t] = Front(s)]
        /\ spoiled' = spoiled
    BY DEF ReturnTo, sections
  <1>2. ContextTypeOK
    BY DEF ContextInv
  <1>3. PICK r \in Seq(Words) : r = Front(s)
    OBVIOUS
  <1>4. stack' = [stack EXCEPT ![t] = r]
    BY <1>1, <1>3
  <1>5. reg' \in [Registers -> Words] /\ live' \subseteq live /\ Idle \in live'
    BY <1>1, <1>2 DEF ContextTypeOK
  <1>6. /\ ContextTypeOK' /\ Parked' /\ Sections' /\ KernelStack' /\ Phases'
        /\ StackSuffices'
    BY <1>1, <1>4, <1>5, StepOfTask
  <1>. QED
    BY <1>1, <1>2, <1>6 DEF ContextTypeOK

\* A task that goes on, in no section.
LEMMA OwnAgain ==
    ASSUME ContextTypeOK, NEW t \in Task, port' = port, open' = open, started' = started,
           live' = live, computed' = computed, sp' = t, pc' = "own", reg' = reg,
           Rests(t, "own"), started, OtherRegisters(t), reg["r0"] = Own(t, "r0"),
           Masked(sreg') = Own(t, "SREG"), stack'[t] = Base(t)
    PROVE  AtOwn(t)'
  <1>1. t \in live' /\ open'[t] = <<>>
    BY DEF Rests
  <1>2. OtherRegisters(t)' /\ reg'["r0"] = Own(t, "r0")' /\ Own(t, "SREG")' = Own(t, "SREG")
        /\ Base(t)' = Base(t)
    <2>1. \A r : Own(t, r)' = Own(t, r)
      BY DEF Own, Word
    <2>. QED
      BY <2>1, OtherKept DEF Base, OtherRegisters
  <1>3. OwnStack(t)'
    <2>1. Base(t) \in Seq(Words) /\ Len(Base(t)) \in 0..1
      BY UnderIs
    <2>2. Depth(open[t])' = 0
      BY <1>1, CountNone DEF Depth, Count
    <2>3. Holds(Base(t), stack[t], open[t])'
      BY <1>2, <2>1, <2>2 DEF Holds
    <2>. QED
      BY <1>2, <2>3 DEF OwnStack
  <1>4. Masked(sreg)' = Masked(sreg')
    BY DEF Masked
  <1>. QED
    BY <1>1, <1>2, <1>3, <1>4 DEF AtOwn

LEMMA RetKeeps ==
    ASSUME ContextInv, Ret
    PROVE  ContextInv'
  <1>1. ContextTypeOK /\ pc = "returning" /\ ReturnTo /\ sreg' = sreg /\ live' = live
    BY DEF ContextInv, Ret
  <1>2. PICK t \in Task :
           /\ currentTask = t
           /\ AtStop(t, "returning") \/ \E k \in Stops, n \in Nat : LeavesReturning(t, k, n)
    BY <1>1, Where DEF ContextInv, Whereabouts
  <1>3. sp = t /\ started /\ OtherRegisters(t)
    BY <1>2 DEF AtStop, LeavesReturning, Leaves, OtherRegisters
  <1>4. PICK s \in Seq(Words) : s = stack[t]
    BY <1>1 DEF ContextTypeOK
  <1>5. sreg' \in Words /\ sreg'[1] = "SREG"
    BY <1>1 DEF ContextTypeOK
  <1>6. CASE AtStop(t, "returning")
    <2>1. /\ Rests(t, "returning") /\ IsSreg(t, sreg)
          /\ s = Append(Base(t), Label("own")) /\ reg["r0"] = Own(t, "r0")
      BY <1>4, <1>6 DEF AtStop, Under, IsR0
    <2>2. /\ Label("own") \in Words /\ Label("own")[1] = "own" /\ "own" \in Labels
          /\ Base(t) \in Seq(Words)
      BY <1>1, LabelIn, UnderIs DEF Labels
    <2>3. Front(s) = Base(t) /\ Last(s)[1] = "own"
      BY <2>1, <2>2, TopOff
    <2>4. /\ ContextTypeOK' /\ Parked' /\ Sections' /\ KernelStack' /\ Phases'
          /\ StackSuffices' /\ stack'[t] = Front(s) /\ pc' = "own"
          /\ port' = port /\ sp' = t /\ reg' = reg /\ currentTask' = currentTask
          /\ open' = open /\ started' = started /\ computed' = computed
      BY <1>1, <1>2, <1>3, <1>4, <1>5, <2>2, <2>3, Returns
    <2>5. Rests(t, "own")
      BY <2>1 DEF Rests, Stops
    <2>6. Masked(sreg') = Own(t, "SREG")
      BY <1>1, <2>1 DEF IsSreg
    <2>7. AtOwn(t)'
      BY <1>1, <1>3, <1>5, <2>1, <2>3, <2>4, <2>5, <2>6, OwnAgain
    <2>. QED
      BY <1>2, <2>4, <2>7, GoesOn
  <1>7. ASSUME NEW k \in Stops, NEW n \in Nat, LeavesReturning(t, k, n)
        PROVE  ContextInv'
    <2>1. /\ n # 0 /\ MayNest(k, n) /\ Rests(t, k)
          /\ Levels(t, k, n, s) /\ IsFlags(t, k, n, sreg) /\ R0Back(t, k, n)
          /\ Len(s) = Len(Under(t, k)) + 3 * n - 1
          /\ Bytes(s) = Full(t, k, n) - 1 /\ Nested(s) = n
      BY <1>4, <1>7 DEF LeavesReturning, Leaves
    <2>2. /\ Front(s) \in Seq(Words) /\ Len(Front(s)) = Len(s) - 1
          /\ Levels(t, k, n, Front(s)) /\ Last(s) = Label("isr")
          /\ Bytes(Front(s)) = Bytes(s) - AddressSize /\ Nested(Front(s)) = Nested(s) - 1
      <3>1. 1 \in {0, 1, 2} /\ 1 = 1
        OBVIOUS
      <3>. QED
        BY <1>1, <2>1, <3>1, LevelTop
    <2>3. Last(s)[1] = "isr" /\ "isr" \in Labels
      BY <2>2, LabelIn DEF Labels
    <2>4. PICK r \in Seq(Words), f \in Words, x \in Words :
             r = Front(s) /\ f = sreg /\ x = reg["r0"]
      BY <1>1, <2>2 DEF ContextTypeOK, Registers
    <2>5. /\ ContextTypeOK' /\ Parked' /\ Sections' /\ KernelStack' /\ Phases'
          /\ StackSuffices' /\ stack'[t] = r /\ pc' = "isr"
          /\ port' = port /\ sp' = t /\ reg' = reg /\ currentTask' = currentTask
          /\ open' = open /\ started' = started /\ computed' = computed
      BY <1>1, <1>2, <1>3, <1>4, <1>5, <2>2, <2>3, <2>4, Returns
    <2>6. LeavesIsr(t, k, n)'
      <3>1. Rests(t, k)'
        BY <2>1, <1>1, <2>5, RestsKept
      <3>2. OtherRegisters(t)'
        BY <1>3, <2>5, OtherKept
      <3>3. IsFlags(t, k, n, f)' /\ Levels(t, k, n, r)' /\ MayNest(k, n)'
        BY <2>1, <2>2, <2>4, <2>5, SameTask, SamePort
      <3>4. Under(t, k)' = Under(t, k) /\ Full(t, k, n)' = Full(t, k, n)
            /\ Bytes(r)' = Bytes(r) /\ AddressSize' = AddressSize
        BY <2>5, SameTask, SamePort
      <3>5. IF n = 1 THEN IsR0(t, k, x)' ELSE IsFlags(t, k, n - 1, x)'
        BY <2>1, <2>4, <2>5, SameTask DEF R0Back
      <3>6. Leaves(t, k, n)'
        BY <1>3, <2>1, <2>5, <3>1, <3>2, <3>3 DEF Leaves
      <3>7. R0Back(t, k, n)'
        BY <2>4, <2>5, <3>5 DEF R0Back
      <3>8. Bytes(r) = Full(t, k, n) - 1 - AddressSize /\ Nested(r) = n - 1
            /\ Len(r) = Len(Under(t, k)) + 3 * n - 2 /\ sreg' = f
        <4>1. Len(Under(t, k)) \in Nat
          BY <1>1, UnderIs
        <4>. QED
          BY <1>1, <2>1, <2>2, <2>4, <4>1
      <3>. QED
        BY <2>5, <3>3, <3>4, <3>6, <3>7, <3>8 DEF LeavesIsr
    <2>. QED
      BY <1>2, <2>5, <2>6, LeavesOn
  <1>. QED
    BY <1>2, <1>6, <1>7

LEMMA RetiKeeps ==
    ASSUME ContextInv, Reti
    PROVE  ContextInv'
  <1>1. ContextTypeOK /\ pc = "isr" /\ ReturnTo /\ sreg' = Unmasked(sreg) /\ live' = live
    BY DEF ContextInv, Reti
  <1>2. PICK t \in Task :
           currentTask = t /\ \E k \in Stops, n \in Nat : LeavesIsr(t, k, n)
    BY <1>1, Where DEF ContextInv, Whereabouts
  <1>3. sp = t /\ started /\ OtherRegisters(t)
    BY <1>2 DEF LeavesIsr, Leaves, OtherRegisters
  <1>4. PICK s \in Seq(Words) : s = stack[t]
    BY <1>1 DEF ContextTypeOK
  <1>5. sreg' \in Words /\ sreg'[1] = "SREG" /\ Enabled(sreg')
    BY <1>1, Masking1 DEF ContextTypeOK
  <1>6. PICK k \in Stops, n \in Nat : LeavesIsr(t, k, n)
    BY <1>2
  <1>7. /\ n # 0 /\ MayNest(k, n) /\ Rests(t, k)
        /\ Levels(t, k, n, s) /\ IsFlags(t, k, n, sreg) /\ R0Back(t, k, n)
        /\ Len(s) = Len(Under(t, k)) + 3 * n - 2
        /\ Bytes(s) = Full(t, k, n) - 1 - AddressSize /\ Nested(s) = n - 1
    BY <1>4, <1>6 DEF LeavesIsr, Leaves
  <1>8. /\ Front(s) \in Seq(Words) /\ Len(Front(s)) = Len(s) - 1
        /\ Levels(t, k, n, Front(s)) /\ Last(s) = Label(IF n = 1 THEN k ELSE "unmasked")
        /\ Bytes(Front(s)) = Bytes(s) - AddressSize /\ Nested(Front(s)) = Nested(s)
    <2>1. 2 \in {0, 1, 2} /\ 2 = 2
      OBVIOUS
    <2>. QED
      BY <1>1, <1>7, <2>1, LevelTop
  <1>9. PICK l \in Stops : l = IF n = 1 THEN k ELSE "unmasked"
    BY DEF Stops
  <1>10. Last(s)[1] = l /\ l \in Labels \ {"kernel"}
    <2>1. l \in Labels \ {"kernel"}
      BY DEF Stops, Labels
    <2>. QED
      BY <1>8, <1>9, <2>1, LabelIn
  <1>11. l = "unmasked" => port = "mega2560"
    <2>1. port \in {"mega128", "mega2560"}
      BY <1>1, ContextAssumption DEF ContextTypeOK
    <2>. QED
      BY <1>7, <1>9, <2>1 DEF MayNest
  <1>12. PICK r \in Seq(Words), x \in Words : r = Front(s) /\ x = reg["r0"]
    BY <1>1, <1>8 DEF ContextTypeOK, Registers
  <1>13. /\ ContextTypeOK' /\ Parked' /\ Sections' /\ KernelStack' /\ Phases'
         /\ StackSuffices' /\ stack'[t] = r /\ pc' = l
         /\ port' = port /\ sp' = t /\ reg' = reg /\ currentTask' = currentTask
         /\ open' = open /\ started' = started /\ computed' = computed
    BY <1>1, <1>2, <1>3, <1>4, <1>5, <1>8, <1>10, <1>11, <1>12, Returns
  <1>14. PICK u \in Nat : u = Len(Under(t, k)) /\ Under(t, k) \in Seq(Words)
    BY <1>1, UnderIs
  <1>15. ASSUME n = 1
         PROVE  ContextInv'
    <2>1. r = Under(t, k) /\ l = k
      <3>1. Len(r) = u
        BY <1>7, <1>8, <1>12, <1>14, <1>15
      <3>2. \A i \in 1..u : r[i] = Under(t, k)[i]
        BY <1>8, <1>12, <1>14 DEF Levels
      <3>3. Len(Under(t, k)) = u /\ Under(t, k) \in Seq(Words)
        BY <1>14
      <3>. QED
        BY <1>9, <1>15, <3>1, <3>2, <3>3
    <2>2. IsR0(t, k, reg["r0"])
      BY <1>7, <1>15 DEF R0Back
    <2>3. k # "unmasked" => IsSreg(t, sreg')
      <3>1. Own(t, "SREG") \in Words /\ ~Enabled(Own(t, "SREG"))
        BY <1>1, OwnIn
      <3>2. Masked(Unmasked(Own(t, "SREG"))) = Own(t, "SREG")
        BY <3>1, Masking1
      <3>. QED
        BY <1>1, <1>5, <1>7, <1>15, <3>2 DEF IsFlags, IsSreg, SREGs
    <2>4. CASE k = "own"
      <3>1. Under(t, k) = Base(t) /\ reg["r0"] = Own(t, "r0")
        BY <2>2, <2>4 DEF Under, IsR0
      <3>2. /\ Rests(t, "own") /\ reg["r0"] = Own(t, "r0") /\ stack'[t] = Base(t)
            /\ pc' = "own" /\ Masked(sreg') = Own(t, "SREG")
        BY <1>7, <1>13, <2>1, <2>3, <2>4, <3>1 DEF IsSreg
      <3>3. AtOwn(t)'
        BY <1>1, <1>3, <1>13, <3>2, OwnAgain
      <3>. QED
        BY <1>2, <1>13, <3>3, GoesOn
    <2>5. CASE k # "own"
      <3>1. AtStop(t, k)'
        <4>1. Rests(t, k)'
          BY <1>1, <1>7, <1>13, RestsKept
        <4>2. OtherRegisters(t)'
          BY <1>3, <1>13, OtherKept
        <4>3. Under(t, k)' = Under(t, k) /\ IsR0(t, k, x)'
          BY <1>12, <1>13, <2>2, SameTask
        <4>4. k # "unmasked" => IsSreg(t, sreg)'
          BY <1>13, <2>3, SameTask
        <4>5. Enabled(sreg)'
          BY <1>5 DEF Enabled
        <4>. QED
          BY <1>3, <1>12, <1>13, <2>1, <2>5, <4>1, <4>2, <4>3, <4>4, <4>5 DEF AtStop
      <3>. QED
        BY <1>2, <1>13, <3>1, StopsAt
    <2>. QED
      BY <2>4, <2>5
  <1>16. ASSUME n # 1
         PROVE  ContextInv'
    <2>1. PICK m \in Nat : n = m + 1 /\ m # 0
      <3>1. n - 1 \in Nat /\ n = (n - 1) + 1 /\ n - 1 # 0
        BY <1>7, <1>16
      <3>. QED
        BY <3>1
    <2>2. l = "unmasked"
      BY <1>9, <1>16
    <2>3. IsFlags(t, k, m, x)
      <3>1. n - 1 = m
        BY <2>1
      <3>. QED
        BY <1>7, <1>12, <1>16, <3>1 DEF R0Back
    <2>4. MayNest(k, m)
      BY <1>7, <1>16, <2>1, ContextAssumption DEF MayNest
    <2>5. Levels(t, k, m, r)
      <3>1. m <= n
        BY <2>1
      <3>. QED
        BY <1>8, <1>12, <2>1, <3>1, LevelsDown
    <2>6. Bytes(r) = Full(t, k, m) /\ Nested(r) = m /\ Len(r) = Len(Under(t, k)) + 3 * m
      <3>1. /\ Full(t, k, m) \in Nat
            /\ Full(t, k, m + 1) = Full(t, k, m) + AddressSize + AddressSize + 1
        BY <1>1, FullNext
      <3>2. Bytes(s) = Full(t, k, m + 1) - 1 - AddressSize /\ Nested(s) = m
        BY <1>7, <2>1
      <3>3. Bytes(r) = Bytes(s) - AddressSize /\ Nested(r) = Nested(s)
        BY <1>8, <1>12
      <3>4. Bytes(r) = Full(t, k, m)
        BY <3>1, <3>2, <3>3, Address23, SMTT(30)
      <3>5. Len(r) = u + 3 * m
        BY <1>7, <1>8, <1>12, <1>14, <2>1
      <3>. QED
        BY <1>14, <3>2, <3>3, <3>4, <3>5
    <2>7. LeavesUnmasked(t, k, m)'
      <3>1. Rests(t, k)'
        BY <1>1, <1>7, <1>13, RestsKept
      <3>2. OtherRegisters(t)'
        BY <1>3, <1>13, OtherKept
      <3>3. IsFlags(t, k, m, x)' /\ Levels(t, k, m, r)' /\ MayNest(k, m)'
        BY <1>13, <2>3, <2>4, <2>5, SameTask, SamePort
      <3>4. Under(t, k)' = Under(t, k) /\ Full(t, k, m)' = Full(t, k, m)
            /\ Bytes(r)' = Bytes(r)
        BY <1>13, SameTask, SamePort
      <3>5. Leaves(t, k, m)'
        BY <1>3, <1>13, <2>1, <3>1, <3>2, <3>3 DEF Leaves
      <3>6. Enabled(sreg)'
        BY <1>5 DEF Enabled
      <3>. QED
        BY <1>12, <1>13, <2>2, <2>6, <3>3, <3>4, <3>5, <3>6 DEF LeavesUnmasked
    <2>. QED
      BY <1>2, <1>13, <2>7, LeavesOn
  <1>. QED
    BY <1>15, <1>16

-----------------------------------------------------------------------------
\* A task's end.
LEMMA ReturnFromEntryKeeps ==
    ASSUME ContextInv, ReturnFromEntry
    PROVE  ContextInv'
  <1>1. /\ ContextTypeOK /\ Phases /\ pc = "own" /\ ReturnTo /\ sreg' = sreg
        /\ live' = live /\ currentTask # Idle
    BY DEF ContextInv, ReturnFromEntry
  <1>2. PICK t \in Task : currentTask = t /\ AtOwn(t) /\ open[t] = <<>> /\ t # Idle
    BY <1>1, Where DEF ContextInv, Whereabouts, ReturnFromEntry
  <1>3. sp = t /\ started /\ OtherRegisters(t) /\ reg["r0"] = Own(t, "r0")
    BY <1>1, <1>2 DEF AtOwn, OtherRegisters, Phases
  <1>4. PICK s \in Seq(Words) : s = stack[t]
    BY <1>1 DEF ContextTypeOK
  <1>5. sreg' \in Words /\ sreg'[1] = "SREG"
    BY <1>1 DEF ContextTypeOK
  <1>7. s = Append(<<>>, Label("hook"))
    <2>1. stack[t] = Base(t)
      BY <1>1, <1>2, OwnBare DEF AtOwn
    <2>. QED
      BY <1>2, <1>4, <2>1 DEF Base
  <1>8. Front(s) = <<>> /\ Last(s)[1] = "hook" /\ "hook" \in Labels /\ <<>> \in Seq(Words)
    <2>1. Label("hook") \in Words /\ Label("hook")[1] = "hook" /\ <<>> \in Seq(Words)
      BY LabelIn DEF Labels
    <2>. QED
      BY <1>7, <2>1, TopOff DEF Labels
  <1>9. /\ ContextTypeOK' /\ Parked' /\ Sections' /\ KernelStack' /\ Phases'
        /\ StackSuffices' /\ stack'[t] = Front(s) /\ pc' = "hook"
        /\ port' = port /\ sp' = t /\ reg' = reg /\ currentTask' = currentTask
        /\ open' = open /\ started' = started /\ computed' = computed
    BY <1>1, <1>2, <1>3, <1>4, <1>5, <1>8, Returns
  <1>10. IsSreg(t, sreg)
    BY <1>1, <1>2, <1>5 DEF AtOwn, IsSreg, SREGs
  <1>11. AtStop(t, "hook")'
    <2>1. Rests(t, "hook")'
      BY <1>1, <1>2, <1>9 DEF Rests, Stops, AtOwn
    <2>2. OtherRegisters(t)'
      BY <1>3, <1>9, OtherKept
    <2>3. Under(t, "hook")' = <<>> /\ IsSreg(t, sreg)'
      BY <1>1, <1>9, <1>10, SameTask DEF Under
    <2>4. IsR0(t, "hook", reg["r0"])'
      <3>1. IsR0(t, "hook", reg["r0"])
        BY <1>3 DEF IsR0
      <3>. QED
        BY <1>9, <3>1, SameTask
    <2>. QED
      BY <1>1, <1>3, <1>8, <1>9, <2>1, <2>2, <2>3, <2>4 DEF AtStop
  <1>. QED
    BY <1>2, <1>9, <1>11, StopsAt DEF Stops

LEMMA ReturnHookKeeps ==
    ASSUME ContextInv, ReturnHook
    PROVE  ContextInv'
  <1>1. ContextTypeOK /\ pc = "hook"
    BY DEF ContextInv, ReturnHook
  <1>2. PICK t \in Task : currentTask = t /\ AtStop(t, "hook")
    BY <1>1, Where DEF ContextInv, Whereabouts
  <1>3. /\ sp = t /\ started /\ OtherRegisters(t) /\ reg["r0"] = Own(t, "r0")
        /\ IsSreg(t, sreg) /\ stack[t] = <<>> /\ open[t] = <<>> /\ t # Idle
    BY <1>2 DEF AtStop, OtherRegisters, Under, IsR0, Rests
  <1>4. PICK s \in Seq(Words) : s = stack[t]
    BY <1>1 DEF ContextTypeOK
  <1>5. /\ port' = port /\ sp' = t /\ reg' = reg /\ stackPtr' = stackPtr
        /\ kStackPointer' = kStackPointer /\ currentTask' = currentTask
        /\ own' = own /\ panicked' = panicked /\ kCriticalNesting' = kCriticalNesting
        /\ open' = open /\ started' = started /\ computed' = computed
        /\ pc' = "gone" /\ stack' = stack /\ spoiled' = spoiled
        /\ live' \in {live, live \ {t}}
    BY <1>2, <1>3 DEF ReturnHook, memory, sections
  <1>6. IsSreg(t, sreg') /\ sreg' \in Words /\ sreg'[1] = "SREG"
    <2>1. sreg \in Words /\ sreg[1] = "SREG" /\ Masked(sreg) = Own(t, "SREG")
      BY <1>3 DEF IsSreg, SREGs
    <2>2. sreg' \in {Unmasked(sreg), Masked(sreg)}
      BY DEF ReturnHook
    <2>3. sreg' \in Words /\ sreg'[1] = "SREG" /\ Masked(sreg') = Masked(sreg)
      BY <2>1, <2>2, Masking1
    <2>. QED
      BY <2>1, <2>3 DEF IsSreg, SREGs
  <1>7. stack' = [stack EXCEPT ![t] = s]
    BY <1>1, <1>4, <1>5 DEF ContextTypeOK
  <1>8. live' \subseteq live /\ Idle \in live'
    BY <1>1, <1>3, <1>5 DEF ContextTypeOK
  <1>9. /\ ContextTypeOK' /\ Parked' /\ Sections' /\ KernelStack' /\ Phases'
        /\ StackSuffices'
    BY <1>1, <1>2, <1>3, <1>5, <1>6, <1>7, <1>8, StepOfTask DEF Labels, ContextTypeOK
  <1>10. AtStop(t, "gone")'
    <2>1. Rests(t, "gone")'
      BY <1>3, <1>5 DEF Rests, Stops
    <2>2. OtherRegisters(t)'
      BY <1>3, <1>5, OtherKept
    <2>3. Under(t, "gone")' = <<>> /\ IsSreg(t, sreg)'
      BY <1>5, <1>6, SameTask DEF Under
    <2>4. IsR0(t, "gone", reg["r0"])'
      <3>1. IsR0(t, "gone", reg["r0"])
        BY <1>3 DEF IsR0
      <3>. QED
        BY <1>5, <3>1, SameTask
    <2>. QED
      BY <1>3, <1>5, <2>1, <2>2, <2>3, <2>4 DEF AtStop
  <1>. QED
    BY <1>2, <1>5, <1>9, <1>10, StopsAt DEF Stops

-----------------------------------------------------------------------------
\* tasks_switchTask returns and m's registers come back, up to r0.
IsRestored(m, l, n, r, f) ==
    /\ stack' = [stack EXCEPT ![Kernel] = <<>>, ![m] = r]
    /\ kStackPointer' = 0 /\ sp' = m
    /\ reg' \in [Registers -> Words] /\ reg'["r0"] = f
    /\ \A q \in Registers \ {"r0"} : reg'[q] = Own(m, q)
    /\ IsFlags(m, l, n, f) /\ Levels(m, l, n, r) /\ Len(r) = Len(Under(m, l)) + 3 * n
    /\ Bytes(r) = Full(m, l, n) /\ Nested(r) = n
    /\ IF port = "mega2560" THEN pc' = "unmasked" /\ sreg' = Unmasked(sreg)
                            ELSE pc' = "restoring" /\ sreg' = f

LEMMA Restored ==
    ASSUME ContextTypeOK, KernelStack, pc = "kernel", NEW m \in Task, NEW l \in Stops,
           NEW n \in Nat, Saved(m, l, n),
           Restore(stackPtr[m][1], SubSeq(stack[stackPtr[m][1]], 1, stackPtr[m][2]))
    PROVE  \E r \in Seq(Words), f \in Words : IsRestored(m, l, n, r, f)
  <1>1. PICK s \in Seq(Words) : s = stack[m]
    BY DEF ContextTypeOK
  <1>. DEFINE K == Len(SaveOrder)
              k == Len(Under(m, l)) + 3 * n + 1
  <1>2. /\ Len(s) = k + K /\ IsFlags(m, l, n, s[k]) /\ Levels(m, l, n, s)
        /\ \A i \in 1..K : s[k + i] = Own(m, SaveOrder[i])
        /\ Bytes(s) = Full(m, l, n) + 1 + RestBytes /\ Nested(s) = n
    BY <1>1 DEF Saved
  <1>3. Restore(m, s)
    <2>1. stackPtr[m] = <<m, Len(s)>>
      BY <1>1 DEF Saved
    <2>2. stackPtr[m][1] = m /\ stackPtr[m][2] = Len(s)
      BY <2>1
    <2>3. SubSeq(stack[stackPtr[m][1]], 1, stackPtr[m][2]) = s
      BY <1>1, <2>2, Whole
    <2>. QED
      BY <2>2, <2>3
  <1>4. /\ K \in {4, 6} /\ Len(RestoreOrder) = K /\ DOMAIN RestoreOrder = 1..K
        /\ \A i \in 1..K : SaveOrder[i] \in Registers /\ SaveOrder[i] # "r0"
    <2>1. DOMAIN RestoreOrder = 1..Len(RestoreOrder)
      <3>1. CASE port = "mega2560"
        BY <3>1 DEF RestoreOrder, RestoreOrder2560
      <3>2. CASE port # "mega2560"
        BY <3>2 DEF RestoreOrder, RestoreOrder128
      <3>. QED
        BY <3>1, <3>2
    <2>. QED
      BY <2>1, OrderLength
  <1>5. k \in Nat /\ k >= 1 /\ k - 1 = Len(Under(m, l)) + 3 * n /\ Len(Under(m, l)) \in Nat
    BY UnderIs
  <1>6. /\ \A q \in Registers \ {"r0"} : \E i \in 1..K : SaveOrder[i] = q
        /\ \A i \in 1..K : RestoreOrder[i] = SaveOrder[K + 1 - i]
    BY Order
  <1>. HIDE DEF K, k
  <1>7. Reverse(s)[K + 1] = s[k] /\ \A i \in 1..K : Reverse(s)[i] = s[k + (K + 1 - i)]
    <2>1. \A i \in 1..Len(s) : Reverse(s)[i] = s[Len(s) - i + 1]
      BY DEF Reverse
    <2>2. Len(s) - (K + 1) + 1 = k /\ \A i \in 1..K : Len(s) - i + 1 = k + (K + 1 - i)
      BY <1>2, <1>4, <1>5
    <2>3. K + 1 \in 1..Len(s) /\ \A i \in 1..K : i \in 1..Len(s)
      BY <1>2, <1>4, <1>5
    <2>. QED
      BY <2>1, <2>2, <2>3
  <1>8. PICK f \in Words : f = s[k] /\ f[1] = "SREG" /\ IsFlags(m, l, n, f)
    BY <1>2, FlagsIn
  <1>9. PICK p \in Seq(Words) : p = SubSeq(s, 1, k) /\ Len(p) = k
                                /\ Bytes(p) = Full(m, l, n) + 1 /\ Nested(p) = n
    <2>1. /\ SubSeq(s, 1, k) \in Seq(Words) /\ Len(SubSeq(s, 1, k)) = k
          /\ Bytes(s) = Bytes(SubSeq(s, 1, k)) + RestBytes
          /\ Nested(s) = Nested(SubSeq(s, 1, k))
      BY <1>2, <1>5, SavedBytes DEF K
    <2>2. Bytes(SubSeq(s, 1, k)) \in Nat /\ RestBytes \in Nat /\ Full(m, l, n) \in Nat
      BY <2>1, Naturals1, FullNext DEF RestBytes
    <2>3. Bytes(SubSeq(s, 1, k)) = Full(m, l, n) + 1
      BY <1>2, <2>1, <2>2, SMTT(30)
    <2>. QED
      BY <1>2, <2>1, <2>3
  <1>10. p # <<>> /\ Last(p) = f
    BY <1>2, <1>4, <1>5, <1>8, <1>9 DEF Last
  <1>11. PICK r \in Seq(Words) : r = Front(p)
    BY <1>10, Popped
  <1>12. Len(r) = k - 1 /\ Bytes(r) = Full(m, l, n) /\ Nested(r) = n
    <2>1. Size(f) = 1 /\ OneIf(f, "isr") = 0
      BY <1>8, Sizes
    <2>2. /\ Len(r) = Len(p) - 1 /\ Bytes(r) = Bytes(p) - 1 /\ Nested(r) = Nested(p) - 0
      BY <1>10, <1>11, <2>1, Popped
    <2>3. Full(m, l, n) \in Nat
      BY FullNext
    <2>. QED
      BY <1>9, <2>2, <2>3
  <1>13. r = Drop(s, K + 1) /\ \A i \in 1..(k - 1) : r[i] = s[i]
    <2>1. Len(s) - (K + 1) = k - 1
      BY <1>2, <1>4, <1>5
    <2>2. r = SubSeq(p, 1, k - 1)
      BY <1>9, <1>11 DEF Front
    <2>3. SubSeq(SubSeq(s, 1, k), 1, k - 1) = SubSeq(s, 1, k - 1)
      BY <1>2, <1>4, <1>5
    <2>4. \A i \in 1..(k - 1) : SubSeq(s, 1, k - 1)[i] = s[i]
      BY <1>2, <1>4, <1>5
    <2>. QED
      BY <1>9, <2>1, <2>2, <2>3, <2>4 DEF Drop
  <1>14. Levels(m, l, n, r)
    <2>1. /\ Len(r) \in Nat /\ Len(s) \in Nat /\ Len(r) <= Len(s)
          /\ \A i \in 1..Len(r) : r[i] = s[i] /\ Len(Under(m, l)) <= Len(r)
      BY <1>2, <1>4, <1>5, <1>12, <1>13
    <2>2. Len(Under(m, l)) <= Len(r)
      BY <1>5, <1>12, SMTT(30)
    <2>. QED
      BY <1>2, <1>5, <2>1, <2>2, LevelsOff
  <1>15. /\ stack' = [stack EXCEPT ![Kernel] = Front(@), ![m] = r]
         /\ kStackPointer' = Len(stack'[Kernel]) /\ sp' = m
         /\ reg' = [q \in Registers |->
                      IF q = "r0" THEN f
                      ELSE Reverse(s)[CHOOSE i \in DOMAIN RestoreOrder : RestoreOrder[i] = q]]
         /\ IF port = "mega2560"
            THEN pc' = "unmasked" /\ sreg' = Unmasked(sreg)
            ELSE pc' = "restoring" /\ sreg' = f
    <2>. DEFINE at(q) == Reverse(s)[CHOOSE i \in DOMAIN RestoreOrder : RestoreOrder[i] = q]
    <2>1. /\ stack' = [stack EXCEPT ![Kernel] = Front(@),
                                    ![m] = Drop(s, Len(RestoreOrder) + 1)]
          /\ kStackPointer' = Len(stack'[Kernel]) /\ sp' = m
          /\ reg' = [q \in Registers |->
                       IF q = "r0" THEN Reverse(s)[Len(RestoreOrder) + 1]
                       ELSE at(q)]
          /\ IF port = "mega2560"
             THEN pc' = "unmasked" /\ sreg' = Unmasked(sreg)
             ELSE pc' = "restoring" /\ sreg' = Reverse(s)[Len(RestoreOrder) + 1]
      BY <1>3 DEF Restore
    <2>. HIDE DEF at
    <2>2. Len(RestoreOrder) + 1 = K + 1 /\ Reverse(s)[K + 1] = f
      BY <1>4, <1>7, <1>8
    <2>3. Drop(s, Len(RestoreOrder) + 1) = r /\ Reverse(s)[Len(RestoreOrder) + 1] = f
      BY <1>13, <2>2
    <2>4. /\ stack' = [stack EXCEPT ![Kernel] = Front(@), ![m] = r]
          /\ reg' = [q \in Registers |-> IF q = "r0" THEN f ELSE at(q)]
          /\ IF port = "mega2560"
             THEN pc' = "unmasked" /\ sreg' = Unmasked(sreg)
             ELSE pc' = "restoring" /\ sreg' = f
      BY <2>1, <2>3
    <2>. QED
      BY <2>1, <2>4 DEF at
  <1>16. /\ stack' = [stack EXCEPT ![Kernel] = <<>>, ![m] = r]
         /\ kStackPointer' = 0
    <2>1. Kernel # m /\ stack \in [Task \cup {Kernel} -> Seq(Words)]
      BY ContextAssumption DEF ContextTypeOK
    <2>2. Front(stack[Kernel]) = <<>>
      <3>1. stack[Kernel] = <<Label("kernel")>>
        BY DEF KernelStack
      <3>2. Front(<<Label("kernel")>>) = <<>>
        BY DEF Front
      <3>. QED
        BY <3>1, <3>2
    <2>3. stack'[Kernel] = <<>>
      BY <1>15, <2>1, <2>2
    <2>. QED
      BY <1>15, <2>2, <2>3
  <1>17. ASSUME NEW q \in Registers \ {"r0"}
         PROVE  reg'[q] = Own(m, q)
    <2>. DEFINE i == CHOOSE i \in DOMAIN RestoreOrder : RestoreOrder[i] = q
    <2>1. \E j \in 1..K : RestoreOrder[j] = q
      <3>1. PICK j \in 1..K : SaveOrder[j] = q
        BY <1>6
      <3>2. K + 1 - j \in 1..K /\ K + 1 - (K + 1 - j) = j
        BY <1>4, SMTT(30)
      <3>. QED
        BY <1>6, <3>1, <3>2
    <2>2. i \in 1..K /\ RestoreOrder[i] = q
      BY <1>4, <2>1
    <2>3. reg'[q] = Reverse(s)[i]
      BY <1>15
    <2>. HIDE DEF i
    <2>4. K + 1 - i \in 1..K /\ SaveOrder[K + 1 - i] = q
      BY <1>4, <1>6, <2>2
    <2>. QED
      BY <1>2, <1>7, <2>2, <2>3, <2>4
  <1>18. reg'["r0"] = f /\ reg' \in [Registers -> Words]
    <2>1. "r0" \in Registers
      BY DEF Registers
    <2>2. \A q \in Registers \ {"r0"} : Own(m, q) \in Words
      BY OwnIn
    <2>3. reg'["r0"] = f
      BY <1>15, <2>1
    <2>4. \A q \in Registers : reg'[q] \in Words
      BY <1>17, <2>2, <2>3
    <2>. QED
      BY <1>15, <2>3, <2>4
  <1>19. Len(r) = Len(Under(m, l)) + 3 * n
    BY <1>5, <1>12
  <1>20. IsRestored(m, l, n, r, f)
    BY <1>8, <1>12, <1>14, <1>15, <1>16, <1>17, <1>18, <1>19 DEF IsRestored
  <1>. QED
    BY <1>20

LEMMA DispatchKeeps ==
    ASSUME ContextInv, NEW m \in Task, Dispatch(m)
    PROVE  ContextInv'
  <1>1. /\ ContextTypeOK /\ Parked /\ Sections /\ KernelStack /\ StackSuffices
        /\ pc = "kernel" /\ m \in MaySwitchTo
    BY DEF ContextInv, Dispatch
  <1>2. PICK c \in Task, k \in Stops, j \in Nat : currentTask = c /\ InKernel(c, k, j)
    BY <1>1, Where DEF ContextInv, Whereabouts, Switching
  <1>3. started /\ ~Enabled(sreg) /\ Saved(c, k, j) /\ Rests(c, k) /\ MayNest(k, j)
    BY <1>2 DEF InKernel, Saved
  <1>4. PICK l \in Stops, n \in Nat : Saved(m, l, n)
    <2>1. CASE m = c
      BY <1>2, <1>3, <2>1
    <2>2. CASE m # c
      <3>1. m \in live
        BY <1>1, <1>2, <2>2 DEF MaySwitchTo
      <3>2. IsSaved(m)
        BY <1>1, <1>2, <2>2, <3>1 DEF Parked
      <3>. QED
        BY <3>2 DEF IsSaved
    <2>. QED
      BY <2>1, <2>2
  <1>5. Rests(m, l) /\ MayNest(l, n) /\ (n = 0 => l = "unmasked")
    BY <1>4 DEF Saved
  <1>6. open[c] = <<>> /\ (m # c => kCriticalNesting = 0)
    BY <1>1, <1>2, <1>3 DEF MaySwitchTo, Rests
  <1>7. PICK r \in Seq(Words), f \in Words : IsRestored(m, l, n, r, f)
    <2>1. Restore(stackPtr[m][1], SubSeq(stack[stackPtr[m][1]], 1, stackPtr[m][2]))
      BY DEF Dispatch
    <2>. QED
      BY <1>1, <1>4, <2>1, Restored
  <1>8. /\ port' = port /\ stackPtr' = stackPtr /\ spoiled' = spoiled /\ live' = live
        /\ own' = own /\ kCriticalNesting' = kCriticalNesting /\ open' = open
        /\ started' = started /\ computed' = computed /\ currentTask' = m
        /\ panicked' = panicked \cup (IF m # c /\ Reported(c) THEN {c} ELSE {})
    BY <1>2 DEF Dispatch, sections
  <1>9. /\ Kernel # m /\ stack'[m] = r /\ stack'[Kernel] = <<>>
        /\ \A t \in Task : t # m => stack'[t] = stack[t]
        /\ stack' \in [Task \cup {Kernel} -> Seq(Words)]
    <2>1. Kernel \notin Task /\ stack \in [Task \cup {Kernel} -> Seq(Words)]
          /\ <<>> \in Seq(Words)
      BY <1>1, ContextAssumption DEF ContextTypeOK
    <2>2. stack' = [stack EXCEPT ![Kernel] = <<>>, ![m] = r]
      BY <1>7 DEF IsRestored
    <2>. QED
      BY <2>1, <2>2
  <1>10. f[1] = "SREG" /\ IsFlags(m, l, n, f)
    BY <1>1, <1>7, FlagsIn DEF IsRestored
  <1>11. StackSuffices' /\ panicked' \subseteq Task \ {Idle}
    <2>1. ASSUME own[c] + Reserve + TopOffset <= StackSize, c # Idle
          PROVE  ~Reported(c)
      <3>1. PICK s \in Seq(Words) : s = stack[c]
        BY <1>1 DEF ContextTypeOK
      <3>2. SubSeq(stack[c], 1, stackPtr[c][2]) = s /\ Bytes(s) <= Reserve
        <4>1. stackPtr[c] = <<c, Len(s)>> /\ Bytes(s) = Full(c, k, j) + 1 + RestBytes
          BY <1>3, <3>1 DEF Saved
        <4>2. stackPtr[c][2] = Len(s)
          BY <4>1
        <4>3. SubSeq(s, 1, Len(s)) = s
          BY Whole
        <4>4. Bytes(s) <= Reserve
          BY <1>1, <1>3, <4>1, ContextFits
        <4>. QED
          BY <3>1, <4>2, <4>3, <4>4
      <3>3. Address(c, s) \in 0..StackSize
        BY <1>1, <2>1, <3>2, WithinStack
      <3>4. ~OutOfBounds(c)
        BY <3>2, <3>3 DEF OutOfBounds
      <3>5. c \notin spoiled
        BY <1>1, <2>1 DEF StackSuffices
      <3>. QED
        BY <3>4, <3>5 DEF Reported, RegionBroken
    <2>2. Reported(c) => c # Idle
      BY DEF Reported
    <2>3. Reserve' = Reserve /\ TopOffset' = TopOffset
      BY <1>8 DEF Reserve, TopOffset
    <2>. HIDE DEF Reserve, TopOffset
    <2>4. StackSuffices'
      BY <1>1, <1>8, <2>1, <2>2, <2>3 DEF StackSuffices
    <2>. QED
      BY <1>1, <1>8, <2>2, <2>4 DEF ContextTypeOK
  <1>12. /\ sp' = m /\ kStackPointer' = 0 /\ reg' \in [Registers -> Words]
         /\ pc' \in {"unmasked", "restoring"} /\ sreg' \in Words /\ sreg'[1] = "SREG"
         /\ pc' = "unmasked" <=> port = "mega2560"
    <2>1. sreg \in Words /\ sreg[1] = "SREG"
      BY <1>1 DEF ContextTypeOK
    <2>2. Unmasked(sreg) \in Words /\ Unmasked(sreg)[1] = "SREG"
      BY <2>1, Masking1
    <2>. QED
      BY <1>7, <1>10, <2>2 DEF IsRestored
  <1>13. ContextTypeOK'
    BY <1>1, <1>8, <1>9, <1>11, <1>12, SamePort DEF ContextTypeOK, Labels
  <1>14. Parked'
    <2>. SUFFICES ASSUME NEW t \in live', t # m
                  PROVE  IsSaved(t)'
      BY <1>8 DEF Parked
    <2>1. t \in Task /\ t \in live
      BY <1>1, <1>8 DEF ContextTypeOK
    <2>2. PICK i \in Stops, q \in Nat : Saved(t, i, q)
      BY <1>1, <1>2, <1>3, <2>1 DEF Parked, IsSaved
    <2>3. Saved(t, i, q)'
      BY <1>8, <1>9, <2>1, <2>2, SavedKept
    <2>. QED
      BY <2>3 DEF IsSaved, Stops
  <1>15. Sections'
    <2>1. \A t \in Task : Remembers(t) => Remembers(t)'
      BY <1>8 DEF Remembers, Own, Word, Masked, Enabled
    <2>2. \A t \in Task : t # m => open[t] = <<>>
      BY <1>1, <1>2, <1>6 DEF Sections
    <2>3. kCriticalNesting = (IF port = "mega2560" THEN 0 ELSE Depth(open[m]))
      <3>1. CASE m = c
        BY <1>1, <1>2, <3>1 DEF Sections
      <3>2. CASE m # c
        <4>1. open[m] = <<>>
          BY <1>1, <1>2, <3>2 DEF Sections
        <4>2. Depth(open[m]) = 0
          BY <4>1, CountNone DEF Depth
        <4>. QED
          BY <1>6, <3>2, <4>2
      <3>. QED
        BY <3>1, <3>2
    <2>4. \A t : Depth(open[t])' = Depth(open[t])
      BY <1>8 DEF Depth, Count
    <2>5. \A t \in Task : currentTask' = t => t = m
      BY <1>8
    <2>6. \A t \in Task : Remembers(t) /\ Len(open[t]) <= MaxOpen
      BY <1>1 DEF Sections
    <2>. QED
      BY <1>8, <2>1, <2>2, <2>3, <2>4, <2>5, <2>6 DEF Sections
  <1>16. KernelStack' /\ Phases'
    BY <1>3, <1>8, <1>9, <1>12 DEF KernelStack, Phases
  <1>17. OtherRegisters(m)'
    <2>1. \A q : Own(m, q)' = Own(m, q)
      BY <1>8 DEF Own, Word
    <2>2. \A q \in Registers \ {"r0"} : reg'[q] = Own(m, q)
      BY <1>7 DEF IsRestored
    <2>. QED
      BY <1>8, <1>12, <2>1, <2>2, SamePort DEF OtherRegisters
  <1>18. /\ Levels(m, l, n, r) /\ Len(r) = Len(Under(m, l)) + 3 * n /\ reg'["r0"] = f
         /\ Bytes(r) = Full(m, l, n) /\ Nested(r) = n
         /\ IF port = "mega2560" THEN pc' = "unmasked" /\ sreg' = Unmasked(sreg)
                                 ELSE pc' = "restoring" /\ sreg' = f
    BY <1>7 DEF IsRestored
  <1>19. Rests(m, l)'
    BY <1>5, <1>8, RestsKept
  <1>20. port = "mega2560" => Enabled(sreg')
    <2>1. sreg \in Words
      BY <1>1 DEF ContextTypeOK
    <2>. QED
      BY <1>18, <2>1, Masking1
  <1>21. CASE n = 0
    <2>1. l = "unmasked" /\ IsSreg(m, f)
      BY <1>5, <1>10, <1>21 DEF IsFlags
    <2>2. r = Under(m, "unmasked")
      <3>1. PICK u \in Nat : u = Len(Under(m, l)) /\ Under(m, l) \in Seq(Words)
        BY <1>1, UnderIs
      <3>2. Len(r) = u /\ \A i \in 1..u : r[i] = Under(m, l)[i]
        BY <1>18, <1>21, <3>1 DEF Levels
      <3>3. r = Under(m, l)
        BY <3>1, <3>2
      <3>. QED
        BY <2>1, <3>3
    <2>3. /\ IsSreg(m, f)' /\ Under(m, "unmasked")' = r
          /\ Under(m, "restoring")' = r
      <3>1. Under(m, "restoring") = Under(m, "unmasked")
        BY DEF Under
      <3>. QED
        BY <1>8, <2>1, <2>2, <3>1, SameTask
    <2>4. IsR0(m, "unmasked", f)' /\ IsR0(m, "restoring", f)'
      BY <2>3 DEF IsR0
    <2>5. CASE port = "mega2560"
      <3>1. Enabled(sreg)'
        BY <1>20, <2>5 DEF Enabled
      <3>2. AtStop(m, "unmasked")'
        BY <1>3, <1>8, <1>9, <1>17, <1>18, <1>19, <2>1, <2>3, <2>4, <2>5, <3>1 DEF AtStop
      <3>. QED
        BY <1>8, <1>11, <1>13, <1>14, <1>15, <1>16, <3>2, StopsAt DEF Stops
    <2>6. CASE port # "mega2560"
      <3>1. Rests(m, "restoring")'
        BY <1>5, <1>8, <2>1 DEF Rests, Stops
      <3>2. AtStop(m, "restoring")'
        BY <1>3, <1>8, <1>9, <1>17, <1>18, <2>3, <2>4, <2>6, <3>1 DEF AtStop
      <3>. QED
        BY <1>8, <1>11, <1>13, <1>14, <1>15, <1>16, <3>2, StopsAt DEF Stops
    <2>. QED
      BY <2>5, <2>6
  <1>22. CASE n # 0
    <2>1. IsFlags(m, l, n, f)' /\ Levels(m, l, n, r)' /\ MayNest(l, n)'
      BY <1>5, <1>8, <1>10, <1>18, SameTask, SamePort
    <2>2. Under(m, l)' = Under(m, l) /\ Full(m, l, n)' = Full(m, l, n)
          /\ Bytes(r)' = Bytes(r)
      BY <1>8, SameTask, SamePort
    <2>3. Leaves(m, l, n)'
      BY <1>3, <1>8, <1>9, <1>17, <1>19, <1>22, <2>1 DEF Leaves
    <2>4. CASE port = "mega2560"
      <3>1. Enabled(sreg)'
        BY <1>20, <2>4 DEF Enabled
      <3>2. LeavesUnmasked(m, l, n)'
        BY <1>9, <1>18, <2>1, <2>2, <2>3, <2>4, <3>1 DEF LeavesUnmasked
      <3>. QED
        BY <1>8, <1>11, <1>13, <1>14, <1>15, <1>16, <3>2, LeavesOn
    <2>5. CASE port # "mega2560"
      <3>1. LeavesRestoring(m, l, n)'
        BY <1>9, <1>18, <2>1, <2>2, <2>3, <2>5 DEF LeavesRestoring
      <3>. QED
        BY <1>8, <1>11, <1>13, <1>14, <1>15, <1>16, <3>1, LeavesOn
    <2>. QED
      BY <2>4, <2>5
  <1>. QED
    BY <1>21, <1>22

-----------------------------------------------------------------------------
\* Sections a task is in, and what the critical ones keep on its stack.
LEMMA DepthIn ==
    ASSUME NEW S, NEW o \in Seq(S)
    PROVE  Depth(o) \in Nat /\ Depth(o) <= Len(o)
  <1>. DEFINE A == {j \in DOMAIN o : o[j][1] \in {"critical"}}
  <1>1. Depth(o) = Cardinality(A) /\ IsFiniteSet(A)
    BY CountSet DEF Depth, Count
  <1>2. A \in SUBSET (1..Len(o)) /\ Len(o) \in Int /\ 0 <= Len(o)
    OBVIOUS
  <1>. HIDE DEF A
  <1>3. IsFiniteSet(1..Len(o)) /\ Cardinality(1..Len(o)) = Len(o)
    <2>1. PICK n \in Nat : n = Len(o)
      OBVIOUS
    <2>2. 1 \in Int /\ n \in Int /\ (IF 1 > n THEN 0 ELSE n - 1 + 1) = n
      OBVIOUS
    <2>3. /\ IsFiniteSet(1..n)
          /\ Cardinality(1..n) = IF 1 > n THEN 0 ELSE n - 1 + 1
      BY <2>2, FS_Interval
    <2>4. Cardinality(1..n) = n
      BY <2>2, <2>3
    <2>. QED
      BY <2>1, <2>3, <2>4
  <1>4. /\ IsFiniteSet(A) /\ Cardinality(A) <= Cardinality(1..Len(o))
        /\ Cardinality(A) \in Nat
    BY <1>1, <1>2, <1>3, FS_Subset, FS_CardinalityType
  <1>. QED
    BY <1>1, <1>3, <1>4

IsOneOn(q, s, w) ==
    /\ q = Append(s, w)
    /\ Len(q) = Len(s) + 1 /\ q[Len(s) + 1] = w /\ DOMAIN q = 1..(Len(s) + 1)
    /\ Len(s) \in Nat /\ DOMAIN s = 1..Len(s)
    /\ \A i \in 1..Len(s) : q[i] = s[i]

LEMMA AppendedTo ==
    ASSUME NEW S, NEW s \in Seq(S), NEW w \in S
    PROVE  \E q \in Seq(S) : IsOneOn(q, s, w)
  <1>1. Append(s, w) \in Seq(S)
    OBVIOUS
  <1>2. PICK q \in Seq(S) : q = Append(s, w)
    BY <1>1
  <1>3. /\ Len(q) = Len(s) + 1 /\ q[Len(s) + 1] = w /\ DOMAIN q = 1..(Len(s) + 1)
        /\ Len(s) \in Nat /\ DOMAIN s = 1..Len(s)
        /\ \A i \in 1..Len(s) : q[i] = s[i]
    BY <1>2
  <1>4. IsOneOn(q, s, w)
    BY <1>2, <1>3 DEF IsOneOn
  <1>. QED
    BY <1>4

LEMMA DepthAppend ==
    ASSUME NEW S, NEW o \in Seq(S), NEW w \in S
    PROVE  Depth(Append(o, w)) = Depth(o) + (IF w[1] = "critical" THEN 1 ELSE 0)
  <1>1. PICK q \in Seq(S) : q = Append(o, w)
    <2>1. Append(o, w) \in Seq(S)
      OBVIOUS
    <2>. QED
      BY <2>1
  <1>2. /\ SubSeq(q, 1, Len(o)) = o /\ SubSeq(q, 1, Len(o) + 1) = q
        /\ q[Len(o) + 1] = w /\ Len(o) \in 0..(Len(q) - 1)
    BY <1>1
  <1>3. Count(SubSeq(q, 1, Len(o) + 1), {"critical"}) =
           Count(SubSeq(q, 1, Len(o)), {"critical"})
             + (IF q[Len(o) + 1][1] \in {"critical"} THEN 1 ELSE 0)
    BY <1>2, CountPrefix
  <1>. QED
    BY <1>1, <1>2, <1>3 DEF Depth

LEMMA DepthFront ==
    ASSUME NEW S, NEW o \in Seq(S), o # <<>>
    PROVE  /\ Front(o) \in Seq(S) /\ Len(Front(o)) = Len(o) - 1 /\ Last(o) = o[Len(o)]
           /\ Len(o) \in Nat \ {0} /\ \A i \in 1..(Len(o) - 1) : Front(o)[i] = o[i]
           /\ Depth(o) = Depth(Front(o)) + (IF Last(o)[1] = "critical" THEN 1 ELSE 0)
  <1>1. Len(o) \in Nat \ {0}
    OBVIOUS
  <1>2. Front(o) = SubSeq(o, 1, Len(o) - 1) /\ Last(o) = o[Len(o)]
    BY DEF Front, Last
  <1>3. PICK k \in Nat : k = Len(o) - 1 /\ Len(o) = k + 1
    BY <1>1
  <1>4. SubSeq(o, 1, k) \in Seq(S)
    BY <1>3
  <1>5. PICK q \in Seq(S) : q = SubSeq(o, 1, k)
    BY <1>4
  <1>6. Len(q) = k /\ \A i \in 1..k : q[i] = o[i]
    BY <1>3, <1>5
  <1>7. Count(SubSeq(o, 1, k + 1), {"critical"}) =
           Count(SubSeq(o, 1, k), {"critical"})
             + (IF o[k + 1][1] \in {"critical"} THEN 1 ELSE 0)
    <2>1. k \in 0..(Len(o) - 1)
      BY <1>3
    <2>. QED
      BY <2>1, CountPrefix
  <1>8. SubSeq(o, 1, k + 1) = o
    BY <1>3, Whole
  <1>9. Depth(o) = Depth(q) + (IF Last(o)[1] = "critical" THEN 1 ELSE 0)
    BY <1>2, <1>3, <1>5, <1>7, <1>8 DEF Depth
  <1>. QED
    BY <1>1, <1>2, <1>3, <1>5, <1>6, <1>9

LEMMA EecrIn == Eecr \in Words
  <1>1. <<"EECR", Kernel, 0, 0>> \in Words
    BY WordOf
  <1>. QED
    BY <1>1 DEF Eecr, Word

LEMMA HoldsOneMore ==
    ASSUME NEW S, NEW base \in Seq(Words), NEW s \in Seq(Words), NEW o \in Seq(S),
           NEW w \in S, w[1] = "critical", Holds(base, s, o)
    PROVE  Holds(base, Append(s, Eecr), Append(o, w))
  <1>1. PICK r \in Seq(Words) : IsOneOn(r, s, Eecr)
    BY AppendedTo, EecrIn
  <1>2. PICK b \in Nat, d \in Nat : b = Len(base) /\ d = Depth(o) /\ Len(s) = b + d
    <2>1. Len(base) \in Nat /\ Depth(o) \in Nat
      BY DepthIn
    <2>. QED
      BY <2>1 DEF Holds
  <1>3. Depth(Append(o, w)) = d + 1
    BY <1>2, DepthAppend
  <1>4. /\ Len(r) = (b + d) + 1 /\ r[(b + d) + 1] = Eecr
        /\ \A i \in 1..(b + d) : r[i] = s[i]
    BY <1>1, <1>2 DEF IsOneOn
  <1>5. \A i \in 1..b : r[i] = base[i]
    <2>1. \A i \in 1..b : s[i] = base[i]
      BY <1>2 DEF Holds
    <2>2. \A i \in 1..b : i \in 1..(b + d)
      OBVIOUS
    <2>. QED
      BY <1>4, <2>1, <2>2
  <1>6. \A i \in 1..(d + 1) : r[b + i] = Eecr
    <2>1. \A i \in 1..d : s[b + i] = Eecr
      BY <1>2 DEF Holds
    <2>2. /\ \A i \in 1..d : b + i \in 1..(b + d)
          /\ \A i \in 1..(d + 1) : i \in 1..d \/ b + i = (b + d) + 1
      OBVIOUS
    <2>3. \A i \in 1..d : r[b + i] = Eecr
      BY <1>4, <2>1, <2>2
    <2>. QED
      BY <1>4, <2>2, <2>3
  <1>7. Len(r) = b + (d + 1)
    BY <1>4
  <1>8. Holds(base, r, Append(o, w))
    BY <1>2, <1>3, <1>5, <1>6, <1>7 DEF Holds
  <1>. QED
    BY <1>1, <1>8 DEF IsOneOn

LEMMA HoldsSafe ==
    ASSUME NEW S, NEW base, NEW s, NEW o \in Seq(S), NEW w \in S, w[1] # "critical",
           Holds(base, s, o)
    PROVE  Holds(base, s, Append(o, w))
  <1>1. Depth(Append(o, w)) = Depth(o)
    BY DepthAppend, DepthIn
  <1>. QED
    BY <1>1 DEF Holds

LEMMA HoldsOneLess ==
    ASSUME NEW S, NEW base \in Seq(Words), NEW s \in Seq(Words), NEW o \in Seq(S),
           o # <<>>, Last(o)[1] = "critical", Holds(base, s, o)
    PROVE  /\ s # <<>> /\ Front(s) \in Seq(Words)
           /\ Holds(base, Front(s), Front(o))
  <1>1. PICK q \in Seq(S) : q = Front(o) /\ Depth(o) = Depth(q) + 1
    BY DepthFront
  <1>2. PICK b \in Nat, d \in Nat :
           b = Len(base) /\ d = Depth(q) /\ Depth(o) = d + 1 /\ Len(s) = b + (d + 1)
    <2>1. Len(base) \in Nat /\ Depth(q) \in Nat
      BY DepthIn
    <2>. QED
      BY <1>1, <2>1 DEF Holds
  <1>3. s # <<>>
    BY <1>2
  <1>4. PICK r \in Seq(Words) : r = Front(s)
    BY <1>3, Popped
  <1>5. Len(r) = b + d /\ \A i \in 1..(b + d) : r[i] = s[i]
    <2>1. PICK k \in Nat : k = b + d /\ Len(s) = k + 1
      <3>1. b + d \in Nat /\ b + (d + 1) = (b + d) + 1
        OBVIOUS
      <3>2. Len(s) = (b + d) + 1
        BY <1>2, <3>1
      <3>. QED
        BY <3>1, <3>2
    <2>2. r = SubSeq(s, 1, k)
      <3>1. Len(s) - 1 = k
        BY <2>1
      <3>. QED
        BY <1>4, <3>1 DEF Front
    <2>3. Len(r) = k /\ \A i \in 1..k : r[i] = s[i]
      <3>1. 1 + k - 1 = k /\ \A i \in 1..k : i \in 1..(k + 1) /\ 1 + i - 1 = i
        OBVIOUS
      <3>2. \A i \in 1..k : i \in 1..Len(s)
        BY <2>1, <3>1
      <3>. QED
        BY <2>1, <2>2, <3>1, <3>2
    <2>. QED
      BY <2>1, <2>3
  <1>6. \A i \in 1..b : r[i] = base[i]
    <2>1. \A i \in 1..b : s[i] = base[i]
      BY <1>2 DEF Holds
    <2>2. \A i \in 1..b : i \in 1..(b + d)
      OBVIOUS
    <2>. QED
      BY <1>5, <2>1, <2>2
  <1>7. \A i \in 1..d : r[b + i] = Eecr
    <2>1. \A i \in 1..d : b + i \in 1..(b + d) /\ i \in 1..(d + 1)
      OBVIOUS
    <2>2. \A i \in 1..(d + 1) : s[b + i] = Eecr
      BY <1>2 DEF Holds
    <2>. QED
      BY <1>5, <2>1, <2>2
  <1>8. Holds(base, r, q)
    BY <1>2, <1>5, <1>6, <1>7 DEF Holds
  <1>. QED
    BY <1>1, <1>3, <1>4, <1>8

LEMMA HoldsUnsafe ==
    ASSUME NEW S, NEW base, NEW s, NEW o \in Seq(S), o # <<>>, Last(o)[1] # "critical",
           Holds(base, s, o)
    PROVE  Holds(base, s, Front(o))
  <1>1. Depth(o) = Depth(Front(o)) + 0 /\ Front(o) \in Seq(S)
    BY DepthFront
  <1>2. Depth(Front(o)) = Depth(o)
    BY <1>1, DepthIn
  <1>. QED
    BY <1>2 DEF Holds

-----------------------------------------------------------------------------
\* The SREGs in the sections o of a task t that computed v, when the timer runs or not.
Remembered(o, t, v, running) ==
    \A i \in 1..Len(o) :
        /\ Masked(o[i][2]) = <<"SREG", t, v, 0>>
        /\ Enabled(o[i][2]) => running /\ i = 1

\* What a task's own code finds.
OwnFacts(t) ==
    /\ currentTask = t /\ AtOwn(t) /\ sp = t /\ t \in live
    /\ computed[t] \in {0, 1}
    /\ reg \in [Registers -> Words] /\ \A r \in Registers : reg[r] = <<r, t, computed[t], 0>>
    /\ sreg \in Words /\ sreg[1] = "SREG" /\ Masked(sreg) = <<"SREG", t, computed[t], 0>>
    /\ Enabled(sreg) => started /\ open[t] = <<>>
    /\ open[t] \in Seq({"critical", "safe"} \X Words) /\ Len(open[t]) <= MaxOpen
    /\ stack[t] \in Seq(Words) /\ Base(t) \in Seq(Words)
    /\ IF port = "mega2560" THEN Holds(Base(t), stack[t], open[t]) ELSE stack[t] = Base(t)
    /\ Remembered(open[t], t, computed[t], started)
    /\ kCriticalNesting = IF port = "mega2560" THEN 0 ELSE Depth(open[t])

LEMMA OwnHas ==
    ASSUME ContextInv, pc = "own"
    PROVE  \E t \in Task : OwnFacts(t)
  <1>1. PICK t \in Task : currentTask = t /\ AtOwn(t)
    BY Where DEF ContextInv, Whereabouts
  <1>2. ContextTypeOK /\ Sections
    BY DEF ContextInv
  <1>3. /\ computed[t] \in {0, 1} /\ reg \in [Registers -> Words] /\ sreg \in Words
        /\ sreg[1] = "SREG" /\ open[t] \in Seq({"critical", "safe"} \X Words)
        /\ stack[t] \in Seq(Words) /\ Base(t) \in Seq(Words)
    BY <1>2, UnderIs DEF ContextTypeOK
  <1>4. /\ sp = t /\ t \in live /\ OwnStack(t) /\ Masked(sreg) = Own(t, "SREG")
        /\ \A r \in Registers : reg[r] = Own(t, r)
        /\ Enabled(sreg) => started /\ open[t] = <<>>
    BY <1>1 DEF AtOwn, OtherRegisters
  <1>5. \A r : Own(t, r) = <<r, t, computed[t], 0>>
    BY DEF Own, Word
  <1>6. Remembers(t) /\ Len(open[t]) <= MaxOpen
        /\ kCriticalNesting = IF port = "mega2560" THEN 0 ELSE Depth(open[t])
    BY <1>1, <1>2 DEF Sections
  <1>7. Remembered(open[t], t, computed[t], started)
    <2>1. DOMAIN open[t] = 1..Len(open[t])
      BY <1>3
    <2>. QED
      BY <1>5, <1>6, <2>1 DEF Remembers, Remembered
  <1>8. OwnFacts(t)
    BY <1>1, <1>3, <1>4, <1>5, <1>6, <1>7 DEF OwnFacts, OwnStack
  <1>. QED
    BY <1>8

\* A step of a task's own code: what is new is s on its stack, o, v, and f in SREG.
IsOwnStep(t, s, o, v, f) ==
    /\ currentTask = t /\ pc = "own" /\ pc' = "own" /\ port' = port /\ sp' = t
    /\ currentTask' = currentTask /\ stackPtr' = stackPtr /\ kStackPointer' = kStackPointer
    /\ own' = own /\ panicked' = panicked /\ spoiled' = spoiled /\ live' = live /\ t \in live
    /\ started' \in BOOLEAN /\ (started => started')
    /\ stack' = [stack EXCEPT ![t] = s] /\ open' = [open EXCEPT ![t] = o]
    /\ Len(o) <= MaxOpen /\ computed' = [computed EXCEPT ![t] = v]
    /\ sreg' = f /\ f[1] = "SREG" /\ Masked(f) = <<"SREG", t, v, 0>>
    /\ Enabled(f) => started' /\ o = <<>>
    /\ reg' \in [Registers -> Words] /\ \A r \in Registers : reg'[r] = <<r, t, v, 0>>
    /\ IF port = "mega2560" THEN Holds(Base(t), s, o) ELSE s = Base(t)
    /\ Remembered(o, t, v, started')
    /\ kCriticalNesting' = IF port = "mega2560" THEN 0 ELSE Depth(o)
    /\ kCriticalNesting' \in 0..255

LEMMA OwnStep ==
    ASSUME ContextInv, NEW t \in Task, NEW s \in Seq(Words),
           NEW o \in Seq({"critical", "safe"} \X Words), NEW v \in {0, 1}, NEW f \in Words,
           IsOwnStep(t, s, o, v, f)
    PROVE  ContextInv'
  <1>. USE DEF IsOwnStep
  <1>1. ContextTypeOK /\ Parked /\ Sections /\ KernelStack /\ Phases /\ StackSuffices
    BY DEF ContextInv
  <1>2. /\ Kernel # t /\ stack'[t] = s /\ stack'[Kernel] = stack[Kernel]
        /\ \A u \in Task : u # t => stack'[u] = stack[u]
        /\ stack' \in [Task \cup {Kernel} -> Seq(Words)]
    BY <1>1, ContextAssumption DEF ContextTypeOK
  <1>3. /\ open'[t] = o /\ \A u \in Task : u # t => open'[u] = open[u]
        /\ open' \in [Task -> Seq({"critical", "safe"} \X Words)]
    BY <1>1 DEF ContextTypeOK
  <1>4. /\ computed'[t] = v /\ \A u \in Task : u # t => computed'[u] = computed[u]
        /\ computed' \in [Task -> {0, 1}]
    BY <1>1 DEF ContextTypeOK
  <1>5. StackSuffices'
    BY <1>1, SpoilsSame
  <1>6. ContextTypeOK'
    BY <1>1, <1>2, <1>3, <1>4, SamePort DEF ContextTypeOK
  <1>7. Parked'
    BY <1>1, <1>2, <1>3, <1>4, ParkedKept
  <1>9. Own(t, "SREG")' = <<"SREG", t, v, 0>>
        /\ \A r \in Registers : reg'[r] = Own(t, r)'
    BY <1>4 DEF Own, Word
  <1>10. Remembers(t)'
    <2>1. DOMAIN o = 1..Len(o)
      OBVIOUS
    <2>2. \A i \in 1..Len(o) :
             /\ Masked(o[i][2]) = <<"SREG", t, v, 0>>
             /\ Enabled(o[i][2]) => started' /\ i = 1
      BY DEF Remembered
    <2>. QED
      BY <1>3, <1>9, <2>1, <2>2 DEF Remembers, Masked, Enabled
  <1>11. Sections'
    <2>1. \A u \in Task : u # t => open'[u] = <<>>
      BY <1>1, <1>3 DEF Sections
    <2>2. \A u \in Task : u # t => Remembers(u)' /\ Len(open'[u]) <= MaxOpen
      <3>1. DOMAIN <<>> = {} /\ Len(<<>>) <= MaxOpen
        BY ContextAssumption
      <3>. QED
        BY <2>1, <3>1 DEF Remembers
    <2>3. Depth(open[t])' = Depth(o)
      BY <1>3 DEF Depth, Count
    <2>. QED
      BY <1>3, <1>10, <2>1, <2>2, <2>3 DEF Sections
  <1>12. KernelStack' /\ Phases'
    BY <1>1, <1>2 DEF KernelStack, Phases
  <1>13. OwnStack(t)'
    <2>1. Base(t)' = Base(t) /\ Depth(open[t])' = Depth(o)
      BY <1>3 DEF Base, Depth, Count
    <2>2. Holds(Base(t), s, o) => Holds(Base(t), stack[t], open[t])'
      BY <1>2, <2>1 DEF Holds
    <2>. QED
      BY <1>2, <2>1, <2>2 DEF OwnStack
  <1>14. AtOwn(t)'
    <2>1. OtherRegisters(t)' /\ reg'["r0"] = Own(t, "r0")'
      <3>1. Registers' = Registers /\ "r0" \in Registers
        BY SamePort DEF Registers
      <3>. QED
        BY <1>9, <3>1 DEF OtherRegisters
    <2>2. Enabled(sreg)' => started' /\ open'[t] = <<>>
      BY <1>3 DEF Enabled
    <2>3. Masked(sreg)' = Own(t, "SREG")'
      BY <1>9 DEF Masked
    <2>. QED
      BY <1>13, <2>1, <2>2, <2>3 DEF AtOwn
  <1>. QED
    BY <1>5, <1>6, <1>7, <1>11, <1>12, <1>14, GoesOn

LEMMA AsItWas ==
    ASSUME ContextTypeOK, NEW t \in Task
    PROVE  /\ stack = [stack EXCEPT ![t] = stack[t]] /\ open = [open EXCEPT ![t] = open[t]]
           /\ computed = [computed EXCEPT ![t] = computed[t]]
  BY DEF ContextTypeOK

LEMMA NoSections ==
    ASSUME NEW o, o = <<>>, NEW t, NEW v, NEW running
    PROVE  /\ Len(o) = 0 /\ DOMAIN o = {} /\ Depth(o) = 0
           /\ Remembered(o, t, v, running)
  <1>1. Len(o) = 0 /\ DOMAIN o = {}
    OBVIOUS
  <1>2. Depth(o) = 0
    BY <1>1, CountNone DEF Depth
  <1>3. Remembered(o, t, v, running)
    BY <1>1 DEF Remembered
  <1>. QED
    BY <1>1, <1>2, <1>3

LEMMA StartSchedulerKeeps ==
    ASSUME ContextInv, StartScheduler
    PROVE  ContextInv'
  <1>1. ContextTypeOK /\ pc = "own" /\ currentTask = Idle /\ open[Idle] = <<>>
    BY DEF ContextInv, StartScheduler
  <1>2. PICK t \in Task : OwnFacts(t)
    BY <1>1, OwnHas
  <1>3. t = Idle /\ currentTask = t
    BY <1>1, <1>2 DEF OwnFacts
  <1>4. PICK s \in Seq(Words), o \in Seq({"critical", "safe"} \X Words), v \in {0, 1},
             f \in Words :
                s = stack[t] /\ o = open[t] /\ v = computed[t] /\ f = Unmasked(sreg)
    BY <1>2, Masking1 DEF OwnFacts
  <1>5. /\ port' = port /\ pc' = pc /\ sp' = sp /\ reg' = reg /\ stackPtr' = stackPtr
        /\ kStackPointer' = kStackPointer /\ currentTask' = currentTask /\ live' = live
        /\ own' = own /\ panicked' = panicked /\ kCriticalNesting' = kCriticalNesting
        /\ open' = open /\ started' = TRUE /\ computed' = computed
        /\ stack' = stack /\ spoiled' = spoiled /\ sreg' = f
    BY <1>4 DEF StartScheduler, memory, tasks, sections
  <1>6. /\ stack' = [stack EXCEPT ![t] = s] /\ open' = [open EXCEPT ![t] = o]
        /\ computed' = [computed EXCEPT ![t] = v]
    BY <1>1, <1>4, <1>5, AsItWas
  <1>7. /\ f[1] = "SREG" /\ Masked(f) = <<"SREG", t, v, 0>> /\ Enabled(f)
    BY <1>2, <1>4, Masking1 DEF OwnFacts
  <1>8. /\ o = <<>> /\ Len(o) = 0 /\ Depth(o) = 0 /\ Len(o) <= MaxOpen
        /\ Remembered(o, t, v, started')
    <2>1. o = <<>>
      BY <1>1, <1>3, <1>4
    <2>2. Len(o) = 0 /\ Depth(o) = 0 /\ Remembered(o, t, v, started')
      BY <2>1, NoSections
    <2>3. 0 <= MaxOpen
      BY ContextAssumption
    <2>. QED
      BY <2>1, <2>2, <2>3
  <1>9. /\ reg' \in [Registers -> Words] /\ \A r \in Registers : reg'[r] = <<r, t, v, 0>>
        /\ IF port = "mega2560" THEN Holds(Base(t), s, o) ELSE s = Base(t)
        /\ kCriticalNesting' = IF port = "mega2560" THEN 0 ELSE Depth(o)
        /\ t \in live /\ sp' = t
    BY <1>2, <1>4, <1>5 DEF OwnFacts
  <1>10. kCriticalNesting' \in 0..255
    BY <1>8, <1>9
  <1>11. Enabled(f) => started' /\ o = <<>>
    BY <1>5, <1>8
  <1>12. IsOwnStep(t, s, o, v, f)
    BY <1>1, <1>3, <1>5, <1>6, <1>7, <1>8, <1>9, <1>10, <1>11 DEF IsOwnStep
  <1>. QED
    BY <1>12, OwnStep

LEMMA ComputeKeeps ==
    ASSUME ContextInv, Compute
    PROVE  ContextInv'
  <1>1. ContextTypeOK /\ pc = "own"
    BY DEF ContextInv, Compute
  <1>2. PICK t \in Task : OwnFacts(t)
    BY <1>1, OwnHas
  <1>3. currentTask = t /\ open[t] = <<>>
    BY <1>2 DEF OwnFacts, Compute
  <1>4. PICK v \in {0, 1} : v = 1 - computed[t]
    BY <1>2 DEF OwnFacts
  <1>5. computed' = [computed EXCEPT ![t] = v] /\ computed'[t] = v
    BY <1>1, <1>3, <1>4 DEF Compute, ContextTypeOK
  <1>6. sreg[4] \in {0, 1} /\ sreg \in Words
    BY <1>1, WordIn DEF ContextTypeOK
  <1>7. PICK f \in Words : f = <<"SREG", t, v, sreg[4]>>
    BY <1>6, WordOf
  <1>8. PICK s \in Seq(Words), o \in Seq({"critical", "safe"} \X Words) :
                s = stack[t] /\ o = open[t]
    BY <1>2 DEF OwnFacts
  <1>9. /\ port' = port /\ pc' = pc /\ sp' = sp /\ stackPtr' = stackPtr
        /\ kStackPointer' = kStackPointer /\ currentTask' = currentTask /\ live' = live
        /\ own' = own /\ panicked' = panicked /\ kCriticalNesting' = kCriticalNesting
        /\ open' = open /\ started' = started /\ stack' = stack /\ spoiled' = spoiled
        /\ sreg' = f /\ reg' = [r \in Registers |-> <<r, t, v, 0>>]
    BY <1>3, <1>5, <1>7 DEF Compute, Word, memory, tasks, sections
  <1>10. /\ stack' = [stack EXCEPT ![t] = s] /\ open' = [open EXCEPT ![t] = o]
    BY <1>1, <1>8, <1>9, AsItWas
  <1>11. /\ f[1] = "SREG" /\ Masked(f) = <<"SREG", t, v, 0>> /\ (Enabled(f) <=> Enabled(sreg))
    BY <1>7 DEF Masked, Enabled
  <1>12. /\ o = <<>> /\ Len(o) = 0 /\ Depth(o) = 0 /\ Len(o) <= MaxOpen
         /\ Remembered(o, t, v, started')
    <2>1. o = <<>>
      BY <1>3, <1>8
    <2>2. Len(o) = 0 /\ Depth(o) = 0 /\ Remembered(o, t, v, started')
      BY <2>1, NoSections
    <2>3. 0 <= MaxOpen
      BY ContextAssumption
    <2>. QED
      BY <2>1, <2>2, <2>3
  <1>13. reg' \in [Registers -> Words] /\ \A r \in Registers : reg'[r] = <<r, t, v, 0>>
    <2>1. \A r \in Registers : <<r, t, v, 0>> \in Words
      BY WordOf
    <2>. QED
      BY <1>9, <2>1
  <1>14. /\ IF port = "mega2560" THEN Holds(Base(t), s, o) ELSE s = Base(t)
         /\ kCriticalNesting' = IF port = "mega2560" THEN 0 ELSE Depth(o)
         /\ t \in live /\ sp' = t
         /\ (Enabled(f) => started' /\ o = <<>>)
    BY <1>2, <1>8, <1>9, <1>11 DEF OwnFacts
  <1>15. kCriticalNesting' \in 0..255
    BY <1>12, <1>14
  <1>16. started' \in BOOLEAN /\ (started => started') /\ pc' = "own"
    BY <1>1, <1>9 DEF ContextTypeOK
  <1>17. IsOwnStep(t, s, o, v, f)
    BY <1>1, <1>3, <1>5, <1>9, <1>10, <1>11, <1>12, <1>13, <1>14, <1>15, <1>16
       DEF IsOwnStep
  <1>. QED
    BY <1>17, OwnStep

-----------------------------------------------------------------------------
\* Sections are entered and left.
LEMMA RememberedMore ==
    ASSUME NEW S, NEW o \in Seq(S), NEW w \in S, NEW t, NEW v,
           Remembered(o, t, v, started), Masked(w[2]) = <<"SREG", t, v, 0>>,
           Enabled(w[2]) => started /\ o = <<>>
    PROVE  Remembered(Append(o, w), t, v, started)
  <1>1. PICK q \in Seq(S) : IsOneOn(q, o, w)
    BY AppendedTo
  <1>2. /\ q = Append(o, w) /\ Len(q) = Len(o) + 1 /\ q[Len(o) + 1] = w /\ Len(o) \in Nat
        /\ \A i \in 1..Len(o) : q[i] = o[i]
    BY <1>1 DEF IsOneOn
  <1>3. ASSUME NEW i \in 1..Len(q)
        PROVE  /\ Masked(q[i][2]) = <<"SREG", t, v, 0>>
               /\ Enabled(q[i][2]) => started /\ i = 1
    <2>1. CASE i = Len(o) + 1
      <3>1. q[i] = w /\ (o = <<>> => i = 1)
        BY <1>2, <2>1
      <3>. QED
        BY <3>1
    <2>2. CASE i # Len(o) + 1
      <3>1. i \in 1..Len(o) /\ q[i] = o[i]
        BY <1>2, <2>2
      <3>. QED
        BY <3>1 DEF Remembered
    <2>. QED
      BY <2>1, <2>2
  <1>4. Remembered(q, t, v, started)
    BY <1>3 DEF Remembered
  <1>. QED
    BY <1>2, <1>4

LEMMA RememberedLess ==
    ASSUME NEW S, NEW o \in Seq(S), o # <<>>, NEW t, NEW v, Remembered(o, t, v, started)
    PROVE  /\ Remembered(Front(o), t, v, started)
           /\ Masked(Last(o)[2]) = <<"SREG", t, v, 0>>
           /\ Enabled(Last(o)[2]) => started /\ Front(o) = <<>>
  <1>1. PICK q \in Seq(S) : q = Front(o)
    BY DepthFront
  <1>2. /\ Len(q) = Len(o) - 1 /\ Last(o) = o[Len(o)] /\ Len(o) \in Nat \ {0}
        /\ \A i \in 1..(Len(o) - 1) : q[i] = o[i]
    BY <1>1, DepthFront
  <1>3. \A i \in 1..Len(q) : i \in 1..Len(o) /\ q[i] = o[i]
    BY <1>2
  <1>4. Remembered(q, t, v, started)
    BY <1>3 DEF Remembered
  <1>5. Len(o) \in 1..Len(o)
    BY <1>2
  <1>6. /\ Masked(o[Len(o)][2]) = <<"SREG", t, v, 0>>
        /\ Enabled(o[Len(o)][2]) => started /\ Len(o) = 1
    BY <1>5 DEF Remembered
  <1>7. Len(o) = 1 => q = <<>>
    BY <1>2
  <1>. QED
    BY <1>1, <1>2, <1>4, <1>6, <1>7

LEMMA InByte ==
    ASSUME NEW d \in Nat, d <= 253
    PROVE  d + 1 \in 0..255
  OBVIOUS

LEMMA EnterCriticalKeeps ==
    ASSUME ContextInv, EnterCritical
    PROVE  ContextInv'
  <1>1. ContextTypeOK /\ pc = "own"
    BY DEF ContextInv, EnterCritical
  <1>2. PICK t \in Task : OwnFacts(t)
    BY <1>1, OwnHas
  <1>3. currentTask = t /\ sp = t /\ t \in live /\ Len(open[t]) < MaxOpen
    BY <1>2 DEF OwnFacts, EnterCritical
  <1>. DEFINE S == {"critical", "safe"} \X Words
  <1>4. PICK s \in Seq(Words), o \in Seq(S), v \in {0, 1}, f \in Words, b \in Seq(Words) :
             /\ s = stack[t] /\ o = open[t] /\ v = computed[t] /\ f = sreg /\ b = Base(t)
    BY <1>2 DEF OwnFacts
  <1>18. <<"critical", f>> \in S
    BY <1>4
  <1>5. PICK w \in S : w = <<"critical", f>> /\ w[1] = "critical" /\ w[2] = f
    BY <1>18
  <1>. HIDE DEF S
  <1>6. PICK q \in Seq(S) : IsOneOn(q, o, w)
    BY AppendedTo
  <1>7. /\ q = Append(o, w) /\ Len(q) = Len(o) + 1 /\ Len(o) \in Nat /\ Len(o) < MaxOpen
        /\ q[Len(o) + 1] = w /\ \A i \in 1..Len(o) : q[i] = o[i]
    BY <1>3, <1>4, <1>6 DEF IsOneOn
  <1>8. /\ Masked(f) = <<"SREG", t, v, 0>> /\ f[1] = "SREG"
        /\ (Enabled(f) => started /\ o = <<>>)
        /\ Remembered(o, t, v, started)
        /\ reg \in [Registers -> Words] /\ \A r \in Registers : reg[r] = <<r, t, v, 0>>
    BY <1>2, <1>4 DEF OwnFacts
  <1>9. Remembered(q, t, v, started)
    BY <1>5, <1>7, <1>8, RememberedMore
  <1>10. /\ Depth(q) = Depth(o) + 1 /\ Depth(o) \in Nat /\ Depth(o) <= Len(o)
    <2>1. Depth(q) = Depth(o) + (IF w[1] = "critical" THEN 1 ELSE 0)
      BY <1>7, DepthAppend
    <2>. QED
      BY <1>5, <2>1, DepthIn
  <1>11. /\ port' = port /\ pc' = pc /\ sp' = sp /\ reg' = reg /\ stackPtr' = stackPtr
         /\ kStackPointer' = kStackPointer /\ currentTask' = currentTask /\ live' = live
         /\ own' = own /\ panicked' = panicked /\ started' = started
         /\ computed' = computed /\ spoiled' = spoiled
         /\ open' = [open EXCEPT ![t] = q] /\ sreg' = Masked(f)
    BY <1>3, <1>4, <1>5, <1>7 DEF EnterCritical, tasks
  <1>12. computed' = [computed EXCEPT ![t] = v] /\ started' \in BOOLEAN
    BY <1>1, <1>4, <1>11, AsItWas DEF ContextTypeOK
  <1>13. Len(q) <= MaxOpen /\ Len(o) <= 253 /\ 0 \in 0..255
    BY <1>7, ContextAssumption
  <1>16. PICK g \in Words : g = Masked(f) /\ g[1] = "SREG" /\ ~Enabled(g)
                            /\ Masked(g) = <<"SREG", t, v, 0>>
    BY <1>8, Masking1
  <1>14. CASE port = "mega2560"
    <2>1. PICK r \in Seq(Words) : IsOneOn(r, s, Eecr)
      BY AppendedTo, EecrIn
    <2>2. /\ stack' = [stack EXCEPT ![t] = r] /\ kCriticalNesting' = kCriticalNesting
      <3>1. s \o <<Eecr>> = r
        BY <2>1, EecrIn, OneOn DEF IsOneOn
      <3>2. stack' = Push(sp, <<Eecr>>) /\ kCriticalNesting' = kCriticalNesting
        BY <1>14 DEF EnterCritical
      <3>. QED
        BY <1>3, <1>4, <3>1, <3>2 DEF Push
    <2>3. Holds(b, r, q)
      <3>1. Holds(b, s, o)
        BY <1>2, <1>4, <1>14 DEF OwnFacts
      <3>. QED
        BY <1>5, <1>7, <2>1, <3>1, HoldsOneMore DEF IsOneOn
    <2>4. kCriticalNesting' = 0
      BY <1>2, <1>14, <2>2 DEF OwnFacts
    <2>5. IsOwnStep(t, r, q, v, g)
      BY <1>1, <1>3, <1>4, <1>8, <1>9, <1>11, <1>12, <1>13, <1>14, <1>16, <2>2, <2>3, <2>4
         DEF IsOwnStep
    <2>. QED
      BY <2>5, OwnStep DEF S
  <1>15. CASE port # "mega2560"
    <2>1. stack' = [stack EXCEPT ![t] = s] /\ kCriticalNesting' = CountUp
      BY <1>1, <1>4, <1>15, AsItWas DEF EnterCritical
    <2>2. kCriticalNesting = Depth(o) /\ s = b
      BY <1>2, <1>4, <1>15 DEF OwnFacts
    <2>3. kCriticalNesting' = Depth(q) /\ kCriticalNesting' \in 0..255
      <3>1. PICK d \in Nat : d = Depth(o) /\ d <= 253
        BY <1>7, <1>10, <1>13
      <3>2. kCriticalNesting' = d + 1
        BY <2>1, <2>2, <3>1 DEF CountUp
      <3>3. Depth(q) = d + 1
        BY <1>10, <3>1
      <3>4. d + 1 \in 0..255
        BY <3>1, InByte
      <3>. QED
        BY <3>2, <3>3, <3>4
    <2>4. IsOwnStep(t, s, q, v, g)
      BY <1>1, <1>3, <1>4, <1>8, <1>9, <1>11, <1>12, <1>13, <1>15, <1>16, <2>1, <2>2, <2>3
         DEF IsOwnStep
    <2>. QED
      BY <2>4, OwnStep DEF S
  <1>. QED
    BY <1>14, <1>15

LEMMA EnterCriticalSafeKeeps ==
    ASSUME ContextInv, EnterCriticalSafe
    PROVE  ContextInv'
  <1>1. ContextTypeOK /\ pc = "own"
    BY DEF ContextInv, EnterCriticalSafe
  <1>2. PICK t \in Task : OwnFacts(t)
    BY <1>1, OwnHas
  <1>3. currentTask = t /\ sp = t /\ t \in live /\ Len(open[t]) < MaxOpen
    BY <1>2 DEF OwnFacts, EnterCriticalSafe
  <1>. DEFINE S == {"critical", "safe"} \X Words
  <1>4. PICK s \in Seq(Words), o \in Seq(S), v \in {0, 1}, f \in Words, b \in Seq(Words) :
             /\ s = stack[t] /\ o = open[t] /\ v = computed[t] /\ f = sreg /\ b = Base(t)
    BY <1>2 DEF OwnFacts
  <1>18. <<"safe", f>> \in S
    BY <1>4
  <1>5. PICK w \in S : w = <<"safe", f>> /\ w[1] = "safe" /\ w[2] = f
    BY <1>18
  <1>. HIDE DEF S
  <1>6. PICK q \in Seq(S) : IsOneOn(q, o, w)
    BY AppendedTo
  <1>7. /\ q = Append(o, w) /\ Len(q) = Len(o) + 1 /\ Len(o) \in Nat /\ Len(o) < MaxOpen
        /\ q[Len(o) + 1] = w
    BY <1>3, <1>4, <1>6 DEF IsOneOn
  <1>8. /\ Masked(f) = <<"SREG", t, v, 0>> /\ f[1] = "SREG"
        /\ (Enabled(f) => started /\ o = <<>>)
        /\ Remembered(o, t, v, started)
        /\ reg \in [Registers -> Words] /\ \A r \in Registers : reg[r] = <<r, t, v, 0>>
    BY <1>2, <1>4 DEF OwnFacts
  <1>9. Remembered(q, t, v, started)
    BY <1>5, <1>7, <1>8, RememberedMore
  <1>10. Depth(q) = Depth(o)
    <2>1. Depth(o) \in Nat
      BY DepthIn
    <2>2. Depth(q) = Depth(o) + (IF w[1] = "critical" THEN 1 ELSE 0)
      BY <1>7, DepthAppend
    <2>. QED
      BY <1>5, <2>1, <2>2
  <1>11. /\ port' = port /\ pc' = pc /\ sp' = sp /\ reg' = reg /\ stackPtr' = stackPtr
         /\ kStackPointer' = kStackPointer /\ currentTask' = currentTask /\ live' = live
         /\ own' = own /\ panicked' = panicked /\ started' = started
         /\ computed' = computed /\ spoiled' = spoiled /\ stack' = stack
         /\ kCriticalNesting' = kCriticalNesting
         /\ open' = [open EXCEPT ![t] = q] /\ sreg' = Masked(f)
    BY <1>3, <1>4, <1>5, <1>7 DEF EnterCriticalSafe, tasks, memory
  <1>12. /\ computed' = [computed EXCEPT ![t] = v] /\ started' \in BOOLEAN
         /\ stack' = [stack EXCEPT ![t] = s] /\ kCriticalNesting' \in 0..255
    BY <1>1, <1>4, <1>11, AsItWas DEF ContextTypeOK
  <1>13. PICK g \in Words : g = Masked(f) /\ g[1] = "SREG" /\ ~Enabled(g)
                            /\ Masked(g) = <<"SREG", t, v, 0>>
    BY <1>8, Masking1
  <1>15. /\ IF port = "mega2560" THEN Holds(b, s, q) ELSE s = b
         /\ kCriticalNesting' = IF port = "mega2560" THEN 0 ELSE Depth(q)
    <2>1. /\ IF port = "mega2560" THEN Holds(b, s, o) ELSE s = b
          /\ kCriticalNesting = IF port = "mega2560" THEN 0 ELSE Depth(o)
      BY <1>2, <1>4 DEF OwnFacts
    <2>2. Holds(b, s, o) => Holds(b, s, q)
      BY <1>5, <1>7, HoldsSafe
    <2>. QED
      BY <1>10, <1>11, <2>1, <2>2
  <1>16. Len(q) <= MaxOpen
    BY <1>7, ContextAssumption
  <1>17. IsOwnStep(t, s, q, v, g)
    BY <1>1, <1>3, <1>4, <1>8, <1>9, <1>11, <1>12, <1>13, <1>15, <1>16 DEF IsOwnStep
  <1>. QED
    BY <1>17, OwnStep DEF S

LEMMA ExitCriticalKeeps ==
    ASSUME ContextInv, ExitCritical
    PROVE  ContextInv'
  <1>1. ContextTypeOK /\ pc = "own"
    BY DEF ContextInv, ExitCritical
  <1>2. PICK t \in Task : OwnFacts(t)
    BY <1>1, OwnHas
  <1>3. currentTask = t /\ sp = t /\ t \in live
    BY <1>2 DEF OwnFacts
  <1>. DEFINE S == {"critical", "safe"} \X Words
  <1>4. PICK s \in Seq(Words), o \in Seq(S), v \in {0, 1}, f \in Words, b \in Seq(Words) :
             /\ s = stack[t] /\ o = open[t] /\ v = computed[t] /\ f = sreg /\ b = Base(t)
    BY <1>2 DEF OwnFacts
  <1>5. o # <<>> /\ Last(o)[1] = "critical"
    BY <1>3, <1>4 DEF ExitCritical, InnermostIs
  <1>6. PICK q \in Seq(S) : q = Front(o)
    BY <1>5, DepthFront
  <1>. HIDE DEF S
  <1>7. /\ Len(q) = Len(o) - 1 /\ Len(o) \in Nat \ {0}
        /\ Depth(o) = Depth(q) + (IF Last(o)[1] = "critical" THEN 1 ELSE 0)
    BY <1>5, <1>6, DepthFront
  <1>8. PICK d \in Nat : d = Depth(q) /\ Depth(o) = d + 1
    <2>1. Depth(q) \in Nat
      BY DepthIn
    <2>. QED
      BY <1>5, <1>7, <2>1
  <1>9. /\ Masked(f) = <<"SREG", t, v, 0>> /\ f[1] = "SREG"
        /\ (Enabled(f) => started /\ o = <<>>)
        /\ Remembered(o, t, v, started) /\ Len(o) <= MaxOpen
        /\ reg \in [Registers -> Words] /\ \A r \in Registers : reg[r] = <<r, t, v, 0>>
        /\ kCriticalNesting = IF port = "mega2560" THEN 0 ELSE Depth(o)
    BY <1>2, <1>4 DEF OwnFacts
  <1>10. Remembered(q, t, v, started)
    <2>1. Remembered(o, t, v, started)
      BY <1>9
    <2>. QED
      BY <1>5, <1>6, <2>1, RememberedLess
  <1>11. /\ port' = port /\ pc' = pc /\ sp' = sp /\ reg' = reg /\ stackPtr' = stackPtr
         /\ kStackPointer' = kStackPointer /\ currentTask' = currentTask /\ live' = live
         /\ own' = own /\ panicked' = panicked /\ started' = started
         /\ computed' = computed /\ spoiled' = spoiled
         /\ open' = [open EXCEPT ![t] = q]
    BY <1>1, <1>3, <1>4, <1>6 DEF ExitCritical, tasks, ContextTypeOK
  <1>12. computed' = [computed EXCEPT ![t] = v] /\ started' \in BOOLEAN
    BY <1>1, <1>4, <1>11, AsItWas DEF ContextTypeOK
  <1>13. Len(q) <= MaxOpen /\ 0 \in 0..255
    BY <1>7, <1>9, ContextAssumption
  <1>16. ~Enabled(f) /\ sreg \in Words
    BY <1>4, <1>5, <1>9
  <1>14. CASE port = "mega2560"
    <2>1. Holds(b, s, o)
      BY <1>2, <1>4, <1>14 DEF OwnFacts
    <2>2. PICK r \in Seq(Words) : r = Front(s) /\ Holds(b, r, q)
      BY <1>5, <1>6, <2>1, HoldsOneLess
    <2>3. /\ stack' = [stack EXCEPT ![t] = r] /\ sreg' = f
          /\ kCriticalNesting' = kCriticalNesting
      BY <1>1, <1>3, <1>4, <1>14, <2>2 DEF ExitCritical, ContextTypeOK
    <2>4. kCriticalNesting' = 0
      BY <1>9, <1>14, <2>3
    <2>5. IsOwnStep(t, r, q, v, f)
      BY <1>1, <1>3, <1>4, <1>9, <1>10, <1>11, <1>12, <1>13, <1>14, <1>16, <2>2, <2>3, <2>4
         DEF IsOwnStep
    <2>. QED
      BY <2>5, OwnStep DEF S
  <1>15. CASE port # "mega2560"
    <2>1. /\ stack' = [stack EXCEPT ![t] = s] /\ sreg' = Masked(f)
          /\ kCriticalNesting' = CountDown
      BY <1>1, <1>4, <1>15, AsItWas DEF ExitCritical
    <2>2. kCriticalNesting = d + 1 /\ s = b /\ kCriticalNesting \in 0..255
      BY <1>1, <1>2, <1>4, <1>8, <1>15 DEF OwnFacts, ContextTypeOK
    <2>3. kCriticalNesting' = d /\ kCriticalNesting' \in 0..255
      BY <2>1, <2>2 DEF CountDown
    <2>4. Masked(f) = f
      BY <1>16, Masking1
    <2>5. IsOwnStep(t, s, q, v, f)
      BY <1>1, <1>3, <1>4, <1>8, <1>9, <1>10, <1>11, <1>12, <1>13, <1>15, <1>16, <2>1, <2>2,
         <2>3, <2>4 DEF IsOwnStep
    <2>. QED
      BY <2>5, OwnStep DEF S
  <1>. QED
    BY <1>14, <1>15

LEMMA ExitCriticalSafeKeeps ==
    ASSUME ContextInv, ExitCriticalSafe
    PROVE  ContextInv'
  <1>1. ContextTypeOK /\ pc = "own"
    BY DEF ContextInv, ExitCriticalSafe
  <1>2. PICK t \in Task : OwnFacts(t)
    BY <1>1, OwnHas
  <1>3. currentTask = t /\ sp = t /\ t \in live
    BY <1>2 DEF OwnFacts
  <1>. DEFINE S == {"critical", "safe"} \X Words
  <1>4. PICK s \in Seq(Words), o \in Seq(S), v \in {0, 1}, f \in Words, b \in Seq(Words) :
             /\ s = stack[t] /\ o = open[t] /\ v = computed[t] /\ f = sreg /\ b = Base(t)
    BY <1>2 DEF OwnFacts
  <1>5. o # <<>> /\ Last(o)[1] = "safe"
    BY <1>3, <1>4 DEF ExitCriticalSafe, InnermostIs
  <1>6. PICK q \in Seq(S) : q = Front(o)
    BY <1>5, DepthFront
  <1>. HIDE DEF S
  <1>7. Last(o)[2] \in Words
    <2>1. Last(o) = o[Len(o)] /\ Len(o) \in Nat \ {0}
      BY <1>5, DepthFront
    <2>2. Len(o) \in 1..Len(o)
      BY <2>1
    <2>3. Last(o) \in S
      BY <1>4, <2>1, <2>2
    <2>. QED
      BY <2>3 DEF S
  <1>8. /\ Len(q) = Len(o) - 1 /\ Len(o) \in Nat \ {0} /\ Depth(o) = Depth(q)
    <2>1. /\ Len(q) = Len(o) - 1 /\ Len(o) \in Nat \ {0}
          /\ Depth(o) = Depth(q) + (IF Last(o)[1] = "critical" THEN 1 ELSE 0)
      BY <1>5, <1>6, DepthFront
    <2>2. Depth(q) \in Nat
      BY DepthIn
    <2>. QED
      BY <1>5, <2>1, <2>2
  <1>9. /\ Remembered(o, t, v, started) /\ Len(o) <= MaxOpen
        /\ reg \in [Registers -> Words] /\ \A r \in Registers : reg[r] = <<r, t, v, 0>>
        /\ kCriticalNesting = IF port = "mega2560" THEN 0 ELSE Depth(o)
        /\ IF port = "mega2560" THEN Holds(b, s, o) ELSE s = b
    BY <1>2, <1>4 DEF OwnFacts
  <1>10. /\ Remembered(q, t, v, started)
         /\ Masked(Last(o)[2]) = <<"SREG", t, v, 0>>
         /\ Enabled(Last(o)[2]) => started /\ q = <<>>
    BY <1>5, <1>6, <1>9, RememberedLess
  <1>11. PICK g \in Words : /\ g = Last(o)[2] /\ Masked(g) = <<"SREG", t, v, 0>>
                            /\ g[1] = "SREG"
    <2>1. PICK g \in Words : g = Last(o)[2]
      BY <1>7
    <2>2. Masked(g)[1] = g[1] /\ Masked(g) = <<"SREG", t, v, 0>>
      BY <1>10, <2>1, Masking1
    <2>3. g[1] = "SREG"
      BY <2>2
    <2>. QED
      BY <2>1, <2>2, <2>3
  <1>12. /\ port' = port /\ pc' = pc /\ sp' = sp /\ reg' = reg /\ stackPtr' = stackPtr
         /\ kStackPointer' = kStackPointer /\ currentTask' = currentTask /\ live' = live
         /\ own' = own /\ panicked' = panicked /\ started' = started
         /\ computed' = computed /\ spoiled' = spoiled /\ stack' = stack
         /\ kCriticalNesting' = kCriticalNesting
         /\ open' = [open EXCEPT ![t] = q] /\ sreg' = g
    BY <1>1, <1>3, <1>4, <1>6, <1>11
       DEF ExitCriticalSafe, tasks, memory, ContextTypeOK
  <1>13. /\ computed' = [computed EXCEPT ![t] = v] /\ started' \in BOOLEAN
         /\ stack' = [stack EXCEPT ![t] = s] /\ kCriticalNesting' \in 0..255
    BY <1>1, <1>4, <1>12, AsItWas DEF ContextTypeOK
  <1>14. /\ IF port = "mega2560" THEN Holds(b, s, q) ELSE s = b
         /\ kCriticalNesting' = IF port = "mega2560" THEN 0 ELSE Depth(q)
    <2>1. Holds(b, s, o) => Holds(b, s, q)
      BY <1>5, <1>6, HoldsUnsafe
    <2>. QED
      BY <1>8, <1>9, <1>12, <2>1
  <1>15. Len(q) <= MaxOpen
    BY <1>8, <1>9, ContextAssumption
  <1>16. Enabled(g) => started /\ q = <<>>
    BY <1>10, <1>11
  <1>17. IsOwnStep(t, s, q, v, g)
    BY <1>1, <1>3, <1>4, <1>9, <1>10, <1>11, <1>12, <1>13, <1>14, <1>15, <1>16 DEF IsOwnStep
  <1>. QED
    BY <1>17, OwnStep DEF S

-----------------------------------------------------------------------------
\* Tasks are created and deleted by the code of another.
LEMMA OwnKept ==
    ASSUME NEW c \in Task, AtOwn(c), sreg \in Words, c \in live', port' = port, pc' = pc,
           sp' = sp, reg' = reg, sreg' \in {sreg, Masked(sreg)}, started' = started,
           stack'[c] = stack[c], open'[c] = open[c], computed'[c] = computed[c]
    PROVE  AtOwn(c)'
  <1>1. (\A r : Own(c, r)' = Own(c, r)) /\ Registers' = Registers
    BY SamePort, SameTask
  <1>2. OtherRegisters(c)' /\ reg'["r0"] = Own(c, "r0")'
    BY <1>1 DEF AtOwn, OtherRegisters
  <1>3. OwnStack(c)'
    <2>1. OwnStack(c) /\ Base(c)' = Base(c) /\ Depth(open[c])' = Depth(open[c])
      BY DEF AtOwn, Base, Depth, Count
    <2>2. Holds(Base(c), stack[c], open[c]) => Holds(Base(c), stack[c], open[c])'
      BY <2>1 DEF Holds
    <2>. QED
      BY <2>1, <2>2 DEF OwnStack
  <1>4. Masked(sreg)' = Own(c, "SREG")' /\ (Enabled(sreg)' => Enabled(sreg))
    <2>1. /\ Masked(Masked(sreg)) = Masked(sreg) /\ ~Enabled(Masked(sreg))
      BY Masking1
    <2>2. /\ Masked(sreg)' = Masked(sreg') /\ Enabled(sreg)' = Enabled(sreg')
          /\ Masked(sreg) = Own(c, "SREG")
      BY DEF AtOwn, Masked, Enabled
    <2>. QED
      BY <1>1, <2>1, <2>2
  <1>. QED
    BY <1>2, <1>3, <1>4 DEF AtOwn

LEMMA DeleteKeeps ==
    ASSUME ContextInv, NEW t \in Task, Delete(t)
    PROVE  ContextInv'
  <1>1. /\ ContextTypeOK /\ Parked /\ Sections /\ KernelStack /\ Phases /\ StackSuffices
        /\ pc = "own" /\ t # currentTask /\ t # Idle
    BY DEF ContextInv, Delete
  <1>2. PICK c \in Task : OwnFacts(c)
    BY <1>1, OwnHas
  <1>3. currentTask = c /\ AtOwn(c) /\ c \in live /\ c # t
    BY <1>1, <1>2 DEF OwnFacts
  <1>4. /\ port' = port /\ pc' = pc /\ sp' = sp /\ reg' = reg /\ sreg' = Masked(sreg)
        /\ stack' = stack /\ stackPtr' = stackPtr /\ kStackPointer' = kStackPointer
        /\ currentTask' = currentTask /\ own' = own /\ panicked' = panicked
        /\ spoiled' = spoiled /\ kCriticalNesting' = kCriticalNesting /\ open' = open
        /\ started' = started /\ computed' = computed /\ live' = live \ {t}
    BY DEF Delete, memory, sections
  <1>9. sreg \in Words /\ sreg' \in Words /\ sreg'[1] = "SREG"
    BY <1>1, <1>4, Masking1 DEF ContextTypeOK
  <1>5. ContextTypeOK'
    BY <1>1, <1>4, <1>9, SamePort DEF ContextTypeOK
  <1>6. Parked' /\ Sections' /\ StackSuffices'
    BY <1>1, <1>3, <1>4, ParkedKept, SectionsKept, SpoilsSame
  <1>7. KernelStack' /\ Phases'
    BY <1>1, <1>4 DEF KernelStack, Phases
  <1>8. AtOwn(c)'
    BY <1>3, <1>4, <1>9, OwnKept
  <1>. QED
    BY <1>3, <1>4, <1>5, <1>6, <1>7, <1>8, GoesOn

\* arch_prepareStackFrame leaves what a yield would have.
IsFrame(s, u, t) ==
    /\ s = PrepareStackFrame(t) /\ u = SubSeq(s, 1, 3)
    /\ Len(s) = 4 + Len(SaveOrder) /\ Len(u) = 3 /\ \A i \in 1..3 : s[i] = u[i]
    /\ u[1] = Label("hook") /\ u[2] = Label("own") /\ u[3] = <<"r0", t, 0, 0>>
    /\ s[4] = <<"SREG", t, 0, 1>>
    /\ \A i \in 1..Len(SaveOrder) : s[4 + i] = <<SaveOrder[i], t, 0, 0>>
    /\ Bytes(s) = Bytes(u) + 1 + RestBytes /\ Nested(s) = 0

LEMMA EightIn ==
    ASSUME NEW S, NEW a \in S, NEW b \in S, NEW c \in S, NEW d \in S, NEW e \in S,
           NEW f \in S, NEW g \in S, NEW h \in S
    PROVE  <<a, b, c, d, e, f, g, h>> \in Seq(S)
  OBVIOUS

LEMMA TenIn ==
    ASSUME NEW S, NEW a \in S, NEW b \in S, NEW c \in S, NEW d \in S, NEW e \in S,
           NEW f \in S, NEW g \in S, NEW h \in S, NEW i \in S, NEW j \in S
    PROVE  <<a, b, c, d, e, f, g, h, i, j>> \in Seq(S)
  OBVIOUS

LEMMA ThreeAre ==
    ASSUME NEW S, NEW a \in S, NEW b \in S, NEW c \in S, NEW u \in Seq(S), Len(u) = 3,
           u[1] = a, u[2] = b, u[3] = c
    PROVE  u = Append(Append(<<a>>, b), c)
  <1>1. PICK d \in Seq(S) : d = <<a>>
    <2>1. <<a>> \in Seq(S)
      OBVIOUS
    <2>. QED
      BY <2>1
  <1>2. PICK e \in Seq(S) : IsOneOn(e, d, b)
    BY AppendedTo
  <1>3. PICK f \in Seq(S) : IsOneOn(f, e, c)
    BY AppendedTo
  <1>4. Len(e) = 2 /\ e[1] = a /\ e[2] = b
    BY <1>1, <1>2 DEF IsOneOn
  <1>5. Len(f) = 3 /\ f[1] = a /\ f[2] = b /\ f[3] = c
    BY <1>3, <1>4 DEF IsOneOn
  <1>6. u = f
    <2>1. 1..3 = {1, 2, 3}
      OBVIOUS
    <2>2. Len(u) = Len(f) /\ \A i \in 1..3 : u[i] = f[i]
      BY <1>5, <2>1
    <2>. QED
      BY <1>5, <2>2, SMTT(30)
  <1>. QED
    BY <1>1, <1>2, <1>3, <1>6 DEF IsOneOn

LEMMA FrameIs ==
    ASSUME ContextTypeOK, NEW t \in Task
    PROVE  \E s \in Seq(Words), u \in Seq(Words) : IsFrame(s, u, t)
  <1>. DEFINE f == PrepareStackFrame(t)
              n == Len(SaveOrder)
  <1>1. \A r \in Registers \cup {"SREG"}, b \in {0, 1} : <<r, t, 0, b>> \in Words
    BY WordOf
  <1>2. Label("hook") \in Words /\ Label("hook")[1] = "hook"
        /\ Label("own") \in Words /\ Label("own")[1] = "own"
    BY LabelIn DEF Labels
  <1>3. /\ f \in Seq(Words) /\ Len(f) = 4 + n /\ f[1] = Label("hook")
        /\ f[2] = Label("own") /\ f[3] = <<"r0", t, 0, 0>> /\ f[4] = <<"SREG", t, 0, 1>>
        /\ \A i \in 1..n : f[4 + i] = <<SaveOrder[i], t, 0, 0>>
    <2>1. CASE port = "mega2560"
      <3>1. f = <<Label("hook"), Label("own"), <<"r0", t, 0, 0>>, <<"SREG", t, 0, 1>>,
                  <<"EIND", t, 0, 0>>, <<"RAMPZ", t, 0, 0>>, <<"r1", t, 0, 0>>,
                  <<"r2", t, 0, 0>>, <<"r24", t, 0, 0>>, <<"r26", t, 0, 0>>>>
        BY <2>1 DEF PrepareStackFrame, PrepareStackFrame2560, Word, Unmasked
      <3>2. SaveOrder = <<"EIND", "RAMPZ", "r1", "r2", "r24", "r26">>
        BY <2>1 DEF SaveOrder, SaveOrder2560
      <3>3. {"r0", "EIND", "RAMPZ", "r1", "r2", "r24", "r26"} \subseteq Registers
        BY <2>1 DEF Registers
      <3>4. f \in Seq(Words)
        <4>1. /\ <<"r0", t, 0, 0>> \in Words /\ <<"SREG", t, 0, 1>> \in Words
              /\ <<"EIND", t, 0, 0>> \in Words /\ <<"RAMPZ", t, 0, 0>> \in Words
              /\ <<"r1", t, 0, 0>> \in Words /\ <<"r2", t, 0, 0>> \in Words
              /\ <<"r24", t, 0, 0>> \in Words /\ <<"r26", t, 0, 0>> \in Words
          BY <1>1, <3>3
        <4>. QED
          BY <1>2, <3>1, <4>1, TenIn
      <3>. HIDE DEF f
      <3>5. n = 6 /\ Len(f) = 10
        BY <3>1, <3>2
      <3>6. /\ f[5] = <<"EIND", t, 0, 0>> /\ f[6] = <<"RAMPZ", t, 0, 0>>
            /\ f[7] = <<"r1", t, 0, 0>> /\ f[8] = <<"r2", t, 0, 0>>
            /\ f[9] = <<"r24", t, 0, 0>> /\ f[10] = <<"r26", t, 0, 0>>
        BY <3>1
      <3>7. /\ SaveOrder[1] = "EIND" /\ SaveOrder[2] = "RAMPZ" /\ SaveOrder[3] = "r1"
            /\ SaveOrder[4] = "r2" /\ SaveOrder[5] = "r24" /\ SaveOrder[6] = "r26"
        BY <3>2
      <3>8. 1..n = {1, 2, 3, 4, 5, 6} /\ 4 + 1 = 5 /\ 4 + 2 = 6 /\ 4 + 3 = 7 /\ 4 + 4 = 8
            /\ 4 + 5 = 9 /\ 4 + 6 = 10
        BY <3>5
      <3>9. \A i \in 1..n : f[4 + i] = <<SaveOrder[i], t, 0, 0>>
        BY <3>6, <3>7, <3>8
      <3>. QED
        BY <3>1, <3>4, <3>5, <3>8, <3>9
    <2>2. CASE port # "mega2560"
      <3>1. f = <<Label("hook"), Label("own"), <<"r0", t, 0, 0>>, <<"SREG", t, 0, 1>>,
                  <<"r1", t, 0, 0>>, <<"r2", t, 0, 0>>, <<"r24", t, 0, 0>>,
                  <<"r26", t, 0, 0>>>>
        BY <2>2 DEF PrepareStackFrame, PrepareStackFrame128, Word, Unmasked
      <3>2. SaveOrder = <<"r1", "r2", "r24", "r26">>
        BY <2>2 DEF SaveOrder, SaveOrder128
      <3>3. {"r0", "r1", "r2", "r24", "r26"} \subseteq Registers
        BY DEF Registers
      <3>4. f \in Seq(Words)
        <4>1. /\ <<"r0", t, 0, 0>> \in Words /\ <<"SREG", t, 0, 1>> \in Words
              /\ <<"r1", t, 0, 0>> \in Words /\ <<"r2", t, 0, 0>> \in Words
              /\ <<"r24", t, 0, 0>> \in Words /\ <<"r26", t, 0, 0>> \in Words
          BY <1>1, <3>3
        <4>. QED
          BY <1>2, <3>1, <4>1, EightIn
      <3>. HIDE DEF f
      <3>5. n = 4 /\ Len(f) = 8
        BY <3>1, <3>2
      <3>6. /\ f[5] = <<"r1", t, 0, 0>> /\ f[6] = <<"r2", t, 0, 0>>
            /\ f[7] = <<"r24", t, 0, 0>> /\ f[8] = <<"r26", t, 0, 0>>
        BY <3>1
      <3>7. /\ SaveOrder[1] = "r1" /\ SaveOrder[2] = "r2" /\ SaveOrder[3] = "r24"
            /\ SaveOrder[4] = "r26"
        BY <3>2
      <3>8. 1..n = {1, 2, 3, 4} /\ 4 + 1 = 5 /\ 4 + 2 = 6 /\ 4 + 3 = 7 /\ 4 + 4 = 8
        BY <3>5
      <3>9. \A i \in 1..n : f[4 + i] = <<SaveOrder[i], t, 0, 0>>
        BY <3>6, <3>7, <3>8
      <3>. QED
        BY <3>1, <3>4, <3>5, <3>8, <3>9
    <2>. QED
      BY <2>1, <2>2
  <1>4. n \in {4, 6} /\ \A i \in 1..n : SaveOrder[i] \in Registers
    BY OrderLength
  <1>5. PICK s \in Seq(Words) : s = f
    BY <1>3
  <1>6. /\ Len(s) = 4 + n /\ s[1] = Label("hook") /\ s[2] = Label("own")
        /\ s[3] = <<"r0", t, 0, 0>> /\ s[4] = <<"SREG", t, 0, 1>>
        /\ \A i \in 1..n : s[4 + i] = <<SaveOrder[i], t, 0, 0>>
    BY <1>3, <1>5
  <1>7. \A i \in 1..n : s[4 + i][1] = SaveOrder[i]
    BY <1>6
  <1>8. Bytes(s) = Bytes(SubSeq(s, 1, 4)) + RestBytes /\ Nested(s) = Nested(SubSeq(s, 1, 4))
    BY <1>6, <1>7, OrderBytes
  <1>9. {0, 1, 2, 3} \subseteq 0..(Len(s) - 1) /\ SubSeq(s, 1, 0) = <<>>
        /\ 0 + 1 = 1 /\ 1 + 1 = 2 /\ 2 + 1 = 3 /\ 3 + 1 = 4
    BY <1>4, <1>6
  <1>10. /\ Bytes(SubSeq(s, 1, 4)) = Bytes(SubSeq(s, 1, 3)) + Size(s[4])
         /\ Nested(SubSeq(s, 1, 4)) = Nested(SubSeq(s, 1, 3)) + OneIf(s[4], "isr")
         /\ Nested(SubSeq(s, 1, 3)) = Nested(SubSeq(s, 1, 2)) + OneIf(s[3], "isr")
         /\ Nested(SubSeq(s, 1, 2)) = Nested(SubSeq(s, 1, 1)) + OneIf(s[2], "isr")
         /\ Nested(SubSeq(s, 1, 1)) = Nested(SubSeq(s, 1, 0)) + OneIf(s[1], "isr")
    BY <1>9, OneMore
  <1>11. /\ Size(s[4]) = 1 /\ OneIf(s[4], "isr") = 0 /\ OneIf(s[3], "isr") = 0
         /\ OneIf(s[2], "isr") = 0 /\ OneIf(s[1], "isr") = 0
    BY <1>2, <1>6, Sizes
  <1>12. Nested(SubSeq(s, 1, 0)) = 0
    BY <1>9, NoWords
  <1>13. PICK u \in Seq(Words) : u = SubSeq(s, 1, 3)
    <2>1. 3 \in 0..Len(s)
      BY <1>4, <1>6
    <2>2. SubSeq(s, 1, 3) \in Seq(Words)
      BY <2>1
    <2>. QED
      BY <2>2
  <1>14. Len(u) = 3 /\ \A i \in 1..3 : s[i] = u[i]
    BY <1>4, <1>6, <1>13
  <1>15. PICK b \in Nat : b = Bytes(u)
    BY Naturals1
  <1>16. RestBytes \in Nat
    BY DEF RestBytes
  <1>17. Bytes(s) = Bytes(u) + 1 + RestBytes /\ Nested(s) = 0
    BY <1>8, <1>10, <1>11, <1>12, <1>13, <1>15, <1>16
  <1>. HIDE DEF f, n
  <1>18. {1, 2, 3} \subseteq 1..3
    OBVIOUS
  <1>19. IsFrame(s, u, t)
    BY <1>5, <1>6, <1>13, <1>14, <1>17, <1>18 DEF IsFrame, f, n
  <1>. QED
    BY <1>19

LEMMA CreateKeeps ==
    ASSUME ContextInv, NEW t \in Task, NEW use \in OwnUses, Create(t, use)
    PROVE  ContextInv'
  <1>1. /\ ContextTypeOK /\ Parked /\ Sections /\ KernelStack /\ Phases /\ StackSuffices
        /\ pc = "own" /\ t \notin live
    BY DEF ContextInv, Create
  <1>2. PICK c \in Task : OwnFacts(c)
    BY <1>1, OwnHas
  <1>3. currentTask = c /\ AtOwn(c) /\ c \in live /\ c # t /\ t # Idle /\ t # Kernel
    BY <1>1, <1>2, ContextAssumption DEF OwnFacts, ContextTypeOK
  <1>4. PICK s \in Seq(Words), u \in Seq(Words) : IsFrame(s, u, t)
    BY <1>1, FrameIs
  <1>5. /\ port' = port /\ pc' = pc /\ sp' = sp /\ reg' = reg /\ sreg' = Masked(sreg)
        /\ kStackPointer' = kStackPointer /\ currentTask' = currentTask
        /\ kCriticalNesting' = kCriticalNesting /\ started' = started
        /\ live' = live \cup {t} /\ spoiled' = spoiled \ {t} /\ panicked' = panicked \ {t}
        /\ stack' = [stack EXCEPT ![t] = s]
        /\ stackPtr' = [stackPtr EXCEPT ![t] = <<t, Len(s)>>]
        /\ own' = [own EXCEPT ![t] = use] /\ computed' = [computed EXCEPT ![t] = 0]
        /\ open' = [open EXCEPT ![t] = <<>>]
    BY <1>4 DEF Create, IsFrame
  <1>6. /\ stack'[t] = s /\ stack' \in [Task \cup {Kernel} -> Seq(Words)]
        /\ stack'[Kernel] = stack[Kernel] /\ \A q \in Task : q # t => stack'[q] = stack[q]
    BY <1>1, <1>3, <1>5 DEF ContextTypeOK
  <1>7. /\ stackPtr'[t] = <<t, Len(s)>> /\ stackPtr' \in [Task -> (Task \cup {Kernel}) \X Nat]
        /\ \A q \in Task : q # t => stackPtr'[q] = stackPtr[q]
    <2>1. <<t, Len(s)>> \in (Task \cup {Kernel}) \X Nat
      OBVIOUS
    <2>. QED
      BY <1>1, <1>5, <2>1 DEF ContextTypeOK
  <1>8. /\ own' \in [Task -> OwnUses \cup {0}]
        /\ \A q \in Task : q # t => own'[q] = own[q]
    BY <1>1, <1>5 DEF ContextTypeOK
  <1>9. /\ computed'[t] = 0 /\ computed' \in [Task -> {0, 1}]
        /\ \A q \in Task : q # t => computed'[q] = computed[q]
    BY <1>1, <1>5 DEF ContextTypeOK
  <1>10. /\ open'[t] = <<>> /\ open' \in [Task -> Seq({"critical", "safe"} \X Words)]
         /\ \A q \in Task : q # t => open'[q] = open[q]
    BY <1>1, <1>5 DEF ContextTypeOK
  <1>18. sreg \in Words /\ sreg' \in Words /\ sreg'[1] = "SREG"
    BY <1>1, <1>5, Masking1 DEF ContextTypeOK
  <1>11. ContextTypeOK'
    BY <1>1, <1>5, <1>6, <1>7, <1>8, <1>9, <1>10, <1>18, SamePort DEF ContextTypeOK
  <1>12. StackSuffices'
    <2>1. Reserve' = Reserve /\ TopOffset' = TopOffset
      BY <1>5 DEF Reserve, TopOffset
    <2>. HIDE DEF Reserve, TopOffset
    <2>. QED
      BY <1>1, <1>5, <1>8, <2>1 DEF StackSuffices
  <1>13. KernelStack' /\ Phases'
    BY <1>1, <1>5, <1>6 DEF KernelStack, Phases
  <1>14. Saved(t, "unmasked", 0)'
    <2>1. \A r : Own(t, r)' = <<r, t, 0, 0>>
      BY <1>9 DEF Own, Word
    <2>2. Under(t, "unmasked")' = u
      <3>. DEFINE h == Label("hook")
                  o == Label("own")
                  z == <<"r0", t, 0, 0>>
      <3>1. Len(u) = 3 /\ u[1] = h /\ u[2] = o /\ u[3] = z
        BY <1>4 DEF IsFrame
      <3>2. Under(t, "unmasked")' = Append(Append(<<h>>, o), z)
        BY <1>3, <2>1 DEF Under, Base
      <3>3. h \in Words /\ o \in Words /\ z \in Words
        <4>1. z \in Words
          BY WordOf DEF Registers
        <4>. QED
          BY <4>1, LabelIn DEF Labels
      <3>. HIDE DEF h, o, z
      <3>4. u = Append(Append(<<h>>, o), z)
        BY <3>1, <3>3, ThreeAre
      <3>. QED
        BY <3>2, <3>4
    <2>3. /\ Len(s) = 4 + Len(SaveOrder) /\ Len(u) = 3 /\ \A i \in 1..3 : s[i] = u[i]
          /\ s[4] = <<"SREG", t, 0, 1>>
          /\ \A i \in 1..Len(SaveOrder) : s[4 + i] = <<SaveOrder[i], t, 0, 0>>
          /\ Bytes(s) = Bytes(u) + 1 + RestBytes /\ Nested(s) = 0
      BY <1>4 DEF IsFrame
    <2>4. /\ SaveOrder' = SaveOrder /\ RestBytes' = RestBytes /\ \A x : Bytes(x)' = Bytes(x)
      BY <1>5, SamePort
    <2>5. Rests(t, "unmasked")'
      BY <1>5, <1>10 DEF Rests, Stops
    <2>6. MayNest("unmasked", 0)'
      BY ContextAssumption DEF MayNest
    <2>7. IsFlags(t, "unmasked", 0, s[4])'
      <3>1. Own(t, "SREG")' = <<"SREG", t, 0, 0>>
        BY <2>1
      <3>2. s[4] \in SREGs'
        BY <1>5, <2>3, SamePort, WordOf DEF SREGs
      <3>3. Masked(s[4])' = <<"SREG", t, 0, 0>>
        BY <2>3 DEF Masked
      <3>. QED
        BY <3>1, <3>2, <3>3 DEF IsFlags, IsSreg
    <2>8. Levels(t, "unmasked", 0, s)'
      <3>1. Len(u) <= Len(s)
        BY <2>3, OrderLength
      <3>. QED
        BY <2>2, <2>3, <3>1, SMTT(30) DEF Levels
    <2>9. Full(t, "unmasked", 0)' = Bytes(u)
      <3>1. LevelBytes' \in {5, 7} /\ Bytes(u) \in Nat
        BY Naturals1 DEF LevelBytes
      <3>2. Full(t, "unmasked", 0)' = Bytes(u) + LevelBytes' * 0
        BY <2>2, <2>4 DEF Full
      <3>. QED
        BY <3>1, <3>2
    <2>10. Len(u) + 3 * 0 + 1 = 4
      BY <2>3
    <2>11. Nested(stack[t])' = 0
      BY <1>6, <2>3 DEF Nested, Count
    <2>. QED
      BY <1>6, <1>7, <2>1, <2>2, <2>3, <2>4, <2>5, <2>6, <2>7, <2>8, <2>9, <2>10, <2>11
         DEF Saved
  <1>15. Parked'
    <2>. SUFFICES ASSUME NEW q \in live', q # c
                  PROVE  IsSaved(q)'
      BY <1>3, <1>5 DEF Parked
    <2>1. CASE q = t
      BY <1>14, <2>1 DEF IsSaved, Stops
    <2>2. CASE q # t
      <3>1. q \in Task /\ q \in live
        BY <1>1, <1>5, <2>2 DEF ContextTypeOK
      <3>2. PICK l \in Stops, n \in Nat : Saved(q, l, n)
        BY <1>1, <1>3, <3>1 DEF Parked, IsSaved
      <3>3. Saved(q, l, n)'
        BY <1>5, <1>6, <1>7, <1>9, <1>10, <2>2, <3>1, <3>2, SavedKept
      <3>. QED
        BY <3>3 DEF IsSaved, Stops
    <2>. QED
      BY <2>1, <2>2
  <1>16. Sections'
    <2>1. \A q \in Task : q # t => (Remembers(q) => Remembers(q)')
      BY <1>5, <1>9, <1>10, SamePort DEF Remembers, Own, Word, Masked, Enabled
    <2>2. DOMAIN open'[t] = {} /\ Len(open'[t]) = 0
      BY <1>10
    <2>3. Remembers(t)' /\ Len(open'[t]) <= MaxOpen
      <3>1. Remembers(t)'
        BY <2>2 DEF Remembers
      <3>2. 0 <= MaxOpen
        BY ContextAssumption
      <3>. QED
        BY <2>2, <3>1, <3>2
    <2>4. Depth(open[c])' = Depth(open[c])
      BY <1>3, <1>10 DEF Depth, Count
    <2>. QED
      BY <1>1, <1>3, <1>5, <1>10, <2>1, <2>3, <2>4 DEF Sections
  <1>17. AtOwn(c)'
    BY <1>3, <1>5, <1>6, <1>9, <1>10, <1>18, OwnKept
  <1>. QED
    BY <1>3, <1>5, <1>11, <1>12, <1>13, <1>15, <1>16, <1>17, GoesOn

LEMMA StutterKeeps ==
    ASSUME ContextInv, UNCHANGED vars
    PROVE  ContextInv'
  <1>1. /\ ContextTypeOK /\ Parked /\ Sections /\ KernelStack /\ Phases /\ StackSuffices
        /\ Running
    BY DEF ContextInv
  <1>2. /\ port' = port /\ pc' = pc /\ sp' = sp /\ reg' = reg /\ sreg' = sreg
        /\ stack' = stack /\ stackPtr' = stackPtr /\ kStackPointer' = kStackPointer
        /\ currentTask' = currentTask /\ own' = own /\ panicked' = panicked
        /\ spoiled' = spoiled /\ kCriticalNesting' = kCriticalNesting /\ open' = open
        /\ started' = started /\ computed' = computed /\ live' = live
    BY DEF vars, cpu, memory, tasks, sections
  <1>3. PICK c \in Task :
           /\ currentTask = c
           /\ AtOwn(c) \/ (\E l \in Stops : AtStop(c, l)) \/ Leaving(c) \/ Switching(c)
    BY <1>1 DEF Running
  <1>4. ContextTypeOK'
    BY <1>1, <1>2, SamePort DEF ContextTypeOK
  <1>5. Parked' /\ Sections' /\ StackSuffices'
    BY <1>1, <1>2, <1>3, ParkedKept, SectionsKept, SpoilsSame
  <1>6. KernelStack' /\ Phases'
    BY <1>1, <1>2 DEF KernelStack, Phases
  <1>7. /\ \A l : Rests(c, l) => Rests(c, l)'
        /\ OtherRegisters(c) => OtherRegisters(c)'
        /\ Enabled(sreg)' <=> Enabled(sreg)
    <2>1. \A l : Rests(c, l) => Rests(c, l)'
      BY <1>2, RestsKept
    <2>2. OtherRegisters(c) => OtherRegisters(c)'
      BY <1>2, SamePort, SameTask DEF OtherRegisters
    <2>. QED
      BY <1>2, <2>1, <2>2 DEF Enabled
  <1>8. \A l, n : Leaves(c, l, n) => Leaves(c, l, n)'
    BY <1>2, <1>7, SamePort, SameTask DEF Leaves
  <1>9. /\ \A l, n, f : IsFlags(c, l, n, f) => IsFlags(c, l, n, f)'
        /\ \A l : Under(c, l)' = Under(c, l)
        /\ \A l, w : IsR0(c, l, w) => IsR0(c, l, w)'
        /\ \A f : IsSreg(c, f) => IsSreg(c, f)'
        /\ \A l, n : Full(c, l, n)' = Full(c, l, n)
        /\ \A s : Bytes(s)' = Bytes(s)
        /\ AddressSize' = AddressSize
    BY <1>2, SamePort, SameTask
  <1>10. \A l, n : R0Back(c, l, n) => R0Back(c, l, n)'
    BY <1>2, <1>9 DEF R0Back
  <1>11. CASE AtOwn(c)
    <2>1. c \in live /\ sreg \in Words
      BY <1>1, <1>11 DEF AtOwn, ContextTypeOK
    <2>2. AtOwn(c)'
      BY <1>2, <1>11, <2>1, OwnKept
    <2>. QED
      BY <1>2, <1>3, <1>4, <1>5, <1>6, <2>1, <2>2, GoesOn
  <1>12. CASE \E l \in Stops : AtStop(c, l)
    <2>1. PICK l \in Stops : AtStop(c, l)
      BY <1>12
    <2>3. AtStop(c, l)'
      BY <1>2, <1>7, <1>9, <2>1 DEF AtStop
    <2>. QED
      BY <1>2, <1>3, <1>4, <1>5, <1>6, <2>3, StopsAt
  <1>13. CASE Leaving(c)
    <2>1. PICK l \in Stops, n \in Nat :
             \/ LeavesUnmasked(c, l, n) \/ LeavesRestoring(c, l, n)
             \/ LeavesReturning(c, l, n) \/ LeavesIsr(c, l, n)
      BY <1>13 DEF Leaving
    <2>2. /\ LeavesUnmasked(c, l, n) => LeavesUnmasked(c, l, n)'
          /\ LeavesRestoring(c, l, n) => LeavesRestoring(c, l, n)'
      BY <1>2, <1>7, <1>8, <1>9 DEF LeavesUnmasked, LeavesRestoring
    <2>3. /\ LeavesReturning(c, l, n) => LeavesReturning(c, l, n)'
          /\ LeavesIsr(c, l, n) => LeavesIsr(c, l, n)'
      BY <1>2, <1>8, <1>9, <1>10 DEF LeavesReturning, LeavesIsr
    <2>. QED
      BY <1>2, <1>3, <1>4, <1>5, <1>6, <2>1, <2>2, <2>3, LeavesOn
  <1>14. CASE Switching(c)
    <2>1. PICK l \in Stops, n \in Nat : InKernel(c, l, n)
      BY <1>14 DEF Switching
    <2>2. InKernel(c, l, n)'
      BY <1>2, <1>7, <2>1, SavedKept DEF InKernel
    <2>3. Switching(c)'
      BY <2>2 DEF Switching, Stops
    <2>4. Running'
      BY <1>2, <1>3, <2>3 DEF Running
    <2>. QED
      BY <1>4, <1>5, <1>6, <2>4 DEF ContextInv
  <1>. QED
    BY <1>3, <1>11, <1>12, <1>13, <1>14

-----------------------------------------------------------------------------
\* main, as it begins.
LEMMA InitHas ==
    ASSUME Init
    PROVE  ContextInv
  <1>1. /\ port \in Ports /\ pc = "own" /\ sp = Idle /\ kStackPointer = 0
        /\ computed = [t \in Task |-> 0] /\ reg = [r \in Registers |-> Own(Idle, r)]
        /\ sreg = Own(Idle, "SREG") /\ stack = [s \in Task \cup {Kernel} |-> <<>>]
        /\ stackPtr = [t \in Task |-> <<t, 0>>] /\ currentTask = Idle
        /\ kCriticalNesting = 0 /\ live = {Idle} /\ started = FALSE
        /\ open = [t \in Task |-> <<>>] /\ own = [t \in Task |-> 0]
        /\ spoiled = {} /\ panicked = {}
    BY DEF Init
  <1>2. Idle \in Task /\ Kernel \notin Task /\ MaxOpen \in Nat
    BY ContextAssumption
  <1>3. \A r \in Registers \cup {"SREG"} : Own(Idle, r) = <<r, Idle, 0, 0>>
    BY <1>1, <1>2 DEF Own, Word
  <1>4. /\ \A r \in Registers \cup {"SREG"} : Own(Idle, r) \in Words
        /\ Own(Idle, "SREG")[1] = "SREG" /\ ~Enabled(Own(Idle, "SREG"))
        /\ Masked(Own(Idle, "SREG")) = Own(Idle, "SREG")
    <2>1. \A r \in Registers \cup {"SREG"} : <<r, Idle, 0, 0>> \in Words
      BY <1>2, WordOf
    <2>. QED
      BY <1>3, <2>1 DEF Enabled, Masked
  <1>5. ContextTypeOK
    <2>1. stack \in [Task \cup {Kernel} -> Seq(Words)]
      BY <1>1
    <2>2. open \in [Task -> Seq({"critical", "safe"} \X Words)]
      BY <1>1
    <2>3. stackPtr \in [Task -> (Task \cup {Kernel}) \X Nat]
      BY <1>1
    <2>4. reg \in [Registers -> Words] /\ sreg \in Words /\ sreg[1] = "SREG"
      BY <1>1, <1>4
    <2>5. own \in [Task -> OwnUses \cup {0}] /\ computed \in [Task -> {0, 1}]
      BY <1>1
    <2>6. /\ port \in Ports /\ pc \in Labels /\ sp \in Task \cup {Kernel}
          /\ kStackPointer \in Nat /\ currentTask \in Task /\ kCriticalNesting \in 0..255
          /\ live \subseteq Task /\ Idle \in live /\ started \in BOOLEAN
          /\ spoiled \subseteq Task \ {Idle} /\ panicked \subseteq Task \ {Idle}
      <3>1. live = {Idle} /\ spoiled = {} /\ panicked = {} /\ started = FALSE
        BY <1>1
      <3>2. /\ live \subseteq Task /\ Idle \in live /\ started \in BOOLEAN
            /\ spoiled \subseteq Task \ {Idle} /\ panicked \subseteq Task \ {Idle}
        BY <1>2, <3>1
      <3>3. /\ port \in Ports /\ pc = "own" /\ sp = Idle /\ kStackPointer = 0
            /\ currentTask = Idle /\ kCriticalNesting = 0
        BY <1>1
      <3>4. /\ port \in Ports /\ pc \in Labels /\ sp \in Task \cup {Kernel}
            /\ kStackPointer \in Nat /\ currentTask \in Task /\ kCriticalNesting \in 0..255
        BY <1>2, <3>3 DEF Labels
      <3>. QED
        BY <3>2, <3>4
    <2>. QED
      BY <2>1, <2>2, <2>3, <2>4, <2>5, <2>6 DEF ContextTypeOK
  <1>6. \A t \in Task : open[t] = <<>> /\ Remembers(t) /\ Len(open[t]) <= MaxOpen
    <2>1. \A t \in Task : open[t] = <<>> /\ DOMAIN open[t] = {} /\ Len(open[t]) = 0
      BY <1>1
    <2>. QED
      BY <1>2, <2>1 DEF Remembers
  <1>7. Sections
    <2>1. \A t \in Task : Depth(open[t]) = 0
      BY <1>6, NoSections
    <2>. QED
      BY <1>1, <1>6, <2>1 DEF Sections
  <1>8. Parked /\ KernelStack /\ Phases /\ StackSuffices
    BY <1>1, <1>2 DEF Parked, KernelStack, Phases, StackSuffices
  <1>9. AtOwn(Idle)
    <2>1. OtherRegisters(Idle) /\ reg["r0"] = Own(Idle, "r0")
      BY <1>1 DEF OtherRegisters, Registers
    <2>2. OwnStack(Idle)
      <3>1. Base(Idle) = <<>> /\ stack[Idle] = <<>> /\ open[Idle] = <<>>
        BY <1>1, <1>2 DEF Base
      <3>2. Depth(open[Idle]) = 0
        BY <3>1, NoSections
      <3>3. Len(<<>>) = 0 /\ Len(<<>>) + 0 = 0 /\ 1..0 = {}
        OBVIOUS
      <3>4. Holds(Base(Idle), stack[Idle], open[Idle])
        BY <3>1, <3>2, <3>3 DEF Holds
      <3>. QED
        BY <3>1, <3>4 DEF OwnStack
    <2>. QED
      BY <1>1, <1>4, <2>1, <2>2 DEF AtOwn
  <1>10. Running
    BY <1>1, <1>2, <1>9 DEF Running
  <1>. QED
    BY <1>5, <1>7, <1>8, <1>10 DEF ContextInv

-----------------------------------------------------------------------------
\* What holds then.
IsCut(w, s, base, n) ==
    s = base \o w /\ Len(w) = n /\ \A i \in 1..n : w[i] = s[Len(base) + i]

LEMMA Cut ==
    ASSUME NEW S, NEW base \in Seq(S), NEW s \in Seq(S), NEW n \in Nat,
           Len(s) = Len(base) + n, \A i \in 1..Len(base) : s[i] = base[i]
    PROVE  \E w \in Seq(S) : IsCut(w, s, base, n)
  <1>1. PICK b \in Nat : b = Len(base)
    OBVIOUS
  <1>2. SubSeq(s, b + 1, b + n) \in Seq(S)
    BY <1>1
  <1>3. PICK w \in Seq(S) : w = SubSeq(s, b + 1, b + n)
    BY <1>2
  <1>4. Len(w) = n /\ \A i \in 1..n : w[i] = s[b + i]
    BY <1>1, <1>3
  <1>5. s = base \o w
    <2>1. PICK d \in Seq(S) : d = base \o w
      <3>1. base \o w \in Seq(S)
        OBVIOUS
      <3>. QED
        BY <3>1
    <2>2. /\ Len(d) = b + n /\ \A i \in 1..b : d[i] = base[i]
          /\ \A i \in 1..n : d[b + i] = w[i]
      <3>1. Concatenates(base, w)
        BY Concatenated
      <3>. QED
        BY <1>1, <1>4, <2>1, <3>1 DEF Concatenates
    <2>3. \A i \in 1..(b + n) : s[i] = d[i]
      <3>. TAKE i \in 1..(b + n)
      <3>1. CASE i <= b
        BY <1>1, <2>2, <3>1
      <3>2. CASE i > b
        <4>1. PICK j \in 1..n : i = b + j
          <5>1. i - b \in 1..n /\ i = b + (i - b)
            BY <3>2, SMTT(30)
          <5>. QED
            BY <5>1
        <4>. QED
          BY <1>4, <2>2, <4>1
      <3>. QED
        BY <3>1, <3>2
    <2>4. s = d
      BY <1>1, <2>2, <2>3
    <2>. QED
      BY <2>1, <2>4
  <1>6. IsCut(w, s, base, n)
    BY <1>1, <1>3, <1>4, <1>5 DEF IsCut
  <1>. QED
    BY <1>6

LEMMA InvKept ==
    ASSUME ContextInv
    PROVE  ContextKept
  <1>. SUFFICES ASSUME pc = "own"
                PROVE  ContextKept
    BY DEF ContextKept
  <1>1. PICK t \in Task : OwnFacts(t)
    BY OwnHas
  <1>. DEFINE S == {"critical", "safe"} \X Words
  <1>2. PICK s \in Seq(Words), o \in Seq(S), b \in Seq(Words) :
           s = stack[t] /\ o = open[t] /\ b = Base(t)
    BY <1>1 DEF OwnFacts
  <1>. HIDE DEF S
  <1>3. IF port = "mega2560" THEN Holds(b, s, o) ELSE s = b
    BY <1>1, <1>2 DEF OwnFacts
  <1>4. PICK n \in Nat : n = IF port = "mega2560" THEN Depth(o) ELSE 0
    <2>1. Depth(o) \in Nat
      BY DepthIn
    <2>. QED
      BY <2>1
  <1>5. /\ Len(s) = Len(b) + n /\ \A i \in 1..Len(b) : s[i] = b[i]
        /\ \A i \in 1..n : s[Len(b) + i] = Eecr
    <2>1. CASE port = "mega2560"
      BY <1>3, <1>4, <2>1 DEF Holds
    <2>2. CASE port # "mega2560"
      <3>1. s = b /\ n = 0
        BY <1>3, <1>4, <2>2
      <3>. QED
        BY <3>1
    <2>. QED
      BY <2>1, <2>2
  <1>6. PICK w \in Seq(Words) : IsCut(w, s, b, n)
    BY <1>5, Cut
  <1>7. w = [i \in 1..n |-> Eecr]
    <2>1. Len(w) = n /\ \A i \in 1..n : w[i] = Eecr
      BY <1>5, <1>6 DEF IsCut
    <2>2. DOMAIN w = 1..n /\ w = [i \in DOMAIN w |-> w[i]]
      BY <2>1
    <2>. QED
      BY <2>1, <2>2
  <1>8. s = b \o [i \in 1..n |-> Eecr]
    BY <1>6, <1>7 DEF IsCut
  <1>9. /\ sp = currentTask /\ currentTask = t /\ Masked(sreg) = Own(t, "SREG")
        /\ \A r \in Registers : reg[r] = Own(t, r)
    BY <1>1 DEF OwnFacts, Own, Word
  <1>10. stack[t] = Base(t) \o [i \in 1..(IF port = "mega2560" THEN Depth(open[t]) ELSE 0)
                                   |-> Eecr]
    BY <1>2, <1>4, <1>8
  <1>. QED
    BY <1>9, <1>10 DEF ContextKept

LEMMA InvBalance ==
    ASSUME ContextInv
    PROVE  SectionsBalance
  <1>1. ContextTypeOK /\ Sections
    BY DEF ContextInv
  <1>2. kCriticalNesting = (IF port = "mega2560" THEN 0 ELSE Depth(open[currentTask]))
    <2>1. PICK t \in Task : t = currentTask
      BY <1>1 DEF ContextTypeOK
    <2>. QED
      BY <1>1, <2>1 DEF Sections
  <1>3. ASSUME pc = "own"
        PROVE  Enabled(sreg) => started /\ open[currentTask] = <<>>
    <2>1. PICK t \in Task : OwnFacts(t)
      BY <1>3, OwnHas
    <2>. QED
      BY <2>1 DEF OwnFacts
  <1>4. \A t \in Task : \A i \in DOMAIN open[t] : Enabled(open[t][i][2]) => i = 1
    BY <1>1 DEF Sections, Remembers
  <1>. QED
    BY <1>2, <1>3, <1>4 DEF SectionsBalance

\* Only tasks_switchTask makes another task current.
LEMMA OthersStay ==
    ASSUME Next, \A n \in Task : ~Dispatch(n)
    PROVE  currentTask' = currentTask
  <1>. USE DEF tasks
  <1>1. ASSUME StartScheduler \/ Compute \/ EnterCritical \/ ExitCritical
               \/ EnterCriticalSafe \/ ExitCriticalSafe
        PROVE  currentTask' = currentTask
    BY <1>1 DEF StartScheduler, Compute, EnterCritical, ExitCritical, EnterCriticalSafe,
                ExitCriticalSafe
  <1>2. ASSUME NEW t \in Task, (\E use \in OwnUses : Create(t, use)) \/ Delete(t)
        PROVE  currentTask' = currentTask
    BY <1>2 DEF Create, Delete
  <1>3. ASSUME CallYield \/ PushR0 \/ ReadSreg \/ SaveOnYield \/ Interrupt
        PROVE  currentTask' = currentTask
    BY <1>3 DEF CallYield, PushR0, ReadSreg, SaveOnYield, Interrupt, SaveRest
  <1>4. ASSUME WriteSreg \/ PopR0 \/ Ret \/ Reti \/ ReturnFromEntry \/ ReturnHook
        PROVE  currentTask' = currentTask
    BY <1>4 DEF WriteSreg, PopR0, Ret, Reti, ReturnFromEntry, ReturnHook, ReturnTo
  <1>. QED
    BY <1>1, <1>2, <1>3, <1>4 DEF Next

LEMMA DispatchLeaves ==
    ASSUME ContextInv, NEW m \in Task, Dispatch(m), m # currentTask
    PROVE  open[currentTask] = <<>>
  <1>1. ContextTypeOK /\ pc = "kernel"
    BY DEF ContextInv, Dispatch
  <1>2. PICK c \in Task, k \in Stops, j \in Nat : currentTask = c /\ InKernel(c, k, j)
    BY <1>1, Where DEF ContextInv, Whereabouts, Switching
  <1>3. Rests(c, k)
    BY <1>2 DEF InKernel, Saved
  <1>. QED
    BY <1>2, <1>3 DEF Rests

LEMMA NextKeeps ==
    ASSUME ContextInv, Next
    PROVE  ContextInv'
  <1>1. CASE StartScheduler
    BY <1>1, StartSchedulerKeeps
  <1>2. CASE Compute
    BY <1>2, ComputeKeeps
  <1>3. CASE \E t \in Task, use \in OwnUses : Create(t, use)
    BY <1>3, CreateKeeps
  <1>4. CASE \E t \in Task : Delete(t)
    BY <1>4, DeleteKeeps
  <1>5. CASE EnterCritical \/ ExitCritical
    BY <1>5, EnterCriticalKeeps, ExitCriticalKeeps
  <1>6. CASE EnterCriticalSafe \/ ExitCriticalSafe
    BY <1>6, EnterCriticalSafeKeeps, ExitCriticalSafeKeeps
  <1>7. CASE CallYield \/ PushR0 \/ ReadSreg \/ SaveOnYield
    BY <1>7, CallYieldKeeps, PushR0Keeps, ReadSregKeeps, SaveOnYieldKeeps
  <1>8. CASE Interrupt
    BY <1>8, InterruptKeeps
  <1>9. CASE \E n \in Task : Dispatch(n)
    BY <1>9, DispatchKeeps
  <1>10. CASE WriteSreg \/ PopR0 \/ Ret \/ Reti
    BY <1>10, WriteSregKeeps, PopR0Keeps, RetKeeps, RetiKeeps
  <1>11. CASE ReturnFromEntry \/ ReturnHook
    BY <1>11, ReturnFromEntryKeeps, ReturnHookKeeps
  <1>. QED
    BY <1>1, <1>2, <1>3, <1>4, <1>5, <1>6, <1>7, <1>8, <1>9, <1>10, <1>11 DEF Next

\* The invariant holds in every state of every behaviour.
LEMMA Invariant ==
    Spec => []ContextInv
  <1>1. Init => ContextInv
    BY InitHas
  <1>2. ContextInv /\ [Next]_vars => ContextInv'
    BY NextKeeps, StutterKeeps
  <1>. QED
    BY <1>1, <1>2, PTL DEF Spec

-----------------------------------------------------------------------------
\* An instruction is at a known label, what is in a register or on a stack is a word,
\* SREG holds a saved SREG and every stackPtr lies within a stack, whatever tasks there
\* are and however large their stacks (context.S, stack.c).
THEOREM ContextTypes ==
    Spec => []ContextTypeOK
  <1>1. ContextInv => ContextTypeOK
    BY DEF ContextInv
  <1>. QED
    BY <1>1, Invariant, PTL

\* A task's own code finds its registers, SREG and its stack as it left them, at whatever
\* instruction it was interrupted, as often as interrupts nest (_arch_save_context_m,
\* _arch_restore_context_m, arch_prepareStackFrame).
THEOREM ContextsAreKept ==
    Spec => []ContextKept
  <1>1. ContextInv => ContextKept
    BY InvKept
  <1>. QED
    BY <1>1, Invariant, PTL

\* Interrupts are off in a task's code as long as it is in a section of either kind, only
\* the outermost may have found them on, and kCriticalNesting counts the critical sections
\* of the running task and of no other (arch_enterCriticalSection, its exit and the two of
\* arch_enterCriticalSectionSafe, as they are assembled).
THEOREM SectionsAreBalanced ==
    Spec => []SectionsBalance
  <1>1. ContextInv => SectionsBalance
    BY InvBalance
  <1>. QED
    BY <1>1, Invariant, PTL

\* A stack with Reserve bytes beyond what its task uses is never reported as corrupt and
\* never written below (arch_checkProtectionRegion, tasks_checkStackBounds), whatever the
\* number of tasks and the nesting.
THEOREM ReserveSuffices ==
    Spec => []StackSuffices
  <1>1. ContextInv => StackSuffices
    BY DEF ContextInv
  <1>. QED
    BY <1>1, Invariant, PTL

\* No task is switched away from in a critical section (tasks_switchTask's test of
\* kCriticalNesting, and the masked interrupts of the ATmega2560).
THEOREM CriticalIsNotPreempted ==
    Spec => CriticalKeepsProcessor
  <1>1. ContextInv /\ [Next]_vars =>
            [currentTask' # currentTask => open[currentTask] = <<>>]_vars
    <2>. SUFFICES ASSUME ContextInv, Next, currentTask' # currentTask
                  PROVE  open[currentTask] = <<>>
      OBVIOUS
    <2>1. PICK n \in Task : Dispatch(n)
      BY OthersStay
    <2>2. currentTask' = n
      BY <2>1 DEF Dispatch
    <2>. QED
      BY <2>1, <2>2, DispatchLeaves
  <1>. QED
    BY <1>1, Invariant, PTL DEF Spec, CriticalKeepsProcessor
=============================================================================
