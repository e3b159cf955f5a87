------------------------ MODULE StreamPartsProofs ------------------------
(***************************************************************************)
(* Facts about the parts that the two lanes share: Bytes and At over       *)
(* sequences of frames, and what each step of the reader and of the credit *)
(* bookkeeping preserves.  The proofs about the lanes cite them by name.   *)
(***************************************************************************)
EXTENDS StreamReader, WriterCredit, FiniteSetTheorems, WellFoundedInduction, TLAPS

-----------------------------------------------------------------------------
(***************************************************************************)
(* Bytes, which adds up the bytes of a sequence of frames: what it gives   *)
(* for an empty, an extended, a concatenated and a shortened sequence; and *)
(* At, which picks elements of a sequence.                                 *)
(***************************************************************************)
\* Induction over the naturals, for a set instead of a predicate.
LEMMA NatSetInduction ==
    ASSUME NEW S \in SUBSET Nat, 0 \in S, \A n \in S : n + 1 \in S
    PROVE  S = Nat
<1>1. SUFFICES ASSUME Nat \ S # {} PROVE FALSE
    OBVIOUS
<1>2. PICK x \in Nat \ S : \A y \in Nat \ S : ~(<<y, x>> \in OpToRel(<, Nat))
    BY <1>1, NatLessThanWellFounded, WFMin
<1>3. x \in Nat /\ x # 0 /\ x - 1 \in Nat
    OBVIOUS
<1>4. <<x - 1, x>> \in OpToRel(<, Nat)
    BY <1>3 DEF OpToRel
<1>5. x - 1 \in S
    BY <1>2, <1>3, <1>4
<1>6. x - 1 + 1 \in S
    BY <1>5
<1>7. QED
    BY <1>3, <1>6

\* The running total of the first n frames of s exists: f[i] is the number of
\* bytes of the first i of them.
RunningTotal(f, s, n) ==
    /\ f \in [0 .. n -> Nat]
    /\ f[0] = 0
    /\ \A i \in 1 .. n : f[i] = f[i - 1] + s[i].bytes

LEMMA RunningTotalExists ==
    ASSUME NEW F, \A x \in F : x.bytes \in Nat, NEW s \in Seq(F)
    PROVE  \E f : RunningTotal(f, s, Len(s))
<1> DEFINE S == {n \in Nat : n <= Len(s) => \E f : RunningTotal(f, s, n)}
<1>1. 0 \in S
  <2>1. RunningTotal([i \in 0 .. 0 |-> 0], s, 0)
      BY DEF RunningTotal
  <2>2. QED
      BY <2>1
<1>2. ASSUME NEW n \in S PROVE n + 1 \in S
  <2>1. SUFFICES ASSUME n + 1 <= Len(s)
                 PROVE  \E f : RunningTotal(f, s, n + 1)
      BY n \in Nat
  <2>2. n \in Nat /\ n <= Len(s) /\ Len(s) \in Nat
      BY <2>1
  <2>3. PICK f : RunningTotal(f, s, n)
      BY <1>2, <2>2
  <2>4. s[n + 1] \in F /\ s[n + 1].bytes \in Nat
      BY <2>1, <2>2
  <2> DEFINE g == [i \in 0 .. n + 1 |->
                     IF i <= n THEN f[i] ELSE f[n] + s[n + 1].bytes]
  <2>5. g \in [0 .. n + 1 -> Nat]
      BY <2>2, <2>3, <2>4 DEF RunningTotal
  <2>6. g[0] = 0
      BY <2>2, <2>3 DEF RunningTotal
  <2>7. ASSUME NEW i \in 1 .. n + 1 PROVE g[i] = g[i - 1] + s[i].bytes
    <3>1. CASE i <= n
        BY <3>1, <2>2, <2>3 DEF RunningTotal
    <3>2. CASE i = n + 1
        BY <3>2, <2>2
    <3>3. QED
        BY <3>1, <3>2, <2>2
  <2>8. RunningTotal(g, s, n + 1)
      BY <2>5, <2>6, <2>7 DEF RunningTotal
  <2>9. QED
      BY <2>8
<1>3. S = Nat
  <2>1. S \in SUBSET Nat
      OBVIOUS
  <2>2. QED
      BY <1>1, <1>2, <2>1, NatSetInduction
<1>4. Len(s) \in Nat /\ Len(s) <= Len(s)
    OBVIOUS
<1>5. Len(s) \in S
    BY <1>3, <1>4
<1>6. QED
    BY <1>4, <1>5

\* Two running totals of one sequence agree.
LEMMA RunningTotalUnique ==
    ASSUME NEW F, \A x \in F : x.bytes \in Nat, NEW s \in Seq(F),
           NEW f, RunningTotal(f, s, Len(s)),
           NEW g, RunningTotal(g, s, Len(s))
    PROVE  f[Len(s)] = g[Len(s)]
<1> DEFINE S == {n \in Nat : n <= Len(s) => f[n] = g[n]}
<1>1. 0 \in S
    BY DEF RunningTotal
<1>2. ASSUME NEW n \in S PROVE n + 1 \in S
  <2>1. SUFFICES ASSUME n + 1 <= Len(s) PROVE f[n + 1] = g[n + 1]
      BY n \in Nat
  <2>2. n \in Nat /\ Len(s) \in Nat /\ n + 1 \in 1 .. Len(s) /\ f[n] = g[n]
      BY <2>1
  <2>3. f[n + 1] = f[(n + 1) - 1] + s[n + 1].bytes
      BY <2>2 DEF RunningTotal
  <2>4. g[n + 1] = g[(n + 1) - 1] + s[n + 1].bytes
      BY <2>2 DEF RunningTotal
  <2>5. (n + 1) - 1 = n
      BY <2>2
  <2>6. QED
      BY <2>2, <2>3, <2>4, <2>5
<1>3. S = Nat
  <2>1. S \in SUBSET Nat
      OBVIOUS
  <2>2. QED
      BY <1>1, <1>2, <2>1, NatSetInduction
<1>4. QED
    BY <1>3

\* Bytes is the last entry of the running total.
LEMMA BytesRunningTotal ==
    ASSUME NEW F, \A x \in F : x.bytes \in Nat, NEW s \in Seq(F),
           NEW f, RunningTotal(f, s, Len(s))
    PROVE  Bytes(s) = f[Len(s)]
<1> DEFINE Body(g) == [n \in 0 .. Len(s) |->
                          IF n = 0 THEN 0 ELSE g[n - 1] + s[n].bytes]
           upTo == CHOOSE g : g = Body(g)
<1>1. Bytes(s) = upTo[Len(s)]
    BY DEF Bytes
<1>2. f = Body(f)
    BY DEF RunningTotal
<1>3. upTo = Body(upTo)
    BY <1>2
<1>4. ASSUME NEW n \in 0 .. Len(s)
      PROVE  upTo[n] = IF n = 0 THEN 0 ELSE upTo[n - 1] + s[n].bytes
    BY <1>3
<1> HIDE DEF upTo
<1> DEFINE S == {n \in Nat : n <= Len(s) => upTo[n] = f[n]}
<1>5. 0 \in S
    BY <1>4 DEF RunningTotal
<1>6. ASSUME NEW n \in S PROVE n + 1 \in S
  <2>1. SUFFICES ASSUME n + 1 <= Len(s) PROVE upTo[n + 1] = f[n + 1]
      BY n \in Nat
  <2>2. n \in Nat /\ Len(s) \in Nat /\ n + 1 \in 1 .. Len(s) /\ upTo[n] = f[n]
      BY <2>1
  <2>3. f[n + 1] = f[(n + 1) - 1] + s[n + 1].bytes
      BY <2>2 DEF RunningTotal
  <2>4. upTo[n + 1] = upTo[(n + 1) - 1] + s[n + 1].bytes
      BY <1>4, <2>2
  <2>5. (n + 1) - 1 = n
      BY <2>2
  <2>6. QED
      BY <2>2, <2>3, <2>4, <2>5
<1>7. S = Nat
  <2>1. S \in SUBSET Nat
      OBVIOUS
  <2>2. QED
      BY <1>5, <1>6, <2>1, NatSetInduction
<1>8. QED
    BY <1>1, <1>7

\* The total of any sequence of frames is a natural number.
LEMMA BytesNat ==
    ASSUME NEW F, \A x \in F : x.bytes \in Nat, NEW s \in Seq(F)
    PROVE  Bytes(s) \in Nat
<1>1. PICK f : RunningTotal(f, s, Len(s))
    BY RunningTotalExists
<1>2. Bytes(s) = f[Len(s)]
    BY <1>1, BytesRunningTotal
<1>3. QED
    BY <1>1, <1>2 DEF RunningTotal

\* No frames, no bytes.
LEMMA BytesEmpty == Bytes(<<>>) = 0
<1>1. <<>> \in Seq({}) /\ Len(<<>>) = 0
    OBVIOUS
<1>2. RunningTotal([i \in 0 .. 0 |-> 0], <<>>, 0)
    BY DEF RunningTotal
<1>3. QED
    BY <1>1, <1>2, BytesRunningTotal

LEMMA PlusAssociative == \A a, b, c \in Nat : a + (b + c) = (a + b) + c
    OBVIOUS

\* Posting one queue behind another adds the totals.
LEMMA BytesConcat ==
    ASSUME NEW F, \A x \in F : x.bytes \in Nat, NEW s \in Seq(F), NEW t \in Seq(F)
    PROVE  Bytes(s \o t) = Bytes(s) + Bytes(t)
<1>1. PICK f : RunningTotal(f, s, Len(s))
    BY RunningTotalExists
<1>2. PICK g : RunningTotal(g, t, Len(t))
    BY RunningTotalExists
<1>3. /\ s \o t \in Seq(F)
      /\ Len(s \o t) = Len(s) + Len(t)
      /\ Len(s) \in Nat
      /\ Len(t) \in Nat
    OBVIOUS
<1> DEFINE h == [i \in 0 .. Len(s) + Len(t) |->
                   IF i <= Len(s) THEN f[i] ELSE f[Len(s)] + g[i - Len(s)]]
<1>4. h \in [0 .. Len(s) + Len(t) -> Nat]
  <2>1. SUFFICES ASSUME NEW i \in 0 .. Len(s) + Len(t) PROVE h[i] \in Nat
      OBVIOUS
  <2>2. f[Len(s)] \in Nat
      BY <1>1, <1>3 DEF RunningTotal
  <2>3. CASE i <= Len(s)
      BY <2>3, <1>1, <1>3 DEF RunningTotal
  <2>4. CASE i > Len(s)
    <3>1. i - Len(s) \in 0 .. Len(t)
        BY <2>4, <1>3
    <3>2. g[i - Len(s)] \in Nat
        BY <3>1, <1>2 DEF RunningTotal
    <3>3. h[i] = f[Len(s)] + g[i - Len(s)]
        BY <2>4, <1>3
    <3>4. QED
        BY <2>2, <3>2, <3>3
  <2>5. QED
      BY <2>3, <2>4, <1>3
<1>5. h[0] = 0
    BY <1>1, <1>3 DEF RunningTotal
<1>6. ASSUME NEW i \in 1 .. Len(s) + Len(t)
      PROVE  h[i] = h[i - 1] + (s \o t)[i].bytes
  <2>1. CASE i <= Len(s)
    <3>1. (s \o t)[i] = s[i]
        BY <2>1, <1>3
    <3>2. f[i] = f[i - 1] + s[i].bytes
        BY <2>1, <1>1, <1>3 DEF RunningTotal
    <3>3. h[i] = f[i] /\ h[i - 1] = f[i - 1]
        BY <2>1, <1>3
    <3>4. QED
        BY <3>1, <3>2, <3>3
  <2>2. CASE i > Len(s)
    <3> DEFINE k == i - Len(s)
    <3>1. k \in 1 .. Len(t) /\ (s \o t)[i] = t[k]
        BY <2>2, <1>3
    <3>2. g[k] = g[k - 1] + t[k].bytes
        BY <3>1, <1>2 DEF RunningTotal
    <3>3. h[i] = f[Len(s)] + g[k]
        BY <2>2, <1>3
    <3>4. h[i - 1] = f[Len(s)] + g[k - 1]
      <4>1. CASE i - 1 = Len(s)
        <5>1. h[i - 1] = f[Len(s)] /\ k - 1 = 0
            BY <4>1, <1>3
        <5>2. g[k - 1] = 0 /\ f[Len(s)] \in Nat
            BY <5>1, <1>1, <1>2, <1>3 DEF RunningTotal
        <5>3. QED
            BY <5>1, <5>2
      <4>2. CASE i - 1 > Len(s)
        <5>1. h[i - 1] = f[Len(s)] + g[(i - 1) - Len(s)]
            BY <4>2, <1>3
        <5>2. (i - 1) - Len(s) = k - 1
            BY <1>3
        <5>3. QED
            BY <5>1, <5>2
      <4>3. QED
          BY <4>1, <4>2, <2>2, <1>3
    <3>5. f[Len(s)] \in Nat /\ g[k] \in Nat /\ g[k - 1] \in Nat
      <4>1. Len(s) \in 0 .. Len(s) /\ k \in 0 .. Len(t) /\ k - 1 \in 0 .. Len(t)
          BY <3>1, <1>3
      <4>2. f \in [0 .. Len(s) -> Nat] /\ g \in [0 .. Len(t) -> Nat]
          BY <1>1, <1>2 DEF RunningTotal
      <4> HIDE DEF k
      <4>3. QED
          BY <4>1, <4>2
    <3>6. t[k].bytes \in Nat
        BY <3>1, <1>3
    <3> HIDE DEF h, k
    <3>7. f[Len(s)] + (g[k - 1] + t[k].bytes) = (f[Len(s)] + g[k - 1]) + t[k].bytes
        BY <3>5, <3>6, PlusAssociative
    <3>8. h[i] = h[i - 1] + t[k].bytes
        BY <3>2, <3>3, <3>4, <3>7
    <3>9. QED
        BY <3>1, <3>8
  <2>3. QED
      BY <2>1, <2>2, <1>3
<1>7. RunningTotal(h, s \o t, Len(s \o t))
    BY <1>3, <1>4, <1>5, <1>6 DEF RunningTotal
<1>8. Bytes(s \o t) = h[Len(s) + Len(t)]
    BY <1>3, <1>7, BytesRunningTotal
<1>9. h[Len(s) + Len(t)] = f[Len(s)] + g[Len(t)]
  <2>1. CASE Len(t) = 0
      BY <2>1, <1>1, <1>2, <1>3 DEF RunningTotal
  <2>2. CASE Len(t) > 0
    <3>1. h[Len(s) + Len(t)] = f[Len(s)] + g[(Len(s) + Len(t)) - Len(s)]
        BY <2>2, <1>3
    <3>2. (Len(s) + Len(t)) - Len(s) = Len(t)
        BY <1>3
    <3>3. QED
        BY <3>1, <3>2
  <2>3. QED
      BY <2>1, <2>2, <1>3
<1>10. Bytes(s) = f[Len(s)] /\ Bytes(t) = g[Len(t)]
    BY <1>1, <1>2, BytesRunningTotal
<1>11. QED
    BY <1>8, <1>9, <1>10

\* One frame.
LEMMA BytesOne ==
    ASSUME NEW x, x.bytes \in Nat
    PROVE  Bytes(<<x>>) = x.bytes
<1>1. <<x>> \in Seq({x}) /\ Len(<<x>>) = 1 /\ <<x>>[1] = x
    OBVIOUS
<1> DEFINE f == [i \in 0 .. 1 |-> IF i = 0 THEN 0 ELSE x.bytes]
<1>2. RunningTotal(f, <<x>>, 1)
    BY <1>1 DEF RunningTotal
<1>3. Bytes(<<x>>) = f[1]
    BY <1>1, <1>2, BytesRunningTotal
<1>4. QED
    BY <1>3

\* Appending a frame adds its bytes.
LEMMA BytesAppend ==
    ASSUME NEW F, \A x \in F : x.bytes \in Nat, NEW s \in Seq(F), NEW x \in F
    PROVE  Bytes(Append(s, x)) = Bytes(s) + x.bytes
<1>1. Append(s, x) = s \o <<x>> /\ <<x>> \in Seq(F)
    OBVIOUS
<1>2. QED
    BY <1>1, BytesConcat, BytesOne

\* Taking the head of a queue takes its bytes away.
LEMMA BytesTail ==
    ASSUME NEW F, \A x \in F : x.bytes \in Nat, NEW s \in Seq(F), s # <<>>
    PROVE  Bytes(s) = Head(s).bytes + Bytes(Tail(s))
<1>1. s = <<Head(s)>> \o Tail(s) /\ <<Head(s)>> \in Seq(F) /\ Tail(s) \in Seq(F)
    OBVIOUS
<1>2. Head(s) \in F
    OBVIOUS
<1>3. QED
    BY <1>1, <1>2, BytesConcat, BytesOne

-----------------------------------------------------------------------------
\* f[i] is what At picks among the first i elements of s.
Picking(f, G, s, I, n) ==
    /\ f \in [0 .. n -> Seq(G)]
    /\ f[0] = <<>>
    /\ \A i \in 1 .. n :
          f[i] = IF i \in I THEN Append(f[i - 1], s[i]) ELSE f[i - 1]

LEMMA PickingExists ==
    ASSUME NEW F, NEW s \in Seq(F), NEW I, NEW G,
           \A i \in I \cap (1 .. Len(s)) : s[i] \in G
    PROVE  \E f : Picking(f, G, s, I, Len(s))
<1> DEFINE S == {n \in Nat : n <= Len(s) => \E f : Picking(f, G, s, I, n)}
<1>1. 0 \in S
  <2>1. Picking([i \in 0 .. 0 |-> <<>>], G, s, I, 0)
      BY DEF Picking
  <2>2. QED
      BY <2>1
<1>2. ASSUME NEW n \in S PROVE n + 1 \in S
  <2>1. SUFFICES ASSUME n + 1 <= Len(s)
                 PROVE  \E f : Picking(f, G, s, I, n + 1)
      BY n \in Nat
  <2>2. n \in Nat /\ n <= Len(s) /\ Len(s) \in Nat
      BY <2>1
  <2>3. PICK f : Picking(f, G, s, I, n)
      BY <1>2, <2>2
  <2> DEFINE next == IF n + 1 \in I THEN Append(f[n], s[n + 1]) ELSE f[n]
             g == [i \in 0 .. n + 1 |-> IF i <= n THEN f[i] ELSE next]
  <2>4. next \in Seq(G)
    <3>1. f[n] \in Seq(G)
        BY <2>2, <2>3 DEF Picking
    <3>2. n + 1 \in I => s[n + 1] \in G
        BY <2>1, <2>2
    <3>3. QED
        BY <3>1, <3>2
  <2> HIDE DEF next
  <2>5. g \in [0 .. n + 1 -> Seq(G)]
      BY <2>2, <2>3, <2>4 DEF Picking
  <2>6. g[0] = <<>>
      BY <2>2, <2>3 DEF Picking
  <2>7. ASSUME NEW i \in 1 .. n + 1
        PROVE  g[i] = IF i \in I THEN Append(g[i - 1], s[i]) ELSE g[i - 1]
    <3>1. CASE i <= n
      <4>1. i \in 1 .. n /\ g[i] = f[i] /\ g[i - 1] = f[i - 1]
          BY <3>1, <2>2
      <4>2. QED
          BY <4>1, <2>3 DEF Picking
    <3>2. CASE i = n + 1
        BY <3>2, <2>2 DEF next
    <3>3. QED
        BY <3>1, <3>2, <2>2
  <2>8. Picking(g, G, s, I, n + 1)
      BY <2>5, <2>6, <2>7 DEF Picking
  <2>9. QED
      BY <2>8
<1>3. S = Nat
  <2>1. S \in SUBSET Nat
      OBVIOUS
  <2>2. QED
      BY <1>1, <1>2, <2>1, NatSetInduction
<1>4. Len(s) \in Nat /\ Len(s) <= Len(s)
    OBVIOUS
<1>5. Len(s) \in S
    BY <1>3, <1>4
<1>6. QED
    BY <1>4, <1>5

LEMMA AtPicking ==
    ASSUME NEW F, NEW s \in Seq(F), NEW I, NEW G,
           NEW f, Picking(f, G, s, I, Len(s))
    PROVE  At(s, I) = f[Len(s)]
<1> DEFINE Body(g) == [n \in 0 .. Len(s) |->
                          IF n = 0 THEN <<>>
                          ELSE IF n \in I THEN Append(g[n - 1], s[n])
                          ELSE g[n - 1]]
           upTo == CHOOSE g : g = Body(g)
<1>1. At(s, I) = upTo[Len(s)]
    BY DEF At
<1>2. f = Body(f)
  <2>1. f \in [0 .. Len(s) -> Seq(G)] /\ Len(s) \in Nat
      BY DEF Picking
  <2>2. ASSUME NEW n \in 0 .. Len(s) PROVE f[n] = Body(f)[n]
    <3>1. CASE n = 0
        BY <3>1 DEF Picking
    <3>2. CASE n # 0
      <4>1. n \in 1 .. Len(s)
          BY <3>2, <2>1
      <4>2. QED
          BY <4>1 DEF Picking
    <3>3. QED
        BY <3>1, <3>2
  <2> DEFINE g == Body(f)
             D == 0 .. Len(s)
  <2>3. f = [n \in D |-> f[n]] /\ g = [n \in D |-> g[n]]
      BY <2>1
  <2>4. \A n \in D : f[n] = g[n]
      BY <2>2
  <2> HIDE DEF Body, g, D
  <2>5. f = g
      BY <2>3, <2>4
  <2>6. QED
      BY <2>5 DEF g
<1>3. upTo = Body(upTo)
    BY <1>2
<1>4. ASSUME NEW n \in 0 .. Len(s)
      PROVE  upTo[n] = IF n = 0 THEN <<>>
                       ELSE IF n \in I THEN Append(upTo[n - 1], s[n])
                       ELSE upTo[n - 1]
    BY <1>3
<1> HIDE DEF upTo
<1> DEFINE S == {n \in Nat : n <= Len(s) => upTo[n] = f[n]}
<1>5. 0 \in S
    BY <1>4 DEF Picking
<1>6. ASSUME NEW n \in S PROVE n + 1 \in S
  <2>1. SUFFICES ASSUME n + 1 <= Len(s) PROVE upTo[n + 1] = f[n + 1]
      BY n \in Nat
  <2>2. n \in Nat /\ Len(s) \in Nat /\ n + 1 \in 1 .. Len(s) /\ upTo[n] = f[n]
      BY <2>1
  <2>3. f[n + 1] = IF n + 1 \in I THEN Append(f[(n + 1) - 1], s[n + 1])
                   ELSE f[(n + 1) - 1]
      BY <2>2 DEF Picking
  <2>4. upTo[n + 1] = IF n + 1 \in I THEN Append(upTo[(n + 1) - 1], s[n + 1])
                      ELSE upTo[(n + 1) - 1]
      BY <1>4, <2>2
  <2>5. (n + 1) - 1 = n
      BY <2>2
  <2>6. QED
      BY <2>2, <2>3, <2>4, <2>5
<1>7. S = Nat
  <2>1. S \in SUBSET Nat
      OBVIOUS
  <2>2. QED
      BY <1>5, <1>6, <2>1, NatSetInduction
<1>8. QED
    BY <1>1, <1>7

\* At picks only elements at the positions asked for.
LEMMA AtElements ==
    ASSUME NEW F, NEW s \in Seq(F), NEW I, NEW G,
           \A i \in I \cap (1 .. Len(s)) : s[i] \in G
    PROVE  At(s, I) \in Seq(G)
<1>1. PICK f : Picking(f, G, s, I, Len(s))
    BY PickingExists
<1>2. At(s, I) = f[Len(s)]
    BY <1>1, AtPicking
<1>3. QED
    BY <1>1, <1>2 DEF Picking

\* At of an empty sequence and of a single element.
LEMMA AtShort ==
    ASSUME NEW F, NEW s \in Seq(F), Len(s) <= 1, NEW I
    PROVE  At(s, I) = IF Len(s) = 1 /\ 1 \in I THEN s ELSE <<>>
<1>1. PICK f : Picking(f, F, s, I, Len(s))
  <2>1. \A i \in I \cap (1 .. Len(s)) : s[i] \in F
      OBVIOUS
  <2>2. QED
      BY <2>1, PickingExists
<1>2. At(s, I) = f[Len(s)]
    BY <1>1, AtPicking
<1>3. CASE Len(s) = 0
    BY <1>1, <1>2, <1>3 DEF Picking
<1>4. CASE Len(s) = 1
  <2>1. f[1] = IF 1 \in I THEN Append(f[1 - 1], s[1]) ELSE f[1 - 1]
      BY <1>1, <1>4 DEF Picking
  <2>2. f[1 - 1] = <<>>
      BY <1>1 DEF Picking
  <2>3. Append(<<>>, s[1]) = s
      BY <1>4
  <2>4. QED
      BY <1>2, <1>4, <2>1, <2>2, <2>3
<1>5. Len(s) \in Nat
    OBVIOUS
<1>6. Len(s) = 0 \/ Len(s) = 1
    BY <1>5
<1>7. QED
    BY <1>3, <1>4, <1>6
\* h gives the positions in s of the elements that t picks from the first n.
Places(h, t, s, I, n) ==
    /\ h \in [1 .. Len(t) -> I \cap (1 .. n)]
    /\ \A k \in 1 .. Len(t) : t[k] = s[h[k]]
    /\ \A j, k \in 1 .. Len(t) : h[j] = h[k] => j = k
    /\ \A i \in I \cap (1 .. n) : \E k \in 1 .. Len(t) : h[k] = i

LEMMA PlacesNext ==
    ASSUME NEW F, NEW s \in Seq(F), NEW I, NEW n \in Nat, n + 1 <= Len(s),
           NEW t \in Seq(F), NEW h, Places(h, t, s, I, n), n + 1 \in I
    PROVE  \E g : Places(g, Append(t, s[n + 1]), s, I, n + 1)
<1> DEFINE u == Append(t, s[n + 1])
           l == Len(t)
           g == [k \in 1 .. l + 1 |-> IF k <= l THEN h[k] ELSE n + 1]
<1>1. /\ l \in Nat /\ Len(u) = l + 1 /\ s[n + 1] \in F
      /\ \A k \in 1 .. l : u[k] = t[k]
      /\ u[l + 1] = s[n + 1]
    OBVIOUS
<1>2. /\ \A k \in 1 .. l : k \in 1 .. l + 1 /\ g[k] = h[k] /\ h[k] \in I /\ h[k] \in 1 .. n
      /\ g[l + 1] = n + 1
      /\ \A k \in 1 .. l + 1 : k \in 1 .. l \/ k = l + 1
  <2>0. /\ l \in Nat /\ \A k \in 1 .. l : h[k] \in I \cap (1 .. n)
      BY <1>1 DEF Places
  <2> HIDE DEF l, u
  <2>1. \A k \in 1 .. l : k \in 1 .. l + 1 /\ k <= l
      BY <2>0
  <2>2. l + 1 \in 1 .. l + 1 /\ ~(l + 1 <= l)
      BY <2>0
  <2>3. \A k \in 1 .. l + 1 : k \in 1 .. l \/ k = l + 1
      BY <2>0
  <2>4. QED
      BY <2>0, <2>1, <2>2, <2>3
<1>3. \A i \in 1 .. n : i \in 1 .. n + 1 /\ i # n + 1
    OBVIOUS
<1>4. g \in [1 .. l + 1 -> I \cap (1 .. n + 1)]
  <2>1. n + 1 \in 1 .. n + 1
      OBVIOUS
  <2>2. \A k \in 1 .. l + 1 : g[k] \in I \cap (1 .. n + 1)
      BY <1>2, <1>3, <2>1
  <2>3. QED
      BY <2>2
<1>5. l + 1 \in 1 .. l + 1
    BY <1>1
<1>6. \A i \in 1 .. n + 1 : i \in 1 .. n \/ i = n + 1
    OBVIOUS
<1> HIDE DEF g, u
<1>7. \A k \in 1 .. l + 1 : u[k] = s[g[k]]
    BY <1>1, <1>2 DEF Places
<1>8. \A j, k \in 1 .. l + 1 : g[j] = g[k] => j = k
    BY <1>2, <1>3 DEF Places
<1>9. \A i \in I \cap (1 .. n + 1) : \E k \in 1 .. l + 1 : g[k] = i
    BY <1>2, <1>5, <1>6 DEF Places
<1>10. Places(g, u, s, I, n + 1)
    BY <1>1, <1>4, <1>7, <1>8, <1>9 DEF Places
<1>11. QED
    BY <1>10 DEF u

\* At picks each of the elements asked for, and picks it once.
LEMMA AtPlaces ==
    ASSUME NEW F, NEW s \in Seq(F), NEW I
    PROVE  At(s, I) \in Seq(F) /\ \E h : Places(h, At(s, I), s, I, Len(s))
<1>1. PICK f : Picking(f, F, s, I, Len(s))
  <2>1. \A i \in I \cap (1 .. Len(s)) : s[i] \in F
      OBVIOUS
  <2>2. QED
      BY <2>1, PickingExists
<1>2. At(s, I) = f[Len(s)]
    BY <1>1, AtPicking
<1>0. Len(s) \in Nat
    OBVIOUS
<1>3. \A n \in Nat : n <= Len(s) => f[n] \in Seq(F)
    BY <1>0, <1>1 DEF Picking
<1> DEFINE S == {n \in Nat : n <= Len(s) => \E h : Places(h, f[n], s, I, n)}
<1>4. 0 \in S
  <2> DEFINE none == <<>>
  <2>1. /\ Len(none) = 0 /\ 1 .. 0 = {}
        /\ [k \in 1 .. 0 |-> 0] \in [1 .. 0 -> I \cap (1 .. 0)]
      OBVIOUS
  <2>2. f[0] = none
      BY <1>1 DEF Picking
  <2> HIDE DEF none
  <2>3. Places([k \in 1 .. 0 |-> 0], none, s, I, 0)
      BY <2>1 DEF Places
  <2>4. QED
      BY <2>2, <2>3
<1>5. ASSUME NEW n \in S PROVE n + 1 \in S
  <2>1. SUFFICES ASSUME n + 1 <= Len(s)
                 PROVE  \E g : Places(g, f[n + 1], s, I, n + 1)
      BY n \in Nat
  <2>2. n \in Nat /\ n <= Len(s) /\ n + 1 \in 1 .. Len(s) /\ (n + 1) - 1 = n
      BY <1>0, <2>1
  <2>3. PICK h : Places(h, f[n], s, I, n)
      BY <1>5, <2>2
  <2>4. f[n] \in Seq(F)
      BY <1>3, <2>2
  <2>5. f[n + 1] = IF n + 1 \in I THEN Append(f[n], s[n + 1]) ELSE f[n]
      BY <1>1, <2>2 DEF Picking
  <2>6. CASE n + 1 \in I
      BY <2>1, <2>2, <2>3, <2>4, <2>5, <2>6, PlacesNext
  <2>7. CASE n + 1 \notin I
    <3>1. I \cap (1 .. n + 1) = I \cap (1 .. n)
        BY <2>2, <2>7
    <3>2. Places(h, f[n], s, I, n + 1)
        BY <2>3, <3>1 DEF Places
    <3>3. QED
        BY <2>5, <2>7, <3>2
  <2>8. QED
      BY <2>6, <2>7
<1>6. S = Nat
  <2>1. S \in SUBSET Nat
      OBVIOUS
  <2>2. QED
      BY <1>4, <1>5, <2>1, NatSetInduction
<1>7. Len(s) \in S
    BY <1>0, <1>6
<1>8. QED
    BY <1>0, <1>2, <1>3, <1>7

LEMMA AtPicks ==
    ASSUME NEW F, NEW s \in Seq(F), NEW I \in SUBSET DOMAIN s
    PROVE  \E h : /\ h \in [DOMAIN At(s, I) -> I]
                  /\ \A i \in DOMAIN At(s, I) : At(s, I)[i] = s[h[i]]
                  /\ \A i, j \in DOMAIN At(s, I) : h[i] = h[j] => i = j
                  /\ \A i \in I : \E j \in DOMAIN At(s, I) : h[j] = i
<1> DEFINE t == At(s, I)
<1>1. t \in Seq(F) /\ \E h : Places(h, t, s, I, Len(s))
    BY AtPlaces
<1> HIDE DEF t
<1>2. PICK h : Places(h, t, s, I, Len(s))
    BY <1>1
<1>3. DOMAIN t = 1 .. Len(t) /\ I \cap (1 .. Len(s)) = I
    BY <1>1
<1>4. /\ h \in [DOMAIN t -> I]
      /\ \A i \in DOMAIN t : t[i] = s[h[i]]
      /\ \A i, j \in DOMAIN t : h[i] = h[j] => i = j
      /\ \A i \in I : \E j \in DOMAIN t : h[j] = i
    BY <1>2, <1>3 DEF Places
<1>5. QED
    BY <1>4 DEF t

-----------------------------------------------------------------------------
(***************************************************************************)
(* The reader keeps its types.                                             *)
(***************************************************************************)
LEMMA ReaderInitType == ReaderInit => ReaderTypeOK
BY DEF ReaderInit, ReaderTypeOK, ReaderRecords, ReadStates

\* The fields of the reader one by one.
LEMMA ReaderFields ==
    ASSUME ReaderTypeOK
    PROVE  /\ reader.queue \in Seq(Events)
           /\ reader.waiting \in Seq(Readers)
           /\ reader.buffered \in Nat
           /\ reader.pendingCredit \in Nat
           /\ reader.closed \in BOOLEAN
           /\ reader.done \in BOOLEAN
           /\ reader.discarded \in BOOLEAN
           /\ reads \in [Readers -> ReadStates]
           /\ received \in Seq(Nat)
           /\ told \in {"no", "eof", "failed"}
BY DEF ReaderTypeOK, ReaderRecords

\* Chunks and ends are events of the reader.
LEMMA EventKinds ==
    /\ Chunks \subseteq Events
    /\ \A kind \in {"close", "error"} : Control(kind) \in Events
    /\ \A e \in Events : e.bytes \in Nat
    /\ \A e \in Chunks : e.bytes \in Nat
BY DEF Chunks, Events, Control

LEMMA GrantType ==
    ASSUME ReaderTypeOK, NEW had \in Nat, NEW n \in Nat
    PROVE  Granted(had, n) \in Nat /\ StillOwed(had, n) \in Nat
BY ReaderFields DEF Granted, StillOwed

LEMMA PushChunkType ==
    ASSUME ReaderTypeOK, NEW ch \in Chunks, PushChunk(ch)
    PROVE  ReaderTypeOK' /\ PushGrant(ch) \in Nat
<1> USE ReaderFields
<1>1. ch \in Events /\ ch.bytes \in Nat /\ ch.id \in Nat
    BY EventKinds DEF Chunks
<1>2. reader.buffered + ch.bytes \in Nat
    BY <1>1
<1>3. /\ Granted(reader.buffered + ch.bytes, ch.bytes) \in Nat
      /\ StillOwed(reader.buffered + ch.bytes, ch.bytes) \in Nat
    BY <1>1, <1>2, GrantType
<1>4. PushGrant(ch) \in Nat
    BY <1>3 DEF PushGrant
<1>5. CASE Ignoring
  <2>1. UNCHANGED readerVars
      BY <1>5 DEF PushChunk
  <2>2. QED
      BY <1>4, <2>1 DEF readerVars, ReaderTypeOK
<1>6. CASE ~Ignoring /\ reader.waiting = <<>>
  <2> DEFINE q == Append(reader.queue, ch)
             b == reader.buffered + ch.bytes
  <2>1. q \in Seq(Events)
      BY <1>1
  <2>2. /\ reader' = [reader EXCEPT !.queue = q, !.buffered = b]
        /\ UNCHANGED <<reads, received, told>>
      BY <1>6 DEF PushChunk
  <2> HIDE DEF q, b
  <2>3. b \in Nat
      BY <1>2 DEF b
  <2>4. reader' \in ReaderRecords
      BY <2>1, <2>2, <2>3 DEF ReaderRecords, ReaderTypeOK
  <2>5. QED
      BY <1>4, <2>2, <2>4 DEF ReaderTypeOK
<1>7. CASE ~Ignoring /\ reader.waiting # <<>>
  <2> DEFINE owed == StillOwed(reader.buffered + ch.bytes, ch.bytes)
             left == Max0((reader.buffered + ch.bytes) - ch.bytes)
             w == Tail(reader.waiting)
  <2>1. /\ reader' = [reader EXCEPT !.waiting = w, !.buffered = left,
                                    !.pendingCredit = owed]
        /\ reads' = [reads EXCEPT ![Head(reader.waiting)] = "idle"]
        /\ received' = Append(received, ch.id) /\ told' = told
      BY <1>7 DEF PushChunk
  <2>2. owed \in Nat /\ left \in Nat
      BY <1>1, <1>2, <1>3 DEF Max0
  <2>3. w \in Seq(Readers)
      BY <1>7
  <2> HIDE DEF owed, left, w
  <2>4. reader' \in ReaderRecords
      BY <2>1, <2>2, <2>3 DEF ReaderRecords, ReaderTypeOK
  <2>5. reads' \in [Readers -> ReadStates]
      BY <2>1 DEF ReadStates
  <2>6. received' \in Seq(Nat)
      BY <1>1, <2>1
  <2>7. QED
      BY <1>4, <2>1, <2>4, <2>5, <2>6 DEF ReaderTypeOK
<1>8. QED
    BY <1>4, <1>5, <1>6, <1>7

LEMMA PushEndType ==
    ASSUME ReaderTypeOK, NEW kind \in {"close", "error"}, PushEnd(kind)
    PROVE  ReaderTypeOK'
<1> USE ReaderFields
<1>1. Control(kind) \in Events
    BY EventKinds
<1>2. CASE reader.closed
    BY <1>2 DEF PushEnd, readerVars, ReaderTypeOK
<1>3. CASE ~reader.closed /\ reader.waiting = <<>>
  <2> DEFINE q == Append(reader.queue, Control(kind))
  <2>1. q \in Seq(Events)
      BY <1>1
  <2>2. /\ reader' = [reader EXCEPT !.closed = TRUE, !.discarded = TRUE,
                                    !.queue = q]
        /\ UNCHANGED <<reads, received, told>>
      BY <1>3 DEF PushEnd
  <2> HIDE DEF q
  <2>3. reader' \in ReaderRecords
      BY <2>1, <2>2 DEF ReaderRecords, ReaderTypeOK
  <2>4. QED
      BY <2>2, <2>3 DEF ReaderTypeOK
<1>4. CASE ~reader.closed /\ reader.waiting # <<>>
  <2> DEFINE w == Tail(reader.waiting)
  <2>1. w \in Seq(Readers)
      BY <1>4
  <2>2. Settled(kind) \in ReadStates /\ Settled(kind) \in {"no", "eof", "failed"}
      BY DEF Settled, ReadStates
  <2>3. /\ reader' = [reader EXCEPT !.closed = TRUE, !.discarded = TRUE,
                                    !.waiting = w]
        /\ reads' = [reads EXCEPT ![Head(reader.waiting)] = Settled(kind)]
        /\ told' = Settled(kind) /\ UNCHANGED received
      BY <1>4 DEF PushEnd
  <2> HIDE DEF w
  <2>4. reader' \in ReaderRecords
      BY <2>1, <2>3 DEF ReaderRecords, ReaderTypeOK
  <2>5. QED
      BY <2>2, <2>3, <2>4 DEF ReaderTypeOK
<1>5. QED
    BY <1>2, <1>3, <1>4

LEMMA ReadChunkType ==
    ASSUME ReaderTypeOK, NEW r \in Readers, ReadChunk(r)
    PROVE  ReaderTypeOK' /\ ReadGrant \in Nat
<1> USE ReaderFields
<1> DEFINE owed == StillOwed(reader.buffered, Head(reader.queue).bytes)
           left == Max0(reader.buffered - Head(reader.queue).bytes)
           q == Tail(reader.queue)
<1>1. Head(reader.queue) \in Events /\ q \in Seq(Events)
    BY DEF ReadChunk
<1>2. Head(reader.queue).bytes \in Nat /\ Head(reader.queue).id \in Nat
    BY <1>1 DEF Events
<1>3. owed \in Nat /\ ReadGrant \in Nat
    BY <1>2, GrantType DEF ReadGrant
<1>4. left \in Nat
    BY <1>2 DEF Max0
<1>5. /\ reader' = [reader EXCEPT !.queue = q, !.buffered = left,
                                  !.pendingCredit = owed]
      /\ received' = Append(received, Head(reader.queue).id)
      /\ reads' = reads /\ told' = told
    BY DEF ReadChunk
<1> HIDE DEF owed, left, q
<1>6. reader' \in ReaderRecords
    BY <1>1, <1>3, <1>4, <1>5 DEF ReaderRecords, ReaderTypeOK
<1>7. received' \in Seq(Nat)
    BY <1>2, <1>5
<1>8. QED
    BY <1>3, <1>5, <1>6, <1>7 DEF ReaderTypeOK

LEMMA ReadOtherType ==
    ASSUME ReaderTypeOK, NEW r \in Readers,
           ReadEnded(r) \/ ReadEnd(r) \/ ReadWait(r)
    PROVE  ReaderTypeOK'
<1> USE ReaderFields
<1>1. CASE ReadEnded(r)
    BY <1>1 DEF ReadEnded, ReaderTypeOK, ReadStates
<1>2. CASE ReadEnd(r)
  <2> DEFINE q == Tail(reader.queue)
  <2>1. q \in Seq(Events)
      BY <1>2 DEF ReadEnd
  <2>2. /\ Settled(Head(reader.queue).t) \in ReadStates
        /\ Settled(Head(reader.queue).t) \in {"no", "eof", "failed"}
      BY DEF Settled, ReadStates
  <2>3. /\ reader' = [reader EXCEPT !.queue = q, !.done = TRUE]
        /\ reads' = [reads EXCEPT ![r] = Settled(Head(reader.queue).t)]
        /\ told' = Settled(Head(reader.queue).t) /\ UNCHANGED received
      BY <1>2 DEF ReadEnd
  <2> HIDE DEF q
  <2>4. reader' \in ReaderRecords
      BY <2>1, <2>3 DEF ReaderRecords, ReaderTypeOK
  <2>5. QED
      BY <2>2, <2>3, <2>4 DEF ReaderTypeOK
<1>3. CASE ReadWait(r)
  <2> DEFINE w == Append(reader.waiting, r)
  <2>1. w \in Seq(Readers)
      OBVIOUS
  <2>2. /\ reader' = [reader EXCEPT !.waiting = w]
        /\ reads' = [reads EXCEPT ![r] = "pending"]
        /\ UNCHANGED <<received, told>>
      BY <1>3 DEF ReadWait
  <2> HIDE DEF w
  <2>3. reader' \in ReaderRecords
      BY <2>1, <2>2 DEF ReaderRecords, ReaderTypeOK
  <2>4. QED
      BY <2>2, <2>3 DEF ReaderTypeOK, ReadStates
<1>4. QED
    BY <1>1, <1>2, <1>3

LEMMA CancelReadType ==
    ASSUME ReaderTypeOK, CancelRead
    PROVE  ReaderTypeOK'
<1> USE ReaderFields
<1>1. reads' \in [Readers -> ReadStates]
    BY DEF CancelRead, ReadStates
<1> DEFINE q == <<>>
           w == <<>>
<1>2. q \in Seq(Events) /\ w \in Seq(Readers)
    OBVIOUS
<1>3. /\ reader' = [reader EXCEPT !.closed = TRUE, !.done = TRUE,
                                  !.discarded = TRUE, !.queue = q,
                                  !.waiting = w]
      /\ UNCHANGED <<received, told>>
    BY DEF CancelRead
<1> HIDE DEF q, w
<1>4. reader' \in ReaderRecords
    BY <1>2, <1>3 DEF ReaderRecords, ReaderTypeOK
<1>5. QED
    BY <1>1, <1>3, <1>4 DEF ReaderTypeOK

-----------------------------------------------------------------------------
(***************************************************************************)
(* The books of the reader: bytes that enter it stay buffered or withheld  *)
(* until they leave as credit.                                             *)
(***************************************************************************)
Held == reader.buffered + reader.pendingCredit

\* bufferedBytes counts at least the chunks in the queue, so taking one off
\* never drives it below zero.
BufferedCovers == Bytes(reader.queue) <= reader.buffered

LEMMA GrantSplits ==
    ASSUME ReaderTypeOK, NEW had \in Nat, NEW n \in Nat
    PROVE  Granted(had, n) + StillOwed(had, n) = reader.pendingCredit + n
BY ReaderFields DEF Granted, StillOwed

LEMMA PushChunkLedger ==
    ASSUME ReaderTypeOK, BufferedCovers, NEW ch \in Chunks, PushChunk(ch)
    PROVE  /\ BufferedCovers'
           /\ reader'.closed = reader.closed
           /\ Ignoring => Held' = Held /\ PushGrant(ch) = 0
           /\ ~Ignoring => Held' + PushGrant(ch) = Held + ch.bytes
<1> USE ReaderFields
<1>1. ch \in Events /\ ch.bytes \in Nat
    BY EventKinds
<1>2. Bytes(reader.queue) \in Nat
    BY EventKinds, BytesNat
<1>3. CASE Ignoring
  <2>1. UNCHANGED readerVars
      BY <1>3 DEF PushChunk
  <2>2. QED
      BY <1>3, <2>1 DEF readerVars, BufferedCovers, Held, PushGrant
<1>4. CASE ~Ignoring /\ reader.waiting = <<>>
  <2> DEFINE q == Append(reader.queue, ch)
             b == reader.buffered + ch.bytes
  <2>1. Bytes(q) = Bytes(reader.queue) + ch.bytes
      BY <1>1, EventKinds, BytesAppend
  <2>2. reader' = [reader EXCEPT !.queue = q, !.buffered = b]
      BY <1>4 DEF PushChunk
  <2> HIDE DEF q
  <2>3. /\ reader'.queue = q
        /\ reader'.buffered = b
        /\ reader'.pendingCredit = reader.pendingCredit
        /\ reader'.closed = reader.closed
      BY <2>2 DEF ReaderTypeOK, ReaderRecords
  <2>4. BufferedCovers'
      BY <1>1, <1>2, <2>1, <2>3 DEF BufferedCovers
  <2>5. PushGrant(ch) = 0
      BY <1>4 DEF PushGrant
  <2>6. QED
      BY <1>1, <1>4, <2>3, <2>4, <2>5 DEF Held
<1>5. CASE ~Ignoring /\ reader.waiting # <<>>
  <2> DEFINE had == reader.buffered + ch.bytes
             owed == StillOwed(had, ch.bytes)
             left == Max0(had - ch.bytes)
             w == Tail(reader.waiting)
  <2>1. reader' = [reader EXCEPT !.waiting = w, !.buffered = left,
                                 !.pendingCredit = owed]
      BY <1>5 DEF PushChunk
  <2>2. left = reader.buffered
      BY <1>1 DEF Max0
  <2>3. PushGrant(ch) = Granted(had, ch.bytes)
      BY <1>5 DEF PushGrant
  <2>4. had \in Nat
      BY <1>1
  <2> HIDE DEF had
  <2>5. /\ owed \in Nat
        /\ PushGrant(ch) \in Nat
        /\ PushGrant(ch) + owed = reader.pendingCredit + ch.bytes
    <3>1. Granted(had, ch.bytes) \in Nat /\ owed \in Nat
        BY <1>1, <2>4, GrantType
    <3>2. Granted(had, ch.bytes) + owed = reader.pendingCredit + ch.bytes
        BY <1>1, <2>4, GrantSplits
    <3>3. QED
        BY <2>3, <3>1, <3>2
  <2> HIDE DEF owed, left, w
  <2>6. /\ reader'.queue = reader.queue
        /\ reader'.buffered = left
        /\ reader'.pendingCredit = owed
        /\ reader'.closed = reader.closed
      BY <2>1 DEF ReaderTypeOK, ReaderRecords
  <2>7. BufferedCovers'
      BY <2>2, <2>6 DEF BufferedCovers
  <2>8. Held' + PushGrant(ch) = Held + ch.bytes
    <3>1. Held' = left + owed /\ Held = reader.buffered + reader.pendingCredit
        BY <2>6 DEF Held
    <3>2. reader.buffered \in Nat /\ reader.pendingCredit \in Nat
        OBVIOUS
    <3> HIDE ReaderFields
    <3>3. QED
        BY <1>1, <2>2, <2>5, <3>1, <3>2
  <2>9. QED
      BY <1>5, <2>6, <2>7, <2>8
<1>6. QED
    BY <1>3, <1>4, <1>5

LEMMA PushEndLedger ==
    ASSUME ReaderTypeOK, BufferedCovers, NEW kind \in {"close", "error"},
           PushEnd(kind)
    PROVE  BufferedCovers' /\ Held' = Held /\ reader'.closed
<1> USE ReaderFields
<1>1. Control(kind) \in Events /\ Control(kind).bytes = 0
    BY EventKinds DEF Control
<1>2. CASE reader.closed
    BY <1>2 DEF PushEnd, readerVars, BufferedCovers, Held
<1>3. CASE ~reader.closed /\ reader.waiting = <<>>
  <2> DEFINE q == Append(reader.queue, Control(kind))
  <2>1. Bytes(q) = Bytes(reader.queue) + 0
      BY <1>1, EventKinds, BytesAppend
  <2>2. Bytes(reader.queue) \in Nat
      BY EventKinds, BytesNat
  <2>3. reader' = [reader EXCEPT !.closed = TRUE, !.discarded = TRUE,
                                 !.queue = q]
      BY <1>3 DEF PushEnd
  <2> HIDE DEF q
  <2>4. /\ reader'.queue = q
        /\ reader'.buffered = reader.buffered
        /\ reader'.pendingCredit = reader.pendingCredit
        /\ reader'.closed
      BY <2>3 DEF ReaderTypeOK, ReaderRecords
  <2>5. Held' = Held
      BY <2>4 DEF Held
  <2>6. BufferedCovers'
      BY <2>1, <2>2, <2>4 DEF BufferedCovers
  <2>7. QED
      BY <2>4, <2>5, <2>6
<1>4. CASE ~reader.closed /\ reader.waiting # <<>>
  <2> DEFINE w == Tail(reader.waiting)
  <2>1. reader' = [reader EXCEPT !.closed = TRUE, !.discarded = TRUE,
                                 !.waiting = w]
      BY <1>4 DEF PushEnd
  <2> HIDE DEF w
  <2>2. /\ reader'.queue = reader.queue
        /\ reader'.buffered = reader.buffered
        /\ reader'.pendingCredit = reader.pendingCredit
        /\ reader'.closed
      BY <2>1 DEF ReaderTypeOK, ReaderRecords
  <2>3. BufferedCovers'
      BY <2>2 DEF BufferedCovers
  <2>4. Held' = Held
      BY <2>2 DEF Held
  <2>5. QED
      BY <2>2, <2>3, <2>4
<1>5. QED
    BY <1>2, <1>3, <1>4

LEMMA ReadChunkLedger ==
    ASSUME ReaderTypeOK, BufferedCovers, NEW r \in Readers, ReadChunk(r)
    PROVE  /\ BufferedCovers'
           /\ Held' + ReadGrant = Held
           /\ reader'.closed = reader.closed
<1> USE ReaderFields
<1> DEFINE n == Head(reader.queue).bytes
           owed == StillOwed(reader.buffered, n)
           left == Max0(reader.buffered - n)
           q == Tail(reader.queue)
<1>1. Head(reader.queue) \in Events /\ q \in Seq(Events)
    BY DEF ReadChunk
<1>2. n \in Nat /\ Bytes(q) \in Nat
    BY <1>1, EventKinds, BytesNat
<1>3. Bytes(reader.queue) = n + Bytes(q)
    BY EventKinds, BytesTail DEF ReadChunk
<1>4. ReadGrant \in Nat /\ owed \in Nat /\ ReadGrant + owed = reader.pendingCredit + n
    BY <1>2, GrantType, GrantSplits DEF ReadGrant
<1>5. reader' = [reader EXCEPT !.queue = q, !.buffered = left,
                               !.pendingCredit = owed]
    BY DEF ReadChunk
<1>6. left = reader.buffered - n
    BY <1>2, <1>3 DEF Max0, BufferedCovers
<1> HIDE DEF owed, left, q, n
<1>7. /\ reader'.queue = q
      /\ reader'.buffered = left
      /\ reader'.pendingCredit = owed
      /\ reader'.closed = reader.closed
    BY <1>5 DEF ReaderTypeOK, ReaderRecords
<1>8. BufferedCovers'
    BY <1>2, <1>3, <1>6, <1>7 DEF BufferedCovers
<1>9. Held' + ReadGrant = Held
  <2>1. Held' = left + owed /\ Held = reader.buffered + reader.pendingCredit
      BY <1>7 DEF Held
  <2>2. reader.buffered \in Nat /\ reader.pendingCredit \in Nat
      OBVIOUS
  <2> HIDE ReaderFields
  <2>3. QED
      BY <1>2, <1>4, <1>6, <2>1, <2>2
<1>10. QED
    BY <1>7, <1>8, <1>9

LEMMA ReadOtherLedger ==
    ASSUME ReaderTypeOK, BufferedCovers, NEW r \in Readers,
           ReadEnded(r) \/ ReadEnd(r) \/ ReadWait(r)
    PROVE  /\ BufferedCovers'
           /\ Held' = Held
           /\ reader'.closed = reader.closed
<1> USE ReaderFields
<1>1. CASE ReadEnded(r)
    BY <1>1 DEF ReadEnded, BufferedCovers, Held
<1>2. CASE ReadEnd(r)
  <2> DEFINE q == Tail(reader.queue)
  <2>1. Head(reader.queue) \in Events /\ q \in Seq(Events)
      BY <1>2 DEF ReadEnd
  <2>2. Head(reader.queue).bytes \in Nat /\ Bytes(q) \in Nat
      BY <2>1, EventKinds, BytesNat
  <2>3. Bytes(reader.queue) = Head(reader.queue).bytes + Bytes(q)
      BY <1>2, EventKinds, BytesTail DEF ReadEnd
  <2>4. reader' = [reader EXCEPT !.queue = q, !.done = TRUE]
      BY <1>2 DEF ReadEnd
  <2> HIDE DEF q
  <2>5. /\ reader'.queue = q
        /\ reader'.buffered = reader.buffered
        /\ reader'.pendingCredit = reader.pendingCredit
        /\ reader'.closed = reader.closed
      BY <2>4 DEF ReaderTypeOK, ReaderRecords
  <2>6. QED
      BY <2>2, <2>3, <2>5 DEF BufferedCovers, Held
<1>3. CASE ReadWait(r)
  <2> DEFINE w == Append(reader.waiting, r)
  <2>1. reader' = [reader EXCEPT !.waiting = w]
      BY <1>3 DEF ReadWait
  <2> HIDE DEF w
  <2>2. /\ reader'.queue = reader.queue
        /\ reader'.buffered = reader.buffered
        /\ reader'.pendingCredit = reader.pendingCredit
        /\ reader'.closed = reader.closed
      BY <2>1 DEF ReaderTypeOK, ReaderRecords
  <2>3. QED
      BY <2>2 DEF BufferedCovers, Held
<1>4. QED
    BY <1>1, <1>2, <1>3

LEMMA CancelReadLedger ==
    ASSUME ReaderTypeOK, BufferedCovers, CancelRead
    PROVE  BufferedCovers' /\ Held' = Held /\ reader'.closed
<1> USE ReaderFields
<1> DEFINE q == <<>>
           w == <<>>
<1>1. reader' = [reader EXCEPT !.closed = TRUE, !.done = TRUE,
                               !.discarded = TRUE, !.queue = q, !.waiting = w]
    BY DEF CancelRead
<1>2. Bytes(q) = 0
    BY BytesEmpty
<1> HIDE DEF q, w
<1>3. /\ reader'.queue = q
      /\ reader'.buffered = reader.buffered
      /\ reader'.pendingCredit = reader.pendingCredit
      /\ reader'.closed
    BY <1>1 DEF ReaderTypeOK, ReaderRecords
<1>4. BufferedCovers'
    BY <1>2, <1>3 DEF BufferedCovers
<1>5. Held' = Held
    BY <1>3 DEF Held
<1>6. QED
    BY <1>3, <1>4, <1>5

-----------------------------------------------------------------------------
(***************************************************************************)
(* The end of the stream is only in the queue, and only taken off it, once *)
(* the reader is closed.                                                   *)
(***************************************************************************)
EndedWhenClosed ==
    /\ reader.done => reader.closed
    /\ ~reader.closed => reader.queue \in Seq(Chunks)

LEMMA EndedInit == ReaderInit => EndedWhenClosed
BY DEF ReaderInit, EndedWhenClosed

LEMMA EndedUnchanged ==
    ASSUME EndedWhenClosed, UNCHANGED reader
    PROVE  EndedWhenClosed'
BY DEF EndedWhenClosed

LEMMA EndedOnceClosed ==
    ASSUME ReaderTypeOK, EndedWhenClosed, PushEnd("close") \/ PushEnd("error") \/ CancelRead
    PROVE  reader'.closed /\ EndedWhenClosed'
<1>1. PushEnd("close") \/ PushEnd("error") => (reader.closed /\ UNCHANGED reader) \/ reader'.closed
    BY DEF PushEnd, readerVars, ReaderTypeOK, ReaderRecords
<1>2. CancelRead => reader'.closed
    BY DEF CancelRead, ReaderTypeOK, ReaderRecords
<1>3. reader'.closed
    BY <1>1, <1>2
<1>4. QED
    BY <1>3 DEF EndedWhenClosed

LEMMA EndedPushChunk ==
    ASSUME ReaderTypeOK, EndedWhenClosed, NEW ch \in Chunks, PushChunk(ch)
    PROVE  EndedWhenClosed'
<1> USE ReaderFields
<1>1. CASE Ignoring
    BY <1>1, EndedUnchanged DEF PushChunk, readerVars
<1>2. CASE ~Ignoring
  <2>1. reader.queue \in Seq(Chunks) /\ ~reader.done /\ ~reader.closed
      BY <1>2 DEF EndedWhenClosed, Ignoring
  <2>2. /\ reader'.queue = Append(reader.queue, ch) \/ reader'.queue = reader.queue
        /\ reader'.done = reader.done
    <3> DEFINE q == Append(reader.queue, ch)
               b == reader.buffered + ch.bytes
               owed == StillOwed(b, ch.bytes)
               left == Max0(b - ch.bytes)
               w == Tail(reader.waiting)
    <3>1. \/ reader' = [reader EXCEPT !.queue = q, !.buffered = b]
          \/ reader' = [reader EXCEPT !.waiting = w, !.buffered = left, !.pendingCredit = owed]
      <4>1. CASE reader.waiting = <<>>
          BY <1>2, <4>1 DEF PushChunk
      <4>2. CASE reader.waiting # <<>>
        <5>1. reader' = [reader EXCEPT !.waiting = w, !.buffered = left, !.pendingCredit = owed]
            BY <1>2, <4>2 DEF PushChunk
        <5>2. QED
            BY <5>1
      <4>3. QED
          BY <4>1, <4>2
    <3> HIDE DEF q, owed, left, b, w
    <3>2. reader'.queue = q \/ reader'.queue = reader.queue
        BY <3>1 DEF ReaderTypeOK, ReaderRecords
    <3>3. reader'.done = reader.done
        BY <3>1 DEF ReaderTypeOK, ReaderRecords
    <3>4. QED
        BY <3>2, <3>3 DEF q
  <2>3. Append(reader.queue, ch) \in Seq(Chunks)
      BY <2>1
  <2>4. QED
      BY <2>1, <2>2, <2>3, Zenon DEF EndedWhenClosed
<1>3. QED
    BY <1>1, <1>2

LEMMA EndedRead ==
    ASSUME ReaderTypeOK, EndedWhenClosed, NEW r \in Readers,
           ReadChunk(r) \/ ReadEnded(r) \/ ReadEnd(r) \/ ReadWait(r)
    PROVE  EndedWhenClosed'
<1> USE ReaderFields
<1>1. CASE ReadChunk(r)
  <2>1. /\ reader.queue # <<>>
        /\ reader'.queue = Tail(reader.queue)
        /\ reader'.done = reader.done /\ reader'.closed = reader.closed
      BY <1>1 DEF ReadChunk, ReaderTypeOK, ReaderRecords
  <2>2. QED
      BY <2>1 DEF EndedWhenClosed
<1>2. CASE ReadEnded(r)
    BY <1>2, EndedUnchanged DEF ReadEnded
<1>3. CASE ReadEnd(r)
  <2>1. reader.queue # <<>> /\ Head(reader.queue).t # "chunk"
      BY <1>3 DEF ReadEnd
  <2>2. reader.closed
    <3>1. reader.queue \in Seq(Chunks) => Head(reader.queue) \in Chunks
        BY <2>1
    <3>2. QED
        BY <2>1, <3>1 DEF Chunks, EndedWhenClosed
  <2>3. reader'.closed = reader.closed
      BY <1>3 DEF ReadEnd, ReaderTypeOK, ReaderRecords
  <2>4. QED
      BY <2>2, <2>3 DEF EndedWhenClosed
<1>4. CASE ReadWait(r)
  <2>1. /\ reader'.queue = reader.queue
        /\ reader'.done = reader.done /\ reader'.closed = reader.closed
      BY <1>4 DEF ReadWait, ReaderTypeOK, ReaderRecords
  <2>2. QED
      BY <2>1 DEF EndedWhenClosed
<1>5. QED
    BY <1>1, <1>2, <1>3, <1>4

-----------------------------------------------------------------------------
(***************************************************************************)
(* The credit bookkeeping keeps its types.                                 *)
(***************************************************************************)
Waiter == [caller : Callers, need : Nat]
Job == [caller : Callers, tick : BOOLEAN]

LEMMA CreditInitType == CreditInit => CreditTypeOK
<1>1. Window \in Nat
    BY WindowAssumption
<1>2. QED
    BY <1>1 DEF CreditInit, CreditTypeOK, NoCall

LEMMA ElementOfSeq ==
    ASSUME NEW S, NEW s \in Seq(S), NEW i \in DOMAIN s
    PROVE  s[i] \in S
OBVIOUS

LEMMA WaiterFields ==
    ASSUME CreditTypeOK, NEW i \in DOMAIN waiters
    PROVE  /\ waiters[i] \in Waiter
           /\ waiters[i].caller \in Callers
           /\ waiters[i].need \in Nat
<1>1. waiters \in Seq(Waiter)
    BY DEF CreditTypeOK, Waiter
<1>2. waiters[i] \in Waiter
    BY <1>1, ElementOfSeq
<1>3. QED
    BY <1>2 DEF Waiter

LEMMA RemainingType ==
    ASSUME CreditTypeOK, NEW n \in Nat
    PROVE  Remaining(n) \in Nat /\ Remaining(n) <= credits
BY DEF CreditTypeOK, Remaining, Max0

\* waitForWriterCredit out of a balance that is what the call leaves.
LEMMA WaitForCreditType ==
    ASSUME CreditTypeOK, NEW c \in Callers, NEW n \in Nat,
           NEW q \in Seq(Job), credits' \in Nat, credits' <= credits,
           WaitForCredit(c, n, credits', q)
    PROVE  /\ waiters' \in Seq(Waiter)
           /\ jobs' \in Seq(Job)
           /\ WaitersLackCredit => WaitersLackCredit'
<1> DEFINE j == [caller |-> c, tick |-> TRUE]
           w == [caller |-> c, need |-> n]
<1>1. j \in Job /\ w \in Waiter
    BY DEF Job, Waiter
<1>2. waiters \in Seq(Waiter) /\ credits \in Nat
    BY DEF CreditTypeOK, Waiter
<1>3. CASE credits' >= n
  <2>1. jobs' = Append(q, j) /\ waiters' = waiters
      BY <1>3 DEF WaitForCredit
  <2> HIDE DEF j
  <2>2. jobs' \in Seq(Job) /\ waiters' \in Seq(Waiter)
      BY <1>1, <1>2, <2>1
  <2>3. \A i \in DOMAIN waiters : waiters[i].need \in Nat
      BY WaiterFields
  <2>4. QED
      BY <1>2, <2>1, <2>2, <2>3 DEF WaitersLackCredit
<1>4. CASE ~(credits' >= n)
  <2>1. jobs' = q /\ waiters' = Append(waiters, w)
      BY <1>4 DEF WaitForCredit
  <2>2. waiters' \in Seq(Waiter)
      BY <1>1, <1>2, <2>1
  <2>3. \A i \in DOMAIN waiters : waiters[i].need \in Nat
      BY WaiterFields
  <2>4. ASSUME WaitersLackCredit, NEW i \in DOMAIN waiters'
        PROVE  credits' < waiters'[i].need
    <3>1. CASE i \in DOMAIN waiters
      <4>1. waiters'[i] = waiters[i]
          BY <1>2, <2>1, <3>1
      <4>2. QED
          BY <1>2, <2>3, <2>4, <3>1, <4>1 DEF WaitersLackCredit
    <3>2. CASE i \notin DOMAIN waiters
      <4>1. waiters'[i] = w
          BY <1>2, <2>1, <3>2
      <4>2. QED
          BY <1>4, <4>1
    <3>3. QED
        BY <3>1, <3>2
  <2>5. QED
      BY <2>1, <2>2, <2>4 DEF WaitersLackCredit
<1>5. QED
    BY <1>3, <1>4

LEMMA BlockType ==
    ASSUME CreditTypeOK, NEW c \in Callers, NEW n \in Nat,
           NEW todo \in Seq(Chunks), Block(c, n, todo), UNCHANGED credits
    PROVE  /\ CreditTypeOK'
           /\ WaitersLackCredit => WaitersLackCredit'
<1>1. WaitForCredit(c, n, credits', jobs)
    BY DEF Block
<1>2. jobs \in Seq(Job) /\ credits' \in Nat /\ credits' <= credits
    BY DEF CreditTypeOK, Job
<1>3. /\ waiters' \in Seq(Waiter)
      /\ jobs' \in Seq(Job)
      /\ WaitersLackCredit => WaitersLackCredit'
    BY <1>1, <1>2, WaitForCreditType
<1>4. call' \in [Callers -> [need : Nat, todo : Seq(Chunks)]]
    BY DEF Block, CreditTypeOK
<1>5. QED
    BY <1>2, <1>3, <1>4 DEF CreditTypeOK, Waiter, Job

\* The caller of the first job, and what is left of the queue.
LEMMA HeadJob ==
    ASSUME CreditTypeOK, jobs # <<>>
    PROVE  /\ Head(jobs).caller \in Callers
           /\ Tail(jobs) \in Seq(Job)
           /\ call[Head(jobs).caller].todo \in Seq(Chunks)
<1>1. Head(jobs) \in Job /\ Tail(jobs) \in Seq(Job)
  <2>1. jobs \in Seq(Job)
      BY DEF CreditTypeOK, Job
  <2>2. QED
      BY <2>1
<1>2. Head(jobs).caller \in Callers
    BY <1>1 DEF Job
<1>3. QED
    BY <1>1, <1>2 DEF CreditTypeOK

LEMMA SettleType ==
    ASSUME CreditTypeOK, jobs # <<>>, NEW c \in Callers, Settle(c),
           credits' \in Nat, credits' <= credits
    PROVE  /\ CreditTypeOK'
           /\ WaitersLackCredit => WaitersLackCredit'
<1>1. Tail(jobs) \in Seq([caller : Callers, tick : BOOLEAN])
    BY DEF CreditTypeOK
<1>2. NoCall \in [need : Nat, todo : Seq(Chunks)]
    BY DEF NoCall
<1>3. CreditTypeOK'
    BY <1>1, <1>2 DEF Settle, CreditTypeOK
<1>4. \A i \in DOMAIN waiters : waiters[i].need \in Nat
    BY WaiterFields
<1>5. WaitersLackCredit => WaitersLackCredit'
  <2>1. waiters' = waiters /\ credits \in Nat
      BY DEF Settle, CreditTypeOK
  <2>2. QED
      BY <1>4, <2>1 DEF WaitersLackCredit
<1>6. QED
    BY <1>3, <1>5

\* addWriterCredit: no call that the new balance covers is left waiting.
LEMMA AddWriterCreditType ==
    ASSUME CreditTypeOK, NEW n \in Nat, AddWriterCredit(n), UNCHANGED call
    PROVE  CreditTypeOK' /\ WaitersLackCredit'
<1> DEFINE next == credits + n
           covered == {i \in DOMAIN waiters : next >= waiters[i].need}
           rest == DOMAIN waiters \ covered
           woken == At(waiters, covered)
           Short == {w \in Waiter : next < w.need}
<1>1. /\ credits' = next
      /\ waiters' = At(waiters, rest)
      /\ jobs' = jobs \o [i \in DOMAIN woken |->
                             [caller |-> woken[i].caller, tick |-> FALSE]]
    BY DEF AddWriterCredit
<1>2. waiters \in Seq(Waiter) /\ jobs \in Seq(Job) /\ next \in Nat
    BY DEF CreditTypeOK, Waiter, Job
<1>3. \A i \in rest \cap (1 .. Len(waiters)) : waiters[i] \in Short
  <2>1. SUFFICES ASSUME NEW i \in rest PROVE waiters[i] \in Short
      OBVIOUS
  <2>2. waiters[i] \in Waiter /\ waiters[i].need \in Nat
      BY WaiterFields
  <2>3. ~(next >= waiters[i].need)
      OBVIOUS
  <2>4. QED
      BY <1>2, <2>2, <2>3
<1>4. At(waiters, rest) \in Seq(Short)
  <2> HIDE DEF rest, Short
  <2>1. QED
      BY <1>2, <1>3, AtElements
<1>5. woken \in Seq(Waiter)
  <2>1. \A i \in covered \cap (1 .. Len(waiters)) : waiters[i] \in Waiter
      BY <1>2
  <2> HIDE DEF covered
  <2>2. QED
      BY <1>2, <2>1, AtElements
<1>6. [i \in DOMAIN woken |-> [caller |-> woken[i].caller, tick |-> FALSE]]
         \in Seq(Job)
  <2> HIDE DEF woken
  <2>1. \A i \in DOMAIN woken : woken[i].caller \in Callers
    <3>1. \A i \in DOMAIN woken : woken[i] \in Waiter
        BY <1>5, ElementOfSeq
    <3>2. QED
        BY <3>1 DEF Waiter
  <2>2. DOMAIN woken = 1 .. Len(woken) /\ Len(woken) \in Nat
      BY <1>5
  <2>3. \A i \in 1 .. Len(woken) :
           [caller |-> woken[i].caller, tick |-> FALSE] \in Job
      BY <2>1, <2>2 DEF Job
  <2>4. QED
      BY <2>2, <2>3
<1> HIDE DEF next, rest, woken
<1>7. waiters' \in Seq(Short)
    BY <1>1, <1>4
<1>8. waiters' \in Seq(Waiter)
    BY <1>7
<1>9. jobs' \in Seq(Job)
    BY <1>1, <1>2, <1>6
<1>10. WaitersLackCredit'
  <2>1. \A i \in DOMAIN waiters' : next < waiters'[i].need
      BY <1>7
  <2>2. QED
      BY <1>1, <2>1 DEF WaitersLackCredit
<1>11. QED
    BY <1>1, <1>2, <1>8, <1>9, <1>10 DEF CreditTypeOK, Waiter, Job

LEMMA RejectType ==
    ASSUME CreditTypeOK, RejectWriterWaiters, UNCHANGED jobs
    PROVE  CreditTypeOK' /\ WaitersLackCredit'
<1>1. NoCall \in [need : Nat, todo : Seq(Chunks)]
    BY DEF NoCall
<1>2. call' \in [Callers -> [need : Nat, todo : Seq(Chunks)]]
    BY <1>1 DEF RejectWriterWaiters, CreditTypeOK
<1>3. QED
    BY <1>2 DEF RejectWriterWaiters, CreditTypeOK, WaitersLackCredit

LEMMA CreditUnchangedType ==
    ASSUME CreditTypeOK, UNCHANGED creditVars
    PROVE  CreditTypeOK' /\ (WaitersLackCredit => WaitersLackCredit')
BY DEF creditVars, CreditTypeOK, WaitersLackCredit
-----------------------------------------------------------------------------
(***************************************************************************)
(* What the reader withholds.  An open reader buffers just the bytes of    *)
(* its queue, and withholds credit only above the high-water mark: reading *)
(* the queue empty gives every byte back.                                  *)
(***************************************************************************)
WithholdsAboveMark ==
    /\ ~reader.closed => reader.buffered = Bytes(reader.queue)
    /\ reader.pendingCredit # 0 => reader.buffered > HighWater

LEMMA WithholdsInit == ReaderInit => WithholdsAboveMark
<1> DEFINE none == <<>>
<1>1. Bytes(none) = 0
    BY BytesEmpty
<1>2. ReaderInit => reader.queue = none /\ reader.buffered = 0 /\ reader.pendingCredit = 0
    BY DEF ReaderInit
<1> HIDE DEF none
<1>3. QED
    BY <1>1, <1>2 DEF WithholdsAboveMark

LEMMA WithholdsUnchanged ==
    ASSUME WithholdsAboveMark, UNCHANGED reader
    PROVE  WithholdsAboveMark'
BY DEF WithholdsAboveMark

\* What still is owed after a chunk left is owed above the mark.
LEMMA OwedAboveMark ==
    ASSUME NEW had \in Nat, NEW n \in Nat, StillOwed(had, n) # 0
    PROVE  Max0(had - n) > HighWater
BY DEF StillOwed, Withheld

LEMMA PushChunkWithholds ==
    ASSUME ReaderTypeOK, WithholdsAboveMark, NEW ch \in Chunks, PushChunk(ch)
    PROVE  WithholdsAboveMark'
<1> USE ReaderFields
<1>1. ch \in Events /\ ch.bytes \in Nat
    BY EventKinds
<1>2. CASE Ignoring
    BY <1>2, WithholdsUnchanged DEF PushChunk, readerVars
<1>3. CASE ~Ignoring /\ reader.waiting = <<>>
  <2> DEFINE q == Append(reader.queue, ch)
             b == reader.buffered + ch.bytes
  <2>1. Bytes(q) = Bytes(reader.queue) + ch.bytes
      BY <1>1, EventKinds, BytesAppend
  <2>2. reader' = [reader EXCEPT !.queue = q, !.buffered = b]
      BY <1>3 DEF PushChunk
  <2>3. ~reader.closed
      BY <1>3 DEF Ignoring
  <2> HIDE DEF q
  <2>4. /\ reader'.queue = q
        /\ reader'.buffered = b
        /\ reader'.pendingCredit = reader.pendingCredit
      BY <2>2 DEF ReaderTypeOK, ReaderRecords
  <2>5. b = Bytes(q)
      BY <2>1, <2>3 DEF WithholdsAboveMark
  <2>6. reader.pendingCredit # 0 => b > HighWater
      BY <1>1, ReaderAssumption DEF WithholdsAboveMark
  <2> HIDE DEF b
  <2>7. QED
      BY <2>4, <2>5, <2>6 DEF WithholdsAboveMark
<1>4. CASE ~Ignoring /\ reader.waiting # <<>>
  <2> DEFINE had == reader.buffered + ch.bytes
             owed == StillOwed(had, ch.bytes)
             left == Max0(had - ch.bytes)
             w == Tail(reader.waiting)
  <2>1. reader' = [reader EXCEPT !.waiting = w, !.buffered = left,
                                 !.pendingCredit = owed]
      BY <1>4 DEF PushChunk
  <2>2. left = reader.buffered
      BY <1>1 DEF Max0
  <2>3. had \in Nat
      BY <1>1
  <2>4. owed # 0 => left > HighWater
      BY <1>1, <2>3, OwedAboveMark
  <2> HIDE DEF owed, left, w
  <2>5. /\ reader'.queue = reader.queue
        /\ reader'.buffered = left
        /\ reader'.pendingCredit = owed
        /\ reader'.closed = reader.closed
      BY <2>1 DEF ReaderTypeOK, ReaderRecords
  <2>6. QED
      BY <2>2, <2>4, <2>5 DEF WithholdsAboveMark
<1>5. QED
    BY <1>2, <1>3, <1>4

LEMMA PushEndWithholds ==
    ASSUME ReaderTypeOK, WithholdsAboveMark, NEW kind \in {"close", "error"},
           PushEnd(kind)
    PROVE  WithholdsAboveMark'
<1> USE ReaderFields
<1>1. CASE reader.closed
    BY <1>1, WithholdsUnchanged DEF PushEnd, readerVars
<1>2. CASE ~reader.closed
  <2> DEFINE q == Append(reader.queue, Control(kind))
             w == Tail(reader.waiting)
  <2>1. \/ reader' = [reader EXCEPT !.closed = TRUE, !.discarded = TRUE, !.queue = q]
        \/ reader' = [reader EXCEPT !.closed = TRUE, !.discarded = TRUE, !.waiting = w]
      BY <1>2 DEF PushEnd
  <2> HIDE DEF q, w
  <2>2. /\ reader'.buffered = reader.buffered
        /\ reader'.pendingCredit = reader.pendingCredit
        /\ reader'.closed
      BY <2>1 DEF ReaderTypeOK, ReaderRecords
  <2>3. QED
      BY <2>2 DEF WithholdsAboveMark
<1>3. QED
    BY <1>1, <1>2

LEMMA ReadChunkWithholds ==
    ASSUME ReaderTypeOK, WithholdsAboveMark, NEW r \in Readers, ReadChunk(r)
    PROVE  WithholdsAboveMark'
<1> USE ReaderFields
<1> DEFINE n == Head(reader.queue).bytes
           owed == StillOwed(reader.buffered, n)
           left == Max0(reader.buffered - n)
           q == Tail(reader.queue)
<1>1. Head(reader.queue) \in Events /\ q \in Seq(Events)
    BY DEF ReadChunk
<1>2. n \in Nat /\ Bytes(q) \in Nat
    BY <1>1, EventKinds, BytesNat
<1>3. Bytes(reader.queue) = n + Bytes(q)
    BY EventKinds, BytesTail DEF ReadChunk
<1>4. reader' = [reader EXCEPT !.queue = q, !.buffered = left,
                               !.pendingCredit = owed]
    BY DEF ReadChunk
<1>5. ~reader.closed => left = Bytes(q)
    BY <1>2, <1>3 DEF Max0, WithholdsAboveMark
<1>6. owed # 0 => left > HighWater
    BY <1>2, OwedAboveMark
<1> HIDE DEF owed, left, q, n
<1>7. /\ reader'.queue = q
      /\ reader'.buffered = left
      /\ reader'.pendingCredit = owed
      /\ reader'.closed = reader.closed
    BY <1>4 DEF ReaderTypeOK, ReaderRecords
<1>8. QED
    BY <1>5, <1>6, <1>7 DEF WithholdsAboveMark

LEMMA ReadOtherWithholds ==
    ASSUME ReaderTypeOK, WithholdsAboveMark, EndedWhenClosed, NEW r \in Readers,
           ReadEnded(r) \/ ReadEnd(r) \/ ReadWait(r)
    PROVE  WithholdsAboveMark'
<1> USE ReaderFields
<1>1. CASE ReadEnded(r)
    BY <1>1, WithholdsUnchanged DEF ReadEnded
<1>2. CASE ReadEnd(r)
  <2> DEFINE q == Tail(reader.queue)
  <2>1. reader.closed
    <3>1. reader.queue # <<>> /\ Head(reader.queue).t # "chunk"
        BY <1>2 DEF ReadEnd
    <3>2. reader.queue \in Seq(Chunks) => Head(reader.queue) \in Chunks
        BY <3>1
    <3>3. QED
        BY <3>1, <3>2 DEF EndedWhenClosed, Chunks
  <2>2. reader' = [reader EXCEPT !.queue = q, !.done = TRUE]
      BY <1>2 DEF ReadEnd
  <2> HIDE DEF q
  <2>3. /\ reader'.buffered = reader.buffered
        /\ reader'.pendingCredit = reader.pendingCredit
        /\ reader'.closed = reader.closed
      BY <2>2 DEF ReaderTypeOK, ReaderRecords
  <2>4. QED
      BY <2>1, <2>3 DEF WithholdsAboveMark
<1>3. CASE ReadWait(r)
  <2> DEFINE w == Append(reader.waiting, r)
  <2>1. reader' = [reader EXCEPT !.waiting = w]
      BY <1>3 DEF ReadWait
  <2> HIDE DEF w
  <2>2. /\ reader'.queue = reader.queue
        /\ reader'.buffered = reader.buffered
        /\ reader'.pendingCredit = reader.pendingCredit
        /\ reader'.closed = reader.closed
      BY <2>1 DEF ReaderTypeOK, ReaderRecords
  <2>3. QED
      BY <2>2 DEF WithholdsAboveMark
<1>4. QED
    BY <1>1, <1>2, <1>3

LEMMA CancelReadWithholds ==
    ASSUME ReaderTypeOK, WithholdsAboveMark, CancelRead
    PROVE  WithholdsAboveMark'
<1> DEFINE q == <<>>
           w == <<>>
<1>1. reader' = [reader EXCEPT !.closed = TRUE, !.done = TRUE,
                               !.discarded = TRUE, !.queue = q, !.waiting = w]
    BY DEF CancelRead
<1> HIDE DEF q, w
<1>2. /\ reader'.buffered = reader.buffered
      /\ reader'.pendingCredit = reader.pendingCredit
      /\ reader'.closed
    BY <1>1 DEF ReaderTypeOK, ReaderRecords
<1>3. QED
    BY <1>2 DEF WithholdsAboveMark

\* An open reader that has been read empty holds nothing.
LEMMA EmptyHoldsNothing ==
    ASSUME ReaderTypeOK, WithholdsAboveMark, ~reader.closed, reader.queue = <<>>
    PROVE  reader.buffered = 0 /\ reader.pendingCredit = 0
<1> DEFINE none == <<>>
<1>1. Bytes(none) = 0 /\ reader.queue = none
    BY BytesEmpty
<1> HIDE DEF none
<1>2. reader.buffered = 0
    BY <1>1 DEF WithholdsAboveMark
<1>3. QED
    BY <1>2, ReaderAssumption DEF WithholdsAboveMark

-----------------------------------------------------------------------------
(***************************************************************************)
(* Pending calls: each one has one entry among the waiters w and the jobs  *)
(* q, no settled call has any, and a waiter needs what its call needs, the *)
(* bytes of the chunk it sends next.                                       *)
(***************************************************************************)
Tracks(w, q, k) ==
    /\ \A i, j \in DOMAIN w : w[i].caller = w[j].caller => i = j
    /\ \A i, j \in DOMAIN q : q[i].caller = q[j].caller => i = j
    /\ \A i \in DOMAIN w, j \in DOMAIN q : w[i].caller # q[j].caller
    /\ \A c \in Callers : k[c] # NoCall <=> \/ \E i \in DOMAIN w : w[i].caller = c
                                            \/ \E j \in DOMAIN q : q[j].caller = c
    /\ \A c \in Callers : k[c].todo # <<>> => k[c].need = Head(k[c].todo).bytes
    /\ \A i \in DOMAIN w : w[i].need = k[w[i].caller].need

CallsTracked == Tracks(waiters, jobs, call)

CallRecords == [need : Nat, todo : Seq(Chunks)]

\* With no continuation left, every pending call waits for what it needs.
LEMMA PendingWaits ==
    ASSUME CreditTypeOK, CallsTracked, WaitersLackCredit, jobs = <<>>,
           NEW c \in Callers, call[c] # NoCall
    PROVE  credits < call[c].need
<1>1. \E i \in DOMAIN waiters : waiters[i].caller = c
    BY DEF CallsTracked, Tracks
<1>2. PICK i \in DOMAIN waiters : waiters[i].caller = c
    BY <1>1
<1>3. waiters[i].need = call[c].need
    BY <1>2 DEF CallsTracked, Tracks
<1>4. QED
    BY <1>3 DEF WaitersLackCredit

LEMMA AppendElements ==
    ASSUME NEW S, NEW s \in Seq(S), NEW e
    PROVE  /\ \A i \in DOMAIN s : i \in DOMAIN Append(s, e) /\ Append(s, e)[i] = s[i]
           /\ Len(s) + 1 \in DOMAIN Append(s, e) /\ Append(s, e)[Len(s) + 1] = e
           /\ \A i \in DOMAIN Append(s, e) : i \in DOMAIN s \/ i = Len(s) + 1
<1> DEFINE u == Append(s, e)
<1>1. /\ Len(s) \in Nat /\ DOMAIN s = 1 .. Len(s) /\ DOMAIN u = 1 .. Len(s) + 1
      /\ \A i \in 1 .. Len(s) : u[i] = s[i]
      /\ u[Len(s) + 1] = e
    OBVIOUS
<1> HIDE DEF u
<1>2. /\ \A i \in DOMAIN s : i \in DOMAIN u /\ u[i] = s[i]
      /\ Len(s) + 1 \in DOMAIN u /\ u[Len(s) + 1] = e
      /\ \A i \in DOMAIN u : i \in DOMAIN s \/ i = Len(s) + 1
    BY <1>1
<1>3. QED
    BY <1>2 DEF u

LEMMA ConcatElements ==
    ASSUME NEW S, NEW s \in Seq(S), NEW t \in Seq(S)
    PROVE  /\ DOMAIN (s \o t) = 1 .. Len(s) + Len(t) /\ DOMAIN s = 1 .. Len(s) /\ Len(s) \in Nat
           /\ \A i \in 1 .. Len(s) : (s \o t)[i] = s[i]
           /\ \A i \in 1 .. Len(t) : (s \o t)[Len(s) + i] = t[i]
OBVIOUS

LEMMA TailElements ==
    ASSUME NEW S, NEW s \in Seq(S), s # <<>>
    PROVE  /\ 1 \in DOMAIN s /\ Head(s) = s[1]
           /\ DOMAIN Tail(s) \subseteq Nat \ {0}
           /\ \A i \in DOMAIN Tail(s) : i + 1 \in DOMAIN s /\ Tail(s)[i] = s[i + 1]
           /\ \A i \in DOMAIN s : i = 1 \/ (i - 1 \in DOMAIN Tail(s) /\ Tail(s)[i - 1] = s[i])
<1> DEFINE u == Tail(s)
           n == Len(s)
<1>1. /\ n \in Nat \ {0} /\ DOMAIN s = 1 .. n /\ DOMAIN u = 1 .. n - 1
      /\ \A i \in 1 .. n - 1 : u[i] = s[i + 1]
      /\ Head(s) = s[1]
    OBVIOUS
<1> HIDE DEF u, n
<1>2. /\ 1 \in DOMAIN s
      /\ DOMAIN u \subseteq Nat \ {0}
      /\ \A i \in DOMAIN u : i + 1 \in DOMAIN s
      /\ \A i \in DOMAIN s : i = 1 \/ (i - 1 \in 1 .. n - 1 /\ (i - 1) + 1 = i)
    BY <1>1
<1>3. \A i \in DOMAIN s : i = 1 \/ (i - 1 \in DOMAIN u /\ u[i - 1] = s[i])
  <2>1. SUFFICES ASSUME NEW i \in DOMAIN s, i # 1 PROVE i - 1 \in DOMAIN u /\ u[i - 1] = s[i]
      OBVIOUS
  <2>2. i - 1 \in 1 .. n - 1 /\ (i - 1) + 1 = i
      BY <1>2, <2>1
  <2>3. QED
      BY <1>1, <2>2
<1>4. QED
    BY <1>1, <1>2, <1>3 DEF u

\* The call whose continuation runs has settled: its entry goes with it.
LEMMA TracksSettled ==
    ASSUME NEW w, NEW q \in Seq(Job), q # <<>>, NEW k \in [Callers -> CallRecords], Tracks(w, q, k)
    PROVE  Tracks(w, Tail(q), [k EXCEPT ![Head(q).caller] = NoCall])
<1> DEFINE c == Head(q).caller
           t == Tail(q)
           next == [k EXCEPT ![c] = NoCall]
<1>1. /\ 1 \in DOMAIN q /\ q[1].caller = c
      /\ DOMAIN t \subseteq Nat \ {0}
      /\ \A i \in DOMAIN t : i + 1 \in DOMAIN q /\ t[i] = q[i + 1]
      /\ \A i \in DOMAIN q : i = 1 \/ (i - 1 \in DOMAIN t /\ t[i - 1] = q[i])
    BY TailElements
<1>2. c \in Callers
  <2>1. q[1] \in Job
      BY <1>1, ElementOfSeq
  <2>2. QED
      BY <1>1, <2>1 DEF Job
<1>3. next[c] = NoCall /\ (\A d \in Callers : d # c => next[d] = k[d]) /\ NoCall.todo = <<>>
    BY <1>2 DEF NoCall
<1> HIDE DEF c, t, next
<1>4. \A i \in DOMAIN t : t[i].caller # c
  <2>1. SUFFICES ASSUME NEW i \in DOMAIN t, t[i].caller = c PROVE FALSE
      OBVIOUS
  <2>2. i + 1 \in DOMAIN q /\ q[i + 1].caller = q[1].caller
      BY <1>1, <2>1
  <2>3. i + 1 = 1
      BY <1>1, <2>2 DEF Tracks
  <2>4. QED
      BY <1>1, <2>3
<1>5. \A i \in DOMAIN w : w[i].caller # c
    BY <1>1 DEF Tracks
<1>6. \A i, j \in DOMAIN t : t[i].caller = t[j].caller => i = j
  <2>1. SUFFICES ASSUME NEW i \in DOMAIN t, NEW j \in DOMAIN t, t[i].caller = t[j].caller PROVE i = j
      OBVIOUS
  <2>2. i + 1 = j + 1
      BY <1>1, <2>1 DEF Tracks
  <2>3. QED
      BY <1>1, <2>2
<1>7. \A i \in DOMAIN w, j \in DOMAIN t : w[i].caller # t[j].caller
    BY <1>1 DEF Tracks
<1>8. \A d \in Callers : next[d] # NoCall <=> \/ \E i \in DOMAIN w : w[i].caller = d
                                              \/ \E j \in DOMAIN t : t[j].caller = d
  <2>1. SUFFICES ASSUME NEW d \in Callers, d # c
                 PROVE  (\E j \in DOMAIN t : t[j].caller = d) <=> (\E j \in DOMAIN q : q[j].caller = d)
      BY <1>3, <1>4, <1>5 DEF Tracks
  <2>2. ASSUME NEW j \in DOMAIN q, q[j].caller = d PROVE \E i \in DOMAIN t : t[i].caller = d
      BY <1>1, <2>1, <2>2
  <2>3. ASSUME NEW j \in DOMAIN t, t[j].caller = d PROVE \E i \in DOMAIN q : q[i].caller = d
      BY <1>1, <2>3
  <2>4. QED
      BY <2>2, <2>3
<1>9. \A d \in Callers : next[d].todo # <<>> => next[d].need = Head(next[d].todo).bytes
    BY <1>3 DEF Tracks
<1>10. \A i \in DOMAIN w : w[i].need = next[w[i].caller].need
  <2>1. SUFFICES ASSUME NEW i \in DOMAIN w PROVE w[i].need = next[w[i].caller].need
      OBVIOUS
  <2>2. next[w[i].caller] = k[w[i].caller]
    <3>1. w[i].caller # c
        BY <1>5
    <3>2. QED
        BY <1>2, <3>1 DEF next
  <2>3. QED
      BY <2>2 DEF Tracks
<1>11. Tracks(w, t, next)
    BY <1>5, <1>6, <1>7, <1>8, <1>9, <1>10 DEF Tracks
<1>12. QED
    BY <1>11 DEF t, next, c

\* A call that had settled is made: it waits, or its continuation is queued.
LEMMA TracksPending ==
    ASSUME NEW w \in Seq(Waiter), NEW q \in Seq(Job), NEW k \in [Callers -> CallRecords],
           Tracks(w, q, k), NEW c \in Callers, k[c] = NoCall,
           NEW r \in CallRecords, r # NoCall, r.todo # <<>> => r.need = Head(r.todo).bytes,
           NEW tick
    PROVE  /\ Tracks(Append(w, [caller |-> c, need |-> r.need]), q, [k EXCEPT ![c] = r])
           /\ Tracks(w, Append(q, [caller |-> c, tick |-> tick]), [k EXCEPT ![c] = r])
<1> DEFINE a == [caller |-> c, need |-> r.need]
           b == [caller |-> c, tick |-> tick]
           wa == Append(w, a)
           qb == Append(q, b)
           next == [k EXCEPT ![c] = r]
           lw == Len(w) + 1
           lq == Len(q) + 1
<1>1. /\ \A i \in DOMAIN w : i \in DOMAIN wa /\ wa[i] = w[i]
      /\ lw \in DOMAIN wa /\ wa[lw] = a
      /\ \A i \in DOMAIN wa : i \in DOMAIN w \/ i = lw
    BY AppendElements
<1>2. /\ \A i \in DOMAIN q : i \in DOMAIN qb /\ qb[i] = q[i]
      /\ lq \in DOMAIN qb /\ qb[lq] = b
      /\ \A i \in DOMAIN qb : i \in DOMAIN q \/ i = lq
    BY AppendElements
<1>3. a.caller = c /\ a.need = r.need /\ b.caller = c
    OBVIOUS
<1>4. next[c] = r /\ \A d \in Callers : d # c => next[d] = k[d]
    OBVIOUS
<1>5. /\ \A i \in DOMAIN w : w[i].caller # c
      /\ \A i \in DOMAIN q : q[i].caller # c
    BY DEF Tracks
<1>6. \A i \in DOMAIN w : next[w[i].caller] = k[w[i].caller]
    BY <1>5
<1> HIDE DEF a, b, wa, qb, next, lw, lq
<1>7. \A d \in Callers : next[d].todo # <<>> => next[d].need = Head(next[d].todo).bytes
    BY <1>4 DEF Tracks
<1>8. Tracks(wa, q, next)
  <2>1. \A i, j \in DOMAIN wa : wa[i].caller = wa[j].caller => i = j
      BY <1>1, <1>3, <1>5 DEF Tracks
  <2>2. \A i \in DOMAIN wa, j \in DOMAIN q : wa[i].caller # q[j].caller
      BY <1>1, <1>3, <1>5 DEF Tracks
  <2>3. \A d \in Callers : (\E i \in DOMAIN wa : wa[i].caller = d)
                              <=> d = c \/ \E i \in DOMAIN w : w[i].caller = d
      BY <1>1, <1>3
  <2>4. \A d \in Callers : next[d] # NoCall <=> \/ \E i \in DOMAIN wa : wa[i].caller = d
                                                \/ \E j \in DOMAIN q : q[j].caller = d
      BY <1>4, <2>3 DEF Tracks
  <2>5. \A i \in DOMAIN wa : wa[i].need = next[wa[i].caller].need
      BY <1>1, <1>3, <1>4, <1>6 DEF Tracks
  <2>6. QED
      BY <1>7, <2>1, <2>2, <2>4, <2>5 DEF Tracks
<1>9. Tracks(w, qb, next)
  <2>1. \A i, j \in DOMAIN qb : qb[i].caller = qb[j].caller => i = j
      BY <1>2, <1>3, <1>5 DEF Tracks
  <2>2. \A i \in DOMAIN w, j \in DOMAIN qb : w[i].caller # qb[j].caller
      BY <1>2, <1>3, <1>5 DEF Tracks
  <2>3. \A d \in Callers : (\E i \in DOMAIN qb : qb[i].caller = d)
                              <=> d = c \/ \E i \in DOMAIN q : q[i].caller = d
      BY <1>2, <1>3
  <2>4. \A d \in Callers : next[d] # NoCall <=> \/ \E i \in DOMAIN w : w[i].caller = d
                                                \/ \E j \in DOMAIN qb : qb[j].caller = d
      BY <1>4, <2>3 DEF Tracks
  <2>5. \A i \in DOMAIN w : w[i].need = next[w[i].caller].need
      BY <1>6 DEF Tracks
  <2>6. QED
      BY <1>7, <2>1, <2>2, <2>4, <2>5 DEF Tracks
<1>10. QED
    BY <1>8, <1>9 DEF wa, qb, a, b, next

\* What is picked from a sequence, each place of it once.
PickedBy(h, t, s, I) ==
    /\ h \in [DOMAIN t -> I]
    /\ \A i \in DOMAIN t : t[i] = s[h[i]]
    /\ \A i, j \in DOMAIN t : h[i] = h[j] => i = j
    /\ \A i \in I : \E j \in DOMAIN t : h[j] = i

LEMMA WaitersPicked ==
    ASSUME NEW w \in Seq(Waiter), NEW I \in SUBSET DOMAIN w
    PROVE  \E h : PickedBy(h, At(w, I), w, I)
BY AtPicks DEF PickedBy

\* Waiters at the positions I are woken: their entries move to the jobs.
LEMMA TracksWoken ==
    ASSUME NEW w \in Seq(Waiter), NEW q \in Seq(Job), NEW k, Tracks(w, q, k),
           NEW I \in SUBSET DOMAIN w
    PROVE  LET woken == At(w, I)
           IN  Tracks(At(w, DOMAIN w \ I),
                      q \o [i \in DOMAIN woken |-> [caller |-> woken[i].caller, tick |-> FALSE]], k)
<1> DEFINE woken == At(w, I)
           left == At(w, DOMAIN w \ I)
           runs == [i \in DOMAIN woken |-> [caller |-> woken[i].caller, tick |-> FALSE]]
           all == q \o runs
           l == Len(q)
           n == Len(woken)
<1>a. PICK h : PickedBy(h, woken, w, I)
    BY WaitersPicked
<1>b. PICK g : PickedBy(g, left, w, DOMAIN w \ I)
    BY WaitersPicked
<1>c. woken \in Seq(Waiter) /\ n \in Nat /\ DOMAIN woken = 1 .. n
    BY AtPlaces
<1> HIDE DEF woken, left, n
<1>1. /\ \A m \in 1 .. n : h[m] \in I /\ woken[m] = w[h[m]]
      /\ \A m, o \in 1 .. n : h[m] = h[o] => m = o
      /\ \A i \in I : \E m \in 1 .. n : h[m] = i
    BY <1>a, <1>c DEF PickedBy
<1>2. /\ \A i \in DOMAIN left : g[i] \in DOMAIN w /\ g[i] \notin I /\ left[i] = w[g[i]]
      /\ \A i, j \in DOMAIN left : g[i] = g[j] => i = j
      /\ \A i \in DOMAIN w \ I : \E j \in DOMAIN left : g[j] = i
    BY <1>b DEF PickedBy
<1>4. /\ DOMAIN runs = 1 .. n
      /\ \A i \in 1 .. n : runs[i].caller = w[h[i]].caller
    BY <1>1, <1>c
<1>5. /\ l \in Nat /\ DOMAIN q = 1 .. l /\ DOMAIN all = 1 .. l + n
      /\ \A i \in 1 .. l : all[i] = q[i]
      /\ \A i \in 1 .. n : all[l + i] = runs[i]
  <2>1. runs \in Seq({runs[i] : i \in 1 .. n})
    <3>1. n \in Nat /\ runs \in [1 .. n -> {runs[i] : i \in 1 .. n}]
        BY <1>c, <1>4
    <3> HIDE DEF runs
    <3>2. QED
        BY <3>1
  <2>2. Len(runs) = n
      BY <1>c, <1>4, <2>1
  <2> HIDE DEF runs
  <2>3. PICK S : q \in Seq(S) /\ runs \in Seq(S)
    <3>1. q \in Seq(Job \cup {runs[i] : i \in 1 .. n}) /\ runs \in Seq(Job \cup {runs[i] : i \in 1 .. n})
        BY <2>1
    <3>2. QED
        BY <3>1
  <2>4. /\ DOMAIN (q \o runs) = 1 .. Len(q) + Len(runs) /\ DOMAIN q = 1 .. Len(q) /\ Len(q) \in Nat
        /\ \A i \in 1 .. Len(q) : (q \o runs)[i] = q[i]
        /\ \A i \in 1 .. Len(runs) : (q \o runs)[Len(q) + i] = runs[i]
      BY <2>3, ConcatElements
  <2>5. QED
      BY <2>2, <2>4
<1> HIDE DEF runs, all, l
\* An entry of the new jobs is one of the old, or comes from a waiter in I.
<1>6. ASSUME NEW i \in DOMAIN all
      PROVE  \/ i \in DOMAIN q /\ all[i] = q[i]
             \/ \E m \in 1 .. n : i = l + m /\ h[m] \in I /\ all[i].caller = w[h[m]].caller
  <2>1. i \in 1 .. l \/ (i - l \in 1 .. n /\ l + (i - l) = i)
      BY <1>c, <1>5
  <2>2. CASE i \in 1 .. l
      BY <1>5, <2>2
  <2>3. CASE i - l \in 1 .. n /\ l + (i - l) = i
    <3>1. PICK m \in 1 .. n : i = l + m
        BY <2>3
    <3>2. QED
        BY <1>1, <1>4, <1>5, <3>1
  <2>4. QED
      BY <2>1, <2>2, <2>3
<1>7. /\ \A i \in DOMAIN q : i \in DOMAIN all /\ all[i] = q[i]
      /\ \A i \in I : \E j \in DOMAIN all : all[j].caller = w[i].caller
  <2>1. \A i \in 1 .. l : i \in 1 .. l + n
      BY <1>c, <1>5
  <2>2. \A m \in 1 .. n : l + m \in 1 .. l + n
      BY <1>c, <1>5
  <2>3. QED
      BY <1>1, <1>4, <1>5, <2>1, <2>2
<1>8. \A i, j \in DOMAIN left : left[i].caller = left[j].caller => i = j
    BY <1>2 DEF Tracks
<1>9. ASSUME NEW i \in DOMAIN all, NEW j \in DOMAIN all, all[i].caller = all[j].caller
      PROVE  i = j
  <2>1. CASE i \in DOMAIN q /\ all[i] = q[i] /\ j \in DOMAIN q /\ all[j] = q[j]
      BY <1>9, <2>1 DEF Tracks
  <2>2. ASSUME NEW m \in 1 .. n, i = l + m, h[m] \in I, all[i].caller = w[h[m]].caller,
               j \in DOMAIN q /\ all[j] = q[j]
        PROVE  FALSE
      BY <1>9, <2>2 DEF Tracks
  <2>3. ASSUME NEW m \in 1 .. n, j = l + m, h[m] \in I, all[j].caller = w[h[m]].caller,
               i \in DOMAIN q /\ all[i] = q[i]
        PROVE  FALSE
      BY <1>9, <2>3 DEF Tracks
  <2>4. ASSUME NEW m \in 1 .. n, i = l + m, h[m] \in I, all[i].caller = w[h[m]].caller,
               NEW o \in 1 .. n, j = l + o, h[o] \in I, all[j].caller = w[h[o]].caller
        PROVE  i = j
    <3>1. h[m] = h[o]
        BY <1>9, <2>4 DEF Tracks
    <3>2. QED
        BY <1>1, <2>4, <3>1
  <2>5. QED
      BY <1>6, <2>1, <2>2, <2>3, <2>4
<1>10. ASSUME NEW i \in DOMAIN left, NEW j \in DOMAIN all PROVE left[i].caller # all[j].caller
  <2>1. g[i] \in DOMAIN w /\ g[i] \notin I /\ left[i] = w[g[i]]
      BY <1>2
  <2>2. CASE j \in DOMAIN q /\ all[j] = q[j]
      BY <2>1, <2>2 DEF Tracks
  <2>3. ASSUME NEW m \in 1 .. n, h[m] \in I, all[j].caller = w[h[m]].caller
        PROVE  left[i].caller # all[j].caller
      BY <2>1, <2>3 DEF Tracks
  <2>4. QED
      BY <1>6, <2>2, <2>3
<1>11. ASSUME NEW c \in Callers
       PROVE  k[c] # NoCall <=> \/ \E i \in DOMAIN left : left[i].caller = c
                                \/ \E j \in DOMAIN all : all[j].caller = c
  <2>1. ASSUME NEW i \in DOMAIN left, left[i].caller = c PROVE \E m \in DOMAIN w : w[m].caller = c
      BY <1>2, <2>1
  <2>2. ASSUME NEW j \in DOMAIN all, all[j].caller = c
        PROVE  (\E m \in DOMAIN w : w[m].caller = c) \/ (\E m \in DOMAIN q : q[m].caller = c)
      BY <1>6, <2>2
  <2>3. ASSUME NEW m \in DOMAIN w, w[m].caller = c
        PROVE  (\E i \in DOMAIN left : left[i].caller = c) \/ (\E j \in DOMAIN all : all[j].caller = c)
    <3>1. CASE m \in I
        BY <1>7, <2>3, <3>1
    <3>2. CASE m \notin I
        BY <1>2, <2>3, <3>2
    <3>3. QED
        BY <3>1, <3>2
  <2>4. ASSUME NEW m \in DOMAIN q, q[m].caller = c PROVE \E j \in DOMAIN all : all[j].caller = c
      BY <1>7, <2>4
  <2>5. QED
      BY <2>1, <2>2, <2>3, <2>4 DEF Tracks
<1>12. \A i \in DOMAIN left : left[i].need = k[left[i].caller].need
    BY <1>2 DEF Tracks
<1>13. Tracks(left, all, k)
    BY <1>8, <1>9, <1>10, <1>11, <1>12 DEF Tracks
<1>14. QED
    BY <1>13 DEF left, all, runs, woken

\* The waiters go, and their calls are rejected with them.
LEMMA TracksRejected ==
    ASSUME NEW w, NEW q, NEW k \in [Callers -> CallRecords], Tracks(w, q, k)
    PROVE  Tracks(<<>>, q, [c \in Callers |-> IF \E i \in DOMAIN w : w[i].caller = c
                                              THEN NoCall ELSE k[c]])
<1> DEFINE next == [c \in Callers |-> IF \E i \in DOMAIN w : w[i].caller = c THEN NoCall ELSE k[c]]
           none == <<>>
<1>1. DOMAIN none = {}
    OBVIOUS
<1>2. \A c \in Callers : next[c] = IF \E i \in DOMAIN w : w[i].caller = c THEN NoCall ELSE k[c]
    OBVIOUS
<1>3. NoCall.todo = <<>>
    BY DEF NoCall
<1> HIDE DEF next, none
<1>4. \A c \in Callers : next[c] # NoCall <=> \E j \in DOMAIN q : q[j].caller = c
    BY <1>2 DEF Tracks
<1>5. \A c \in Callers : next[c].todo # <<>> => next[c].need = Head(next[c].todo).bytes
    BY <1>2, <1>3 DEF Tracks
<1>6. Tracks(none, q, next)
    BY <1>1, <1>4, <1>5 DEF Tracks
<1>7. QED
    BY <1>6 DEF none, next

\* The types as the lemmas above name them.
LEMMA CreditParts ==
    ASSUME CreditTypeOK
    PROVE  waiters \in Seq(Waiter) /\ jobs \in Seq(Job) /\ call \in [Callers -> CallRecords]
BY DEF CreditTypeOK, Waiter, Job, CallRecords

LEMMA CallsTrackedInit == CreditInit => CallsTracked
<1> DEFINE none == <<>>
<1>1. DOMAIN none = {} /\ NoCall.todo = none
    BY DEF NoCall
<1>2. ASSUME CreditInit PROVE Tracks(none, none, call)
  <2>1. \A c \in Callers : call[c] = NoCall
      BY <1>2 DEF CreditInit
  <2> HIDE DEF none
  <2>2. QED
      BY <1>1, <2>1 DEF Tracks, none
<1>3. QED
    BY <1>2 DEF CreditInit, CallsTracked

LEMMA CallsTrackedUnchanged ==
    ASSUME CallsTracked, UNCHANGED <<waiters, jobs, call>>
    PROVE  CallsTracked'
BY DEF CallsTracked, Tracks

\* A record of a call that waits for n bytes to send the chunks of todo.
LEMMA NewCall ==
    ASSUME NEW n \in Nat, NEW todo \in Seq(Chunks), n # 0 \/ todo # <<>>
    PROVE  LET r == [need |-> n, todo |-> todo]
           IN  r \in CallRecords /\ r # NoCall /\ r.need = n /\ r.todo = todo
BY DEF CallRecords, NoCall

\* Either way of waitForWriterCredit tracks the call it is made for.
LEMMA WaitTracked ==
    ASSUME NEW k \in [Callers -> CallRecords], NEW q \in Seq(Job), waiters \in Seq(Waiter),
           Tracks(waiters, q, k), NEW c \in Callers, k[c] = NoCall,
           NEW n \in Nat, NEW todo \in Seq(Chunks), n # 0 \/ todo # <<>>,
           todo # <<>> => n = Head(todo).bytes,
           call' = [k EXCEPT ![c] = [need |-> n, todo |-> todo]],
           NEW have, WaitForCredit(c, n, have, q)
    PROVE  CallsTracked'
<1> DEFINE r == [need |-> n, todo |-> todo]
<1>1. r \in CallRecords /\ r # NoCall /\ r.need = n /\ r.todo = todo
    BY NewCall
<1>2. call' = [k EXCEPT ![c] = r]
    OBVIOUS
<1> HIDE DEF r
<1>3. /\ Tracks(Append(waiters, [caller |-> c, need |-> n]), q, call')
      /\ Tracks(waiters, Append(q, [caller |-> c, tick |-> TRUE]), call')
  <2>1. r.todo # <<>> => r.need = Head(r.todo).bytes
      BY <1>1
  <2>2. /\ Tracks(Append(waiters, [caller |-> c, need |-> r.need]), q, [k EXCEPT ![c] = r])
        /\ Tracks(waiters, Append(q, [caller |-> c, tick |-> TRUE]), [k EXCEPT ![c] = r])
      BY <1>1, <2>1, TracksPending
  <2>3. QED
      BY <1>1, <1>2, <2>2
<1>4. \/ jobs' = Append(q, [caller |-> c, tick |-> TRUE]) /\ waiters' = waiters
      \/ jobs' = q /\ waiters' = Append(waiters, [caller |-> c, need |-> n])
    BY DEF WaitForCredit
<1>5. Tracks(waiters', jobs', call')
    BY <1>3, <1>4
<1>6. QED
    BY <1>5 DEF CallsTracked

\* A call that blocks, in any way the writer has of blocking.
LEMMA CallsTrackedBlock ==
    ASSUME CreditTypeOK, CallsTracked, NEW c \in Callers, call[c] = NoCall,
           NEW n \in Nat, NEW todo \in Seq(Chunks), n # 0 \/ todo # <<>>,
           todo # <<>> => n = Head(todo).bytes, Block(c, n, todo)
    PROVE  CallsTracked'
<1>1. /\ call' = [call EXCEPT ![c] = [need |-> n, todo |-> todo]]
      /\ WaitForCredit(c, n, credits, jobs)
    BY DEF Block
<1>2. Tracks(waiters, jobs, call)
    BY DEF CallsTracked
<1>3. QED
    BY <1>1, <1>2, CreditParts, WaitTracked

LEMMA CallsTrackedSettle ==
    ASSUME CreditTypeOK, CallsTracked, jobs # <<>>, Settle(Head(jobs).caller)
    PROVE  CallsTracked'
<1>1. Tracks(waiters, Tail(jobs), [call EXCEPT ![Head(jobs).caller] = NoCall])
    BY CreditParts, TracksSettled DEF CallsTracked
<1>2. QED
    BY <1>1 DEF Settle, CallsTracked

\* A writeMany that goes on with its next chunk waits again.
LEMMA CallsTrackedAgain ==
    ASSUME CreditTypeOK, CallsTracked, jobs # <<>>,
           NEW c, c = Head(jobs).caller,
           NEW n \in Nat, NEW rest \in Seq(Chunks), rest # <<>>, n = Head(rest).bytes,
           call' = [call EXCEPT ![c] = [need |-> n, todo |-> rest]],
           NEW have, WaitForCredit(c, n, have, Tail(jobs))
    PROVE  CallsTracked'
<1> DEFINE k == [call EXCEPT ![c] = NoCall]
           q == Tail(jobs)
           r == [need |-> n, todo |-> rest]
<1>1. c \in Callers /\ q \in Seq(Job)
    BY HeadJob
<1>2. Tracks(waiters, q, k)
    BY CreditParts, TracksSettled DEF CallsTracked
<1>3. NoCall \in CallRecords
    BY DEF NoCall, CallRecords
<1>4. k \in [Callers -> CallRecords] /\ k[c] = NoCall
    BY <1>1, <1>3, CreditParts
<1>5. call' = [k EXCEPT ![c] = [need |-> n, todo |-> rest]]
    BY <1>1, CreditParts
<1> HIDE DEF k, q
<1>6. WaitForCredit(c, n, have, q)
    BY DEF q
<1>7. QED
    BY <1>1, <1>2, <1>4, <1>5, <1>6, CreditParts, WaitTracked

LEMMA CallsTrackedGranted ==
    ASSUME CreditTypeOK, CallsTracked, NEW n, AddWriterCredit(n), UNCHANGED call
    PROVE  CallsTracked'
<1> DEFINE covered == {i \in DOMAIN waiters : credits + n >= waiters[i].need}
           woken == At(waiters, covered)
           runs == [i \in DOMAIN woken |-> [caller |-> woken[i].caller, tick |-> FALSE]]
<1>1. waiters' = At(waiters, DOMAIN waiters \ covered) /\ jobs' = jobs \o runs
    BY DEF AddWriterCredit
<1>2. covered \in SUBSET DOMAIN waiters
    OBVIOUS
<1> HIDE DEF covered
<1>3. Tracks(At(waiters, DOMAIN waiters \ covered), jobs \o runs, call)
    BY <1>2, CreditParts, TracksWoken DEF CallsTracked
<1>4. QED
    BY <1>1, <1>3 DEF CallsTracked

LEMMA CallsTrackedRejected ==
    ASSUME CreditTypeOK, CallsTracked, RejectWriterWaiters, UNCHANGED jobs
    PROVE  CallsTracked'
<1>1. Tracks(<<>>, jobs, [c \in Callers |-> IF \E i \in DOMAIN waiters : waiters[i].caller = c
                                            THEN NoCall ELSE call[c]])
    BY CreditParts, TracksRejected DEF CallsTracked
<1>2. QED
    BY <1>1 DEF RejectWriterWaiters, CallsTracked

\* One entry or none, in numbers.
LEMMA CallsTrackedOnce ==
    ASSUME CreditTypeOK, CallsTracked
    PROVE  PendingCallIsTracked
<1>1. SUFFICES ASSUME NEW c \in Callers
               PROVE  call[c] # NoCall <=>
                         Cardinality({i \in DOMAIN waiters : waiters[i].caller = c})
                           + Cardinality({i \in DOMAIN jobs : jobs[i].caller = c}) = 1
    BY DEF PendingCallIsTracked
<1> DEFINE W == {i \in DOMAIN waiters : waiters[i].caller = c}
           J == {i \in DOMAIN jobs : jobs[i].caller = c}
<1>2. /\ W = {} \/ \E i \in DOMAIN waiters : W = {i}
      /\ J = {} \/ \E i \in DOMAIN jobs : J = {i}
      /\ W = {} \/ J = {}
      /\ call[c] # NoCall <=> W # {} \/ J # {}
    BY DEF CallsTracked, Tracks
<1> HIDE DEF W, J
<1>3. /\ \A i : Cardinality({i}) = 1
      /\ Cardinality({}) = 0
    BY FS_Singleton, FS_EmptySet
<1>4. CASE W = {} /\ J = {}
  <2>1. Cardinality(W) = 0 /\ Cardinality(J) = 0
      BY <1>3, <1>4
  <2>2. ~(call[c] # NoCall)
      BY <1>2, <1>4
  <2>3. ~(Cardinality(W) + Cardinality(J) = 1)
      BY <2>1
  <2>4. QED
      BY <2>2, <2>3 DEF W, J
<1>5. CASE W # {}
  <2>1. PICK i : W = {i}
      BY <1>2, <1>5
  <2>2. Cardinality(W) = 1 /\ Cardinality(J) = 0
      BY <1>2, <1>3, <1>5, <2>1
  <2>3. call[c] # NoCall
      BY <1>2, <1>5
  <2>4. Cardinality(W) + Cardinality(J) = 1
      BY <2>2
  <2>5. QED
      BY <2>3, <2>4 DEF W, J
<1>6. CASE J # {}
  <2>1. PICK i : J = {i}
      BY <1>2, <1>6
  <2>2. Cardinality(W) = 0 /\ Cardinality(J) = 1
      BY <1>2, <1>3, <1>6, <2>1
  <2>3. call[c] # NoCall
      BY <1>2, <1>6
  <2>4. Cardinality(W) + Cardinality(J) = 1
      BY <2>2
  <2>5. QED
      BY <2>3, <2>4 DEF W, J
<1>7. QED
    BY <1>4, <1>5, <1>6

\* Spending credit while the waiters stay.
LEMMA LessCreditType ==
    ASSUME CreditTypeOK, WaitersLackCredit,
           credits' \in Nat, credits' <= credits,
           UNCHANGED <<call, waiters, jobs>>
    PROVE  CreditTypeOK' /\ WaitersLackCredit'
<1>1. \A i \in DOMAIN waiters : waiters[i].need \in Nat
    BY WaiterFields
<1>2. CreditTypeOK'
    BY DEF CreditTypeOK
<1>3. WaitersLackCredit'
    BY <1>1 DEF WaitersLackCredit, CreditTypeOK
<1>4. QED
    BY <1>2, <1>3

LEMMA MetaTypes ==
    /\ Fresh \in Metas /\ Gone \in Metas
    /\ \A m \in Metas : MarkLocal(m) \in Metas /\ MarkRemote(m) \in Metas
BY DEF Metas, Fresh, Gone, MarkLocal, MarkRemote

-----------------------------------------------------------------------------
(***************************************************************************)
(* Calls that follow one another: the continuation of the only pending     *)
(* call is alone in its queue, and whoever is resumed was covered.         *)
(***************************************************************************)
OneCaller == \A c, d \in Callers : c = d

LEMMA NeedNat ==
    ASSUME CreditTypeOK, NEW i \in DOMAIN jobs
    PROVE  /\ jobs[i].caller \in Callers
           /\ call[jobs[i].caller].need \in Nat
           /\ call[jobs[i].caller].todo \in Seq(Chunks)
<1>1. jobs[i] \in Job
    BY CreditParts, ElementOfSeq
<1>2. jobs[i].caller \in Callers
    BY <1>1 DEF Job
<1>3. QED
    BY <1>2, CreditParts DEF CallRecords

\* A writer with no call pending has no continuation queued either.
LEMMA IdleCaller ==
    ASSUME OneCaller, CreditTypeOK, CallsTracked, NEW c \in Callers, call[c] = NoCall
    PROVE  DOMAIN jobs = {}
<1>1. ASSUME NEW i \in DOMAIN jobs PROVE FALSE
  <2>1. jobs[i].caller = c
      BY NeedNat DEF OneCaller
  <2>2. QED
      BY <2>1 DEF CallsTracked, Tracks
<1>2. QED
    BY <1>1

LEMMA OneContinuation ==
    ASSUME OneCaller, CreditTypeOK, CallsTracked, jobs # <<>>
    PROVE  /\ 1 \in DOMAIN jobs /\ Head(jobs) = jobs[1]
           /\ DOMAIN Tail(jobs) = {} /\ Tail(jobs) \in Seq(Job)
<1>1. /\ jobs \in Seq(Job)
      /\ 1 \in DOMAIN jobs /\ Head(jobs) = jobs[1]
      /\ DOMAIN Tail(jobs) \subseteq Nat \ {0}
      /\ \A i \in DOMAIN Tail(jobs) : i + 1 \in DOMAIN jobs
    BY CreditParts, TailElements
<1>2. Tail(jobs) \in Seq(Job)
    BY <1>1
<1>3. ASSUME NEW i \in DOMAIN Tail(jobs) PROVE FALSE
  <2>1. jobs[i + 1].caller = jobs[1].caller
    <3>1. jobs[i + 1].caller \in Callers /\ jobs[1].caller \in Callers
        BY <1>1, <1>3, NeedNat
    <3>2. QED
        BY <3>1 DEF OneCaller
  <2>2. i + 1 = 1
      BY <1>1, <1>3, <2>1 DEF CallsTracked, Tracks
  <2>3. QED
      BY <1>1, <1>3, <2>2
<1>4. QED
    BY <1>1, <1>2, <1>3

\* The only continuation after a call has waited, if there is one, is its own,
\* and it is queued because the balance covers it.
LEMMA OwnContinuation ==
    ASSUME NEW q \in Seq(Job), DOMAIN q = {}, NEW c, NEW n, NEW have,
           WaitForCredit(c, n, have, q)
    PROVE  \A i \in DOMAIN jobs' : jobs'[i].caller = c /\ have >= n
<1> DEFINE j == [caller |-> c, tick |-> TRUE]
<1>1. CASE have >= n
  <2>1. jobs' = Append(q, j) /\ j.caller = c
      BY <1>1 DEF WaitForCredit
  <2> HIDE DEF j
  <2>2. \A i \in DOMAIN jobs' : jobs'[i] = j
      BY <2>1, AppendElements
  <2>3. QED
      BY <1>1, <2>1, <2>2
<1>2. CASE ~(have >= n)
    BY <1>2 DEF WaitForCredit
<1>3. QED
    BY <1>1, <1>2

\* Whoever a credit frame wakes is covered by the balance it leaves.
LEMMA WokenCovered ==
    ASSUME CreditTypeOK, CallsTracked, NEW n \in Nat, AddWriterCredit(n), UNCHANGED call
    PROVE  \A i \in DOMAIN jobs' :
              \/ i \in DOMAIN jobs /\ jobs'[i] = jobs[i]
              \/ /\ call'[jobs'[i].caller].need \in Nat
                 /\ credits' >= call'[jobs'[i].caller].need
<1> DEFINE covered == {i \in DOMAIN waiters : credits + n >= waiters[i].need}
           woken == At(waiters, covered)
           runs == [i \in DOMAIN woken |-> [caller |-> woken[i].caller, tick |-> FALSE]]
<1>1. credits' = credits + n /\ jobs' = jobs \o runs
    BY DEF AddWriterCredit
<1>2. waiters \in Seq(Waiter) /\ covered \in SUBSET DOMAIN waiters
    BY CreditParts
<1>3. \A i \in covered : /\ waiters[i].need = call[waiters[i].caller].need
                         /\ waiters[i].need \in Nat
                         /\ credits + n >= waiters[i].need
    BY WaiterFields DEF CallsTracked, Tracks
<1> HIDE DEF covered
<1>4. PICK h : PickedBy(h, woken, waiters, covered)
    BY <1>2, WaitersPicked
<1>5. woken \in Seq(Waiter)
    BY <1>2, AtPlaces
<1> HIDE DEF woken
<1>6. runs \in Seq(Job) /\ DOMAIN runs = DOMAIN woken
  <2>1. DOMAIN woken = 1 .. Len(woken) /\ Len(woken) \in Nat
      BY <1>5
  <2>2. \A i \in DOMAIN woken : woken[i].caller \in Callers
    <3>1. \A i \in DOMAIN woken : woken[i] \in Waiter
        BY <1>5, ElementOfSeq
    <3>2. QED
        BY <3>1 DEF Waiter
  <2>3. \A i \in DOMAIN woken : [caller |-> woken[i].caller, tick |-> FALSE] \in Job
      BY <2>2 DEF Job
  <2>4. QED
      BY <2>1, <2>3
<1>7. \A i \in DOMAIN runs : runs[i].caller = woken[i].caller
    BY <1>6
<1> HIDE DEF runs
<1>8. ASSUME NEW i \in DOMAIN runs
      PROVE  /\ call[runs[i].caller].need \in Nat
             /\ credits + n >= call[runs[i].caller].need
  <2>1. h[i] \in covered /\ runs[i].caller = waiters[h[i]].caller
      BY <1>4, <1>6, <1>7, <1>8 DEF PickedBy
  <2>2. QED
      BY <1>3, <2>1
<1>9. \A i \in DOMAIN jobs' : \/ i \in DOMAIN jobs /\ jobs'[i] = jobs[i]
                              \/ \E j \in DOMAIN runs : jobs'[i] = runs[j]
  <2>1. jobs \in Seq(Job)
      BY CreditParts
  <2>2. /\ DOMAIN (jobs \o runs) = 1 .. Len(jobs) + Len(runs)
        /\ DOMAIN jobs = 1 .. Len(jobs) /\ Len(jobs) \in Nat
        /\ \A i \in 1 .. Len(jobs) : (jobs \o runs)[i] = jobs[i]
        /\ \A i \in 1 .. Len(runs) : (jobs \o runs)[Len(jobs) + i] = runs[i]
      BY <1>6, <2>1, ConcatElements
  <2>3. DOMAIN runs = 1 .. Len(runs) /\ Len(runs) \in Nat
      BY <1>6
  <2>4. ASSUME NEW i \in 1 .. Len(jobs) + Len(runs), ~(i \in 1 .. Len(jobs))
        PROVE  i - Len(jobs) \in 1 .. Len(runs) /\ Len(jobs) + (i - Len(jobs)) = i
      BY <2>2, <2>3, <2>4
  <2>5. QED
      BY <1>1, <2>2, <2>3, <2>4
<1>10. QED
    BY <1>1, <1>8, <1>9
-----------------------------------------------------------------------------
(***************************************************************************)
(* The chunks of a call, and frames that carry no bytes.                   *)
(***************************************************************************)
LEMMA ChunkSequence ==
    ASSUME NEW S \in SUBSET Nat, NEW sizes \in Seq(S), sizes # <<>>, NEW first \in Nat
    PROVE  LET chunks == [i \in DOMAIN sizes |-> Chunk(first + i - 1, sizes[i])]
           IN  /\ chunks \in Seq(Chunks) /\ chunks # <<>>
               /\ Len(chunks) = Len(sizes)
               /\ Head(chunks).bytes = sizes[1] /\ sizes[1] \in Nat
               /\ [i \in DOMAIN chunks |-> chunks[i].id] \in Seq(Nat)
<1> DEFINE m == Len(sizes)
<1>1. m \in Nat /\ DOMAIN sizes = 1 .. m /\ m > 0 /\ 1 \in 1 .. m
    OBVIOUS
<1>2. \A i \in 1 .. m : sizes[i] \in Nat /\ first + i - 1 \in Nat
  <2>1. SUFFICES ASSUME NEW i \in 1 .. m PROVE sizes[i] \in Nat /\ first + i - 1 \in Nat
      OBVIOUS
  <2>2. sizes[i] \in Nat
    <3>1. sizes[i] \in S
        BY <1>1
    <3>2. QED
        BY <3>1
  <2> HIDE DEF m
  <2>3. first + i - 1 \in Nat
      BY <1>1
  <2>4. QED
      BY <2>2, <2>3
<1> HIDE DEF m
<1>3. \A i \in 1 .. m :
         /\ Chunk(first + i - 1, sizes[i]) \in Chunks
         /\ Chunk(first + i - 1, sizes[i]).id \in Nat
         /\ Chunk(first + i - 1, sizes[i]).bytes = sizes[i]
    BY <1>2 DEF Chunk, Chunks
<1> DEFINE chunks == [i \in 1 .. m |-> Chunk(first + i - 1, sizes[i])]
<1>4. chunks \in Seq(Chunks) /\ DOMAIN chunks = 1 .. m /\ Len(chunks) = m
    BY <1>1, <1>3
<1>5. chunks # <<>> /\ Head(chunks) = chunks[1]
  <2> HIDE DEF chunks
  <2>1. QED
      BY <1>1, <1>4
<1>6. chunks[1].bytes = sizes[1] /\ sizes[1] \in Nat
    BY <1>1, <1>2, <1>3
<1>7. [i \in 1 .. m |-> chunks[i].id] \in Seq(Nat)
    BY <1>1, <1>3
<1>8. QED
    BY <1>1, <1>4, <1>5, <1>6, <1>7 DEF m

LEMMA BytesZero ==
    ASSUME NEW F, \A x \in F : x.bytes = 0, NEW s \in Seq(F)
    PROVE  Bytes(s) = 0
<1> DEFINE f == [i \in 0 .. Len(s) |-> 0]
<1>1. \A x \in F : x.bytes \in Nat
    OBVIOUS
<1>2. RunningTotal(f, s, Len(s))
  <2>1. Len(s) \in Nat /\ \A i \in 1 .. Len(s) : s[i].bytes = 0
      OBVIOUS
  <2>2. f \in [0 .. Len(s) -> Nat] /\ f[0] = 0
      BY <2>1
  <2>3. \A i \in 1 .. Len(s) : f[i] = f[i - 1] + s[i].bytes
      BY <2>1
  <2>4. QED
      BY <2>2, <2>3 DEF RunningTotal
<1>3. Bytes(s) = f[Len(s)]
    BY <1>1, <1>2, BytesRunningTotal
<1>4. QED
    BY <1>3
-----------------------------------------------------------------------------
(***************************************************************************)
(* The order of the chunks, by their ids.                                  *)
(***************************************************************************)

\* The ids of a sequence of chunks.
Ids(s) == [i \in DOMAIN s |-> s[i].id]

LEMMA IdsOf ==
    /\ Ids(<<>>) = <<>>
    /\ \A s \in Seq(Chunks) : Ids(s) \in Seq(Nat) /\ Len(Ids(s)) = Len(s)
    /\ \A x \in Chunks : x.id \in Nat /\ Ids(<<x>>) = <<x.id>>
<1>1. Ids(<<>>) = <<>>
    BY DEF Ids
<1>2. ASSUME NEW s \in Seq(Chunks)
      PROVE  Ids(s) \in Seq(Nat) /\ Len(Ids(s)) = Len(s)
  <2>1. \A i \in 1 .. Len(s) : s[i].id \in Nat
      <3>1. \A i \in 1 .. Len(s) : s[i] \in Chunks
          OBVIOUS
      <3>2. QED
          BY <3>1 DEF Chunks
  <2>2. DOMAIN s = 1 .. Len(s) /\ Len(s) \in Nat
      OBVIOUS
  <2>3. QED
      BY <2>1, <2>2 DEF Ids
<1>3. ASSUME NEW x \in Chunks
      PROVE  x.id \in Nat /\ Ids(<<x>>) = <<x.id>>
  <2>1. x.id \in Nat
      BY DEF Chunks
  <2>2. QED
      BY <2>1 DEF Ids
<1>4. QED
    BY <1>1, <1>2, <1>3

LEMMA SameSeq ==
    ASSUME NEW S, NEW s \in Seq(S), NEW t \in Seq(S),
           Len(s) = Len(t), \A i \in 1 .. Len(s) : s[i] = t[i]
    PROVE  s = t
OBVIOUS

LEMMA ConcatAt ==
    ASSUME NEW S, NEW s \in Seq(S), NEW t \in Seq(S)
    PROVE  /\ s \o t \in Seq(S) /\ Len(s \o t) = Len(s) + Len(t)
           /\ Len(s) \in Nat /\ Len(t) \in Nat
           /\ \A i \in 1 .. Len(s \o t) :
                 (s \o t)[i] = IF i <= Len(s) THEN s[i] ELSE t[i - Len(s)]
OBVIOUS

LEMMA IdsConcat ==
    ASSUME NEW s \in Seq(Chunks), NEW t \in Seq(Chunks)
    PROVE  s \o t \in Seq(Chunks) /\ Ids(s \o t) = Ids(s) \o Ids(t)
<1> DEFINE st == s \o t
           u == Ids(s)
           v == Ids(t)
           a == Ids(st)
           b == u \o v
<1>1. /\ st \in Seq(Chunks) /\ Len(st) = Len(s) + Len(t)
      /\ Len(s) \in Nat /\ Len(t) \in Nat
      /\ \A i \in 1 .. Len(st) : st[i] = IF i <= Len(s) THEN s[i] ELSE t[i - Len(s)]
    BY ConcatAt
<1> HIDE DEF st
<1>2. /\ u \in Seq(Nat) /\ Len(u) = Len(s) /\ v \in Seq(Nat) /\ Len(v) = Len(t)
      /\ a \in Seq(Nat) /\ Len(a) = Len(st)
    BY <1>1, IdsOf
<1>3. /\ \A i \in DOMAIN s : u[i] = s[i].id
      /\ \A i \in DOMAIN t : v[i] = t[i].id
      /\ \A i \in DOMAIN st : a[i] = st[i].id
    BY DEF Ids
<1>4. DOMAIN s = 1 .. Len(s) /\ DOMAIN t = 1 .. Len(t) /\ DOMAIN st = 1 .. Len(st)
    BY <1>1
<1> HIDE DEF u, v, a
<1>5. /\ b \in Seq(Nat) /\ Len(b) = Len(s) + Len(t)
      /\ \A i \in 1 .. Len(b) : b[i] = IF i <= Len(s) THEN u[i] ELSE v[i - Len(s)]
  <2>1. /\ b \in Seq(Nat) /\ Len(b) = Len(u) + Len(v)
        /\ \A i \in 1 .. Len(b) : b[i] = IF i <= Len(u) THEN u[i] ELSE v[i - Len(u)]
      BY <1>2, ConcatAt
  <2>2. QED
      BY <1>2, <2>1
<1> HIDE DEF b
<1>6. \A i \in 1 .. Len(a) : a[i] = b[i]
  <2>1. SUFFICES ASSUME NEW i \in 1 .. Len(s) + Len(t) PROVE a[i] = b[i]
      BY <1>1, <1>2
  <2>2. CASE i <= Len(s)
    <3>1. i \in 1 .. Len(s) /\ i \in 1 .. Len(st) /\ i \in 1 .. Len(b)
        BY <1>1, <1>5, <2>2
    <3>2. a[i] = st[i].id /\ st[i] = s[i] /\ b[i] = u[i]
        BY <1>1, <1>3, <1>4, <1>5, <2>2, <3>1
    <3>3. QED
        BY <1>3, <1>4, <3>1, <3>2
  <2>3. CASE i > Len(s)
    <3>1. i - Len(s) \in 1 .. Len(t) /\ ~(i <= Len(s))
        BY <1>1, <2>3
    <3>2. a[i] = st[i].id /\ st[i] = t[i - Len(s)] /\ b[i] = v[i - Len(s)]
        BY <1>1, <1>3, <1>4, <1>5, <3>1
    <3>3. QED
        BY <1>3, <1>4, <3>1, <3>2
  <2>4. QED
      BY <1>1, <2>2, <2>3
<1>7. a = b
  <2>1. Len(a) = Len(b)
      BY <1>1, <1>2, <1>5
  <2>2. QED
      BY <1>2, <1>5, <1>6, <2>1, SameSeq
<1>8. QED
    BY <1>1, <1>7 DEF st, u, v, a, b

\* Chunks in a row: one behind and one in front.
LEMMA IdsEnds ==
    ASSUME NEW s \in Seq(Chunks), NEW x \in Chunks
    PROVE  /\ Append(s, x) \in Seq(Chunks) /\ Ids(Append(s, x)) = Ids(s) \o <<x.id>>
           /\ Ids(<<x>> \o s) = <<x.id>> \o Ids(s)
<1>1. Append(s, x) = s \o <<x>> /\ <<x>> \in Seq(Chunks) /\ Append(s, x) \in Seq(Chunks)
    OBVIOUS
<1>2. QED
    BY <1>1, IdsOf, IdsConcat

LEMMA TwoInARow ==
    ASSUME NEW x, NEW y
    PROVE  <<x>> \o <<y>> = <<x, y>>
<1> DEFINE S == {x, y}
           s == <<x>> \o <<y>>
           t == <<x, y>>
<1>1. <<x>> \in Seq(S) /\ <<y>> \in Seq(S) /\ Len(<<x>>) = 1 /\ Len(<<y>>) = 1
    OBVIOUS
<1>2. /\ s \in Seq(S) /\ Len(s) = 2
      /\ \A i \in 1 .. Len(s) : s[i] = IF i <= 1 THEN <<x>>[i] ELSE <<y>>[i - 1]
    BY <1>1, ConcatAt
<1>3. t \in Seq(S) /\ Len(t) = 2 /\ t[1] = x /\ t[2] = y
    OBVIOUS
<1>4. \A i \in 1 .. 2 : i = 1 \/ i = 2
    OBVIOUS
<1>5. \A i \in 1 .. Len(s) : s[i] = t[i]
  <2>1. s[1] = <<x>>[1] /\ s[2] = <<y>>[2 - 1]
      BY <1>2
  <2>2. <<x>>[1] = x /\ <<y>>[2 - 1] = y
      OBVIOUS
  <2>3. QED
      BY <1>2, <1>3, <1>4, <2>1, <2>2
<1> HIDE DEF S, s, t
<1>6. s = t
    BY <1>2, <1>3, <1>5, SameSeq
<1>7. QED
    BY <1>6 DEF s, t

\* A sequence taken apart at its head.
LEMMA HeadFirst ==
    ASSUME NEW S, NEW s \in Seq(S), s # <<>>
    PROVE  Head(s) \in S /\ Tail(s) \in Seq(S) /\ s = <<Head(s)>> \o Tail(s)
OBVIOUS

LEMMA Concats ==
    ASSUME NEW S, NEW s \in Seq(S), NEW t \in Seq(S), NEW u \in Seq(S)
    PROVE  /\ s \o t \in Seq(S) /\ (s \o t) \o u = s \o (t \o u)
           /\ s \o <<>> = s /\ <<>> \o s = s
           /\ \A x \in S : Append(s, x) = s \o <<x>> /\ <<x>> \in Seq(S)
OBVIOUS

LEMMA Associates ==
    ASSUME NEW s \in Seq(Nat), NEW t \in Seq(Nat), NEW u \in Seq(Nat)
    PROVE  (s \o t) \o u = s \o (t \o u)
OBVIOUS

\* What comes first behind g.
LEMMA NextOne ==
    ASSUME NEW g \in Seq(Nat), NEW x \in Nat, NEW t \in Seq(Nat)
    PROVE  LET a == g \o (<<x>> \o t)
           IN  Len(g) < Len(a) /\ a[Len(g) + 1] = x
OBVIOUS

LEMMA ConcatHead ==
    ASSUME NEW S, NEW s \in Seq(S), NEW t \in Seq(S)
    PROVE  /\ s # <<>> => Head(s \o t) = Head(s) /\ Tail(s \o t) = Tail(s) \o t
           /\ s = <<>> => s \o t = t
<1>1. s = <<>> => s \o t = t
    OBVIOUS
<1>2. ASSUME s # <<>>
      PROVE  Head(s \o t) = Head(s) /\ Tail(s \o t) = Tail(s) \o t
    BY <1>2
<1>3. QED
    BY <1>1, <1>2

LEMMA AppendHead ==
    ASSUME NEW S, NEW s \in Seq(S), NEW x \in S
    PROVE  /\ s # <<>> => Head(Append(s, x)) = Head(s) /\ Tail(Append(s, x)) = Append(Tail(s), x)
           /\ s = <<>> => Head(Append(s, x)) = x /\ Tail(Append(s, x)) = <<>>
<1>1. ASSUME s # <<>>
      PROVE  Head(Append(s, x)) = Head(s) /\ Tail(Append(s, x)) = Append(Tail(s), x)
    BY <1>1
<1>2. ASSUME s = <<>>
      PROVE  Head(Append(s, x)) = x /\ Tail(Append(s, x)) = <<>>
    BY <1>2
<1>3. QED
    BY <1>1, <1>2

\* The oldest chunk that was not read, in the queue or in front of it.
LEMMA OldestChunk ==
    ASSUME NEW x \in Chunks, NEW s \in Seq(Chunks), NEW t \in Seq(Chunks)
    PROVE  /\ Ids(<<x>> \o s) \o Ids(t) = <<x.id>> \o (Ids(s) \o Ids(t))
           /\ Ids(s) \o Ids(<<x>> \o t) = Ids(Append(s, x)) \o Ids(t)
           /\ Ids(s) \o Ids(t) \in Seq(Nat)
           /\ x.id \in Nat
<1> DEFINE is == Ids(s)
           it == Ids(t)
           one == <<x.id>>
<1>1. is \in Seq(Nat) /\ it \in Seq(Nat) /\ x.id \in Nat
    BY IdsOf
<1>2. one \in Seq(Nat)
    BY <1>1
<1>3. Ids(<<x>> \o s) = one \o is /\ Ids(<<x>> \o t) = one \o it /\ Ids(Append(s, x)) = is \o one
    BY IdsEnds
<1> HIDE DEF is, it, one
<1>4. (one \o is) \o it = one \o (is \o it)
    BY <1>1, <1>2, Associates
<1>5. (is \o one) \o it = is \o (one \o it)
    BY <1>1, <1>2, Associates
<1>6. is \o it \in Seq(Nat)
    BY <1>1
<1>7. QED
    BY <1>1, <1>3, <1>4, <1>5, <1>6 DEF is, it, one

-----------------------------------------------------------------------------
\* No read() was handed the end of the stream yet.
NoneSeen == told = "no"

-----------------------------------------------------------------------------
(***************************************************************************)
(* Where the chunks are that were accepted (acc) and not read yet, fr being *)
(* the frames under way to the reader and e how the writer ended the       *)
(* stream.  While the reader is open they are in its queue and, behind     *)
(* those, at the front of the frames under way, ahead of the end if that   *)
(* was posted.  Once it is closed they are in its queue ahead of the end,  *)
(* or the reader is over with the stream.                                  *)
(***************************************************************************)
EndedKinds == {"no", "close", "error", "cancel"}

Behind(e) ==
    IF e = "no" THEN {<<>>}
    ELSE {<<>>, <<Control(e)>>, <<Control("discard")>>, <<Control(e), Control("discard")>>}

OpenAt(fr, acc, cs, end) ==
    /\ fr = cs \o end
    /\ acc = received \o (Ids(reader.queue) \o Ids(cs))

Open(fr, acc, e) ==
    /\ ~reader.closed /\ NoneSeen
    /\ reader.waiting # <<>> => reader.queue = <<>>
    /\ \E cs \in Seq(Chunks), end \in Behind(e) : OpenAt(fr, acc, cs, end)

EndingAt(acc, e, es) ==
    /\ reader.queue = Append(es, Control(IF e = "close" THEN "close" ELSE "error"))
    /\ acc = received \o Ids(es)

Ending(acc, e) ==
    /\ reader.closed /\ NoneSeen /\ e # "no"
    /\ \E es \in Seq(Chunks) : EndingAt(acc, e, es)

Over == reader.closed /\ reader.queue = <<>>

Flow(fr, acc, e) == Open(fr, acc, e) \/ Ending(acc, e) \/ Over

(***************************************************************************)
(* What a step of the reader is to the byte stream: nothing, the next      *)
(* chunk, or the end behind the last chunk.                                *)
(***************************************************************************)
TellsNothing == received' = received /\ told' = told

TakesChunk(acc) ==
    /\ told = "no" /\ told' = "no"
    /\ \E x \in Nat, t \in Seq(Nat) :
          acc = received \o (<<x>> \o t) /\ received' = Append(received, x)

TakesEnd(acc, e) ==
    /\ told = "no" /\ e # "no" /\ acc = received /\ received' = received
    /\ told' = IF e = "close" THEN "eof" ELSE "failed"

ReaderStep(acc, e) == TellsNothing \/ TakesChunk(acc) \/ TakesEnd(acc, e)

LEMMA FlowInit ==
    ASSUME ReaderInit
    PROVE  EndedWhenClosed /\ Flow(<<>>, <<>>, "no") /\ told = "no"
<1> DEFINE none == <<>>
<1>1. /\ reader.queue = none /\ reader.waiting = none /\ ~reader.closed /\ received = none
      /\ told = "no"
    BY DEF ReaderInit
<1>2. NoneSeen
    BY <1>1 DEF NoneSeen
<1>3. /\ none \in Seq(Chunks) /\ none \in Behind("no") /\ Ids(none) = none
      /\ none \o none = none
    BY IdsOf DEF Behind
<1>4. none = <<>>
    OBVIOUS
<1> HIDE DEF none
<1>5. OpenAt(none, none, none, none)
    BY <1>1, <1>3 DEF OpenAt
<1>6. Open(none, none, "no")
    BY <1>1, <1>2, <1>3, <1>4, <1>5 DEF Open
<1>7. QED
    BY <1>2, <1>4, <1>6, EndedInit DEF Flow, NoneSeen

\* The reader does nothing, and the frames it has to come are the same.
LEMMA FlowKept ==
    ASSUME NEW fr, NEW acc, NEW e, Flow(fr, acc, e), UNCHANGED readerVars
    PROVE  Flow(fr, acc, e)' /\ TellsNothing
<1>1. reader' = reader /\ reads' = reads /\ received' = received /\ told' = told
    BY DEF readerVars
<1>2. NoneSeen => NoneSeen'
    BY <1>1 DEF NoneSeen
<1>3. ASSUME NEW cs, NEW end, OpenAt(fr, acc, cs, end) PROVE OpenAt(fr, acc, cs, end)'
    BY <1>1, <1>3 DEF OpenAt
<1>4. ASSUME NEW es, EndingAt(acc, e, es) PROVE EndingAt(acc, e, es)'
    BY <1>1, <1>4 DEF EndingAt
<1>5. Open(fr, acc, e) => Open(fr, acc, e)'
    BY <1>1, <1>2, <1>3 DEF Open, Behind
<1>6. Ending(acc, e) => Ending(acc, e)'
    BY <1>1, <1>2, <1>4 DEF Ending
<1>7. Over => Over'
    BY <1>1 DEF Over
<1>8. TellsNothing
    BY <1>1 DEF TellsNothing
<1>9. QED
    BY <1>5, <1>6, <1>7, <1>8 DEF Flow

\* A closed reader does nothing, whatever the frames.
LEMMA FlowClosed ==
    ASSUME NEW fr, NEW fr2, NEW acc, NEW e, Flow(fr, acc, e), reader.closed, UNCHANGED readerVars
    PROVE  Flow(fr2, acc, e)' /\ TellsNothing
<1>1. Flow(fr, acc, e)' /\ TellsNothing
    BY FlowKept
<1>2. reader'.closed
    BY DEF readerVars
<1>3. Ending(acc, e)' \/ Over'
    BY <1>1, <1>2 DEF Flow, Open
<1>4. QED
    BY <1>1, <1>3 DEF Flow

\* The writer posts chunks.
LEMMA FlowPosts ==
    ASSUME EndedWhenClosed, received \in Seq(Nat), UNCHANGED readerVars,
           NEW fr, NEW acc, Flow(fr, acc, "no"), NEW b \in Seq(Chunks)
    PROVE  Flow(fr \o b, acc \o Ids(b), "no")'
<1>1. reader' = reader /\ reads' = reads /\ received' = received /\ told' = told
    BY DEF readerVars
<1>2. Over => Over'
    BY <1>1 DEF Over
<1>3. ~Ending(acc, "no")
    BY DEF Ending
<1>4. ASSUME Open(fr, acc, "no") PROVE Open(fr \o b, acc \o Ids(b), "no")'
  <2>1. PICK cs \in Seq(Chunks), end \in Behind("no") : OpenAt(fr, acc, cs, end)
      BY <1>4 DEF Open
  <2> DEFINE none == <<>>
             q == reader.queue
  <2>2. end = <<>> /\ none \in Behind("no")'
      BY <2>1 DEF Behind
  <2>3. fr = cs /\ fr \o b = (cs \o b) \o none
    <3>1. cs \o <<>> = cs /\ (cs \o b) \o <<>> = cs \o b
        BY Concats
    <3>2. QED
        BY <2>1, <2>2, <3>1 DEF OpenAt
  <2>4. q \in Seq(Chunks) /\ cs \o b \in Seq(Chunks) /\ Ids(cs \o b) = Ids(cs) \o Ids(b)
      BY <1>4, IdsConcat DEF Open, EndedWhenClosed
  <2>5. acc \o Ids(b) = received \o (Ids(q) \o Ids(cs \o b))
    <3> DEFINE iq == Ids(q)
               ic == Ids(cs)
               ib == Ids(b)
    <3>1. iq \in Seq(Nat) /\ ic \in Seq(Nat) /\ ib \in Seq(Nat)
        BY <2>4, IdsOf
    <3>2. acc = received \o (iq \o ic)
        BY <2>1 DEF OpenAt
    <3> HIDE DEF iq, ic, ib
    <3>3. (received \o (iq \o ic)) \o ib = received \o (iq \o (ic \o ib))
      <4>1. iq \o ic \in Seq(Nat)
          BY <3>1
      <4>2. received \in Seq(Nat)
          OBVIOUS
      <4>3. (received \o (iq \o ic)) \o ib = received \o ((iq \o ic) \o ib)
          BY <3>1, <4>1, <4>2, Associates
      <4>4. (iq \o ic) \o ib = iq \o (ic \o ib)
          BY <3>1, Associates
      <4>5. QED
          BY <4>3, <4>4
    <3>4. QED
        BY <2>4, <3>2, <3>3, Zenon DEF iq, ic, ib
  <2>6. PICK cb, fb, ab : cb = cs \o b /\ fb = fr \o b /\ ab = acc \o Ids(b)
      OBVIOUS
  <2>7. OpenAt(fb, ab, cb, none)'
      BY <1>1, <2>3, <2>5, <2>6 DEF OpenAt
  <2>8. NoneSeen'
      BY <1>1, <1>4 DEF Open, NoneSeen
  <2> HIDE DEF none
  <2>9. Open(fb, ab, "no")'
      BY <1>1, <1>4, <2>2, <2>4, <2>6, <2>7, <2>8 DEF Open
  <2>10. QED
      BY <2>6, <2>9
<1>5. QED
    BY <1>2, <1>3, <1>4 DEF Flow

\* The writer ends the stream.
LEMMA FlowEnds ==
    ASSUME UNCHANGED readerVars, NEW fr, NEW acc, Flow(fr, acc, "no"),
           NEW kind \in EndedKinds, NEW end \in Behind(kind)
    PROVE  Flow(fr \o end, acc, kind)'
<1>1. reader' = reader /\ reads' = reads /\ received' = received /\ told' = told
    BY DEF readerVars
<1>2. Over => Over'
    BY <1>1 DEF Over
<1>3. ~Ending(acc, "no")
    BY DEF Ending
<1>4. ASSUME Open(fr, acc, "no") PROVE Open(fr \o end, acc, kind)'
  <2>1. PICK cs \in Seq(Chunks), old \in Behind("no") : OpenAt(fr, acc, cs, old)
      BY <1>4 DEF Open
  <2>2. fr = cs
    <3>1. cs \o <<>> = cs /\ old = <<>>
        BY <2>1, Concats DEF Behind
    <3>2. QED
        BY <2>1, <3>1 DEF OpenAt
  <2>3. PICK fe : fe = fr \o end
      OBVIOUS
  <2>4. OpenAt(fe, acc, cs, end)'
      BY <1>1, <2>1, <2>2, <2>3 DEF OpenAt
  <2>5. NoneSeen'
      BY <1>1, <1>4 DEF Open, NoneSeen
  <2>6. Open(fe, acc, kind)'
      BY <1>1, <1>4, <2>4, <2>5 DEF Open, Behind
  <2>7. QED
      BY <2>3, <2>6
<1>5. QED
    BY <1>2, <1>3, <1>4 DEF Flow

\* The first frame to come for an open reader is a chunk, or what ends the stream.
LEMMA FrontFrame ==
    ASSUME NEW fr, fr # <<>>, NEW e \in EndedKinds,
           NEW cs \in Seq(Chunks), NEW end \in Behind(e), fr = cs \o end
    PROVE  /\ cs # <<>> => /\ Head(fr) = Head(cs) /\ Head(cs) \in Chunks
                           /\ Tail(fr) = Tail(cs) \o end /\ Tail(cs) \in Seq(Chunks)
           /\ cs = <<>> => /\ e # "no" /\ Head(fr) \in {Control(e), Control("discard")}
                           /\ Head(fr) = Control("discard") => Tail(fr) = <<>>
<1> DEFINE S == Chunks \cup {Control(e), Control("discard")}
<1>1. end \in Seq(S)
  <2>1. Control(e) \in S /\ Control("discard") \in S
      OBVIOUS
  <2>2. \A x, y \in S : <<x>> \in Seq(S) /\ <<x, y>> \in Seq(S)
      OBVIOUS
  <2> DEFINE none == <<>>
  <2>3. none \in Seq(S)
      OBVIOUS
  <2>4. end \in {none, <<Control(e)>>, <<Control("discard")>>, <<Control(e), Control("discard")>>}
      BY DEF Behind
  <2> HIDE DEF none, S
  <2>5. QED
      BY <2>1, <2>2, <2>3, <2>4, Zenon
<1>2. cs \in Seq(S)
    OBVIOUS
<1>3. cs # <<>> => Head(cs) \in Chunks /\ Tail(cs) \in Seq(Chunks)
    OBVIOUS
<1> HIDE DEF S
<1>4. cs # <<>> => Head(fr) = Head(cs) /\ Tail(fr) = Tail(cs) \o end
    BY <1>1, <1>2, ConcatHead
<1>5. cs = <<>> => fr = end
    BY <1>1, <1>2, ConcatHead
<1>6. ASSUME cs = <<>>
      PROVE  /\ e # "no" /\ Head(fr) \in {Control(e), Control("discard")}
             /\ Head(fr) = Control("discard") => Tail(fr) = <<>>
  <2>1. /\ e # "no"
        /\ fr \in {<<Control(e)>>, <<Control("discard")>>, <<Control(e), Control("discard")>>}
      BY <1>5, <1>6 DEF Behind
  <2>2. Control(e) # Control("discard")
      BY DEF Control, EndedKinds
  <2>3. \A x, y : /\ Head(<<x>>) = x /\ Tail(<<x>>) = <<>>
                  /\ Head(<<x, y>>) = x
      OBVIOUS
  <2>4. Head(fr) \in {Control(e), Control("discard")}
      BY <2>1, <2>3
  <2>5. Head(fr) = Control("discard") => Tail(fr) = <<>>
      BY <2>1, <2>2, <2>3
  <2>6. QED
      BY <2>1, <2>4, <2>5
<1>7. QED
    BY <1>3, <1>4, <1>6

\* The chunk that is read next is the next one of the byte stream.
LEMMA TakesNext ==
    ASSUME received \in Seq(Nat), NoneSeen, NoneSeen', NEW acc, NEW x \in Nat, NEW t \in Seq(Nat),
           acc = received \o (<<x>> \o t), received' = Append(received, x)
    PROVE  TakesChunk(acc) /\ acc = received' \o t
<1>1. TakesChunk(acc)
    BY DEF TakesChunk, NoneSeen
<1>2. Append(received, x) = received \o <<x>> /\ <<x>> \in Seq(Nat)
    OBVIOUS
<1>3. (received \o <<x>>) \o t = received \o (<<x>> \o t)
    BY <1>2, Associates
<1>4. QED
    BY <1>1, <1>2, <1>3

\* A caller of read() is told the end of a stream that everything was read of.
LEMMA SeesEnd ==
    ASSUME NoneSeen, NEW acc, NEW e, e # "no", acc = received, received' = received,
           told' = Settled(e)
    PROVE  TakesEnd(acc, e)
BY DEF TakesEnd, NoneSeen, Settled

\* A chunk arrives at an open reader.
LEMMA OpenChunk ==
    ASSUME ReaderTypeOK, EndedWhenClosed, NEW fr, NEW acc, NEW e \in EndedKinds, Open(fr, acc, e),
           fr # <<>>, Head(fr).t = "chunk", PushChunk(Head(fr))
    PROVE  Flow(Tail(fr), acc, e)' /\ ReaderStep(acc, e)
<1> DEFINE f == Head(fr)
           q == reader.queue
<1>1. PICK cs \in Seq(Chunks), end \in Behind(e) : OpenAt(fr, acc, cs, end)
    BY DEF Open
<1>2. ~Ignoring
    BY DEF Open, EndedWhenClosed, Ignoring
<1> DEFINE rest == Tail(cs)
<1>3. /\ cs # <<>> /\ f = Head(cs) /\ f \in Chunks
      /\ Tail(fr) = rest \o end /\ rest \in Seq(Chunks)
  <2>1. fr = cs \o end
      BY <1>1 DEF OpenAt
  <2>2. cs = <<>> => f \in {Control(e), Control("discard")} /\ e # "no"
      BY <2>1, FrontFrame
  <2>3. cs # <<>>
      BY <2>2 DEF Control, EndedKinds
  <2>4. QED
      BY <2>1, <2>3, FrontFrame
<1>4. cs = <<f>> \o rest
    BY <1>3, HeadFirst
<1>5. q \in Seq(Chunks) /\ received \in Seq(Nat) /\ reader \in ReaderRecords
      /\ reads \in [Readers -> ReadStates]
    BY DEF Open, EndedWhenClosed, ReaderTypeOK
<1>6. acc = received \o (Ids(q) \o Ids(<<f>> \o rest))
    BY <1>1, <1>4 DEF OpenAt
<1> HIDE DEF f, rest
<1>7. end \in Behind(e)'
    BY <1>1 DEF Behind
<1>8. PICK fr2 : fr2 = Tail(fr)
    OBVIOUS
<1>9. PICK left \in Seq(Chunks) : left = rest
    BY <1>3
<1>10. CASE reader.waiting = <<>>
  <2>1. reader' = [reader EXCEPT !.queue = Append(@, f), !.buffered = @ + f.bytes]
        /\ reads' = reads /\ received' = received /\ told' = told
      BY <1>2, <1>10 DEF PushChunk, f
  <2>2. reader'.queue = Append(q, f) /\ reader'.waiting = <<>> /\ ~reader'.closed
      BY <1>5, <1>10, <2>1 DEF ReaderRecords, Open
  <2>3. acc = received \o (Ids(Append(q, f)) \o Ids(rest))
      BY <1>3, <1>5, <1>6, OldestChunk
  <2>4. OpenAt(fr2, acc, left, end)'
      BY <1>3, <1>8, <1>9, <2>1, <2>2, <2>3 DEF OpenAt
  <2>5. Open(fr2, acc, e)'
      BY <1>7, <1>9, <2>1, <2>2, <2>4 DEF Open, NoneSeen
  <2>6. TellsNothing
      BY <2>1 DEF TellsNothing
  <2>7. QED
      BY <1>8, <2>5, <2>6 DEF Flow, ReaderStep
<1>11. CASE reader.waiting # <<>>
  <2> DEFINE r == Head(reader.waiting)
  <2>1. /\ reader'.queue = q /\ ~reader'.closed
        /\ received' = Append(received, f.id) /\ told' = told
      BY <1>2, <1>5, <1>11 DEF PushChunk, ReaderRecords, Open, f
  <2>2. NoneSeen /\ NoneSeen'
      BY <1>5, <2>1 DEF Open, NoneSeen
  <2>3. q = <<>>
      BY <1>11 DEF Open
  <2>4. acc = received \o (<<f.id>> \o Ids(rest)) /\ f.id \in Nat /\ Ids(rest) \in Seq(Nat)
    <3>1. Ids(rest) \in Seq(Nat) /\ Ids(<<f>> \o rest) = <<f.id>> \o Ids(rest) /\ f.id \in Nat
        BY <1>3, IdsOf, IdsEnds
    <3>2. Ids(q) = <<>>
        BY <2>3, IdsOf
    <3> DEFINE it == <<f.id>> \o Ids(rest)
    <3>3. it \in Seq(Nat)
        BY <3>1
    <3> HIDE DEF it
    <3>4. <<>> \o it = it
        BY <3>3, Concats
    <3>5. QED
        BY <1>6, <3>1, <3>2, <3>4 DEF it
  <2>5. TakesChunk(acc) /\ acc = received' \o Ids(rest)
      BY <1>5, <2>1, <2>2, <2>4, TakesNext
  <2>6. acc = received' \o (Ids(reader'.queue) \o Ids(rest))
    <3>1. Ids(reader'.queue) = <<>>
        BY <2>1, <2>3, IdsOf
    <3>2. <<>> \o Ids(rest) = Ids(rest)
        BY <2>4, Concats
    <3>3. QED
        BY <2>5, <3>1, <3>2
  <2>7. OpenAt(fr2, acc, left, end)'
      BY <1>3, <1>8, <1>9, <2>6 DEF OpenAt
  <2>8. Open(fr2, acc, e)'
      BY <1>7, <1>9, <2>1, <2>2, <2>3, <2>7 DEF Open
  <2>9. QED
      BY <1>8, <2>5, <2>8 DEF Flow, ReaderStep
<1>12. QED
    BY <1>10, <1>11

\* The end arrives at an open reader: everything accepted is read or queued.
LEMMA OpenEnds ==
    ASSUME ReaderTypeOK, EndedWhenClosed, NEW fr, NEW acc, NEW e \in EndedKinds, Open(fr, acc, e),
           fr # <<>>, Head(fr).t \in {"close", "error", "cancel"},
           PushEnd(IF Head(fr).t = "close" THEN "close" ELSE "error")
    PROVE  Flow(Tail(fr), acc, e)' /\ ReaderStep(acc, e)
<1> DEFINE f == Head(fr)
           q == reader.queue
           kind == IF e = "close" THEN "close" ELSE "error"
<1>1. PICK cs \in Seq(Chunks), end \in Behind(e) : OpenAt(fr, acc, cs, end)
    BY DEF Open
<1>2. cs = <<>> /\ e # "no" /\ f = Control(e)
  <2>1. fr = cs \o end
      BY <1>1 DEF OpenAt
  <2>2. cs # <<>> => f \in Chunks
      BY <2>1, FrontFrame
  <2>3. cs = <<>>
      BY <2>1, <2>2 DEF Chunks
  <2>4. e # "no" /\ f \in {Control(e), Control("discard")}
      BY <2>1, <2>3, FrontFrame
  <2>5. f # Control("discard")
      BY DEF Control
  <2>6. QED
      BY <2>3, <2>4, <2>5
<1>3. PushEnd(kind)
  <2>1. f.t = e
      BY <1>2 DEF Control
  <2>2. QED
      BY <2>1
<1>4. /\ q \in Seq(Chunks) /\ received \in Seq(Nat) /\ reader \in ReaderRecords
      /\ reads \in [Readers -> ReadStates] /\ ~reader.closed /\ NoneSeen
    BY DEF Open, EndedWhenClosed, ReaderTypeOK
<1>5. acc = received \o Ids(q)
  <2>1. Ids(q) \in Seq(Nat) /\ Ids(cs) = <<>>
      BY <1>2, <1>4, IdsOf
  <2>2. Ids(q) \o <<>> = Ids(q)
      BY <2>1, Concats
  <2>3. QED
      BY <1>1, <2>1, <2>2 DEF OpenAt
<1> HIDE DEF f
<1>6. CASE reader.waiting = <<>>
  <2>1. /\ reader' = [reader EXCEPT !.closed = TRUE, !.discarded = TRUE,
                                    !.queue = Append(@, Control(kind))]
        /\ reads' = reads /\ received' = received /\ told' = told
      BY <1>3, <1>4, <1>6 DEF PushEnd
  <2>2. reader'.queue = Append(q, Control(kind)) /\ reader'.closed
      BY <1>4, <2>1 DEF ReaderRecords
  <2>3. PICK es \in Seq(Chunks) : es = q
      BY <1>4
  <2>4. EndingAt(acc, e, es)'
      BY <1>5, <2>1, <2>2, <2>3 DEF EndingAt
  <2>5. Ending(acc, e)'
      BY <1>2, <1>4, <2>1, <2>2, <2>4 DEF Ending, NoneSeen
  <2>6. TellsNothing
      BY <2>1 DEF TellsNothing
  <2>7. QED
      BY <2>5, <2>6 DEF Flow, ReaderStep
<1>7. CASE reader.waiting # <<>>
  <2> DEFINE r == Head(reader.waiting)
  <2>1. /\ reader'.queue = q /\ reader'.closed
        /\ told' = Settled(kind) /\ received' = received
      BY <1>3, <1>4, <1>7 DEF PushEnd, ReaderRecords
  <2>2. q = <<>>
      BY <1>7 DEF Open
  <2>3. r \in Readers
    <3>1. reader.waiting \in Seq(Readers)
        BY <1>4 DEF ReaderRecords
    <3>2. QED
        BY <1>7, <3>1
  <2>4. acc = received
    <3>1. Ids(q) = <<>>
        BY <2>2, IdsOf
    <3>2. received \o <<>> = received
        BY <1>4, Concats
    <3>3. QED
        BY <1>5, <3>1, <3>2
  <2>5. told' = Settled(e)
      BY <2>1 DEF Settled
  <2> HIDE DEF r
  <2>6. TakesEnd(acc, e)
      BY <1>2, <1>4, <2>1, <2>3, <2>4, <2>5, SeesEnd
  <2>7. Over'
      BY <2>1, <2>2 DEF Over
  <2>8. QED
      BY <2>6, <2>7 DEF Flow, ReaderStep
<1>8. QED
    BY <1>6, <1>7

\* A frame arrives at the reader, open or closed.
LEMMA FlowArrives ==
    ASSUME ReaderTypeOK, EndedWhenClosed, NEW fr, NEW acc, NEW e \in EndedKinds, Flow(fr, acc, e),
           fr # <<>>,
           \/ Head(fr).t = "chunk" /\ PushChunk(Head(fr))
           \/ /\ Head(fr).t \in {"close", "error", "cancel"}
              /\ PushEnd(IF Head(fr).t = "close" THEN "close" ELSE "error")
           \/ UNCHANGED readerVars /\ (reader.closed \/ Head(fr).t = "discard")
    PROVE  Flow(Tail(fr), acc, e)' /\ ReaderStep(acc, e)
<1>1. CASE reader.closed
  <2>1. UNCHANGED readerVars
      BY <1>1 DEF PushChunk, PushEnd, Ignoring
  <2>2. QED
      BY <1>1, <2>1, FlowClosed DEF ReaderStep
<1>2. CASE ~reader.closed
  <2>1. Open(fr, acc, e)
      BY <1>2 DEF Flow, Ending, Over
  <2>2. CASE UNCHANGED readerVars /\ Head(fr).t = "discard"
    <3>1. PICK cs \in Seq(Chunks), end \in Behind(e) : OpenAt(fr, acc, cs, end)
        BY <2>1 DEF Open
    <3> DEFINE none == <<>>
    <3>2. cs = none /\ Tail(fr) = none
      <4>1. fr = cs \o end
          BY <3>1 DEF OpenAt
      <4>2. cs # <<>> => Head(fr) \in Chunks
          BY <4>1, FrontFrame
      <4>3. cs = <<>>
          BY <2>2, <4>2 DEF Chunks
      <4>4. /\ e # "no" /\ Head(fr) \in {Control(e), Control("discard")}
            /\ Head(fr) = Control("discard") => Tail(fr) = <<>>
          BY <4>1, <4>3, FrontFrame
      <4>5. Head(fr) # Control(e)
          BY <2>2 DEF Control, EndedKinds
      <4>6. QED
          BY <4>3, <4>4, <4>5
    <3>3. none \in Behind(e) /\ none = cs \o none
        BY <3>2, Concats DEF Behind
    <3> HIDE DEF none
    <3>4. PICK fr2 : fr2 = Tail(fr)
        OBVIOUS
    <3>5. OpenAt(fr2, acc, cs, none)
        BY <3>1, <3>2, <3>3, <3>4 DEF OpenAt
    <3>6. Open(fr2, acc, e)
        BY <2>1, <3>3, <3>5 DEF Open
    <3>7. Flow(fr2, acc, e)
        BY <3>6 DEF Flow
    <3>8. QED
        BY <2>2, <3>4, <3>7, FlowKept DEF ReaderStep
  <2>3. QED
      BY <1>2, <2>1, <2>2, OpenChunk, OpenEnds
<1>3. QED
    BY <1>1, <1>2

\* read() takes a chunk off the queue.
LEMMA FlowReadChunk ==
    ASSUME ReaderTypeOK, EndedWhenClosed, NEW fr, NEW acc, NEW e, Flow(fr, acc, e),
           NEW r \in Readers, ReadChunk(r)
    PROVE  Flow(fr, acc, e)' /\ ReaderStep(acc, e)
<1> DEFINE q == reader.queue
           x == Head(q)
           rest == Tail(q)
<1>1. /\ reader \in ReaderRecords /\ received \in Seq(Nat) /\ q \in Seq(Events)
    BY ReaderFields DEF ReaderTypeOK
<1>2. /\ q # <<>> /\ x.t = "chunk" /\ told' = told /\ received' = Append(received, x.id)
      /\ reader'.queue = rest /\ reader'.closed = reader.closed
      /\ reader'.waiting = reader.waiting
    BY <1>1 DEF ReadChunk, ReaderRecords
<1>3. NoneSeen => NoneSeen'
    BY <1>2 DEF NoneSeen
<1>4. CASE Open(fr, acc, e)
  <2>1. PICK cs \in Seq(Chunks), end \in Behind(e) : OpenAt(fr, acc, cs, end)
      BY <1>4 DEF Open
  <2>2. q \in Seq(Chunks)
      BY <1>4 DEF Open, EndedWhenClosed
  <2>3. x \in Chunks /\ rest \in Seq(Chunks) /\ q = <<x>> \o rest
      BY <1>2, <2>2, HeadFirst
  <2>4. acc = received \o (Ids(<<x>> \o rest) \o Ids(cs))
      BY <2>1, <2>3 DEF OpenAt
  <2> HIDE DEF x, rest, q
  <2>5. /\ acc = received \o (<<x.id>> \o (Ids(rest) \o Ids(cs)))
        /\ x.id \in Nat /\ Ids(rest) \o Ids(cs) \in Seq(Nat)
      BY <2>3, <2>4, OldestChunk
  <2>6. TakesChunk(acc) /\ acc = received' \o (Ids(rest) \o Ids(cs))
      BY <1>1, <1>2, <1>3, <1>4, <2>5, TakesNext DEF Open
  <2>7. OpenAt(fr, acc, cs, end)'
      BY <1>2, <2>1, <2>6 DEF OpenAt
  <2>8. reader'.waiting = <<>>
      BY <1>2, <1>4 DEF Open, q
  <2>9. Open(fr, acc, e)'
      BY <1>2, <1>3, <1>4, <2>1, <2>7, <2>8 DEF Open, Behind
  <2>10. QED
      BY <2>6, <2>9 DEF Flow, ReaderStep
<1>5. CASE Ending(acc, e)
  <2> DEFINE last == Control(IF e = "close" THEN "close" ELSE "error")
  <2>1. PICK es \in Seq(Chunks) : q = Append(es, last) /\ acc = received \o Ids(es)
      BY <1>5 DEF Ending, EndingAt
  <2>2. last \in Events /\ last.t # "chunk"
      BY EventKinds DEF Control
  <2>3. es \in Seq(Events)
      BY EventKinds
  <2> DEFINE left == Tail(es)
  <2>4. es # <<>> /\ x = Head(es) /\ rest = Append(left, last)
    <3> HIDE DEF last
    <3>1. es = <<>> => x = last
        BY <2>1, <2>2, <2>3, AppendHead
    <3>2. es # <<>>
        BY <1>2, <2>2, <3>1
    <3>3. QED
        BY <2>1, <2>2, <2>3, <3>2, AppendHead
  <2>5. x \in Chunks /\ left \in Seq(Chunks) /\ es = <<x>> \o left
      BY <2>4, HeadFirst
  <2>6. Ids(es) = <<x.id>> \o Ids(left) /\ x.id \in Nat /\ Ids(left) \in Seq(Nat)
      BY <2>5, IdsOf, IdsEnds
  <2> HIDE DEF x, rest, q, left
  <2>7. TakesChunk(acc) /\ acc = received' \o Ids(left)
      BY <1>1, <1>2, <1>3, <1>5, <2>1, <2>6, TakesNext DEF Ending
  <2>8. EndingAt(acc, e, left)'
      BY <1>2, <2>4, <2>7 DEF EndingAt, left
  <2>9. Ending(acc, e)'
      BY <1>2, <1>3, <1>5, <2>5, <2>8 DEF Ending
  <2>10. QED
      BY <2>7, <2>9 DEF Flow, ReaderStep
<1>6. QED
    BY <1>2, <1>4, <1>5 DEF Flow, Over

\* read() takes the end off the queue.
LEMMA FlowReadEnd ==
    ASSUME ReaderTypeOK, EndedWhenClosed, NEW fr, NEW acc, NEW e, Flow(fr, acc, e),
           NEW r \in Readers, ReadEnd(r)
    PROVE  Flow(fr, acc, e)' /\ ReaderStep(acc, e)
<1> DEFINE q == reader.queue
           kind == IF e = "close" THEN "close" ELSE "error"
           last == Control(kind)
<1>1. /\ reader \in ReaderRecords /\ received \in Seq(Nat) /\ reads \in [Readers -> ReadStates]
    BY DEF ReaderTypeOK
<1>2. /\ q # <<>> /\ Head(q).t # "chunk" /\ received' = received
      /\ told' = Settled(Head(q).t)
      /\ reader'.queue = Tail(q) /\ reader'.closed = reader.closed
    BY <1>1 DEF ReadEnd, ReaderRecords
<1>3. ~Open(fr, acc, e)
  <2>1. SUFFICES ASSUME Open(fr, acc, e) PROVE FALSE
      OBVIOUS
  <2>2. q \in Seq(Chunks)
      BY <2>1 DEF Open, EndedWhenClosed
  <2>3. Head(q) \in Chunks
      BY <1>2, <2>2, HeadFirst
  <2>4. QED
      BY <1>2, <2>3 DEF Chunks
<1>4. CASE Ending(acc, e)
  <2>1. PICK es \in Seq(Chunks) : q = Append(es, last) /\ acc = received \o Ids(es)
      BY <1>4 DEF Ending, EndingAt
  <2>2. last \in Events /\ last.t = kind
      BY EventKinds DEF Control
  <2>3. es \in Seq(Events)
      BY EventKinds
  <2>4. es = <<>>
    <3> HIDE DEF last, q
    <3>1. es # <<>> => Head(q) = Head(es)
        BY <2>1, <2>2, <2>3, AppendHead
    <3>2. es # <<>> => Head(es) \in Chunks
        BY HeadFirst
    <3>3. QED
        BY <1>2, <3>1, <3>2 DEF Chunks
  <2>5. Head(q) = last /\ Tail(q) = <<>>
    <3> HIDE DEF last, q
    <3>1. QED
        BY <2>1, <2>2, <2>3, <2>4, AppendHead
  <2>6. acc = received
    <3>1. Ids(es) = <<>> /\ received \o <<>> = received
        BY <1>1, <2>4, IdsOf, Concats
    <3>2. QED
        BY <2>1, <3>1
  <2>7. told' = Settled(e)
      BY <1>2, <2>2, <2>5 DEF Settled
  <2>8. TakesEnd(acc, e)
      BY <1>1, <1>2, <1>4, <2>6, <2>7, SeesEnd DEF Ending
  <2>9. Over'
      BY <1>2, <1>4, <2>5 DEF Over, Ending
  <2>10. QED
      BY <2>8, <2>9 DEF Flow, ReaderStep
<1>5. QED
    BY <1>2, <1>3, <1>4 DEF Flow, Over

\* read() waits, or comes after the end.
LEMMA FlowReadOther ==
    ASSUME ReaderTypeOK, EndedWhenClosed, NEW fr, NEW acc, NEW e, Flow(fr, acc, e),
           NEW r \in Readers, ReadEnded(r) \/ ReadWait(r)
    PROVE  Flow(fr, acc, e)' /\ ReaderStep(acc, e)
<1>1. /\ reader \in ReaderRecords /\ reads \in [Readers -> ReadStates]
    BY DEF ReaderTypeOK
<1>2. /\ received' = received /\ reader'.queue = reader.queue /\ reader'.closed = reader.closed
      /\ told' = told
    BY <1>1 DEF ReadEnded, ReadWait, ReaderRecords
<1>3. told' = told /\ (NoneSeen => NoneSeen')
    BY <1>2 DEF NoneSeen
<1>4. ASSUME NEW cs, NEW end, OpenAt(fr, acc, cs, end) PROVE OpenAt(fr, acc, cs, end)'
    BY <1>2, <1>4 DEF OpenAt
<1>5. ASSUME NEW es, EndingAt(acc, e, es) PROVE EndingAt(acc, e, es)'
    BY <1>2, <1>5 DEF EndingAt
<1>6. ASSUME Open(fr, acc, e) PROVE Open(fr, acc, e)'
  <2>1. ReadWait(r)
      BY <1>6 DEF Open, EndedWhenClosed, ReadEnded
  <2>2. reader'.queue = <<>>
      BY <1>2, <2>1 DEF ReadWait
  <2>3. PICK cs \in Seq(Chunks), end \in Behind(e) : OpenAt(fr, acc, cs, end)
      BY <1>6 DEF Open
  <2>4. OpenAt(fr, acc, cs, end)' /\ end \in Behind(e)'
      BY <1>4, <2>3 DEF Behind
  <2>5. QED
      BY <1>2, <1>3, <1>6, <2>2, <2>4 DEF Open
<1>7. Ending(acc, e) => Ending(acc, e)'
    BY <1>2, <1>3, <1>5 DEF Ending
<1>8. Over => Over'
    BY <1>2 DEF Over
<1>9. QED
    BY <1>2, <1>3, <1>6, <1>7, <1>8 DEF Flow, ReaderStep, TellsNothing

LEMMA FlowReads ==
    ASSUME ReaderTypeOK, EndedWhenClosed, NEW fr, NEW acc, NEW e, Flow(fr, acc, e),
           NEW r \in Readers, ReadChunk(r) \/ ReadEnd(r) \/ ReadEnded(r) \/ ReadWait(r)
    PROVE  Flow(fr, acc, e)' /\ ReaderStep(acc, e)
BY FlowReadChunk, FlowReadEnd, FlowReadOther

\* cancel() of the reader drops what was not read; its callers see no end.
LEMMA FlowCancelled ==
    ASSUME ReaderTypeOK, CancelRead, NEW fr, NEW acc, NEW e
    PROVE  Flow(fr, acc, e)' /\ ReaderStep(acc, e)
<1>1. reader \in ReaderRecords /\ reads \in [Readers -> ReadStates]
    BY DEF ReaderTypeOK
<1>2. /\ reader'.closed /\ reader'.queue = <<>> /\ received' = received
      /\ told' = told
    BY <1>1 DEF CancelRead, ReaderRecords
<1>3. QED
    BY <1>2 DEF Flow, Over, ReaderStep, TellsNothing

-----------------------------------------------------------------------------
(***************************************************************************)
(* Every chunk in one place.  Whoever ends the stream, however many call   *)
(* at once and whatever a full channel swallows, a chunk that was handed   *)
(* over is in at most one of: what was read, the queue of the reader, the  *)
(* channel and the queue of the writer; one that was not is with its call. *)
(***************************************************************************)
ChunkIds(s) == {s[i].id : i \in {j \in DOMAIN s : s[j].t = "chunk"}}
Once(s) ==
    \A i, j \in DOMAIN s :
        s[i].t = "chunk" /\ s[j].t = "chunk" /\ s[i].id = s[j].id => i = j

Elems(s) == {s[i] : i \in DOMAIN s}
OnceEach(s) == \A i, j \in DOMAIN s : s[i] = s[j] => i = j

LEMMA ChunkIdsEmpty == ChunkIds(<<>>) = {} /\ Once(<<>>) /\ Elems(<<>>) = {} /\ OnceEach(<<>>)
BY DEF ChunkIds, Once, Elems, OnceEach

LEMMA ChunkIdsOne ==
    ASSUME NEW x
    PROVE  /\ Once(<<x>>)
           /\ x.t = "chunk" => ChunkIds(<<x>>) = {x.id}
           /\ x.t # "chunk" => ChunkIds(<<x>>) = {}
BY DEF ChunkIds, Once

\* The positions of s and those of t, moved.
LEMMA ConcatParts ==
    ASSUME NEW S, NEW s \in Seq(S), NEW t \in Seq(S)
    PROVE  /\ s \o t \in Seq(S)
           /\ \A i \in DOMAIN s : i \in DOMAIN (s \o t) /\ (s \o t)[i] = s[i]
           /\ \A i \in DOMAIN t : Len(s) + i \in DOMAIN (s \o t) /\ (s \o t)[Len(s) + i] = t[i]
           /\ \A i \in DOMAIN (s \o t) :
                 i \in DOMAIN s \/ \E j \in DOMAIN t : i = Len(s) + j
<1> DEFINE u == s \o t
<1>1. /\ u \in Seq(S) /\ Len(u) = Len(s) + Len(t) /\ Len(s) \in Nat /\ Len(t) \in Nat
      /\ \A i \in 1 .. Len(u) : u[i] = IF i <= Len(s) THEN s[i] ELSE t[i - Len(s)]
    BY ConcatAt
<1> HIDE DEF u
<1>2. DOMAIN u = 1 .. Len(s) + Len(t) /\ DOMAIN s = 1 .. Len(s) /\ DOMAIN t = 1 .. Len(t)
    BY <1>1
<1>3. \A i \in DOMAIN s : i \in DOMAIN u /\ u[i] = s[i]
    BY <1>1, <1>2
<1>4. \A i \in DOMAIN t : Len(s) + i \in DOMAIN u /\ u[Len(s) + i] = t[i]
  <2>1. SUFFICES ASSUME NEW i \in DOMAIN t
                 PROVE  Len(s) + i \in DOMAIN u /\ u[Len(s) + i] = t[i]
      OBVIOUS
  <2>2. i \in Nat /\ Len(s) + i \in 1 .. Len(u) /\ ~(Len(s) + i <= Len(s)) /\ (Len(s) + i) - Len(s) = i
      BY <1>1, <1>2
  <2>3. QED
      BY <1>1, <1>2, <2>2
<1>5. ASSUME NEW i \in DOMAIN u
      PROVE  i \in DOMAIN s \/ \E j \in DOMAIN t : i = Len(s) + j
  <2>1. CASE i <= Len(s)
      BY <1>1, <1>2, <2>1
  <2>2. CASE i > Len(s)
    <3>1. i - Len(s) \in DOMAIN t /\ i = Len(s) + (i - Len(s))
        BY <1>1, <1>2, <2>2
    <3>2. QED
        BY <3>1
  <2>3. QED
      BY <1>1, <1>2, <2>1, <2>2
<1>6. QED
    BY <1>1, <1>3, <1>4, <1>5 DEF u

LEMMA ChunkIdsConcat ==
    ASSUME NEW S, NEW s \in Seq(S), NEW t \in Seq(S)
    PROVE  /\ ChunkIds(s \o t) = ChunkIds(s) \cup ChunkIds(t)
           /\ Once(s) /\ Once(t) /\ ChunkIds(s) \cap ChunkIds(t) = {} => Once(s \o t)
<1> DEFINE u == s \o t
           n == Len(s)
<1>1. /\ \A i \in DOMAIN s : i \in DOMAIN u /\ u[i] = s[i]
      /\ \A i \in DOMAIN t : n + i \in DOMAIN u /\ u[n + i] = t[i]
      /\ \A i \in DOMAIN u : i \in DOMAIN s \/ \E j \in DOMAIN t : i = n + j
    BY ConcatParts
<1> HIDE DEF u, n
<1>2. ChunkIds(u) = ChunkIds(s) \cup ChunkIds(t)
  <2>1. \A i \in DOMAIN s : s[i].t = "chunk" => s[i].id \in ChunkIds(u)
      BY <1>1 DEF ChunkIds
  <2>2. \A i \in DOMAIN t : t[i].t = "chunk" => t[i].id \in ChunkIds(u)
      BY <1>1 DEF ChunkIds
  <2>3. ASSUME NEW i \in DOMAIN u, u[i].t = "chunk"
        PROVE  u[i].id \in ChunkIds(s) \/ u[i].id \in ChunkIds(t)
      BY <1>1, <2>3 DEF ChunkIds
  <2>4. QED
      BY <2>1, <2>2, <2>3 DEF ChunkIds
<1>3. ASSUME Once(s), Once(t), ChunkIds(s) \cap ChunkIds(t) = {}
      PROVE  Once(u)
  <2>1. SUFFICES ASSUME NEW i \in DOMAIN u, NEW j \in DOMAIN u,
                        u[i].t = "chunk", u[j].t = "chunk", u[i].id = u[j].id
                 PROVE  i = j
      BY DEF Once
  <2>2. \A a \in DOMAIN s, b \in DOMAIN t : s[a].t = "chunk" /\ t[b].t = "chunk" => s[a].id # t[b].id
      BY <1>3 DEF ChunkIds
  <2>3. CASE i \in DOMAIN s /\ j \in DOMAIN s
      BY <1>1, <1>3, <2>1, <2>3 DEF Once
  <2>4. CASE \E a \in DOMAIN t, b \in DOMAIN t : i = n + a /\ j = n + b
      BY <1>1, <1>3, <2>1, <2>4 DEF Once
  <2>5. CASE i \in DOMAIN s /\ \E b \in DOMAIN t : j = n + b
      BY <1>1, <2>1, <2>2, <2>5
  <2>6. CASE j \in DOMAIN s /\ \E b \in DOMAIN t : i = n + b
      BY <1>1, <2>1, <2>2, <2>6
  <2>7. QED
      BY <1>1, <2>3, <2>4, <2>5, <2>6
<1>4. QED
    BY <1>2, <1>3 DEF u

LEMMA ChunkIdsAndNone ==
    ASSUME NEW S, NEW s \in Seq(S), NEW t \in Seq(S), Once(s), Once(t), ChunkIds(t) = {}
    PROVE  ChunkIds(s \o t) = ChunkIds(s) /\ Once(s \o t)
<1>1. ChunkIds(s) \cap ChunkIds(t) = {}
    OBVIOUS
<1>2. Once(s \o t)
    BY <1>1, ChunkIdsConcat
<1>3. ChunkIds(s \o t) = ChunkIds(s) \cup ChunkIds(t)
    BY ChunkIdsConcat
<1>4. QED
    BY <1>2, <1>3

LEMMA ElemsConcat ==
    ASSUME NEW S, NEW s \in Seq(S), NEW t \in Seq(S)
    PROVE  Elems(s \o t) = Elems(s) \cup Elems(t)
<1> DEFINE u == s \o t
           n == Len(s)
<1>1. /\ \A i \in DOMAIN s : i \in DOMAIN u /\ u[i] = s[i]
      /\ \A i \in DOMAIN t : n + i \in DOMAIN u /\ u[n + i] = t[i]
      /\ \A i \in DOMAIN u : i \in DOMAIN s \/ \E j \in DOMAIN t : i = n + j
    BY ConcatParts
<1> HIDE DEF u, n
<1>2. (\A i \in DOMAIN s : s[i] \in Elems(u)) /\ (\A i \in DOMAIN t : t[i] \in Elems(u))
    BY <1>1 DEF Elems
<1>3. \A i \in DOMAIN u : u[i] \in Elems(s) \/ u[i] \in Elems(t)
    BY <1>1 DEF Elems
<1>4. Elems(u) = Elems(s) \cup Elems(t)
    BY <1>2, <1>3 DEF Elems
<1>5. QED
    BY <1>4 DEF u

LEMMA ElemsAppend ==
    ASSUME NEW S, NEW s \in Seq(S), NEW x \in S
    PROVE  /\ Elems(Append(s, x)) = Elems(s) \cup {x}
           /\ OnceEach(s) /\ x \notin Elems(s) => OnceEach(Append(s, x))
<1> DEFINE u == Append(s, x)
           n == Len(s) + 1
<1>1. /\ \A i \in DOMAIN s : i \in DOMAIN u /\ u[i] = s[i]
      /\ n \in DOMAIN u /\ u[n] = x
      /\ \A i \in DOMAIN u : i \in DOMAIN s \/ i = n
    BY AppendElements
<1> HIDE DEF u, n
<1>2. x \in Elems(u) /\ \A i \in DOMAIN s : s[i] \in Elems(u)
    BY <1>1 DEF Elems
<1>3. \A i \in DOMAIN u : u[i] \in Elems(s) \/ u[i] = x
    BY <1>1 DEF Elems
<1>4. Elems(u) = Elems(s) \cup {x}
    BY <1>2, <1>3 DEF Elems
<1>5. ASSUME OnceEach(s), x \notin Elems(s) PROVE OnceEach(u)
  <2>1. SUFFICES ASSUME NEW i \in DOMAIN u, NEW j \in DOMAIN u, u[i] = u[j] PROVE i = j
      BY DEF OnceEach
  <2>2. \A a \in DOMAIN s : s[a] # x
      BY <1>5 DEF Elems
  <2>3. QED
      BY <1>1, <1>5, <2>1, <2>2 DEF OnceEach
<1>6. QED
    BY <1>4, <1>5 DEF u

\* What is at the head of a sequence is not in its tail.
LEMMA ChunkIdsTail ==
    ASSUME NEW S, NEW s \in Seq(S), s # <<>>, Once(s)
    PROVE  /\ Once(Tail(s)) /\ ChunkIds(Tail(s)) \subseteq ChunkIds(s)
           /\ Head(s).t = "chunk" =>
                 Head(s).id \in ChunkIds(s) /\ Head(s).id \notin ChunkIds(Tail(s))
<1> DEFINE u == Tail(s)
           h == Head(s)
<1>1. /\ Len(s) \in Nat /\ Len(s) > 0 /\ DOMAIN s = 1 .. Len(s)
      /\ DOMAIN u = 1 .. Len(s) - 1 /\ h = s[1]
      /\ \A i \in 1 .. Len(s) - 1 : u[i] = s[i + 1]
    OBVIOUS
<1> HIDE DEF u, h
<1>2. 1 \in DOMAIN s /\ \A i \in DOMAIN u : i + 1 \in DOMAIN s /\ i + 1 # 1 /\ u[i] = s[i + 1]
    BY <1>1
<1>3. \A i, j \in DOMAIN u : i + 1 = j + 1 => i = j
    BY <1>1
<1>4. Once(u)
    BY <1>2, <1>3 DEF Once
<1>5. \A i \in DOMAIN u : u[i].t = "chunk" => u[i].id \in ChunkIds(s)
    BY <1>2 DEF ChunkIds
<1>6. ChunkIds(u) \subseteq ChunkIds(s)
    BY <1>5 DEF ChunkIds
<1>7. ASSUME h.t = "chunk" PROVE h.id \in ChunkIds(s) /\ h.id \notin ChunkIds(u)
  <2>1. h.id \in ChunkIds(s)
      BY <1>1, <1>2, <1>7 DEF ChunkIds
  <2>2. \A i \in DOMAIN u : u[i].t = "chunk" => u[i].id # h.id
      BY <1>1, <1>2, <1>7 DEF Once
  <2>3. QED
      BY <2>1, <2>2 DEF ChunkIds
<1>8. QED
    BY <1>4, <1>6, <1>7 DEF u, h

LEMMA OnceParts ==
    ASSUME NEW S, NEW s \in Seq(S), NEW t \in Seq(S), Once(s \o t)
    PROVE  Once(s) /\ Once(t) /\ ChunkIds(s) \cap ChunkIds(t) = {}
<1> DEFINE u == s \o t
           n == Len(s)
<1>1. /\ \A i \in DOMAIN s : i \in DOMAIN u /\ u[i] = s[i]
      /\ \A i \in DOMAIN t : n + i \in DOMAIN u /\ u[n + i] = t[i]
    BY ConcatParts
<1>2. Once(u)
    OBVIOUS
<1>3. n \in Nat /\ DOMAIN s = 1 .. n /\ DOMAIN t \subseteq Nat \ {0}
    OBVIOUS
<1> HIDE DEF u, n
<1>4. Once(s)
    BY <1>1, <1>2 DEF Once
<1>5. ASSUME NEW i \in DOMAIN t, NEW j \in DOMAIN t, t[i].t = "chunk", t[j].t = "chunk", t[i].id = t[j].id
      PROVE  i = j
  <2>1. n + i = n + j
      BY <1>1, <1>2, <1>5 DEF Once
  <2>2. QED
      BY <1>3, <2>1
<1>6. ASSUME NEW i \in DOMAIN s, NEW j \in DOMAIN t, s[i].t = "chunk", t[j].t = "chunk"
      PROVE  s[i].id # t[j].id
  <2>1. i # n + j
      BY <1>3
  <2>2. QED
      BY <1>1, <1>2, <1>6, <2>1 DEF Once
<1>7. Once(t)
    BY <1>5 DEF Once
<1>8. ChunkIds(s) \cap ChunkIds(t) = {}
    BY <1>6 DEF ChunkIds
<1>9. QED
    BY <1>4, <1>7, <1>8

\* A chunk moves from the front of what is left, t, behind what is gathered, s.
LEMMA MovesOver ==
    ASSUME NEW S, NEW s \in Seq(S), NEW t \in Seq(S), t # <<>>, Head(t).t = "chunk", Once(s \o t)
    PROVE  LET b == Append(s, Head(t))
           IN  /\ b \in Seq(S) /\ Tail(t) \in Seq(S)
               /\ Once(b) /\ Once(Tail(t)) /\ Once(b \o Tail(t))
               /\ ChunkIds(b) \cap ChunkIds(Tail(t)) = {}
               /\ ChunkIds(b) \cup ChunkIds(Tail(t)) = ChunkIds(s \o t)
               /\ ChunkIds(b \o Tail(t)) = ChunkIds(s \o t)
<1> DEFINE x == Head(t)
           one == <<x>>
           b == Append(s, x)
           rest == Tail(t)
<1>1. x \in S /\ rest \in Seq(S) /\ t = one \o rest
    BY HeadFirst
<1>2. one \in Seq(S) /\ b = s \o one /\ b \in Seq(S)
    BY <1>1, Concats
<1> HIDE DEF x, one, b, rest
<1>3. b \o rest = s \o t
    BY <1>1, <1>2, Concats
<1>4. Once(b \o rest)
    BY <1>3
<1>5. Once(b) /\ Once(rest) /\ ChunkIds(b) \cap ChunkIds(rest) = {}
    BY <1>1, <1>2, <1>4, OnceParts
<1>6. ChunkIds(b \o rest) = ChunkIds(b) \cup ChunkIds(rest)
    BY <1>1, <1>2, ChunkIdsConcat
<1>7. QED
    BY <1>1, <1>2, <1>3, <1>4, <1>5, <1>6 DEF x, b, rest

\* Handing over b adds its ids.
LEMMA ElemsOfChunks ==
    ASSUME NEW a \in Seq(Nat), NEW b \in Seq(Chunks)
    PROVE  /\ ChunkIds(b) \subseteq Nat
           /\ a \o Ids(b) \in Seq(Nat)
           /\ Elems(a \o Ids(b)) = Elems(a) \cup ChunkIds(b)
<1>1. \A i \in DOMAIN b : b[i] \in Chunks
    OBVIOUS
<1>2. \A i \in DOMAIN b : b[i].t = "chunk" /\ b[i].id \in Nat
    BY <1>1 DEF Chunks
<1> DEFINE d == Ids(b)
<1>3. d \in Seq(Nat)
    BY IdsOf
<1>4. DOMAIN d = DOMAIN b /\ \A i \in DOMAIN b : d[i] = b[i].id
    BY DEF Ids
<1> HIDE DEF d
<1>5. Elems(d) = ChunkIds(b)
    BY <1>2, <1>4 DEF Elems, ChunkIds
<1>6. Elems(a \o d) = Elems(a) \cup Elems(d) /\ a \o d \in Seq(Nat)
    BY <1>3, ElemsConcat
<1>7. ChunkIds(b) \subseteq Nat
    BY <1>2 DEF ChunkIds
<1>8. QED
    BY <1>5, <1>6, <1>7 DEF d

\* The chunks of a new call have the next ids.
LEMMA NextIds ==
    ASSUME NEW S \in SUBSET Nat, NEW sizes \in Seq(S), NEW first \in Nat
    PROVE  LET chunks == [i \in DOMAIN sizes |-> Chunk(first + i - 1, sizes[i])]
           IN  /\ Once(chunks)
               /\ \A x \in ChunkIds(chunks) : x \in Nat /\ first <= x /\ x < first + Len(sizes)
<1> DEFINE m == Len(sizes)
<1>1. m \in Nat /\ DOMAIN sizes = 1 .. m
    OBVIOUS
<1> HIDE DEF m
<1> DEFINE chunks == [i \in DOMAIN sizes |-> Chunk(first + i - 1, sizes[i])]
<1>2. DOMAIN chunks = 1 .. m /\ \A i \in 1 .. m : chunks[i].id = first + i - 1
    BY <1>1 DEF Chunk
<1> HIDE DEF chunks
<1>3. \A i, j \in 1 .. m : first + i - 1 = first + j - 1 => i = j
    BY <1>1
<1>4. Once(chunks)
    BY <1>2, <1>3 DEF Once
<1>5. \A i \in 1 .. m : first + i - 1 \in Nat /\ first <= first + i - 1 /\ first + i - 1 < first + m
    BY <1>1
<1>6. \A x \in ChunkIds(chunks) : x \in Nat /\ first <= x /\ x < first + m
    BY <1>2, <1>5 DEF ChunkIds
<1>7. QED
    BY <1>4, <1>6 DEF chunks, m

(***************************************************************************)
(* Placed: h are the ids the reader has had, w the channel, k the queue of *)
(* the writer, a the ids that were handed over.                            *)
(***************************************************************************)
Placed(h, w, k, a) ==
    /\ Once(w) /\ Once(k)
    /\ h \cap ChunkIds(w) = {} /\ h \cap ChunkIds(k) = {} /\ ChunkIds(w) \cap ChunkIds(k) = {}
    /\ h \subseteq Elems(a) /\ ChunkIds(w) \subseteq Elems(a) /\ ChunkIds(k) \subseteq Elems(a)

LEMMA PlacedLess ==
    ASSUME NEW h, NEW w, NEW k, NEW a, Placed(h, w, k, a),
           NEW h2, NEW w2, NEW k2, NEW a2, h2 \subseteq h,
           Once(w2), ChunkIds(w2) \subseteq ChunkIds(w),
           Once(k2), ChunkIds(k2) \subseteq ChunkIds(k),
           Elems(a) \subseteq Elems(a2)
    PROVE  Placed(h2, w2, k2, a2)
BY DEF Placed

\* New chunks q go into the channel, ...
LEMMA PlacedPost ==
    ASSUME NEW S, NEW w \in Seq(S), NEW q \in Seq(S), NEW h, NEW k, NEW a, NEW a2,
           Placed(h, w, k, a), Once(q), ChunkIds(q) \cap Elems(a) = {},
           Elems(a) \cup ChunkIds(q) \subseteq Elems(a2)
    PROVE  Placed(h, w \o q, k, a2)
<1>1. ChunkIds(w \o q) = ChunkIds(w) \cup ChunkIds(q)
    BY ChunkIdsConcat
<1>2. ChunkIds(w) \cap ChunkIds(q) = {}
    BY DEF Placed
<1>3. Once(w \o q)
    BY <1>2, ChunkIdsConcat DEF Placed
<1>4. QED
    BY <1>1, <1>3 DEF Placed

\* ... or into the queue of the writer, ...
LEMMA PlacedQueue ==
    ASSUME NEW S, NEW k \in Seq(S), NEW q \in Seq(S), NEW h, NEW w, NEW a, NEW a2,
           Placed(h, w, k, a), Once(q), ChunkIds(q) \cap Elems(a) = {},
           Elems(a) \cup ChunkIds(q) \subseteq Elems(a2)
    PROVE  Placed(h, w, k \o q, a2)
<1>1. ChunkIds(k \o q) = ChunkIds(k) \cup ChunkIds(q)
    BY ChunkIdsConcat
<1>2. ChunkIds(k) \cap ChunkIds(q) = {}
    BY DEF Placed
<1>3. Once(k \o q)
    BY <1>2, ChunkIdsConcat DEF Placed
<1>4. QED
    BY <1>1, <1>3 DEF Placed

\* ... and the queue into the channel, or away.
LEMMA PlacedFlush ==
    ASSUME NEW S, NEW w \in Seq(S), NEW k \in Seq(S), NEW h, NEW a, Placed(h, w, k, a)
    PROVE  Placed(h, w \o k, <<>>, a) /\ Placed(h, w, <<>>, a)
<1> DEFINE none == <<>>
<1>1. Once(none) /\ ChunkIds(none) = {}
    BY ChunkIdsEmpty
<1> HIDE DEF none
<1>2. ChunkIds(w \o k) = ChunkIds(w) \cup ChunkIds(k) /\ Once(w \o k)
    BY ChunkIdsConcat DEF Placed
<1>3. Placed(h, w \o k, none, a) /\ Placed(h, w, none, a)
    BY <1>1, <1>2 DEF Placed
<1>4. QED
    BY <1>3 DEF none

\* Frames without chunks change nothing.
LEMMA PlacedFrames ==
    ASSUME NEW S, NEW w \in Seq(S), NEW fr \in Seq(S), NEW h, NEW k, NEW a,
           Placed(h, w, k, a), \A i \in DOMAIN fr : fr[i].t # "chunk"
    PROVE  Placed(h, w \o fr, k, a)
<1>1. ChunkIds(fr) = {} /\ Once(fr)
    BY DEF ChunkIds, Once
<1>2. QED
    BY <1>1, PlacedPost

\* The frame at the head of the channel arrives.
LEMMA PlacedArrives ==
    ASSUME NEW S, NEW w \in Seq(S), w # <<>>, NEW h, NEW k, NEW a, Placed(h, w, k, a), NEW h2,
           h2 \subseteq h \/ (Head(w).t = "chunk" /\ h2 \subseteq h \cup {Head(w).id})
    PROVE  /\ Placed(h2, Tail(w), k, a)
           /\ Head(w).t = "chunk" => Head(w).id \notin h
<1> DEFINE u == Tail(w)
           x == Head(w)
<1>1. /\ Once(u) /\ ChunkIds(u) \subseteq ChunkIds(w)
      /\ x.t = "chunk" => x.id \in ChunkIds(w) /\ x.id \notin ChunkIds(u)
    BY ChunkIdsTail DEF Placed
<1>0. h2 \subseteq h \/ (x.t = "chunk" /\ h2 \subseteq h \cup {x.id})
    OBVIOUS
<1> HIDE DEF u, x
<1>2. ChunkIds(u) \cap ChunkIds(k) = {} /\ ChunkIds(u) \subseteq Elems(a) /\ h \cap ChunkIds(u) = {}
    BY <1>1 DEF Placed
<1>3. /\ h2 \cap ChunkIds(u) = {} /\ h2 \cap ChunkIds(k) = {} /\ h2 \subseteq Elems(a)
  <2>1. CASE h2 \subseteq h
      BY <1>2, <2>1 DEF Placed
  <2>2. CASE x.t = "chunk" /\ h2 \subseteq h \cup {x.id}
    <3>1. x.id \notin ChunkIds(k) /\ x.id \in Elems(a)
        BY <1>1, <2>2 DEF Placed
    <3>2. QED
        BY <1>1, <1>2, <2>2, <3>1 DEF Placed
  <2>3. QED
      BY <1>0, <2>1, <2>2
<1>4. x.t = "chunk" => x.id \notin h
    BY <1>1 DEF Placed
<1>5. Placed(h2, u, k, a)
    BY <1>1, <1>2, <1>3 DEF Placed
<1>6. QED
    BY <1>4, <1>5 DEF u, x

(***************************************************************************)
(* Aside: u are the chunks that wait with their calls, n the next id.      *)
(***************************************************************************)
Aside(u, a, n) ==
    /\ \A c \in Callers :
          /\ Once(u[c]) /\ ChunkIds(u[c]) \cap Elems(a) = {}
          /\ \A x \in ChunkIds(u[c]) : x < n
          /\ \A d \in Callers : d # c => ChunkIds(u[c]) \cap ChunkIds(u[d]) = {}
    /\ \A x \in Elems(a) : x < n

\* One caller sends some of its chunks, or new ones N, or sets new ones aside.
LEMMA AsideStep ==
    ASSUME NEW u \in [Callers -> Seq(Chunks)], NEW a \in Seq(Nat), NEW n \in Nat, Aside(u, a, n),
           NEW u2, NEW a2, NEW m \in Nat, n <= m,
           NEW N \in SUBSET Nat, \A x \in N : n <= x /\ x < m,
           NEW c \in Callers,
           \A d \in Callers \ {c} : Once(u2[d]) /\ ChunkIds(u2[d]) \subseteq ChunkIds(u[d]),
           Once(u2[c]), ChunkIds(u2[c]) \subseteq ChunkIds(u[c]) \cup N,
           Elems(a2) \subseteq Elems(a) \cup ChunkIds(u[c]) \cup N,
           Elems(a2) \cap ChunkIds(u2[c]) = {}
    PROVE  Aside(u2, a2, m)
<1>1. Elems(a) \subseteq Nat
    BY DEF Elems
<1>2. ASSUME NEW d \in Callers PROVE ChunkIds(u[d]) \subseteq Nat
  <2>1. u[d] \in Seq(Chunks)
      OBVIOUS
  <2>2. \A i \in DOMAIN u[d] : u[d][i] \in Chunks
      BY <2>1
  <2>3. QED
      BY <2>2 DEF ChunkIds, Chunks
<1>3. \A d \in Callers : \A x \in ChunkIds(u[d]) : x \notin N /\ x < m
    BY <1>2 DEF Aside
<1>4. \A x \in Elems(a) : x \notin N /\ x < m
    BY <1>1 DEF Aside
<1>5. \A x \in Elems(a2) : x < m
    BY <1>3, <1>4
<1>6. ASSUME NEW d \in Callers
      PROVE  /\ Once(u2[d]) /\ ChunkIds(u2[d]) \cap Elems(a2) = {}
             /\ \A x \in ChunkIds(u2[d]) : x < m
  <2>1. CASE d = c
      BY <1>3, <2>1
  <2>2. CASE d # c
    <3>1. ChunkIds(u2[d]) \subseteq ChunkIds(u[d]) /\ Once(u2[d])
        BY <2>2
    <3>2. ChunkIds(u[d]) \cap Elems(a) = {} /\ ChunkIds(u[d]) \cap ChunkIds(u[c]) = {}
        BY <2>2 DEF Aside
    <3>3. ChunkIds(u[d]) \cap N = {}
        BY <1>3
    <3>4. QED
        BY <1>3, <3>1, <3>2, <3>3
  <2>3. QED
      BY <2>1, <2>2
<1>7. ASSUME NEW d \in Callers, NEW e \in Callers, e # d
      PROVE  ChunkIds(u2[d]) \cap ChunkIds(u2[e]) = {}
  <2>1. ChunkIds(u[d]) \cap ChunkIds(u[e]) = {} /\ ChunkIds(u[d]) \cap N = {} /\ ChunkIds(u[e]) \cap N = {}
      BY <1>3, <1>7 DEF Aside
  <2>2. CASE d # c /\ e # c
      BY <2>1, <2>2
  <2>3. CASE d = c
      BY <1>7, <2>1, <2>3
  <2>4. CASE e = c
      BY <1>7, <2>1, <2>4
  <2>5. QED
      BY <2>2, <2>3, <2>4
<1>8. QED
    BY <1>5, <1>6, <1>7 DEF Aside

LEMMA AsideSent ==
    ASSUME NEW u \in [Callers -> Seq(Chunks)], NEW a \in Seq(Nat), NEW n \in Nat, Aside(u, a, n),
           NEW u2, NEW a2, NEW c \in Callers,
           \A d \in Callers \ {c} : u2[d] = u[d],
           Once(u2[c]), ChunkIds(u2[c]) \subseteq ChunkIds(u[c]),
           Elems(a2) \subseteq Elems(a) \cup ChunkIds(u[c]),
           Elems(a2) \cap ChunkIds(u2[c]) = {}
    PROVE  Aside(u2, a2, n)
<1> DEFINE N == {}
<1>1. N \in SUBSET Nat /\ (\A x \in N : n <= x /\ x < n) /\ n <= n
    OBVIOUS
<1>2. /\ ChunkIds(u2[c]) \subseteq ChunkIds(u[c]) \cup N
      /\ Elems(a2) \subseteq Elems(a) \cup ChunkIds(u[c]) \cup N
    OBVIOUS
<1> HIDE DEF N
<1>3. \A d \in Callers \ {c} : Once(u2[d]) /\ ChunkIds(u2[d]) \subseteq ChunkIds(u[d])
    BY DEF Aside
<1>4. QED
    BY <1>1, <1>2, <1>3, AsideStep

\* Chunks with new ids N are handed over, or wait with the call of c.
LEMMA NewIds ==
    ASSUME NEW u \in [Callers -> Seq(Chunks)], NEW a \in Seq(Nat), NEW n \in Nat, Aside(u, a, n),
           NEW N \in SUBSET Nat, \A x \in N : n <= x, NEW c \in Callers
    PROVE  /\ Elems(a) \cap N = {} /\ ChunkIds(u[c]) \cap N = {}
           /\ Elems(a) \cap ChunkIds(u[c]) = {}
<1>1. Elems(a) \subseteq Nat
    BY DEF Elems
<1>2. ChunkIds(u[c]) \subseteq Nat
  <2>1. \A i \in DOMAIN u[c] : u[c][i] \in Chunks
    <3>1. u[c] \in Seq(Chunks)
        OBVIOUS
    <3>2. QED
        BY <3>1
  <2>2. QED
      BY <2>1 DEF ChunkIds, Chunks
<1>3. (\A x \in Elems(a) : x < n) /\ \A x \in ChunkIds(u[c]) : x < n
    BY DEF Aside
<1>4. Elems(a) \cap N = {} /\ ChunkIds(u[c]) \cap N = {}
    BY <1>1, <1>2, <1>3
<1>5. QED
    BY <1>4 DEF Aside

LEMMA AsideNew ==
    ASSUME NEW u \in [Callers -> Seq(Chunks)], NEW a \in Seq(Nat), NEW n \in Nat, Aside(u, a, n),
           NEW N \in SUBSET Nat, NEW m \in Nat, n <= m, \A x \in N : n <= x /\ x < m,
           NEW a2, Elems(a2) \subseteq Elems(a) \cup N
    PROVE  Aside(u, a2, m)
<1>1. ASSUME NEW c \in Callers
      PROVE  ChunkIds(u[c]) \cap Elems(a2) = {} /\ \A x \in ChunkIds(u[c]) : x < m
  <2>1. ChunkIds(u[c]) \cap Elems(a2) = {}
    <3>1. \A x \in N : n <= x
        OBVIOUS
    <3>2. ChunkIds(u[c]) \cap N = {} /\ Elems(a) \cap ChunkIds(u[c]) = {}
        BY <3>1, NewIds
    <3>3. QED
        BY <3>2
  <2>2. ChunkIds(u[c]) \subseteq Nat
    <3>1. u[c] \in Seq(Chunks)
        OBVIOUS
    <3>2. \A i \in DOMAIN u[c] : u[c][i] \in Chunks
        BY <3>1
    <3>3. QED
        BY <3>2 DEF ChunkIds, Chunks
  <2>3. QED
      BY <2>1, <2>2 DEF Aside
<1>2. \A x \in Elems(a2) : x < m
  <2>1. Elems(a) \subseteq Nat /\ \A x \in Elems(a) : x < n
      BY DEF Elems, Aside
  <2>2. SUFFICES ASSUME NEW x \in Elems(a2) PROVE x < m
      OBVIOUS
  <2>3. CASE x \in N
      BY <2>3
  <2>4. CASE x \in Elems(a)
      BY <2>1, <2>4
  <2>5. QED
      BY <2>3, <2>4
<1>3. QED
    BY <1>1, <1>2 DEF Aside

LEMMA AsideBlocks ==
    ASSUME NEW u \in [Callers -> Seq(Chunks)], NEW a \in Seq(Nat), NEW n \in Nat, Aside(u, a, n),
           NEW N \in SUBSET Nat, NEW m \in Nat, n <= m, \A x \in N : n <= x /\ x < m,
           NEW c \in Callers, NEW u2, \A d \in Callers \ {c} : u2[d] = u[d],
           Once(u2[c]), ChunkIds(u2[c]) \subseteq ChunkIds(u[c]) \cup N
    PROVE  Aside(u2, a, m)
<1>0. \A x \in N : n <= x
    OBVIOUS
<1>1. Elems(a) \cap ChunkIds(u2[c]) = {}
  <2>1. Elems(a) \cap N = {} /\ Elems(a) \cap ChunkIds(u[c]) = {}
      BY <1>0, NewIds
  <2>2. QED
      BY <2>1
<1>2. \A d \in Callers \ {c} : Once(u2[d]) /\ ChunkIds(u2[d]) \subseteq ChunkIds(u[d])
    BY DEF Aside
<1>3. Elems(a) \subseteq Elems(a) \cup ChunkIds(u[c]) \cup N
    OBVIOUS
<1>4. QED
    BY <1>1, <1>2, <1>3, AsideStep

LEMMA AsideLess ==
    ASSUME NEW u, NEW a, NEW n, Aside(u, a, n), NEW u2,
           \A c \in Callers : Once(u2[c]) /\ ChunkIds(u2[c]) \subseteq ChunkIds(u[c])
    PROVE  Aside(u2, a, n)
<1>1. ASSUME NEW c \in Callers, NEW d \in Callers, d # c
      PROVE  ChunkIds(u2[c]) \cap ChunkIds(u2[d]) = {}
  <2>1. ChunkIds(u[c]) \cap ChunkIds(u[d]) = {}
      BY <1>1 DEF Aside
  <2>2. QED
      BY <2>1
<1>2. QED
    BY <1>1 DEF Aside

(***************************************************************************)
(* The reader: what it has read and what it holds is one place each.       *)
(***************************************************************************)
Had == Elems(received) \cup ChunkIds(reader.queue)

ReadOnce ==
    /\ OnceEach(received) /\ Once(reader.queue)
    /\ Elems(received) \cap ChunkIds(reader.queue) = {}

LEMMA ReadOnceInit == ReaderInit => ReadOnce /\ Had = {}
<1> DEFINE none == <<>>
<1>1. ChunkIds(none) = {} /\ Once(none) /\ Elems(none) = {} /\ OnceEach(none)
    BY ChunkIdsEmpty
<1>2. ReaderInit => received = none /\ reader.queue = none
    BY DEF ReaderInit
<1> HIDE DEF none
<1>3. QED
    BY <1>1, <1>2 DEF ReadOnce, Had

LEMMA ReadOnceKept ==
    ASSUME ReadOnce, received' = received, reader'.queue = reader.queue
    PROVE  ReadOnce' /\ Had' = Had
BY DEF ReadOnce, Had

LEMMA PushChunkOnce ==
    ASSUME ReaderTypeOK, ReadOnce, NEW ch \in Chunks, PushChunk(ch), ch.id \notin Had
    PROVE  ReadOnce' /\ Had' \subseteq Had \cup {ch.id}
<1> USE ReaderFields
<1>1. ch \in Events /\ ch.id \in Nat /\ ch.t = "chunk" /\ received \in Seq(Nat)
    BY EventKinds DEF Chunks, ReaderTypeOK
<1>2. CASE Ignoring
  <2>1. received' = received /\ reader'.queue = reader.queue
      BY <1>2 DEF PushChunk, readerVars
  <2>2. QED
      BY <2>1, ReadOnceKept
<1>3. CASE ~Ignoring /\ reader.waiting = <<>>
  <2> DEFINE q == Append(reader.queue, ch)
  <2>1. reader' = [reader EXCEPT !.queue = q, !.buffered = @ + ch.bytes] /\ received' = received
      BY <1>3 DEF PushChunk
  <2> DEFINE one == <<ch>>
  <2>2. q = reader.queue \o one /\ one \in Seq(Events)
      BY <1>1, Concats
  <2>3. Once(one) /\ ChunkIds(one) = {ch.id}
      BY <1>1, ChunkIdsOne
  <2> HIDE DEF q, one
  <2>4. reader'.queue = q
      BY <2>1 DEF ReaderTypeOK, ReaderRecords
  <2>5. ChunkIds(q) = ChunkIds(reader.queue) \cup {ch.id} /\ Once(q)
    <3>1. Once(reader.queue) /\ ChunkIds(reader.queue) \cap ChunkIds(one) = {}
        BY <2>3 DEF ReadOnce, Had
    <3>2. QED
        BY <2>2, <2>3, <3>1, ChunkIdsConcat
  <2>6. QED
      BY <2>1, <2>4, <2>5 DEF ReadOnce, Had
<1>4. CASE ~Ignoring /\ reader.waiting # <<>>
  <2> DEFINE r == Append(received, ch.id)
             had == reader.buffered + ch.bytes
             owed == StillOwed(had, ch.bytes)
             left == Max0(had - ch.bytes)
             w == Tail(reader.waiting)
  <2>1. /\ reader' = [reader EXCEPT !.waiting = w, !.buffered = left, !.pendingCredit = owed]
        /\ received' = r
      BY <1>4 DEF PushChunk
  <2>2. Elems(r) = Elems(received) \cup {ch.id} /\ OnceEach(r)
      BY <1>1, ElemsAppend DEF ReadOnce, Had
  <2> HIDE DEF r, owed, left, w
  <2>3. reader'.queue = reader.queue
      BY <2>1 DEF ReaderTypeOK, ReaderRecords
  <2>4. QED
      BY <2>1, <2>2, <2>3 DEF ReadOnce, Had
<1>5. QED
    BY <1>2, <1>3, <1>4

LEMMA PushEndOnce ==
    ASSUME ReaderTypeOK, ReadOnce, NEW kind \in {"close", "error"}, PushEnd(kind)
    PROVE  ReadOnce' /\ Had' \subseteq Had
<1> USE ReaderFields
<1> DEFINE e == Control(kind)
           one == <<e>>
           q == Append(reader.queue, e)
           w == Tail(reader.waiting)
<1>1. e \in Events /\ e.t # "chunk"
    BY EventKinds DEF Control
<1> HIDE DEF e
<1>2. q = reader.queue \o one /\ one \in Seq(Events)
    BY <1>1, Concats
<1>3. Once(one) /\ ChunkIds(one) = {}
    BY <1>1, ChunkIdsOne
<1>4. received' = received
    BY DEF PushEnd, readerVars
<1>5. \/ reader' = reader
      \/ reader' = [reader EXCEPT !.closed = TRUE, !.discarded = TRUE, !.queue = q]
      \/ reader' = [reader EXCEPT !.closed = TRUE, !.discarded = TRUE, !.waiting = w]
    BY DEF PushEnd, readerVars, e
<1> HIDE DEF q, one, w
<1>6. ChunkIds(q) = ChunkIds(reader.queue) /\ Once(q)
  <2>1. Once(reader.queue) /\ ChunkIds(reader.queue) \cap ChunkIds(one) = {}
      BY <1>3 DEF ReadOnce
  <2>2. QED
      BY <1>2, <1>3, <2>1, ChunkIdsAndNone
<1>7. reader'.queue = reader.queue \/ reader'.queue = q
    BY <1>5 DEF ReaderTypeOK, ReaderRecords
<1>8. QED
    BY <1>4, <1>6, <1>7 DEF ReadOnce, Had

LEMMA ReadsOnce ==
    ASSUME ReaderTypeOK, ReadOnce, NEW r \in Readers,
           ReadChunk(r) \/ ReadEnded(r) \/ ReadEnd(r) \/ ReadWait(r)
    PROVE  ReadOnce' /\ Had' \subseteq Had
<1> USE ReaderFields
<1> DEFINE q == Tail(reader.queue)
           x == Head(reader.queue)
<1>1. received \in Seq(Nat)
    BY DEF ReaderTypeOK
<1>2. ASSUME reader.queue # <<>>
      PROVE  /\ Once(q) /\ ChunkIds(q) \subseteq ChunkIds(reader.queue) /\ x \in Events
             /\ x.t = "chunk" => x.id \in ChunkIds(reader.queue) /\ x.id \notin ChunkIds(q)
  <2>1. x \in Events
      BY <1>2
  <2>2. QED
      BY <1>2, <2>1, ChunkIdsTail DEF ReadOnce
<1>3. CASE ReadChunk(r)
  <2> DEFINE owed == StillOwed(reader.buffered, x.bytes)
             left == Max0(reader.buffered - x.bytes)
             g == Append(received, x.id)
  <2>1. /\ reader.queue # <<>> /\ x.t = "chunk"
        /\ reader' = [reader EXCEPT !.queue = q, !.buffered = left, !.pendingCredit = owed]
        /\ received' = g
      BY <1>3 DEF ReadChunk
  <2>2. x.id \in Nat
      BY <1>2, <2>1 DEF Events
  <2>3. /\ Elems(g) = Elems(received) \cup {x.id}
        /\ x.id \notin Elems(received) => OnceEach(g)
    <3>1. OnceEach(received)
        BY DEF ReadOnce
    <3> HIDE DEF x
    <3>2. QED
        BY <1>1, <2>2, <3>1, ElemsAppend
  <2> HIDE DEF owed, left, g, q, x
  <2>4. reader'.queue = q
      BY <2>1 DEF ReaderTypeOK, ReaderRecords
  <2>5. /\ Once(q) /\ ChunkIds(q) \subseteq ChunkIds(reader.queue)
        /\ x.id \in ChunkIds(reader.queue) /\ x.id \notin ChunkIds(q)
      BY <1>2, <2>1
  <2>6. OnceEach(g)
      BY <2>3, <2>5 DEF ReadOnce
  <2>7. QED
      BY <2>1, <2>3, <2>4, <2>5, <2>6 DEF ReadOnce, Had
<1>4. CASE ReadEnd(r)
  <2>1. /\ reader.queue # <<>> /\ received' = received
        /\ reader' = [reader EXCEPT !.queue = q, !.done = TRUE]
      BY <1>4 DEF ReadEnd
  <2> HIDE DEF q, x
  <2>2. reader'.queue = q
      BY <2>1 DEF ReaderTypeOK, ReaderRecords
  <2>3. QED
      BY <1>2, <2>1, <2>2 DEF ReadOnce, Had
<1>5. CASE ReadEnded(r)
    BY <1>5, ReadOnceKept DEF ReadEnded
<1>6. CASE ReadWait(r)
  <2> DEFINE w == Append(reader.waiting, r)
  <2>1. reader' = [reader EXCEPT !.waiting = w] /\ received' = received
      BY <1>6 DEF ReadWait
  <2> HIDE DEF w
  <2>2. reader'.queue = reader.queue
      BY <2>1 DEF ReaderTypeOK, ReaderRecords
  <2>3. QED
      BY <2>1, <2>2, ReadOnceKept
<1>7. QED
    BY <1>3, <1>4, <1>5, <1>6

LEMMA CancelReadOnce ==
    ASSUME ReaderTypeOK, ReadOnce, CancelRead
    PROVE  ReadOnce' /\ Had' \subseteq Had
<1> DEFINE q == <<>>
           w == <<>>
<1>1. /\ reader' = [reader EXCEPT !.closed = TRUE, !.done = TRUE,
                                  !.discarded = TRUE, !.queue = q, !.waiting = w]
      /\ received' = received
    BY DEF CancelRead
<1>2. ChunkIds(q) = {} /\ Once(q)
    BY ChunkIdsEmpty
<1> HIDE DEF q, w
<1>3. reader'.queue = q
    BY <1>1 DEF ReaderTypeOK, ReaderRecords
<1>4. QED
    BY <1>1, <1>2, <1>3 DEF ReadOnce, Had
\* A frame arrives: its chunk is pushed, or it ends the reader, or is dropped.
LEMMA ArrivesOnce ==
    ASSUME ReaderTypeOK, ReadOnce, NEW S, NEW w \in Seq(S), w # <<>>, NEW k, NEW a,
           Placed(Had, w, k, a),
           \/ UNCHANGED readerVars
           \/ Head(w) \in Chunks /\ PushChunk(Head(w))
           \/ \E kind \in {"close", "error"} : PushEnd(kind)
    PROVE  ReadOnce' /\ Placed(Had', Tail(w), k, a)
<1> DEFINE f == Head(w)
<1>1. CASE UNCHANGED readerVars
  <2>1. ReadOnce' /\ Had' = Had
      BY <1>1, ReadOnceKept DEF readerVars
  <2>2. QED
      BY <2>1, PlacedArrives
<1>2. CASE f \in Chunks /\ PushChunk(f)
  <2>1. f.t = "chunk"
      BY <1>2 DEF Chunks
  <2>2. f.id \notin Had
      BY <2>1, PlacedArrives
  <2>3. ReadOnce' /\ Had' \subseteq Had \cup {f.id}
      BY <1>2, <2>2, PushChunkOnce
  <2>4. QED
      BY <2>1, <2>3, PlacedArrives
<1>3. ASSUME NEW kind \in {"close", "error"}, PushEnd(kind)
      PROVE  ReadOnce' /\ Placed(Had', Tail(w), k, a)
  <2>1. ReadOnce' /\ Had' \subseteq Had
      BY <1>3, PushEndOnce
  <2>2. QED
      BY <2>1, PlacedArrives
<1>4. QED
    BY <1>1, <1>2, <1>3

\* The reader takes a step of its own.
LEMMA TakesOnce ==
    ASSUME ReaderTypeOK, ReadOnce, NEW w, NEW k, NEW a, Placed(Had, w, k, a),
           \/ CancelRead
           \/ \E r \in Readers : ReadChunk(r) \/ ReadEnded(r) \/ ReadEnd(r) \/ ReadWait(r)
    PROVE  ReadOnce' /\ Placed(Had', w, k, a)
<1>1. ReadOnce' /\ Had' \subseteq Had
    BY ReadsOnce, CancelReadOnce
<1>2. QED
    BY <1>1 DEF Placed
=============================================================================
