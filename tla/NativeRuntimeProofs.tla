------------------------- MODULE NativeRuntimeProofs -------------------------
(***************************************************************************)
(* Theorems about one native worker, for any requests, calls and messages, *)
(* any channel size and any number of posts.                               *)
(***************************************************************************)
EXTENDS NativeRuntime, FiniteSetTheorems, FunctionTheorems,
    WellFoundedInduction, TLAPS

USE DEF CallTypes

-----------------------------------------------------------------------------
(***************************************************************************)
(* Counting the messages of a channel.                                     *)
(***************************************************************************)
LEMMA CountType ==
    ASSUME NEW M, NEW s \in Seq(M), NEW S
    PROVE  /\ IsFiniteSet({i \in DOMAIN s : s[i] \in S})
           /\ Count(s, S) \in Nat
<1>1. DOMAIN s = 1..Len(s) /\ Len(s) \in Nat
    OBVIOUS
<1>2. IsFiniteSet(DOMAIN s)
    BY <1>1, FS_Interval
<1>3. IsFiniteSet({i \in DOMAIN s : s[i] \in S})
    BY <1>2, FS_Subset
<1>4. QED
    BY <1>3, FS_CardinalityType DEF Count

LEMMA CountZero ==
    ASSUME NEW M, NEW s \in Seq(M), NEW S
    PROVE  Count(s, S) = 0 <=> \A i \in 1..Len(s) : s[i] \notin S
<1>1. DOMAIN s = 1..Len(s)
    OBVIOUS
<1> DEFINE A == {i \in DOMAIN s : s[i] \in S}
<1>2. IsFiniteSet(A) /\ Count(s, S) = Cardinality(A)
    BY CountType DEF Count
<1>3. A = {} <=> \A i \in 1..Len(s) : s[i] \notin S
    BY <1>1
<1> HIDE DEF A
<1>4. Cardinality(A) = 0 <=> A = {}
    BY <1>2, FS_EmptySet
<1>5. QED
    BY <1>2, <1>3, <1>4

LEMMA CountNone == \A S : Count(<<>>, S) = 0
<1> DEFINE none == <<>>
<1>1. DOMAIN none = {}
    OBVIOUS
<1> HIDE DEF none
<1>2. \A S : {i \in DOMAIN none : none[i] \in S} = {}
    BY <1>1
<1>3. \A S : Count(none, S) = 0
    BY <1>2, FS_EmptySet DEF Count
<1>4. QED
    BY <1>3 DEF none

LEMMA CountOne ==
    ASSUME NEW e, NEW S
    PROVE  Count(<<e>>, S) = IF e \in S THEN 1 ELSE 0
<1>1. DOMAIN <<e>> = {1} /\ <<e>>[1] = e
    OBVIOUS
<1>2. CASE e \in S
  <2>1. {i \in DOMAIN <<e>> : <<e>>[i] \in S} = {1}
      BY <1>1, <1>2
  <2>2. QED
      BY <1>2, <2>1, FS_Singleton DEF Count
<1>3. CASE e \notin S
  <2>1. {i \in DOMAIN <<e>> : <<e>>[i] \in S} = {}
      BY <1>1, <1>3
  <2>2. QED
      BY <1>3, <2>1, FS_EmptySet DEF Count
<1>4. QED
    BY <1>2, <1>3

LEMMA CountConcat ==
    ASSUME NEW M, NEW s \in Seq(M), NEW u \in Seq(M), NEW S
    PROVE  Count(s \o u, S) = Count(s, S) + Count(u, S)
<1> DEFINE t == s \o u
           l == Len(s)
           n == Len(u)
           A == {i \in DOMAIN s : s[i] \in S}
           B == {i \in DOMAIN u : u[i] \in S}
           C == {i \in DOMAIN t : t[i] \in S}
           D == {i \in (l + 1)..(l + n) : t[i] \in S}
<1>1. /\ DOMAIN t = 1..(l + n) /\ DOMAIN s = 1..l /\ DOMAIN u = 1..n
      /\ l \in Nat /\ n \in Nat
      /\ \A i \in 1..l : t[i] = s[i]
      /\ \A i \in 1..n : t[l + i] = u[i]
    OBVIOUS
<1>2. IsFiniteSet(A) /\ IsFiniteSet(B)
    BY CountType
<1> HIDE DEF t, l, n
<1>3. C = A \cup D /\ A \cap D = {}
  <2>1. \A i \in 1..(l + n) : i \in 1..l \/ i \in (l + 1)..(l + n)
      BY <1>1
  <2>2. \A i \in 1..l : i \in 1..(l + n) /\ i \notin (l + 1)..(l + n)
      BY <1>1
  <2>3. \A i \in (l + 1)..(l + n) : i \in 1..(l + n)
      BY <1>1
  <2>4. QED
      BY <1>1, <2>1, <2>2, <2>3
<1>4. IsFiniteSet(D) /\ Cardinality(D) = Cardinality(B)
  <2> DEFINE f == [i \in B |-> l + i]
  <2>1. f \in [B -> D]
      BY <1>1
  <2>2. \A i, j \in B : f[i] = f[j] => i = j
      BY <1>1
  <2>3. \A d \in D : \E i \in B : f[i] = d
    <3>1. ASSUME NEW d \in D PROVE d - l \in B /\ f[d - l] = d
      <4>1. d - l \in 1..n /\ l + (d - l) = d
          BY <1>1
      <4>2. QED
          BY <1>1, <4>1
    <3>2. QED
        BY <3>1
  <2> HIDE DEF f, B, D
  <2>4. f \in Bijection(B, D)
      BY <2>1, <2>2, <2>3, Fun_IsBij
  <2>5. ExistsBijection(B, D)
      BY <2>4 DEF ExistsBijection
  <2>6. QED
      BY <1>2, <2>5, FS_Bijection
<1> HIDE DEF A, B, C, D
<1>5. Cardinality(C) = Cardinality(A) + Cardinality(D) - Cardinality(A \cap D)
    BY <1>2, <1>3, <1>4, FS_Union
<1>6. Cardinality(A) \in Nat /\ Cardinality(B) \in Nat /\ Cardinality(A \cap D) = 0
    BY <1>2, <1>3, FS_CardinalityType, FS_EmptySet
<1>7. Cardinality(C) = Cardinality(A) + Cardinality(B)
    BY <1>4, <1>5, <1>6
<1>8. QED
    BY <1>7 DEF Count, A, B, C, t

LEMMA CountAppend ==
    ASSUME NEW M, NEW s \in Seq(M), NEW e \in M, NEW S
    PROVE  Count(Append(s, e), S) = Count(s, S) + (IF e \in S THEN 1 ELSE 0)
<1>1. Append(s, e) = s \o <<e>>
    OBVIOUS
<1>2. <<e>> \in Seq(M)
    OBVIOUS
<1>3. Count(s \o <<e>>, S) = Count(s, S) + Count(<<e>>, S)
    BY <1>2, CountConcat
<1>4. QED
    BY <1>1, <1>3, CountOne

LEMMA CountTail ==
    ASSUME NEW M, NEW s \in Seq(M), s # <<>>, NEW S
    PROVE  /\ Tail(s) \in Seq(M) /\ Head(s) \in M
           /\ Count(s, S) = Count(Tail(s), S) + (IF Head(s) \in S THEN 1 ELSE 0)
<1>1. s = <<Head(s)>> \o Tail(s) /\ Tail(s) \in Seq(M) /\ Head(s) \in M
  <2>1. /\ Len(s) \in Nat \ {0} /\ Tail(s) \in Seq(M) /\ Len(Tail(s)) = Len(s) - 1
        /\ Head(s) = s[1] /\ Head(s) \in M
        /\ \A i \in 1..(Len(s) - 1) : Tail(s)[i] = s[i + 1]
      OBVIOUS
  <2> DEFINE h == Head(s)
             t == Tail(s)
             u == <<h>> \o t
  <2> HIDE DEF h, t
  <2>2. <<h>> \in Seq(M) /\ t \in Seq(M) /\ Len(t) = Len(s) - 1
      BY <2>1 DEF h, t
  <2>3. /\ u \in Seq(M) /\ Len(u) = 1 + Len(t) /\ u[1] = h
        /\ \A i \in 1..Len(t) : u[1 + i] = t[i]
      BY <2>2
  <2> HIDE DEF u
  <2>4. ASSUME NEW i \in 1..Len(s) PROVE u[i] = s[i]
    <3>1. CASE i = 1
        BY <2>1, <2>3, <3>1 DEF h
    <3>2. CASE i # 1
      <4>1. i - 1 \in 1..Len(t) /\ 1 + (i - 1) = i /\ (i - 1) + 1 = i
          BY <2>1, <2>2, <3>2
      <4>2. u[i] = t[i - 1] /\ t[i - 1] = s[i]
          BY <2>1, <2>2, <2>3, <4>1 DEF t
      <4>3. QED
          BY <4>2
    <3>3. QED
        BY <3>1, <3>2
  <2>5. Len(u) = Len(s)
      BY <2>1, <2>2, <2>3
  <2>6. u = s
      BY <2>3, <2>4, <2>5
  <2>7. QED
      BY <2>1, <2>6 DEF u, h, t
<1>2. <<Head(s)>> \in Seq(M)
    BY <1>1
<1>3. Count(s, S) = Count(<<Head(s)>>, S) + Count(Tail(s), S)
  <2> DEFINE h == <<Head(s)>>
             t == Tail(s)
  <2>1. s = h \o t /\ h \in Seq(M) /\ t \in Seq(M)
      BY <1>1, <1>2
  <2> HIDE DEF h, t
  <2>2. Count(h \o t, S) = Count(h, S) + Count(t, S)
      BY <2>1, CountConcat, Zenon
  <2>3. Count(s, S) = Count(h, S) + Count(t, S)
      BY <2>1, <2>2, Zenon
  <2>4. QED
      BY <2>3 DEF h, t
<1>4. Count(Tail(s), S) \in Nat
    BY <1>1, CountType
<1>5. QED
    BY <1>1, <1>3, <1>4, CountOne

LEMMA CountUnion ==
    ASSUME NEW M, NEW s \in Seq(M), NEW S, NEW T, S \cap T = {}
    PROVE  Count(s, S \cup T) = Count(s, S) + Count(s, T)
<1> DEFINE A == {i \in DOMAIN s : s[i] \in S}
           B == {i \in DOMAIN s : s[i] \in T}
           C == {i \in DOMAIN s : s[i] \in S \cup T}
<1>1. IsFiniteSet(A) /\ IsFiniteSet(B)
    BY CountType
<1>2. C = A \cup B /\ A \cap B = {}
    OBVIOUS
<1> HIDE DEF A, B, C
<1>3. Cardinality(C) = Cardinality(A) + Cardinality(B) - Cardinality(A \cap B)
    BY <1>1, <1>2, FS_Union
<1>4. Cardinality(A) \in Nat /\ Cardinality(B) \in Nat /\ Cardinality(A \cap B) = 0
    BY <1>1, <1>2, FS_CardinalityType, FS_EmptySet
<1>5. Cardinality(C) = Cardinality(A) + Cardinality(B)
    BY <1>3, <1>4
<1>6. QED
    BY <1>5 DEF Count, A, B, C

LEMMA NatSetInduction ==
    ASSUME NEW S \in SUBSET Nat, 0 \in S, \A n \in S : n + 1 \in S
    PROVE  S = Nat
<1>1. SUFFICES ASSUME Nat \ S # {} PROVE FALSE
    OBVIOUS
<1>2. PICK x \in Nat \ S : \A y \in Nat \ S : ~(<<y, x>> \in OpToRel(<, Nat))
    BY <1>1, NatLessThanWellFounded, WFMin
<1>3. x \in Nat /\ x # 0 /\ x - 1 \in Nat
    OBVIOUS
<1>4. <<x - 1, x>> \in OpToRel(<, Nat)
    BY <1>3 DEF OpToRel
<1>5. x - 1 \in S
    BY <1>2, <1>3, <1>4
<1>6. x - 1 + 1 \in S
    BY <1>5
<1>7. QED
    BY <1>3, <1>6

\* A set of numbers that reaches 0, and n + 1 from n as far as l, has them all.
LEMMA UpToInduction ==
    ASSUME NEW l \in Nat, NEW S, 0 \in S, \A n \in 0..l : n \in S /\ n + 1 <= l => n + 1 \in S
    PROVE  0..l \subseteq S
<1> DEFINE T == {n \in Nat : n <= l => n \in S}
<1>1. T \in SUBSET Nat /\ 0 \in T
    OBVIOUS
<1>2. ASSUME NEW n \in T PROVE n + 1 \in T
    OBVIOUS
<1> HIDE DEF T
<1>3. T = Nat
    BY <1>1, <1>2, NatSetInduction
<1>4. QED
    BY <1>3 DEF T

(***************************************************************************)
(* What Rejections makes of a channel: one rejection for each message of   *)
(* the given types.                                                        *)
(***************************************************************************)
Rejects == [t : {"reject"}, id : Requests]

\* f[n] is what Rejections makes of the first n messages.
Rejecting(f, ch, type, n) ==
    /\ f \in [0..n -> Seq(Rejects)]
    /\ f[0] = <<>>
    /\ \A i \in 1..n : f[i] = IF ch[i].t \in type THEN Append(f[i - 1], Msg("reject", ch[i].id))
                                                 ELSE f[i - 1]

LEMMA RejectingExists ==
    ASSUME NEW M, NEW ch \in Seq(M), NEW type, \A m \in M : m.t \in type => m.id \in Requests
    PROVE  \E f : Rejecting(f, ch, type, Len(ch))
<1> DEFINE l == Len(ch)
           T == {n \in 0..l : \E f : Rejecting(f, ch, type, n)}
<1>0. l \in Nat
    OBVIOUS
<1>1. 0 \in T
  <2>1. Rejecting([i \in 0..0 |-> <<>>], ch, type, 0)
      BY DEF Rejecting
  <2>2. QED
      BY <1>0, <2>1
<1>2. ASSUME NEW n \in 0..l, n \in T, n + 1 <= l PROVE n + 1 \in T
  <2>1. PICK f : Rejecting(f, ch, type, n)
      BY <1>2
  <2>2. ch[n + 1] \in M /\ n \in Nat
      BY <1>2
  <2> DEFINE next == IF ch[n + 1].t \in type THEN Append(f[n], Msg("reject", ch[n + 1].id)) ELSE f[n]
             g == [i \in 0..n + 1 |-> IF i <= n THEN f[i] ELSE next]
  <2>3. next \in Seq(Rejects)
    <3>1. f[n] \in Seq(Rejects)
        BY <2>1, <2>2 DEF Rejecting
    <3>2. CASE ch[n + 1].t \in type
      <4>1. Msg("reject", ch[n + 1].id) \in Rejects
          BY <2>2, <3>2 DEF Msg, Rejects
      <4>2. QED
          BY <3>1, <3>2, <4>1
    <3>3. QED
        BY <3>1, <3>2
  <2> HIDE DEF next
  <2>4. g \in [0..n + 1 -> Seq(Rejects)] /\ g[0] = <<>>
      BY <2>1, <2>2, <2>3 DEF Rejecting
  <2>5. ASSUME NEW i \in 1..n + 1
        PROVE  g[i] = IF ch[i].t \in type THEN Append(g[i - 1], Msg("reject", ch[i].id))
                                         ELSE g[i - 1]
    <3>1. CASE i <= n
      <4>1. i \in 1..n /\ g[i] = f[i] /\ g[i - 1] = f[i - 1]
          BY <2>2, <3>1
      <4>2. QED
          BY <2>1, <4>1 DEF Rejecting
    <3>2. CASE i = n + 1
        BY <2>2, <3>2 DEF next
    <3>3. QED
        BY <2>2, <3>1, <3>2
  <2>6. Rejecting(g, ch, type, n + 1)
      BY <2>4, <2>5 DEF Rejecting
  <2>7. n + 1 \in 0..l
      BY <1>0, <1>2
  <2>8. QED
      BY <2>6, <2>7
<1> HIDE DEF T
<1>3. 0..l \subseteq T
    BY <1>0, <1>1, <1>2, UpToInduction
<1>4. l \in T
    BY <1>0, <1>3
<1>5. QED
    BY <1>4 DEF T, l

LEMMA RejectionsAre ==
    ASSUME NEW M, NEW ch \in Seq(M), NEW type, NEW f, Rejecting(f, ch, type, Len(ch))
    PROVE  Rejections(ch, type) = f[Len(ch)]
<1> DEFINE l == Len(ch)
           Body(g) == [n \in 0..Len(ch) |->
                          IF n = 0 THEN <<>>
                          ELSE IF ch[n].t \in type THEN Append(g[n - 1], Msg("reject", ch[n].id))
                                                   ELSE g[n - 1]]
           upTo == CHOOSE g : g = Body(g)
<1>0. l \in Nat
    OBVIOUS
<1>1. Rejections(ch, type) = upTo[Len(ch)]
    BY DEF Rejections
<1>2. f = Body(f)
  <2>1. f \in [0..Len(ch) -> Seq(Rejects)]
      BY DEF Rejecting
  <2>2. ASSUME NEW n \in 0..Len(ch) PROVE f[n] = Body(f)[n]
    <3>1. CASE n = 0
        BY <3>1 DEF Rejecting
    <3>2. CASE n # 0
      <4>1. n \in 1..Len(ch)
          BY <3>2
      <4>2. QED
          BY <4>1 DEF Rejecting
    <3>3. QED
        BY <3>1, <3>2
  <2> DEFINE g == Body(f)
             D == 0..Len(ch)
  <2>3. f = [n \in D |-> f[n]] /\ g = [n \in D |-> g[n]]
      BY <2>1
  <2>4. \A n \in D : f[n] = g[n]
      BY <2>2
  <2> HIDE DEF Body, g, D
  <2>5. f = g
      BY <2>3, <2>4
  <2>6. QED
      BY <2>5 DEF g
<1>3. upTo = Body(upTo)
    BY <1>2
<1>4. ASSUME NEW n \in 0..Len(ch)
      PROVE  upTo[n] = IF n = 0 THEN <<>>
                       ELSE IF ch[n].t \in type THEN Append(upTo[n - 1], Msg("reject", ch[n].id))
                                                ELSE upTo[n - 1]
    BY <1>3
<1> HIDE DEF upTo, Body
<1> DEFINE T == {n \in 0..l : upTo[n] = f[n]}
<1>5. 0 \in T
    BY <1>0, <1>4 DEF Rejecting
<1>6. ASSUME NEW n \in 0..l, n \in T, n + 1 <= l PROVE n + 1 \in T
  <2>1. n \in Nat /\ n + 1 \in 1..l /\ upTo[n] = f[n] /\ (n + 1) - 1 = n /\ n + 1 # 0 /\ n + 1 \in 0..l
      BY <1>0, <1>6
  <2>2. f[n + 1] = IF ch[n + 1].t \in type THEN Append(f[(n + 1) - 1], Msg("reject", ch[n + 1].id))
                                          ELSE f[(n + 1) - 1]
      BY <2>1 DEF Rejecting
  <2>3. upTo[n + 1] = IF ch[n + 1].t \in type THEN Append(upTo[(n + 1) - 1], Msg("reject", ch[n + 1].id))
                                             ELSE upTo[(n + 1) - 1]
      BY <1>4, <2>1
  <2>4. QED
      BY <2>1, <2>2, <2>3
<1> HIDE DEF T
<1>7. 0..l \subseteq T
    BY <1>0, <1>5, <1>6, UpToInduction
<1>8. l \in T
    BY <1>0, <1>7
<1>9. QED
    BY <1>1, <1>8 DEF T, l

LEMMA FirstMessages ==
    ASSUME NEW S, NEW s \in Seq(S), NEW n \in Nat, n + 1 <= Len(s)
    PROVE  /\ SubSeq(s, 1, n) \in Seq(S)
           /\ SubSeq(s, 1, n + 1) = Append(SubSeq(s, 1, n), s[n + 1])
           /\ s[n + 1] \in S
<1>1. s[n + 1] \in S
    OBVIOUS
<1>2. /\ SubSeq(s, 1, n) \in Seq(S) /\ Len(SubSeq(s, 1, n)) = n
      /\ \A i \in 1..n : SubSeq(s, 1, n)[i] = s[i]
    OBVIOUS
<1>3. /\ SubSeq(s, 1, n + 1) \in Seq(S) /\ Len(SubSeq(s, 1, n + 1)) = n + 1
      /\ \A i \in 1..(n + 1) : SubSeq(s, 1, n + 1)[i] = s[i]
    OBVIOUS
<1> DEFINE a == SubSeq(s, 1, n)
           b == SubSeq(s, 1, n + 1)
<1> HIDE DEF a, b
<1>4. /\ Append(a, s[n + 1]) \in Seq(S) /\ Len(Append(a, s[n + 1])) = n + 1
      /\ \A i \in 1..n : Append(a, s[n + 1])[i] = a[i]
      /\ Append(a, s[n + 1])[n + 1] = s[n + 1]
    BY <1>1, <1>2 DEF a
<1>5. b = Append(a, s[n + 1])
  <2>1. \A i \in 1..(n + 1) : b[i] = Append(a, s[n + 1])[i]
    <3>1. \A i \in 1..(n + 1) : i \in 1..n \/ i = n + 1
        OBVIOUS
    <3>2. QED
        BY <1>2, <1>3, <1>4, <3>1 DEF a, b
  <2>2. QED
      BY <1>3, <1>4, <2>1 DEF b
<1>6. QED
    BY <1>1, <1>2, <1>5 DEF a, b

LEMMA RejectionsCount ==
    ASSUME NEW M, NEW ch \in Seq(M), NEW type, \A m \in M : m.t \in type => m.id \in Requests
    PROVE  /\ Rejections(ch, type) \in Seq(Rejects)
           /\ \A r : Count(Rejections(ch, type), {Msg("resolve", r), Msg("reject", r)})
                        = Count(ch, {m \in M : m.t \in type /\ m.id = r})
<1> DEFINE l == Len(ch)
           For(r) == {Msg("resolve", r), Msg("reject", r)}
           Of(r) == {m \in M : m.t \in type /\ m.id = r}
           Same(q, c) == \A r : Count(q, For(r)) = Count(c, Of(r))
<1>0. l \in Nat
    OBVIOUS
<1>1. PICK f : Rejecting(f, ch, type, l)
    BY RejectingExists
<1> DEFINE T == {n \in 0..l : Same(f[n], SubSeq(ch, 1, n))}
<1>2. 0 \in T
  <2>1. f[0] = <<>> /\ SubSeq(ch, 1, 0) = <<>>
      BY <1>1 DEF Rejecting
  <2> HIDE DEF For, Of
  <2>2. Same(f[0], SubSeq(ch, 1, 0))
      BY <2>1, CountNone
  <2>3. QED
      BY <1>0, <2>2
<1>3. ASSUME NEW n \in 0..l, n \in T, n + 1 <= l PROVE n + 1 \in T
  <2> DEFINE q == f[n]
             c == SubSeq(ch, 1, n)
             e == ch[n + 1]
             q1 == f[n + 1]
             c1 == SubSeq(ch, 1, n + 1)
  <2>1. n \in Nat /\ n + 1 \in 0..l /\ n + 1 \in 1..l /\ (n + 1) - 1 = n
      BY <1>0, <1>3
  <2>2. c \in Seq(M) /\ c1 = Append(c, e) /\ e \in M
      BY <1>3, <2>1, FirstMessages
  <2>3. q \in Seq(Rejects) /\ q1 = IF e.t \in type THEN Append(q, Msg("reject", e.id)) ELSE q
      BY <1>1, <2>1 DEF Rejecting
  <2>4. Same(q, c)
      BY <1>3
  <2>5. \A r : e \in Of(r) <=> e.t \in type /\ e.id = r
      BY <2>2
  <2>6. \A r, x : Msg("reject", x) \in For(r) <=> x = r
      BY DEF Msg
  <2> HIDE DEF q, c, e, q1, c1, For, Of
  <2>7. ASSUME NEW r PROVE Count(q1, For(r)) = Count(c1, Of(r))
    <3>1. Count(c1, Of(r)) = Count(c, Of(r)) + (IF e \in Of(r) THEN 1 ELSE 0)
        BY <2>2, CountAppend
    <3>2. Count(c, Of(r)) \in Nat
        BY <2>2, CountType
    <3>3. CASE e.t \in type
      <4>1. Msg("reject", e.id) \in Rejects
          BY <2>2, <3>3 DEF Msg, Rejects
      <4>2. Count(q1, For(r)) = Count(q, For(r)) + (IF Msg("reject", e.id) \in For(r) THEN 1 ELSE 0)
          BY <2>3, <3>3, <4>1, CountAppend
      <4>3. QED
          BY <2>4, <2>5, <2>6, <3>1, <3>3, <4>2
    <3>4. CASE e.t \notin type
        BY <2>3, <2>4, <2>5, <3>1, <3>2, <3>4
    <3>5. QED
        BY <3>3, <3>4
  <2>8. QED
      BY <2>1, <2>7 DEF q1, c1
<1> HIDE DEF T, Same
<1>4. 0..l \subseteq T
    BY <1>0, <1>2, <1>3, UpToInduction
<1>5. Same(f[l], SubSeq(ch, 1, l))
    BY <1>0, <1>4 DEF T
<1>6. SubSeq(ch, 1, l) = ch
    OBVIOUS
<1>7. Rejections(ch, type) = f[l]
    BY <1>1, RejectionsAre
<1>8. f[l] \in Seq(Rejects)
  <2>1. f \in [0..l -> Seq(Rejects)] /\ l \in 0..l
      BY <1>0, <1>1 DEF Rejecting
  <2> HIDE DEF l
  <2>2. QED
      BY <2>1
<1>9. QED
    BY <1>5, <1>6, <1>7, <1>8 DEF Same

-----------------------------------------------------------------------------
LEMMA MsgTypes ==
    /\ \A r \in Requests : /\ Msg("resolve", r) \in NodeMsgs /\ Msg("resolve", r) \in Tasks
                           /\ Msg("reject", r) \in Tasks
                           /\ \A op \in Awaited \cup {"evalSync"} : Msg(op, r) \in ControlMsgs
                           /\ Msg("evalSync", r) \in [t : {"evalSync"}, id : Requests]
    /\ \A c \in Calls : /\ Msg("sync", c) \in DispatchMsgs
                        /\ \A k \in CallTypes : Msg(k, c) \in NodeMsgs
    /\ \A e \in Emits : Msg("message", e) \in DispatchMsgs
    /\ Msg("emitClose", 0) \in NodeMsgs
    /\ NodeMsgs \subseteq Tasks /\ DispatchMsgs \subseteq NodeMsgs
    /\ Nothing.id = 0 /\ Nothing.t = "none"
    /\ Awaited = {"eval", "memory", "gc", "close"}
BY DEF Msg, NodeMsgs, Tasks, ControlMsgs, DispatchMsgs, EmitMsgs, CallMsgs, Nothing, Awaited

\* What the type of a message says of its name.
LEMMA MsgIds ==
    /\ \A m \in ControlMsgs : m.id \in Requests /\ m.t \in Awaited \cup {"evalSync"} /\ m = Msg(m.t, m.id)
    /\ \A m \in Tasks : /\ m.t \in {"reject", "resolve"} => m.id \in Requests /\ m = Msg(m.t, m.id)
                        /\ m.t \in CallTypes => m.id \in Calls
                        /\ m.t = "message" => m.id \in Emits /\ m = Msg("message", m.id)
                        /\ m.t \in {"reject", "resolve", "sync", "async", "import", "retry", "message", "emitClose"}
    /\ \A m \in NodeMsgs : m.t # "reject"
    /\ \A m \in DispatchMsgs : /\ m.t = "sync" => m.id \in Calls
                               /\ m.t # "sync" => m.t = "message" /\ m.id \in Emits
                               /\ m = Msg(m.t, m.id)
BY DEF Msg, NodeMsgs, Tasks, ControlMsgs, DispatchMsgs, EmitMsgs, CallMsgs

LEMMA WorkerFacts ==
    ASSUME NEW w \in WorkerStates
    PROVE  /\ w.pc \in {"boot", "startup", "idle", "closing", "stopping", "join", "gone",
                        "drain", "handle", "eval", "reply", "sending"}
           /\ w.left \in Nat /\ w.waits \in BOOLEAN
           /\ w.pc \in {"drain", "handle", "eval", "reply", "sending"} => w.msg \in ControlMsgs
           /\ w.pc \notin {"drain", "handle", "eval", "reply", "sending"} => w.msg = Nothing /\ w.left = 0
           /\ w = [pc |-> w.pc, msg |-> w.msg, left |-> w.left, waits |-> w.waits]
BY DEF WorkerStates

LEMMA NodeFacts ==
    ASSUME NEW n \in NodeStates
    PROVE  /\ n.st \in {"free", "queueing", "awaiting"}
           /\ n.st = "free" => n = Free
           /\ n.st = "queueing" => n.msg \in ControlMsgs \cup {Msg("post", 0)}
           /\ n.st = "awaiting" => n.msg \in ControlMsgs /\ n.msg.t = "evalSync"
           /\ n = [st |-> n.st, msg |-> n.msg]
BY DEF NodeStates, Free, ControlMsgs, Nothing, Msg

-----------------------------------------------------------------------------
(***************************************************************************)
(* Types, variable by variable.                                            *)
(***************************************************************************)
FlagsOK == /\ registered \in BOOLEAN /\ closed \in BOOLEAN /\ evalSyncActive \in BOOLEAN
           /\ pump \in {"off", "check", "recv", "drain", "done"} /\ stop \in BOOLEAN
ControlOK    == control \in Seq(ControlMsgs) /\ Len(control) <= ChannelSize
DataOK       == data \in Seq(Nat) /\ Len(data) <= ChannelSize
NodeChOK     == nodeCh \in Seq(NodeMsgs) /\ Len(nodeCh) <= ChannelSize
JsOK         == js \in Seq(Tasks)
DispatcherOK == dispatcher \in Seq(DispatchMsgs)
NodeOK       == node \in NodeStates
WorkerOK     == worker \in WorkerStates
PromiseOK    == /\ promise \in [Requests -> {"none", "pending", "fulfilled", "rejected"}]
                /\ syncReply \in {"none", "sent", "dropped"}
CallOK       == call \in [Calls -> [kind : {"none"} \cup CallTypes,
                                    st : {"none", "refused", "made", "handing", "sending",
                                          "sent", "running", "answered", "failed"}]]
EmitOK       == emit \in [Emits -> [st : {"none", "handing", "sent", "failed"},
                                    by : ControlMsgs \cup {Nothing}]]
CountersOK   == posted \in Nat /\ delivered \in Nat /\ before \in [Requests -> Nat]
HistoryOK    == invoked \in [Calls -> Nat] /\ seen \subseteq Emits /\ earlier \subseteq Calls

LEMMA TypeParts ==
    NativeRuntimeTypeOK <=>
        /\ FlagsOK /\ ControlOK /\ DataOK /\ NodeChOK /\ JsOK /\ DispatcherOK /\ NodeOK
        /\ WorkerOK /\ PromiseOK /\ CallOK /\ EmitOK /\ CountersOK /\ HistoryOK
BY DEF NativeRuntimeTypeOK, FlagsOK, ControlOK, DataOK, NodeChOK, JsOK, DispatcherOK, NodeOK,
       WorkerOK, PromiseOK, CallOK, EmitOK, CountersOK, HistoryOK

LEMMA RoomForOne ==
    ASSUME NEW S, NEW ch \in Seq(S), NEW m \in S, Len(ch) < ChannelSize
    PROVE  Append(ch, m) \in Seq(S) /\ Len(Append(ch, m)) <= ChannelSize
BY SizesAreNatural

LEMMA Nought == \A S : <<>> \in Seq(S) /\ Len(<<>>) = 0 /\ Len(<<>>) <= ChannelSize
BY SizesAreNatural

LEMMA OneLess ==
    ASSUME NEW S, NEW ch \in Seq(S), ch # <<>>
    PROVE  /\ Tail(ch) \in Seq(S) /\ Head(ch) \in S /\ Len(Tail(ch)) = Len(ch) - 1
           /\ Len(ch) \in Nat \ {0}
OBVIOUS

LEMMA Awaited4 == ControlMsgs = [t : {"eval", "memory", "gc", "close", "evalSync"}, id : Requests]
BY DEF ControlMsgs, Awaited

\* What the type says of the worker thread and of the Node thread.
LEMMA ThreadFacts ==
    ASSUME NativeRuntimeTypeOK
    PROVE  /\ worker.pc \in {"boot", "startup", "idle", "closing", "stopping", "join", "gone",
                             "drain", "handle", "eval", "reply", "sending"}
           /\ worker.left \in Nat /\ worker.waits \in BOOLEAN
           /\ worker.pc \in {"drain", "handle", "eval", "reply", "sending"} => worker.msg \in ControlMsgs
           /\ worker.pc \notin {"drain", "handle", "eval", "reply", "sending"} =>
                 worker.msg = Nothing /\ worker.left = 0
           /\ worker = [pc |-> worker.pc, msg |-> worker.msg, left |-> worker.left, waits |-> worker.waits]
           /\ node.st \in {"free", "queueing", "awaiting"}
           /\ node.st = "free" => node = Free
           /\ node.st = "queueing" => node.msg \in ControlMsgs \cup {Msg("post", 0)}
           /\ node.st = "awaiting" => node.msg \in ControlMsgs /\ node.msg.t = "evalSync"
           /\ node = [st |-> node.st, msg |-> node.msg]
<1>1. worker \in WorkerStates /\ node \in NodeStates
    BY DEF NativeRuntimeTypeOK
<1>2. QED
    BY <1>1, WorkerFacts, NodeFacts

\* Records that are states of the worker thread and of the Node thread.
LEMMA StatesMade ==
    /\ \A pc \in {"boot", "startup", "idle", "closing", "stopping", "join", "gone"}, w \in BOOLEAN :
          [pc |-> pc, msg |-> Nothing, left |-> 0, waits |-> w] \in WorkerStates
    /\ \A pc \in {"drain", "handle", "eval", "reply", "sending"}, w \in BOOLEAN :
          \A m \in ControlMsgs, n \in Nat :
              [pc |-> pc, msg |-> m, left |-> n, waits |-> w] \in WorkerStates
    /\ Free \in NodeStates
    /\ \A m \in ControlMsgs \cup {Msg("post", 0)} : [st |-> "queueing", msg |-> m] \in NodeStates
    /\ \A m \in ControlMsgs : m.t = "evalSync" => [st |-> "awaiting", msg |-> m] \in NodeStates
BY DEF WorkerStates, NodeStates, ControlMsgs

-----------------------------------------------------------------------------
(***************************************************************************)
(* Which steps change which variables.                                     *)
(***************************************************************************)
LEMMA ControlSteps ==
    Next =>
      \/ UNCHANGED control
      \/ \E op \in Awaited, r \in Requests : QueueDenoMsgOrReject(op, r)
      \/ \E r \in Requests : EvalSync(r)
      \/ ControlUnblocks \/ Boot \/ StartupFails \/ TakeControl \/ Join
BY Zenon
DEF Next, Application, NodeThread, WorkerThread, WorkerCode, Pump, Eval, Memory, Gc, Close,
    Awaited, EvalSyncReturns, PostMessage, PostUnblocks, PostStreamFrame, ForceDispose,
    StartupDone, Drain, DrainEnds, TakeData, Disconnect, HandleEval, HandleMemory, HandleGc,
    HandleClose, EmitClose, EvalEnds, Reply, SendNodeMsgOrReject, Stop, HostCall, AsyncSent,
    OpStarts, CallTimesOut, PostToNode, PostToNodeTimesOut, Dispatch, PumpChecks, PumpReceives,
    PumpDrains, RunTask, HostSettles

LEMMA DataSteps ==
    Next =>
      \/ UNCHANGED data
      \/ PostMessage \/ PostUnblocks \/ PostStreamFrame \/ Boot \/ StartupFails \/ Drain
      \/ TakeData \/ Join
BY Zenon
DEF Next, Application, NodeThread, WorkerThread, WorkerCode, Pump, Eval, Memory, Gc, Close,
    Awaited, QueueDenoMsgOrReject, EvalSync, ControlUnblocks, EvalSyncReturns, ForceDispose,
    StartupDone, TakeControl, DrainEnds, Disconnect, HandleEval, HandleMemory, HandleGc,
    HandleClose, EmitClose, EvalEnds, Reply, SendNodeMsgOrReject, Stop, HostCall, AsyncSent,
    OpStarts, CallTimesOut, PostToNode, PostToNodeTimesOut, Dispatch, PumpChecks, PumpReceives,
    PumpDrains, RunTask, HostSettles

LEMMA NodeChSteps ==
    Next =>
      \/ UNCHANGED nodeCh
      \/ \E c \in Calls : AsyncSent(c)
      \/ Boot \/ StartupFails \/ EmitClose \/ SendNodeMsgOrReject \/ Join \/ Dispatch
      \/ PumpReceives \/ PumpDrains
BY Zenon
DEF Next, Application, NodeThread, WorkerThread, WorkerCode, Pump, Eval, Memory, Gc, Close,
    Awaited, QueueDenoMsgOrReject, EvalSync, ControlUnblocks, EvalSyncReturns, PostMessage,
    PostUnblocks, PostStreamFrame, ForceDispose, StartupDone, TakeControl, Drain, DrainEnds,
    TakeData, Disconnect, HandleEval, HandleMemory, HandleGc, HandleClose, EvalEnds, Reply,
    Stop, HostCall, OpStarts, CallTimesOut, PostToNode, PostToNodeTimesOut, PumpChecks, RunTask,
    HostSettles

LEMMA JsSteps ==
    Next =>
      \/ UNCHANGED js
      \/ \E op \in Awaited, r \in Requests : QueueDenoMsgOrReject(op, r)
      \/ ControlUnblocks \/ Boot \/ StartupFails \/ HandleGc \/ HandleClose \/ EmitClose
      \/ Reply \/ Join \/ PumpReceives \/ PumpDrains \/ RunTask
BY Zenon
DEF Next, Application, NodeThread, WorkerThread, WorkerCode, Pump, Eval, Memory, Gc, Close,
    Awaited, EvalSync, EvalSyncReturns, PostMessage, PostUnblocks, PostStreamFrame,
    ForceDispose, StartupDone, TakeControl, Drain, DrainEnds, TakeData, Disconnect, HandleEval,
    HandleMemory, EvalEnds, SendNodeMsgOrReject, Stop, HostCall, AsyncSent, OpStarts, CallTimesOut,
    PostToNode, PostToNodeTimesOut, Dispatch, PumpChecks, HostSettles

LEMMA DispatcherSteps ==
    Next =>
      \/ UNCHANGED dispatcher
      \/ \E c \in Calls, kind \in CallKinds : HostCall(c, kind)
      \/ \E e \in Emits : PostToNode(e)
      \/ Dispatch
BY Zenon
DEF Next, Application, NodeThread, WorkerThread, WorkerCode, Pump, Eval, Memory, Gc, Close,
    Awaited, QueueDenoMsgOrReject, EvalSync, ControlUnblocks, EvalSyncReturns, PostMessage,
    PostUnblocks, PostStreamFrame, ForceDispose, Boot, StartupDone, StartupFails, TakeControl,
    Drain, DrainEnds, TakeData, Disconnect, HandleEval, HandleMemory, HandleGc, HandleClose,
    EmitClose, EvalEnds, Reply, SendNodeMsgOrReject, Stop, Join, AsyncSent, OpStarts, CallTimesOut,
    PostToNodeTimesOut, PumpChecks, PumpReceives, PumpDrains, RunTask, HostSettles, workerCode

LEMMA NodeSteps ==
    Next =>
      \/ UNCHANGED node
      \/ \E op \in Awaited, r \in Requests : QueueDenoMsgOrReject(op, r)
      \/ \E r \in Requests : EvalSync(r)
      \/ ControlUnblocks \/ EvalSyncReturns \/ PostMessage \/ PostUnblocks
BY Zenon
DEF Next, Application, NodeThread, WorkerThread, WorkerCode, Pump, Eval, Memory, Gc, Close,
    Awaited, PostStreamFrame, ForceDispose, Boot, StartupDone, StartupFails, TakeControl, Drain,
    DrainEnds, TakeData, Disconnect, HandleEval, HandleMemory, HandleGc, HandleClose, EmitClose,
    EvalEnds, Reply, SendNodeMsgOrReject, Stop, Join, HostCall, AsyncSent, OpStarts, CallTimesOut,
    PostToNode, PostToNodeTimesOut, Dispatch, PumpChecks, PumpReceives, PumpDrains, RunTask,
    HostSettles, requestVars

LEMMA WorkerSteps ==
    Next =>
      \/ UNCHANGED worker
      \/ Boot \/ StartupDone \/ StartupFails \/ TakeControl \/ Drain \/ DrainEnds
      \/ Disconnect \/ HandleEval \/ HandleMemory \/ HandleGc \/ HandleClose \/ EmitClose
      \/ EvalEnds \/ Reply \/ SendNodeMsgOrReject \/ Stop \/ Join
BY Zenon
DEF Next, Application, NodeThread, WorkerThread, WorkerCode, Pump, Eval, Memory, Gc, Close,
    Awaited, QueueDenoMsgOrReject, EvalSync, ControlUnblocks, EvalSyncReturns, PostMessage,
    PostUnblocks, PostStreamFrame, ForceDispose, TakeData, HostCall, AsyncSent, OpStarts, CallTimesOut,
    PostToNode, PostToNodeTimesOut, Dispatch, PumpChecks, PumpReceives, PumpDrains, RunTask,
    HostSettles

LEMMA PromiseSteps ==
    Next =>
      \/ UNCHANGED <<promise, syncReply>>
      \/ \E op \in Awaited, r \in Requests : QueueDenoMsgOrReject(op, r)
      \/ \E r \in Requests : EvalSync(r)
      \/ ControlUnblocks \/ EvalSyncReturns \/ Boot \/ StartupFails \/ EvalEnds \/ Join
      \/ RunTask
BY Zenon
DEF Next, Application, NodeThread, WorkerThread, WorkerCode, Pump, Eval, Memory, Gc, Close,
    Awaited, PostMessage, PostUnblocks, PostStreamFrame, ForceDispose, StartupDone, TakeControl,
    Drain, DrainEnds, TakeData, Disconnect, HandleEval, HandleMemory, HandleGc, HandleClose,
    EmitClose, Reply, SendNodeMsgOrReject, Stop, HostCall, AsyncSent, OpStarts, CallTimesOut, PostToNode,
    PostToNodeTimesOut, Dispatch, PumpChecks, PumpReceives, PumpDrains, HostSettles, requestVars

LEMMA CallSteps ==
    Next =>
      \/ UNCHANGED call
      \/ \E c \in Calls, kind \in CallKinds : HostCall(c, kind)
      \/ \E c \in Calls : OpStarts(c)
      \/ \E c \in Calls : AsyncSent(c)
      \/ \E c \in Calls : CallTimesOut(c)
      \/ \E c \in Calls : HostSettles(c)
      \/ Dispatch \/ PumpReceives \/ PumpDrains \/ RunTask
BY Zenon
DEF Next, Application, NodeThread, WorkerThread, WorkerCode, Pump, Eval, Memory, Gc, Close,
    Awaited, QueueDenoMsgOrReject, EvalSync, ControlUnblocks, EvalSyncReturns, PostMessage,
    PostUnblocks, PostStreamFrame, ForceDispose, Boot, StartupDone, StartupFails, TakeControl,
    Drain, DrainEnds, TakeData, Disconnect, HandleEval, HandleMemory, HandleGc, HandleClose,
    EmitClose, EvalEnds, Reply, SendNodeMsgOrReject, Stop, Join, PostToNode, PostToNodeTimesOut,
    PumpChecks, workerCode

LEMMA EmitSteps ==
    Next =>
      \/ UNCHANGED emit
      \/ \E e \in Emits : PostToNode(e)
      \/ \E e \in Emits : PostToNodeTimesOut(e)
      \/ Dispatch
BY Zenon
DEF Next, Application, NodeThread, WorkerThread, WorkerCode, Pump, Eval, Memory, Gc, Close,
    Awaited, QueueDenoMsgOrReject, EvalSync, ControlUnblocks, EvalSyncReturns, PostMessage,
    PostUnblocks, PostStreamFrame, ForceDispose, Boot, StartupDone, StartupFails, TakeControl,
    Drain, DrainEnds, TakeData, Disconnect, HandleEval, HandleMemory, HandleGc, HandleClose,
    EmitClose, EvalEnds, Reply, SendNodeMsgOrReject, Stop, Join, HostCall, AsyncSent,
    OpStarts, CallTimesOut, PumpChecks, PumpReceives, PumpDrains, RunTask, HostSettles, workerCode

LEMMA CounterSteps ==
    Next =>
      \/ UNCHANGED <<posted, delivered, before>>
      \/ \E op \in Awaited, r \in Requests : QueueDenoMsgOrReject(op, r)
      \/ \E r \in Requests : EvalSync(r)
      \/ PostMessage \/ PostUnblocks \/ PostStreamFrame \/ Drain \/ TakeData
BY Zenon
DEF Next, Application, NodeThread, WorkerThread, WorkerCode, Pump, Eval, Memory, Gc, Close,
    Awaited, ControlUnblocks, EvalSyncReturns, ForceDispose, Boot, StartupDone, StartupFails,
    TakeControl, DrainEnds, Disconnect, HandleEval, HandleMemory, HandleGc, HandleClose,
    EmitClose, EvalEnds, Reply, SendNodeMsgOrReject, Stop, Join, HostCall, AsyncSent,
    OpStarts, CallTimesOut, PostToNode, PostToNodeTimesOut, Dispatch, PumpChecks, PumpReceives,
    PumpDrains, RunTask, HostSettles, requestVars

LEMMA HistorySteps ==
    Next =>
      \/ UNCHANGED <<invoked, seen>>
      \/ RunTask
BY Zenon
DEF Next, Application, NodeThread, WorkerThread, WorkerCode, Pump, Eval, Memory, Gc, Close,
    Awaited, QueueDenoMsgOrReject, EvalSync, ControlUnblocks, EvalSyncReturns, PostMessage,
    PostUnblocks, PostStreamFrame, ForceDispose, Boot, StartupDone, StartupFails, TakeControl,
    Drain, DrainEnds, TakeData, Disconnect, HandleEval, HandleMemory, HandleGc, HandleClose,
    EmitClose, EvalEnds, Reply, SendNodeMsgOrReject, Stop, Join, HostCall, AsyncSent,
    OpStarts, CallTimesOut, PostToNode, PostToNodeTimesOut, Dispatch, PumpChecks, PumpReceives,
    PumpDrains, HostSettles, history

LEMMA EarlierSteps == Next => UNCHANGED earlier \/ \E r \in Requests : EvalSync(r)
BY Zenon
DEF Next, Application, NodeThread, WorkerThread, WorkerCode, Pump, Eval, Memory, Gc, Close,
    Awaited, QueueDenoMsgOrReject, ControlUnblocks, EvalSyncReturns, PostMessage,
    PostUnblocks, PostStreamFrame, ForceDispose, Boot, StartupDone, StartupFails, TakeControl,
    Drain, DrainEnds, TakeData, Disconnect, HandleEval, HandleMemory, HandleGc, HandleClose,
    EmitClose, EvalEnds, Reply, SendNodeMsgOrReject, Stop, Join, HostCall, AsyncSent,
    OpStarts, CallTimesOut, PostToNode, PostToNodeTimesOut, Dispatch, PumpChecks, PumpReceives,
    PumpDrains, RunTask, HostSettles, history

LEMMA FlagSteps ==
    Next =>
      \/ UNCHANGED <<registered, closed, evalSyncActive, pump, stop>>
      \/ \E r \in Requests : EvalSync(r)
      \/ ControlUnblocks \/ EvalSyncReturns \/ ForceDispose \/ StartupDone
      \/ StartupFails \/ EmitClose \/ Stop \/ PumpChecks \/ PumpReceives \/ PumpDrains
      \/ RunTask
BY Zenon
DEF Next, Application, NodeThread, WorkerThread, WorkerCode, Pump, Eval, Memory, Gc, Close,
    Awaited, QueueDenoMsgOrReject, PostMessage, PostUnblocks, PostStreamFrame, Boot,
    TakeControl, Drain, DrainEnds, TakeData, Disconnect, HandleEval, HandleMemory, HandleGc,
    HandleClose, EvalEnds, Reply, SendNodeMsgOrReject, Join, HostCall, AsyncSent, OpStarts, CallTimesOut,
    PostToNode, PostToNodeTimesOut, Dispatch, HostSettles, tableVars, pumpVars

LEMMA FlagsKeep == ASSUME NativeRuntimeTypeOK, Next PROVE FlagsOK'
<1>1. FlagsOK
    BY TypeParts
<1>2. CASE UNCHANGED <<registered, closed, evalSyncActive, pump, stop>>
    BY <1>1, <1>2 DEF FlagsOK
<1>3. CASE \E r \in Requests : EvalSync(r)
    BY <1>1, <1>3 DEF FlagsOK, EvalSync, tableVars, pumpVars
<1>4. CASE ControlUnblocks \/ EvalSyncReturns
    BY <1>1, <1>4 DEF FlagsOK, ControlUnblocks, EvalSyncReturns, tableVars, pumpVars
<1>5. CASE ForceDispose \/ StartupFails \/ EmitClose \/ Stop \/ StartupDone
    BY <1>1, <1>5 DEF FlagsOK, ForceDispose, StartupFails, EmitClose, Stop, StartupDone,
       tableVars, pumpVars
<1>6. CASE PumpChecks \/ PumpReceives \/ PumpDrains
    BY <1>1, <1>6 DEF FlagsOK, PumpChecks, PumpReceives, PumpDrains, tableVars, pumpVars
<1>7. CASE RunTask
    BY <1>1, <1>7 DEF FlagsOK, RunTask, tableVars, pumpVars
<1>8. QED
    BY <1>2, <1>3, <1>4, <1>5, <1>6, <1>7, FlagSteps

LEMMA ControlKeeps == ASSUME NativeRuntimeTypeOK, Next PROVE ControlOK'
<1>1. ControlOK
    BY TypeParts
<1>2. CASE UNCHANGED control
    BY <1>1, <1>2 DEF ControlOK
<1>3. ASSUME NEW op \in Awaited, NEW r \in Requests, QueueDenoMsgOrReject(op, r) PROVE ControlOK'
  <2>1. control' = control \/ (control' = Append(control, Msg(op, r)) /\ Len(control) < ChannelSize)
      BY <1>3 DEF QueueDenoMsgOrReject, Room
  <2>2. Msg(op, r) \in ControlMsgs
      BY MsgTypes
  <2>3. QED
      BY <1>1, <2>1, <2>2, RoomForOne DEF ControlOK
<1>4. ASSUME NEW r \in Requests, EvalSync(r) PROVE ControlOK'
  <2>1. control' = control \/ (control' = Append(control, Msg("evalSync", r)) /\ Len(control) < ChannelSize)
      BY <1>4 DEF EvalSync, Room
  <2>2. Msg("evalSync", r) \in ControlMsgs
      BY MsgTypes
  <2>3. QED
      BY <1>1, <2>1, <2>2, RoomForOne DEF ControlOK
<1>5. CASE ControlUnblocks
  <2>1. control' = control \/ (control' = Append(control, node.msg) /\ Len(control) < ChannelSize)
      BY <1>5 DEF ControlUnblocks, Room
  <2>2. node.msg \in ControlMsgs
      BY <1>5, ThreadFacts DEF ControlUnblocks, Msg
  <2>3. QED
      BY <1>1, <2>1, <2>2, RoomForOne DEF ControlOK
<1>6. CASE Boot \/ StartupFails \/ Join
  <2>1. control' = control \/ control' = <<>>
      BY <1>6 DEF Boot, StartupFails, Join, ThreadEnds
  <2>2. QED
      BY <1>1, <2>1, Nought DEF ControlOK
<1>7. CASE TakeControl
  <2>1. control # <<>> /\ control' = Tail(control)
      BY <1>7 DEF TakeControl
  <2>2. QED
      BY <1>1, <2>1, OneLess, SizesAreNatural DEF ControlOK
<1>8. QED
    BY <1>2, <1>3, <1>4, <1>5, <1>6, <1>7, ControlSteps

LEMMA DataKeeps == ASSUME NativeRuntimeTypeOK, Next PROVE DataOK'
<1>1. DataOK /\ posted \in Nat
    BY DEF NativeRuntimeTypeOK, DataOK
<1>2. CASE UNCHANGED data
    BY <1>1, <1>2 DEF DataOK
<1>3. CASE PostMessage \/ PostUnblocks \/ PostStreamFrame
  <2>1. data' = data \/ (data' = Append(data, posted + 1) /\ Len(data) < ChannelSize)
      BY <1>3 DEF PostMessage, PostUnblocks, PostStreamFrame, Room
  <2>2. posted + 1 \in Nat
      BY <1>1
  <2>3. QED
      BY <1>1, <2>1, <2>2, RoomForOne DEF DataOK
<1>4. CASE Boot \/ StartupFails \/ Join
  <2>1. data' = data \/ data' = <<>>
      BY <1>4 DEF Boot, StartupFails, Join, ThreadEnds
  <2>2. QED
      BY <1>1, <2>1, Nought DEF DataOK
<1>5. CASE Drain \/ TakeData
  <2>1. data # <<>> /\ data' = Tail(data)
      BY <1>5 DEF Drain, TakeData, Deliver
  <2>2. QED
      BY <1>1, <2>1, OneLess, SizesAreNatural DEF DataOK
<1>6. QED
    BY <1>2, <1>3, <1>4, <1>5, DataSteps

LEMMA NodeChKeeps == ASSUME NativeRuntimeTypeOK, Next PROVE NodeChOK'
<1>1. NodeChOK /\ CallOK /\ DispatcherOK
    BY TypeParts
<1> DEFINE Grows(m) == nodeCh' = Append(nodeCh, m) /\ Len(nodeCh) < ChannelSize /\ m \in NodeMsgs
<1>2. ASSUME NEW m, Grows(m) PROVE NodeChOK'
    BY <1>1, <1>2, RoomForOne DEF NodeChOK
<1>3. CASE UNCHANGED nodeCh
    BY <1>1, <1>3 DEF NodeChOK
<1>4. ASSUME NEW c \in Calls, AsyncSent(c) PROVE NodeChOK'
  <2>1. Msg(call[c].kind, c) \in NodeMsgs
      BY <1>4, MsgTypes DEF AsyncSent
  <2>2. Grows(Msg(call[c].kind, c))
      BY <1>4, <2>1 DEF AsyncSent, Room
  <2>3. QED
      BY <1>2, <2>2
<1>5. CASE Boot \/ StartupFails \/ Join
  <2>1. nodeCh' = nodeCh \/ nodeCh' = <<>>
      BY <1>5 DEF Boot, StartupFails, Join, ThreadEnds
  <2>2. QED
      BY <1>1, <2>1, Nought DEF NodeChOK
<1>6. CASE EmitClose
  <2>1. nodeCh' = nodeCh \/ Grows(Msg("emitClose", 0))
      BY <1>6, MsgTypes DEF EmitClose, Room
  <2>2. QED
      BY <1>2, <1>3, <2>1
<1>7. CASE SendNodeMsgOrReject
  <2>1. worker.msg.id \in Requests
      BY <1>7, ThreadFacts, MsgIds DEF SendNodeMsgOrReject
  <2>2. Grows(Msg("resolve", worker.msg.id))
      BY <1>7, <2>1, MsgTypes DEF SendNodeMsgOrReject, Room
  <2>3. QED
      BY <1>2, <2>2
<1>8. CASE Dispatch
  <2>1. dispatcher # <<>> /\ Head(dispatcher) \in NodeMsgs
      BY <1>1, <1>8, OneLess, MsgTypes DEF DispatcherOK, Dispatch
  <2>2. nodeCh' = nodeCh \/ Grows(Head(dispatcher))
      BY <1>8, <2>1 DEF Dispatch, Room
  <2>3. QED
      BY <1>2, <1>3, <2>2
<1>9. CASE PumpReceives \/ PumpDrains
  <2>1. nodeCh' = nodeCh \/ (nodeCh # <<>> /\ nodeCh' = Tail(nodeCh))
      BY <1>9 DEF PumpReceives, PumpDrains, DispatchNodeMsg
  <2>2. QED
      BY <1>1, <2>1, OneLess, SizesAreNatural DEF NodeChOK
<1>10. QED
    BY <1>3, <1>4, <1>5, <1>6, <1>7, <1>8, <1>9, NodeChSteps

LEMMA DispatcherKeeps == ASSUME NativeRuntimeTypeOK, Next PROVE DispatcherOK'
<1>1. DispatcherOK
    BY TypeParts
<1>2. CASE UNCHANGED dispatcher
    BY <1>1, <1>2 DEF DispatcherOK
<1>3. ASSUME NEW c \in Calls, NEW kind \in CallKinds, HostCall(c, kind) PROVE DispatcherOK'
    BY <1>1, <1>3, MsgTypes DEF DispatcherOK, HostCall
<1>4. ASSUME NEW e \in Emits, PostToNode(e) PROVE DispatcherOK'
    BY <1>1, <1>4, MsgTypes DEF DispatcherOK, PostToNode
<1>5. CASE Dispatch
    BY <1>1, <1>5, OneLess DEF DispatcherOK, Dispatch
<1>6. QED
    BY <1>2, <1>3, <1>4, <1>5, DispatcherSteps

\* A request that the worker or the Node thread holds is one of Requests.
LEMMA HeldRequests ==
    ASSUME NativeRuntimeTypeOK
    PROVE  /\ worker.pc \in {"drain", "handle", "eval", "reply", "sending"} =>
                 worker.msg \in ControlMsgs /\ worker.msg.id \in Requests
           /\ node.st = "queueing" /\ node.msg.t # "post" =>
                 node.msg \in ControlMsgs /\ node.msg.id \in Requests
           /\ node.st = "awaiting" => node.msg.id \in Requests
BY ThreadFacts, MsgIds DEF Msg

\* What ThreadEnds puts on the Neon channel.
LEMMA EndRejects ==
    ASSUME NativeRuntimeTypeOK
    PROVE  /\ Rejections(control, Awaited) \in Seq(Rejects)
           /\ Rejections(nodeCh, {"resolve"}) \in Seq(Rejects)
<1>1. Rejections(control, Awaited) \in Seq(Rejects)
  <2>1. control \in Seq(ControlMsgs) /\ \A m \in ControlMsgs : m.t \in Awaited => m.id \in Requests
      BY MsgIds DEF NativeRuntimeTypeOK
  <2>2. QED
      BY <2>1, RejectionsCount
<1>2. Rejections(nodeCh, {"resolve"}) \in Seq(Rejects)
  <2>1. nodeCh \in Seq(NodeMsgs) /\ \A m \in NodeMsgs : m.t \in {"resolve"} => m.id \in Requests
      BY MsgIds, MsgTypes DEF NativeRuntimeTypeOK
  <2>2. QED
      BY <2>1, RejectionsCount
<1>3. QED
    BY <1>1, <1>2

LEMMA EndTasks ==
    ASSUME NativeRuntimeTypeOK
    PROVE  /\ Rejections(control, Awaited) \in Seq(Tasks)
           /\ Rejections(nodeCh, {"resolve"}) \in Seq(Tasks)
           /\ js \o Rejections(control, Awaited) \o Rejections(nodeCh, {"resolve"}) \in Seq(Tasks)
<1>1. Rejects \subseteq Tasks
    BY DEF Rejects, Tasks
<1>2. js \in Seq(Tasks)
    BY DEF NativeRuntimeTypeOK
<1> HIDE DEF Rejections
<1>3. Rejections(control, Awaited) \in Seq(Tasks) /\ Rejections(nodeCh, {"resolve"}) \in Seq(Tasks)
    BY <1>1, EndRejects
<1>4. QED
    BY <1>2, <1>3

LEMMA JsKeeps == ASSUME NativeRuntimeTypeOK, Next PROVE JsOK'
<1>1. JsOK
    BY TypeParts
<1>2. ASSUME NEW m \in Tasks, js' = Append(js, m) PROVE JsOK'
    BY <1>1, <1>2 DEF JsOK
<1>3. CASE js' = js
    BY <1>1, <1>3 DEF JsOK
<1>4. ASSUME NEW op \in Awaited, NEW r \in Requests, QueueDenoMsgOrReject(op, r) PROVE JsOK'
  <2>1. js' = js \/ js' = Append(js, Msg("reject", r))
      BY <1>4 DEF QueueDenoMsgOrReject
  <2>2. QED
      BY <1>2, <1>3, <2>1, MsgTypes
<1>5. CASE ControlUnblocks
  <2>1. js' = js \/ js' = Append(js, Msg("reject", node.msg.id))
      BY <1>5 DEF ControlUnblocks
  <2>2. Msg("reject", node.msg.id) \in Tasks
      BY <1>5, HeldRequests, MsgTypes DEF ControlUnblocks
  <2>3. QED
      BY <1>2, <1>3, <2>1, <2>2
<1>6. CASE Boot \/ StartupFails \/ Join
  <2>1. \/ js' = js
        \/ js' = js \o Rejections(control, Awaited) \o Rejections(nodeCh, {"resolve"})
      BY <1>6 DEF Boot, StartupFails, Join, ThreadEnds
  <2>2. QED
      BY <1>3, <2>1, EndTasks DEF JsOK
<1>7. CASE HandleGc \/ HandleClose
  <2>1. js' = Append(js, Msg("resolve", worker.msg.id))
      BY <1>7 DEF HandleGc, HandleClose
  <2>2. Msg("resolve", worker.msg.id) \in Tasks
      BY <1>7, HeldRequests, MsgTypes DEF HandleGc, HandleClose
  <2>3. QED
      BY <1>2, <2>1, <2>2
<1>8. CASE EmitClose
  <2>1. js' = js \/ js' = Append(js, Msg("emitClose", 0))
      BY <1>8 DEF EmitClose
  <2>2. QED
      BY <1>2, <1>3, <2>1, MsgTypes
<1>9. CASE Reply
  <2>1. js' = js \/ js' = Append(js, Msg("reject", worker.msg.id))
      BY <1>9 DEF Reply
  <2>2. Msg("reject", worker.msg.id) \in Tasks
      BY <1>9, HeldRequests, MsgTypes DEF Reply
  <2>3. QED
      BY <1>2, <1>3, <2>1, <2>2
<1>10. CASE PumpReceives \/ PumpDrains
  <2>1. \/ js' = js
        \/ nodeCh # <<>> /\ js' = Append(js, Head(nodeCh))
        \/ /\ nodeCh # <<>> /\ Head(nodeCh).t = "resolve"
           /\ js' = Append(js, Msg("reject", Head(nodeCh).id))
      BY <1>10 DEF PumpReceives, PumpDrains, DispatchNodeMsg
  <2>2. nodeCh # <<>> => Head(nodeCh) \in NodeMsgs
      BY OneLess DEF NativeRuntimeTypeOK
  <2>3. nodeCh # <<>> /\ Head(nodeCh).t = "resolve" => Msg("reject", Head(nodeCh).id) \in Tasks
      BY <2>2, MsgIds, MsgTypes
  <2>4. nodeCh # <<>> => Head(nodeCh) \in Tasks
      BY <2>2, MsgTypes
  <2>5. QED
      BY <1>2, <1>3, <2>1, <2>3, <2>4
<1>11. CASE RunTask
    BY <1>1, <1>11, OneLess DEF RunTask, JsOK
<1>12. QED
    BY <1>3, <1>4, <1>5, <1>6, <1>7, <1>8, <1>9, <1>10, <1>11, JsSteps

LEMMA NodeKeeps == ASSUME NativeRuntimeTypeOK, Next PROVE NodeOK'
<1>1. NodeOK
    BY TypeParts
<1>2. CASE node' = node
    BY <1>1, <1>2 DEF NodeOK
<1>3. ASSUME NEW op \in Awaited, NEW r \in Requests, QueueDenoMsgOrReject(op, r) PROVE NodeOK'
  <2>1. node' = node \/ node' = [st |-> "queueing", msg |-> Msg(op, r)]
      BY <1>3 DEF QueueDenoMsgOrReject
  <2>2. Msg(op, r) \in ControlMsgs
      BY MsgTypes
  <2>3. QED
      BY <1>2, <2>1, <2>2, StatesMade DEF NodeOK
<1>4. ASSUME NEW r \in Requests, EvalSync(r) PROVE NodeOK'
  <2>1. \/ node' = node \/ node' = [st |-> "queueing", msg |-> Msg("evalSync", r)]
        \/ node' = [st |-> "awaiting", msg |-> Msg("evalSync", r)]
      BY <1>4 DEF EvalSync
  <2>2. Msg("evalSync", r) \in ControlMsgs /\ Msg("evalSync", r).t = "evalSync"
      BY MsgTypes DEF Msg
  <2>3. QED
      BY <1>2, <2>1, <2>2, StatesMade DEF NodeOK
<1>5. CASE ControlUnblocks
  <2>1. \/ node' = Free
        \/ node.msg.t = "evalSync" /\ node' = [node EXCEPT !.st = "awaiting"]
      BY <1>5 DEF ControlUnblocks
  <2>2. node = [st |-> node.st, msg |-> node.msg] /\ node.msg \in ControlMsgs
      BY <1>5, ThreadFacts, HeldRequests DEF ControlUnblocks
  <2>3. [node EXCEPT !.st = "awaiting"] = [st |-> "awaiting", msg |-> node.msg]
      BY <2>2
  <2>4. QED
      BY <2>1, <2>2, <2>3, StatesMade DEF NodeOK
<1>6. CASE EvalSyncReturns \/ PostUnblocks
    BY <1>6, StatesMade DEF EvalSyncReturns, PostUnblocks, NodeOK
<1>7. CASE PostMessage
  <2>1. node' = node \/ node' = [st |-> "queueing", msg |-> Msg("post", 0)]
      BY <1>7 DEF PostMessage
  <2>2. QED
      BY <1>2, <2>1, StatesMade DEF NodeOK
<1>8. QED
    BY <1>2, <1>3, <1>4, <1>5, <1>6, <1>7, NodeSteps

LEMMA WorkerKeeps == ASSUME NativeRuntimeTypeOK, Next PROVE WorkerOK'
<1>1. WorkerOK
    BY TypeParts
<1> DEFINE Empty(pc, w) == [pc |-> pc, msg |-> Nothing, left |-> 0, waits |-> w]
           Holding(pc, m, n, w) == [pc |-> pc, msg |-> m, left |-> n, waits |-> w]
<1>2. CASE worker' = worker
    BY <1>1, <1>2 DEF WorkerOK
<1>3. ASSUME NEW pc \in {"boot", "startup", "idle", "closing", "stopping", "join", "gone"},
             NEW w \in BOOLEAN, worker' = Empty(pc, w)
      PROVE  WorkerOK'
    BY <1>3, StatesMade DEF WorkerOK
<1>4. ASSUME NEW pc \in {"drain", "handle", "eval", "reply", "sending"}, NEW m \in ControlMsgs,
             NEW n \in Nat, NEW w \in BOOLEAN, worker' = Holding(pc, m, n, w)
      PROVE  WorkerOK'
    BY <1>4, StatesMade DEF WorkerOK
<1>5. /\ worker = Holding(worker.pc, worker.msg, worker.left, worker.waits)
      /\ worker.left \in Nat /\ worker.waits \in BOOLEAN
    BY ThreadFacts
<1>7. CASE Boot \/ StartupFails \/ Join
  <2>1. ASSUME worker.pc = "boot", worker' = [worker EXCEPT !.pc = "startup", !.waits = TRUE]
        PROVE  worker' = Empty("startup", TRUE)
    <3>1. worker.msg = Nothing /\ worker.left = 0
        BY <2>1, ThreadFacts
    <3>2. QED
        BY <1>5, <2>1, <3>1
  <2>2. ASSUME worker' = [Rest EXCEPT !.pc = "gone"] PROVE worker' = Empty("gone", FALSE)
      BY <2>2 DEF Rest
  <2>3. \/ worker' = [Rest EXCEPT !.pc = "gone"]
        \/ worker.pc = "boot" /\ worker' = [worker EXCEPT !.pc = "startup", !.waits = TRUE]
      BY <1>7 DEF Boot, StartupFails, Join, ThreadEnds
  <2> HIDE DEF Empty
  <2>4. QED
      BY <1>3, <2>1, <2>2, <2>3
<1>8. CASE StartupDone \/ HandleGc \/ SendNodeMsgOrReject
  <2>1. worker' = Empty("idle", FALSE)
      BY <1>8 DEF Rest, StartupDone, HandleGc, SendNodeMsgOrReject
  <2> HIDE DEF Empty
  <2>2. QED
      BY <1>3, <2>1
<1>9. CASE HandleClose
  <2>1. worker' = Empty("closing", FALSE)
      BY <1>9 DEF Rest, HandleClose
  <2> HIDE DEF Empty
  <2>2. QED
      BY <1>3, <2>1
<1>10. CASE TakeControl
  <2>1. worker' = Holding("drain", Head(control), DrainMax, worker.waits)
      BY <1>5, <1>10 DEF TakeControl
  <2>2. Head(control) \in ControlMsgs /\ DrainMax \in Nat
      BY <1>10, OneLess, SizesAreNatural DEF TakeControl, NativeRuntimeTypeOK
  <2> HIDE DEF Holding
  <2>3. QED
      BY <1>4, <1>5, <2>1, <2>2
<1>11. CASE Drain
  <2>1. worker' = Holding("drain", worker.msg, worker.left - 1, worker.waits)
      BY <1>5, <1>11 DEF Drain
  <2>2. worker.msg \in ControlMsgs /\ worker.left - 1 \in Nat
      BY <1>5, <1>11, ThreadFacts DEF Drain
  <2> HIDE DEF Holding
  <2>3. QED
      BY <1>4, <1>5, <2>1, <2>2
<1>12. CASE DrainEnds
  <2>1. worker' = Holding("handle", worker.msg, 0, worker.waits) /\ worker.msg \in ControlMsgs
      BY <1>5, <1>12, ThreadFacts DEF DrainEnds
  <2> HIDE DEF Holding
  <2>2. QED
      BY <1>4, <1>5, <2>1
<1>13. CASE Disconnect \/ EmitClose \/ Stop
  <2>1. \E pc \in {"stopping", "join"} : worker' = [worker EXCEPT !.pc = pc]
      BY <1>13 DEF Disconnect, EmitClose, Stop, Goto
  <2>2. PICK pc \in {"stopping", "join"} : worker' = [worker EXCEPT !.pc = pc]
      BY <2>1
  <2>3. worker.msg = Nothing /\ worker.left = 0
      BY <1>13, ThreadFacts DEF Disconnect, EmitClose, Stop
  <2>4. worker' = Empty(pc, worker.waits)
      BY <1>5, <2>2, <2>3
  <2> HIDE DEF Empty
  <2>5. QED
      BY <1>3, <1>5, <2>4
<1>14. CASE HandleEval
  <2>1. PICK w \in BOOLEAN : worker' = [worker EXCEPT !.pc = "eval", !.waits = w]
      BY <1>14 DEF HandleEval
  <2>2. worker' = Holding("eval", worker.msg, worker.left, w) /\ worker.msg \in ControlMsgs
      BY <1>5, <1>14, <2>1, ThreadFacts DEF HandleEval
  <2> HIDE DEF Holding
  <2>3. QED
      BY <1>4, <1>5, <2>2
<1>15. CASE HandleMemory \/ EvalEnds \/ Reply
  <2>1. /\ worker.msg \in ControlMsgs
        /\ \/ worker' = Empty("idle", FALSE)
           \/ worker' = [worker EXCEPT !.pc = "reply"]
           \/ worker' = [worker EXCEPT !.pc = "sending"]
      BY <1>15, ThreadFacts DEF Rest, HandleMemory, EvalEnds, Reply, Goto
  <2>2. /\ [worker EXCEPT !.pc = "reply"] = Holding("reply", worker.msg, worker.left, worker.waits)
        /\ [worker EXCEPT !.pc = "sending"] = Holding("sending", worker.msg, worker.left, worker.waits)
      BY <1>5
  <2> HIDE DEF Empty, Holding
  <2>3. QED
      BY <1>3, <1>4, <1>5, <2>1, <2>2
<1>16. QED
    BY <1>2, <1>7, <1>8, <1>9, <1>10, <1>11, <1>12, <1>13, <1>14, <1>15, WorkerSteps

LEMMA PromiseKeeps == ASSUME NativeRuntimeTypeOK, Next PROVE PromiseOK'
<1>1. PromiseOK
    BY TypeParts
<1>2. CASE UNCHANGED <<promise, syncReply>>
    BY <1>1, <1>2 DEF PromiseOK
<1>3. ASSUME NEW op \in Awaited, NEW r \in Requests, QueueDenoMsgOrReject(op, r) PROVE PromiseOK'
    BY <1>1, <1>3 DEF PromiseOK, QueueDenoMsgOrReject, Settle
<1>4. ASSUME NEW r \in Requests, EvalSync(r) PROVE PromiseOK'
    BY <1>1, <1>4 DEF PromiseOK, EvalSync, Settle
<1>5. CASE ControlUnblocks
    BY <1>1, <1>5 DEF PromiseOK, ControlUnblocks, Settle
<1>6. CASE EvalSyncReturns
    BY <1>1, <1>6 DEF PromiseOK, EvalSyncReturns, Settle
<1>7. CASE Boot \/ StartupFails \/ Join
  <2>1. promise' = promise /\ syncReply' \in {syncReply, "dropped"}
      BY <1>7 DEF Boot, StartupFails, Join, ThreadEnds
  <2>2. QED
      BY <1>1, <2>1 DEF PromiseOK
<1>8. CASE EvalEnds
    BY <1>1, <1>8 DEF PromiseOK, EvalEnds
<1>9. CASE RunTask
  <2>1. syncReply' = syncReply
      BY <1>9 DEF RunTask
  <2>2. \/ promise' = promise
        \/ \E r : promise' = [promise EXCEPT ![r] = "fulfilled"]
        \/ \E r : promise' = [promise EXCEPT ![r] = "rejected"]
      BY <1>9 DEF RunTask, Settle
  <2>3. QED
      BY <1>1, <2>1, <2>2 DEF PromiseOK
<1>10. QED
    BY <1>2, <1>3, <1>4, <1>5, <1>6, <1>7, <1>8, <1>9, PromiseSteps

\* A call gets a new state, or is made.
LEMMA CallKeeps == ASSUME NativeRuntimeTypeOK, Next PROVE CallOK'
<1> DEFINE States == {"none", "refused", "made", "handing", "sending", "sent", "running",
                      "answered", "failed"}
           Kinds == {"none"} \cup CallTypes
           Call == [kind : Kinds, st : States]
<1> SUFFICES call' \in [Calls -> Call]
    BY DEF CallOK
<1>1. call \in [Calls -> Call]
    BY DEF NativeRuntimeTypeOK
<1>2. \A st : st \in States => \A c : call[c] \in Call => [call[c] EXCEPT !.st = st] \in Call
    OBVIOUS
<1> HIDE DEF Call
<1>3. ASSUME NEW c, NEW st \in States, call' = [call EXCEPT ![c].st = st] PROVE call' \in [Calls -> Call]
  <2>1. call' = [call EXCEPT ![c] = [call[c] EXCEPT !.st = st]]
      BY <1>3
  <2>2. CASE c \in Calls
      BY <1>1, <1>2, <2>1, <2>2
  <2>3. CASE c \notin Calls
      BY <1>1, <2>1, <2>3
  <2>4. QED
      BY <2>2, <2>3
<1>4. CASE call' = call
    BY <1>1, <1>4
<1>5. ASSUME NEW c \in Calls, NEW kind \in CallKinds, HostCall(c, kind) PROVE call' \in [Calls -> Call]
  <2>1. \E st \in {"refused", "handing", "made"} : call' = [call EXCEPT ![c] = [kind |-> kind, st |-> st]]
      BY <1>5 DEF HostCall
  <2>2. \A st \in {"refused", "handing", "made"} : [kind |-> kind, st |-> st] \in Call
      BY KindsAreCalls DEF Call
  <2>3. QED
      BY <1>1, <2>1, <2>2
<1>6. ASSUME NEW c \in Calls, OpStarts(c) \/ AsyncSent(c) \/ CallTimesOut(c) \/ HostSettles(c)
      PROVE  call' \in [Calls -> Call]
  <2>1. \E st \in {"refused", "sending", "sent", "failed", "answered"} :
            call' = [call EXCEPT ![c].st = st]
      BY <1>6, Zenon DEF OpStarts, AsyncSent, CallTimesOut, HostSettles, CallGets
  <2>2. QED
      BY <1>3, <2>1
<1>7. CASE Dispatch
  <2>1. \/ call' = call
        \/ \E c, st : /\ st \in {call[c].st, "sent", "failed"}
                      /\ call' = [call EXCEPT ![c].st = st]
    <3>1. CASE Head(dispatcher).t = "sync"
      <4> DEFINE c == Head(dispatcher).id
                 ack == IF PumpLives THEN "sent" ELSE "failed"
      <4>1. call' = [call EXCEPT ![c].st = IF call[c].st = "handing" THEN ack ELSE call[c].st]
          BY <1>7, <3>1 DEF Dispatch
      <4>2. (IF call[c].st = "handing" THEN ack ELSE call[c].st) \in {call[c].st, "sent", "failed"}
          OBVIOUS
      <4>3. QED
          BY <4>1, <4>2
    <3>2. CASE Head(dispatcher).t # "sync"
        BY <1>7, <3>2 DEF Dispatch
    <3>3. QED
        BY <3>1, <3>2
  <2>2. PICK c, st : \/ call' = call
                     \/ /\ st \in {call[c].st, "sent", "failed"}
                        /\ call' = [call EXCEPT ![c].st = st]
      BY <2>1
  <2>3. CASE call' = call
      BY <1>4, <2>3
  <2>4. CASE c \in Calls /\ st \in {call[c].st, "sent", "failed"} /\ call' = [call EXCEPT ![c].st = st]
    <3>1. call[c].st \in States
        BY <1>1, <2>4 DEF Call
    <3>2. st \in States
        BY <2>4, <3>1
    <3>3. QED
        BY <1>3, <2>4, <3>2
  <2>5. CASE c \notin Calls /\ call' = [call EXCEPT ![c].st = st]
      BY <1>1, <2>5
  <2>6. QED
      BY <2>2, <2>3, <2>4, <2>5
<1>8. CASE PumpReceives \/ PumpDrains
  <2> DEFINE c == Head(nodeCh).id
  <2>1. \/ call' = call
        \/ call' = [call EXCEPT ![c].st = IF call[c].st \in {"handing", "sent"} THEN "failed" ELSE call[c].st]
      BY <1>8 DEF PumpReceives, PumpDrains, DispatchNodeMsg
  <2> DEFINE st == IF call[c].st \in {"handing", "sent"} THEN "failed" ELSE call[c].st
  <2>2. c \in Calls => st \in States
      BY <1>1 DEF Call
  <2>3. call' = call \/ call' = [call EXCEPT ![c].st = st]
      BY <2>1
  <2> HIDE DEF c, st
  <2>4. CASE c \in Calls /\ call' = [call EXCEPT ![c].st = st]
      BY <1>3, <2>2, <2>4
  <2>5. CASE c \notin Calls /\ call' = [call EXCEPT ![c].st = st]
      BY <1>1, <2>5
  <2>6. QED
      BY <1>4, <2>3, <2>4, <2>5
<1>9. CASE RunTask
  <2> DEFINE c == Head(js).id
  <2>1. \/ call' = call
        \/ \E st \in {call[c].st, "running", "answered"} : call' = [call EXCEPT ![c].st = st]
        \/ call' = [call EXCEPT ![c] = [kind |-> "retry", st |-> "made"]]
      BY <1>9 DEF RunTask, Invoke, InvokeAtOnce, InvokeLater, CallGets
  <2>2. c \in Calls => call[c].st \in States
      BY <1>1 DEF Call
  <2>3. [kind |-> "retry", st |-> "made"] \in Call
      BY DEF Call
  <2> HIDE DEF c
  <2>4. ASSUME c \in Calls, NEW st \in {call[c].st, "running", "answered"},
               call' = [call EXCEPT ![c].st = st]
        PROVE  call' \in [Calls -> Call]
    <3>1. st \in States
        BY <2>2, <2>4
    <3>2. QED
        BY <1>3, <2>4, <3>1
  <2>5. CASE call' = [call EXCEPT ![c] = [kind |-> "retry", st |-> "made"]]
      BY <1>1, <2>3, <2>5
  <2>6. CASE c \notin Calls
      BY <1>1, <2>1, <2>6
  <2>7. QED
      BY <1>4, <2>1, <2>4, <2>5, <2>6
<1>10. QED
    BY <1>4, <1>5, <1>6, <1>7, <1>8, <1>9, CallSteps

LEMMA EmitKeeps == ASSUME NativeRuntimeTypeOK, Next PROVE EmitOK'
<1> DEFINE States == {"none", "handing", "sent", "failed"}
           By == ControlMsgs \cup {Nothing}
           Emit == [st : States, by : By]
<1> SUFFICES emit' \in [Emits -> Emit]
    BY DEF EmitOK
<1>1. emit \in [Emits -> Emit]
    BY DEF NativeRuntimeTypeOK
<1>2. \A st \in States : \A e : emit[e] \in Emit => [emit[e] EXCEPT !.st = st] \in Emit
    OBVIOUS
<1>3. \A m \in By : [st |-> "handing", by |-> m] \in Emit
    OBVIOUS
<1> HIDE DEF Emit, By
<1>4. ASSUME NEW e, NEW st \in States, emit' = [emit EXCEPT ![e].st = st] PROVE emit' \in [Emits -> Emit]
  <2>1. emit' = [emit EXCEPT ![e] = [emit[e] EXCEPT !.st = st]]
      BY <1>4
  <2>2. CASE e \in Emits
      BY <1>1, <1>2, <2>1, <2>2
  <2>3. CASE e \notin Emits
      BY <1>1, <2>1, <2>3
  <2>4. QED
      BY <2>2, <2>3
<1>5. CASE emit' = emit
    BY <1>1, <1>5
<1>6. ASSUME NEW e \in Emits, PostToNode(e) PROVE emit' \in [Emits -> Emit]
  <2>1. worker.msg \in By
      BY ThreadFacts DEF By
  <2>2. emit' = [emit EXCEPT ![e] = [st |-> "handing", by |-> worker.msg]]
      BY <1>6 DEF PostToNode
  <2>3. QED
      BY <1>1, <1>3, <2>1, <2>2
<1>7. ASSUME NEW e \in Emits, PostToNodeTimesOut(e) PROVE emit' \in [Emits -> Emit]
    BY <1>4, <1>7 DEF PostToNodeTimesOut
<1>8. CASE Dispatch
  <2> DEFINE e == Head(dispatcher).id
             ack == IF PumpLives THEN "sent" ELSE "failed"
             st == IF emit[e].st = "handing" THEN ack ELSE emit[e].st
  <2>1. emit' = emit \/ emit' = [emit EXCEPT ![e].st = st]
      BY <1>8 DEF Dispatch
  <2>2. e \in Emits => st \in States
      BY <1>1 DEF Emit
  <2> HIDE DEF e, st
  <2>3. CASE e \in Emits /\ emit' = [emit EXCEPT ![e].st = st]
      BY <1>4, <2>2, <2>3
  <2>4. CASE e \notin Emits /\ emit' = [emit EXCEPT ![e].st = st]
      BY <1>1, <2>4
  <2>5. QED
      BY <1>5, <2>1, <2>3, <2>4
<1>9. QED
    BY <1>5, <1>6, <1>7, <1>8, EmitSteps

LEMMA CountersKeep == ASSUME NativeRuntimeTypeOK, Next PROVE CountersOK'
<1>1. CountersOK /\ data \in Seq(Nat)
    BY DEF NativeRuntimeTypeOK, CountersOK
<1>2. CASE UNCHANGED <<posted, delivered, before>>
    BY <1>1, <1>2 DEF CountersOK
<1>3. ASSUME NEW op \in Awaited, NEW r \in Requests, QueueDenoMsgOrReject(op, r) PROVE CountersOK'
    BY <1>1, <1>3 DEF CountersOK, QueueDenoMsgOrReject
<1>4. ASSUME NEW r \in Requests, EvalSync(r) PROVE CountersOK'
    BY <1>1, <1>4 DEF CountersOK, EvalSync
<1>5. CASE PostMessage \/ PostUnblocks \/ PostStreamFrame
  <2>1. delivered' = delivered /\ before' = before /\ (posted' = posted \/ posted' = posted + 1)
      BY <1>5 DEF PostMessage, PostUnblocks, PostStreamFrame, requestVars
  <2>2. QED
      BY <1>1, <2>1 DEF CountersOK
<1>6. CASE Drain \/ TakeData
  <2>1. /\ data # <<>> /\ delivered' = Head(data) /\ posted' = posted /\ before' = before
      BY <1>6 DEF Drain, TakeData, Deliver, requestVars
  <2>2. QED
      BY <1>1, <2>1, OneLess DEF CountersOK
<1>7. QED
    BY <1>2, <1>3, <1>4, <1>5, <1>6, CounterSteps

LEMMA HistoryKeeps == ASSUME NativeRuntimeTypeOK, Next PROVE HistoryOK'
<1> DEFINE Recorded == invoked \in [Calls -> Nat] /\ seen \subseteq Emits
<1>1. HistoryOK
    BY TypeParts
<1>2. ASSUME UNCHANGED <<invoked, seen>> PROVE Recorded'
    BY <1>1, <1>2 DEF HistoryOK
<1>3. ASSUME RunTask PROVE Recorded'
  <2>1. Head(js) \in Tasks
      BY <1>3, OneLess DEF RunTask, NativeRuntimeTypeOK
  <2>2. \/ invoked' = invoked /\ seen' = seen
        \/ Head(js).t = "message" /\ invoked' = invoked /\ seen' = seen \cup {Head(js).id}
        \/ invoked' = [invoked EXCEPT ![Head(js).id] = invoked[Head(js).id] + 1] /\ seen' = seen
      BY <1>3 DEF RunTask, Invoke
  <2>3. Head(js).t = "message" => Head(js).id \in Emits
      BY <2>1, MsgIds
  <2>4. QED
      BY <1>1, <2>2, <2>3 DEF HistoryOK
<1>4. Recorded'
    BY <1>2, <1>3, HistorySteps
<1>5. earlier' \subseteq Calls
    BY <1>1, EarlierSteps DEF HistoryOK, EvalSync, UnderWay
<1>6. QED
    BY <1>4, <1>5 DEF HistoryOK

LEMMA TypeInit == Init => NativeRuntimeTypeOK
<1> SUFFICES ASSUME Init PROVE NativeRuntimeTypeOK
    OBVIOUS
<1>1. WorkerOK /\ NodeOK
    BY StatesMade DEF Init, WorkerOK, NodeOK
<1>2. ControlOK /\ DataOK /\ NodeChOK /\ JsOK /\ DispatcherOK
    BY Nought DEF Init, ControlOK, DataOK, NodeChOK, JsOK, DispatcherOK
<1>3. FlagsOK /\ PromiseOK /\ CountersOK /\ HistoryOK
    BY DEF Init, FlagsOK, PromiseOK, CountersOK, HistoryOK
<1>4. CallOK
    BY DEF Init, CallOK
<1>5. EmitOK
    BY DEF Init, EmitOK
<1>6. QED
    BY <1>1, <1>2, <1>3, <1>4, <1>5, TypeParts

LEMMA TypeStep == NativeRuntimeTypeOK /\ [Next]_vars => NativeRuntimeTypeOK'
<1>1. ASSUME NativeRuntimeTypeOK, Next PROVE NativeRuntimeTypeOK'
  <2>1. /\ FlagsOK' /\ ControlOK' /\ DataOK' /\ NodeChOK' /\ JsOK' /\ DispatcherOK' /\ NodeOK'
        /\ WorkerOK' /\ PromiseOK' /\ CallOK' /\ EmitOK' /\ CountersOK' /\ HistoryOK'
      BY <1>1, FlagsKeep, ControlKeeps, DataKeeps, NodeChKeeps, JsKeeps, DispatcherKeeps,
         NodeKeeps, WorkerKeeps, PromiseKeeps, CallKeeps, EmitKeeps, CountersKeep, HistoryKeeps
  <2>2. QED
      BY <2>1 DEF NativeRuntimeTypeOK, FlagsOK, ControlOK, DataOK, NodeChOK, JsOK, DispatcherOK,
         NodeOK, WorkerOK, PromiseOK, CallOK, EmitOK, CountersOK, HistoryOK
<1>2. ASSUME NativeRuntimeTypeOK, UNCHANGED vars PROVE NativeRuntimeTypeOK'
    BY <1>2 DEF vars, tableVars, requestVars, pumpVars, workerCode, history, NativeRuntimeTypeOK
<1>3. QED
    BY <1>1, <1>2

-----------------------------------------------------------------------------
(***************************************************************************)
(* Who can settle a promise.                                               *)
(***************************************************************************)
\* evalSync: its request is with the worker, or answered, exactly while the Node
\* thread waits for it; the flag is up from the call to the return.
SyncInv ==
    /\ node.st = "awaiting" => evalSyncActive
    /\ node.st = "queueing" /\ node.msg.t = "evalSync" => evalSyncActive
    /\ syncReply # "none" => node.st = "awaiting"
    /\ \A i \in 1..Len(control) : control[i].t = "evalSync" =>
          node.st = "awaiting" /\ node.msg = control[i] /\ syncReply = "none"
    /\ worker.msg.t = "evalSync" =>
          node.st = "awaiting" /\ node.msg = worker.msg /\ syncReply = "none"

\* The summands of Holders.
ControlOf(r) == [t : Awaited \cup {"evalSync"}, id : {r}]
ResultOf(r)  == {Msg("resolve", r)}
TasksOf(r)   == {Msg("resolve", r), Msg("reject", r)}
InControl(r) == Count(control, ControlOf(r))
InNodeCh(r)  == Count(nodeCh, ResultOf(r))
InJs(r)      == Count(js, TasksOf(r))
AtWorker(r)  == IF worker.msg.id = r THEN 1 ELSE 0
AtNode(r)    == IF node.st = "queueing" /\ node.msg.id = r THEN 1 ELSE 0
AtReply(r)   == IF node.st = "awaiting" /\ node.msg.id = r /\ syncReply # "none" THEN 1 ELSE 0

OwnedOnce(r) ==
    InControl(r) + InNodeCh(r) + InJs(r) + AtWorker(r) + AtNode(r) + AtReply(r)
        = IF promise[r] = "pending" THEN 1 ELSE 0

LEMMA OwnerIs == PendingHasOneOwner <=> \A r \in Requests : OwnedOnce(r)
BY DEF PendingHasOneOwner, Holders, OwnedOnce, InControl, InNodeCh, InJs, AtWorker, AtNode,
       AtReply, ControlOf, ResultOf, TasksOf

\* The summands in this state and in the next.
LEMMA PartsAre ==
    ASSUME NEW r
    PROVE  /\ InControl(r) = Count(control, ControlOf(r)) /\ InControl(r)' = Count(control', ControlOf(r))
           /\ InNodeCh(r) = Count(nodeCh, ResultOf(r)) /\ InNodeCh(r)' = Count(nodeCh', ResultOf(r))
           /\ InJs(r) = Count(js, TasksOf(r)) /\ InJs(r)' = Count(js', TasksOf(r))
BY DEF InControl, InNodeCh, InJs

\* What a channel's count becomes when a message comes or goes.
LEMMA PartsChange ==
    ASSUME NativeRuntimeTypeOK, NEW r \in Requests
    PROVE  /\ InControl(r) \in Nat /\ InNodeCh(r) \in Nat /\ InJs(r) \in Nat
           /\ \A m \in ControlMsgs : Count(Append(control, m), ControlOf(r))
                  = InControl(r) + (IF m.id = r THEN 1 ELSE 0)
           /\ control # <<>> => InControl(r) = Count(Tail(control), ControlOf(r))
                                                 + (IF Head(control).id = r THEN 1 ELSE 0)
           /\ \A m \in NodeMsgs : Count(Append(nodeCh, m), ResultOf(r))
                  = InNodeCh(r) + (IF m.t = "resolve" /\ m.id = r THEN 1 ELSE 0)
           /\ nodeCh # <<>> => InNodeCh(r) = Count(Tail(nodeCh), ResultOf(r))
                  + (IF Head(nodeCh).t = "resolve" /\ Head(nodeCh).id = r THEN 1 ELSE 0)
           /\ \A m \in Tasks : Count(Append(js, m), TasksOf(r))
                  = InJs(r) + (IF m.t \in {"resolve", "reject"} /\ m.id = r THEN 1 ELSE 0)
           /\ js # <<>> => InJs(r) = Count(Tail(js), TasksOf(r))
                  + (IF Head(js).t \in {"resolve", "reject"} /\ Head(js).id = r THEN 1 ELSE 0)
<1>1. control \in Seq(ControlMsgs) /\ nodeCh \in Seq(NodeMsgs) /\ js \in Seq(Tasks)
    BY DEF NativeRuntimeTypeOK
<1>2. \A m \in ControlMsgs : m \in ControlOf(r) <=> m.id = r
    BY DEF ControlMsgs, ControlOf
<1>3. \A m \in NodeMsgs : m \in ResultOf(r) <=> m.t = "resolve" /\ m.id = r
  <2>1. \A m \in NodeMsgs : m.t = "resolve" => m = Msg(m.t, m.id)
      BY MsgIds, MsgTypes
  <2>2. QED
      BY <2>1 DEF ResultOf, Msg
<1>4. \A m \in Tasks : m \in TasksOf(r) <=> m.t \in {"resolve", "reject"} /\ m.id = r
  <2>1. \A m \in Tasks : m.t \in {"resolve", "reject"} => m = Msg(m.t, m.id)
      BY MsgIds
  <2>2. QED
      BY <2>1 DEF TasksOf, Msg
<1>5. InControl(r) \in Nat /\ InNodeCh(r) \in Nat /\ InJs(r) \in Nat
    BY <1>1, CountType DEF InControl, InNodeCh, InJs
<1>6. \A m \in ControlMsgs : Count(Append(control, m), ControlOf(r))
                  = InControl(r) + (IF m.id = r THEN 1 ELSE 0)
    BY <1>1, <1>2, CountAppend DEF InControl
<1>7. control # <<>> => InControl(r) = Count(Tail(control), ControlOf(r))
                                         + (IF Head(control).id = r THEN 1 ELSE 0)
    BY <1>1, <1>2, CountTail DEF InControl
<1>8. \A m \in NodeMsgs : Count(Append(nodeCh, m), ResultOf(r))
                  = InNodeCh(r) + (IF m.t = "resolve" /\ m.id = r THEN 1 ELSE 0)
    BY <1>1, <1>3, CountAppend DEF InNodeCh
<1>9. nodeCh # <<>> => InNodeCh(r) = Count(Tail(nodeCh), ResultOf(r))
                  + (IF Head(nodeCh).t = "resolve" /\ Head(nodeCh).id = r THEN 1 ELSE 0)
    BY <1>1, <1>3, CountTail DEF InNodeCh
<1>10. \A m \in Tasks : Count(Append(js, m), TasksOf(r))
                  = InJs(r) + (IF m.t \in {"resolve", "reject"} /\ m.id = r THEN 1 ELSE 0)
    BY <1>1, <1>4, CountAppend DEF InJs
<1>11. js # <<>> => InJs(r) = Count(Tail(js), TasksOf(r))
                  + (IF Head(js).t \in {"resolve", "reject"} /\ Head(js).id = r THEN 1 ELSE 0)
    BY <1>1, <1>4, CountTail DEF InJs
<1>12. QED
    BY <1>5, <1>6, <1>7, <1>8, <1>9, <1>10, <1>11

\* Where a request is that is with one of its owners, and where it is not.
LEMMA OneOwner ==
    ASSUME NativeRuntimeTypeOK, PendingHasOneOwner, NEW r \in Requests
    PROVE  /\ promise[r] # "pending" => /\ \A i \in 1..Len(control) : control[i].id # r
                                        /\ worker.msg.id # r
                                        /\ ~(node.st = "queueing" /\ node.msg.id = r)
           /\ worker.msg.id = r => /\ promise[r] = "pending"
                                   /\ \A i \in 1..Len(control) : control[i].id # r
                                   /\ ~(node.st = "queueing" /\ node.msg.id = r)
                                   /\ \A i \in 1..Len(nodeCh) : nodeCh[i] # Msg("resolve", r)
                                   /\ \A i \in 1..Len(js) : js[i] # Msg("resolve", r)
           /\ \A i \in 1..Len(control) : control[i].id = r =>
                  promise[r] = "pending" /\ ~(node.st = "queueing" /\ node.msg.id = r)
<1>1. OwnedOnce(r)
    BY OwnerIs
<1>2. InControl(r) \in Nat /\ InNodeCh(r) \in Nat /\ InJs(r) \in Nat
    BY PartsChange
<1>3. control \in Seq(ControlMsgs) /\ nodeCh \in Seq(NodeMsgs) /\ js \in Seq(Tasks)
    BY DEF NativeRuntimeTypeOK
<1>4. InControl(r) = 0 => \A i \in 1..Len(control) : control[i].id # r
  <2>1. \A i \in 1..Len(control) : control[i] \in ControlMsgs
      BY <1>3
  <2>2. InControl(r) = 0 => \A i \in 1..Len(control) : control[i] \notin ControlOf(r)
      BY <1>3, CountZero DEF InControl
  <2>3. QED
      BY <2>1, <2>2 DEF ControlMsgs, ControlOf
<1>5. InNodeCh(r) = 0 => \A i \in 1..Len(nodeCh) : nodeCh[i] # Msg("resolve", r)
    BY <1>3, CountZero DEF InNodeCh, ResultOf
<1>6. InJs(r) = 0 => \A i \in 1..Len(js) : js[i] # Msg("resolve", r)
    BY <1>3, CountZero DEF InJs, TasksOf
<1>7. /\ AtWorker(r) \in {0, 1} /\ AtNode(r) \in {0, 1} /\ AtReply(r) \in {0, 1}
      /\ AtWorker(r) = 0 <=> worker.msg.id # r
      /\ AtNode(r) = 0 <=> ~(node.st = "queueing" /\ node.msg.id = r)
    BY DEF AtWorker, AtNode, AtReply
<1>8. promise[r] # "pending" => InControl(r) = 0 /\ AtWorker(r) = 0 /\ AtNode(r) = 0
  <2>1. promise[r] # "pending" =>
            InControl(r) + InNodeCh(r) + InJs(r) + AtWorker(r) + AtNode(r) + AtReply(r) = 0
      BY <1>1 DEF OwnedOnce
  <2>2. QED
      BY <1>2, <1>7, <2>1
<1>9. AtWorker(r) # 0 => /\ promise[r] = "pending" /\ InControl(r) = 0 /\ AtNode(r) = 0
                         /\ InNodeCh(r) = 0 /\ InJs(r) = 0
    BY <1>1, <1>2, <1>7 DEF OwnedOnce
<1>10. promise[r] # "pending" => /\ \A i \in 1..Len(control) : control[i].id # r
                                 /\ worker.msg.id # r
                                 /\ ~(node.st = "queueing" /\ node.msg.id = r)
    BY <1>4, <1>7, <1>8
<1>11. worker.msg.id = r => /\ promise[r] = "pending"
                            /\ \A i \in 1..Len(control) : control[i].id # r
                            /\ ~(node.st = "queueing" /\ node.msg.id = r)
                            /\ \A i \in 1..Len(nodeCh) : nodeCh[i] # Msg("resolve", r)
                            /\ \A i \in 1..Len(js) : js[i] # Msg("resolve", r)
    BY <1>4, <1>5, <1>6, <1>7, <1>9
<1>12. ASSUME InControl(r) # 0 PROVE promise[r] = "pending" /\ AtNode(r) = 0
  <2> DEFINE others == InNodeCh(r) + InJs(r) + AtWorker(r) + AtNode(r) + AtReply(r)
  <2>1. others \in Nat /\ (others = 0 => AtNode(r) = 0)
      BY <1>2, <1>7
  <2>2. InControl(r) + others = IF promise[r] = "pending" THEN 1 ELSE 0
      BY <1>1, <1>2, <1>7 DEF OwnedOnce
  <2> HIDE DEF others
  <2>3. QED
      BY <1>2, <1>12, <2>1, <2>2
<1>13. QED
    BY <1>4, <1>7, <1>10, <1>11, <1>12

LEMMA SyncSteps ==
    Next =>
      \/ UNCHANGED <<node, evalSyncActive, syncReply, control, worker>>
      \/ \E op \in Awaited, r \in Requests : QueueDenoMsgOrReject(op, r)
      \/ \E r \in Requests : EvalSync(r)
      \/ ControlUnblocks \/ EvalSyncReturns \/ PostMessage \/ PostUnblocks \/ Boot
      \/ StartupDone \/ StartupFails \/ TakeControl \/ Drain \/ DrainEnds \/ Disconnect
      \/ HandleEval \/ HandleMemory \/ HandleGc \/ HandleClose \/ EmitClose \/ EvalEnds
      \/ Reply \/ SendNodeMsgOrReject \/ Stop \/ Join
BY Zenon
DEF Next, Application, NodeThread, WorkerThread, WorkerCode, Pump, Eval, Memory, Gc, Close,
    Awaited, PostStreamFrame, ForceDispose, TakeData, HostCall, AsyncSent, OpStarts, CallTimesOut,
    PostToNode, PostToNodeTimesOut, Dispatch, PumpChecks, PumpReceives, PumpDrains, RunTask,
    HostSettles, tableVars, requestVars

\* A step that leaves the Node thread, the flag, the answer and the control channel,
\* and gives the worker no new request, keeps SyncInv.
LEMMA SyncUnmoved ==
    ASSUME SyncInv, node' = node, evalSyncActive' = evalSyncActive, syncReply' = syncReply,
           control' = control, worker'.msg = worker.msg \/ worker'.msg = Nothing
    PROVE  SyncInv'
BY MsgTypes DEF SyncInv

LEMMA SyncInit == Init => SyncInv
BY MsgTypes DEF Init, SyncInv, Free

LEMMA SyncStep ==
    ASSUME NativeRuntimeTypeOK, PendingHasOneOwner, SyncInv, Next
    PROVE  SyncInv'
<1>0. control \in Seq(ControlMsgs) /\ Len(control) \in Nat
    BY DEF NativeRuntimeTypeOK
<1>1. CASE UNCHANGED <<node, evalSyncActive, syncReply, control, worker>>
    BY <1>1, SyncUnmoved
<1>2. ASSUME NEW op \in Awaited, NEW r \in Requests, QueueDenoMsgOrReject(op, r) PROVE SyncInv'
  <2>1. /\ node = Free /\ evalSyncActive' = evalSyncActive /\ syncReply' = syncReply /\ worker' = worker
        /\ \/ node' = node
           \/ node' = [st |-> "queueing", msg |-> Msg(op, r)]
        /\ control' = control \/ control' = Append(control, Msg(op, r))
      BY <1>2 DEF QueueDenoMsgOrReject, MayCall, tableVars
  <2>2. Msg(op, r).t # "evalSync"
      BY DEF Msg, Awaited
  <2>3. \A i \in 1..Len(control) : control[i].t # "evalSync"
      BY <2>1 DEF SyncInv, Free
  <2>4. \A i \in 1..Len(control') : control'[i].t # "evalSync"
      BY <1>0, <2>1, <2>2, <2>3
  <2>5. node.st = "free" /\ worker.msg.t # "evalSync" /\ syncReply = "none"
      BY <2>1 DEF SyncInv, Free
  <2>6. node'.st # "awaiting" /\ (node'.st = "queueing" => node'.msg.t # "evalSync")
      BY <2>1, <2>2, <2>5
  <2>7. QED
      BY <2>1, <2>4, <2>5, <2>6 DEF SyncInv
<1>3. ASSUME NEW r \in Requests, EvalSync(r) PROVE SyncInv'
  <2> DEFINE m == Msg("evalSync", r)
  <2>1. /\ node = Free /\ syncReply' = syncReply /\ worker' = worker
        /\ \/ node' = node /\ evalSyncActive' = evalSyncActive /\ control' = control
           \/ /\ node' = [st |-> "queueing", msg |-> m] /\ evalSyncActive' = TRUE /\ control' = control
           \/ /\ node' = [st |-> "awaiting", msg |-> m] /\ evalSyncActive' = TRUE
              /\ control' = Append(control, m)
      BY <1>3 DEF EvalSync, MayCall
  <2>2. node.st = "free"
      BY <2>1 DEF Free
  <2>3. \A i \in 1..Len(control) : control[i].t # "evalSync"
      BY <2>2 DEF SyncInv
  <2>4. worker.msg.t # "evalSync" /\ syncReply = "none"
      BY <2>2 DEF SyncInv
  <2> HIDE DEF m
  <2>5. CASE control' = control
      BY <2>1, <2>2, <2>3, <2>4, <2>5 DEF SyncInv
  <2>6. CASE node' = [st |-> "awaiting", msg |-> m] /\ evalSyncActive' = TRUE /\ control' = Append(control, m)
    <3>1. \A i \in 1..Len(control') : control'[i].t = "evalSync" => control'[i] = m
        BY <1>0, <2>3, <2>6
    <3>2. QED
        BY <2>1, <2>4, <2>6, <3>1 DEF SyncInv
  <2>7. QED
      BY <2>1, <2>5, <2>6
<1>4. CASE ControlUnblocks
  <2>1. /\ node.st = "queueing" /\ syncReply' = syncReply /\ worker' = worker
        /\ \/ /\ control' = Append(control, node.msg) /\ evalSyncActive' = evalSyncActive
              /\ node' = IF node.msg.t = "evalSync" THEN [node EXCEPT !.st = "awaiting"] ELSE Free
           \/ node' = Free /\ control' = control
      BY <1>4 DEF ControlUnblocks
  <2>2. \A i \in 1..Len(control) : control[i].t # "evalSync"
      BY <2>1 DEF SyncInv
  <2>3. worker.msg.t # "evalSync" /\ syncReply = "none"
      BY <2>1 DEF SyncInv
  <2>4. node = [st |-> node.st, msg |-> node.msg]
      BY ThreadFacts
  <2>5. CASE node' = Free /\ control' = control
      BY <2>1, <2>2, <2>3, <2>5 DEF SyncInv, Free
  <2>6. CASE node.msg.t # "evalSync" /\ node' = Free /\ control' = Append(control, node.msg)
    <3>1. \A i \in 1..Len(control') : control'[i].t # "evalSync"
        BY <1>0, <2>2, <2>6
    <3>2. QED
        BY <2>1, <2>3, <2>6, <3>1 DEF SyncInv, Free
  <2>7. CASE /\ node.msg.t = "evalSync" /\ node' = [node EXCEPT !.st = "awaiting"]
             /\ control' = Append(control, node.msg) /\ evalSyncActive' = evalSyncActive
    <3>1. evalSyncActive
        BY <2>1, <2>7 DEF SyncInv
    <3>2. node'.st = "awaiting" /\ node'.msg = node.msg
        BY <2>4, <2>7
    <3>3. \A i \in 1..Len(control') : control'[i].t = "evalSync" => control'[i] = node.msg
        BY <1>0, <2>2, <2>7
    <3>4. QED
        BY <2>1, <2>3, <2>7, <3>1, <3>2, <3>3 DEF SyncInv
  <2>8. QED
      BY <2>1, <2>5, <2>6, <2>7
<1>5. CASE EvalSyncReturns
  <2>1. /\ syncReply # "none" /\ syncReply' = "none" /\ node' = Free /\ control' = control
        /\ worker' = worker
      BY <1>5 DEF EvalSyncReturns
  <2>2. QED
      BY <2>1 DEF SyncInv, Free
<1>6. CASE PostMessage \/ PostUnblocks
  <2>1. /\ evalSyncActive' = evalSyncActive /\ control' = control /\ worker' = worker
        /\ syncReply' = syncReply
        /\ node' = node \/ node' = Free \/ node' = [st |-> "queueing", msg |-> Msg("post", 0)]
        /\ node = Free \/ node = [st |-> "queueing", msg |-> Msg("post", 0)]
      BY <1>6 DEF PostMessage, PostUnblocks, MayCall, tableVars
  <2>2. QED
      BY <2>1 DEF SyncInv, Free, Msg
<1>7. CASE Boot \/ StartupFails \/ Join
  <2>1. node' = node /\ evalSyncActive' = evalSyncActive /\ worker.msg.t # "evalSync"
      BY <1>7, ThreadFacts, MsgTypes DEF Boot, StartupFails, Join, tableVars
  <2>2. CASE ThreadEnds
    <3>1. control' = <<>> /\ worker'.msg = Nothing
        BY <2>2 DEF ThreadEnds, Rest
    <3>2. \/ syncReply' = syncReply
          \/ \E i \in 1..Len(control) : control[i].t = "evalSync"
      <4>1. DOMAIN control = 1..Len(control)
          BY <1>0
      <4>2. QED
          BY <2>2, <4>1 DEF ThreadEnds
    <3>3. syncReply' # "none" => node.st = "awaiting"
      <4>1. CASE \E i \in 1..Len(control) : control[i].t = "evalSync"
          BY <4>1 DEF SyncInv
      <4>2. CASE syncReply' = syncReply
          BY <4>2 DEF SyncInv
      <4>3. QED
          BY <3>2, <4>1, <4>2
    <3>4. QED
        BY <2>1, <3>1, <3>3, MsgTypes DEF SyncInv
  <2>3. CASE /\ syncReply' = syncReply /\ control' = control
             /\ worker' = [worker EXCEPT !.pc = "startup", !.waits = TRUE]
    <3>1. worker'.msg = worker.msg
        BY <2>3, ThreadFacts
    <3>2. QED
        BY <2>1, <2>3, <3>1, SyncUnmoved
  <2>4. QED
      BY <1>7, <2>2, <2>3 DEF Boot, StartupFails, Join
<1>8. CASE TakeControl
  <2>1. /\ control # <<>> /\ control' = Tail(control) /\ node' = node
        /\ evalSyncActive' = evalSyncActive /\ syncReply' = syncReply
        /\ worker' = [worker EXCEPT !.pc = "drain", !.msg = Head(control), !.left = DrainMax]
      BY <1>8 DEF TakeControl, tableVars, requestVars
  <2>2. worker'.msg = control[1]
      BY <1>0, <2>1, ThreadFacts
  <2>3. 1 \in 1..Len(control) /\ \A i \in 1..Len(control') : control'[i] = control[i + 1] /\ i + 1 \in 1..Len(control)
      BY <1>0, <2>1
  <2>4. QED
      BY <2>1, <2>2, <2>3 DEF SyncInv
<1>9. CASE EvalEnds
  <2>1. /\ control' = control /\ node' = node /\ evalSyncActive' = evalSyncActive
        /\ IF worker.msg.t = "evalSync"
           THEN syncReply' = "sent" /\ worker' = Rest
           ELSE syncReply' = syncReply /\ worker' = [worker EXCEPT !.pc = "reply"]
      BY <1>9 DEF EvalEnds, tableVars, Goto
  <2>2. CASE worker.msg.t # "evalSync"
    <3>1. worker'.msg = worker.msg
        BY <2>1, <2>2, ThreadFacts
    <3>2. QED
        BY <2>1, <2>2, <3>1, SyncUnmoved
  <2>3. CASE worker.msg.t = "evalSync"
    <3>1. worker.msg.id \in Requests /\ node.st = "awaiting" /\ evalSyncActive /\ node.msg = worker.msg
        BY <1>9, <2>3, HeldRequests DEF SyncInv, EvalEnds
    <3>2. \A i \in 1..Len(control) : control[i].id # worker.msg.id
        BY <3>1, OneOwner
    <3>3. \A i \in 1..Len(control) : control[i].t # "evalSync"
        BY <3>1, <3>2 DEF SyncInv
    <3>4. worker'.msg = Nothing
        BY <2>1, <2>3 DEF Rest
    <3>5. QED
        BY <2>1, <2>3, <3>1, <3>3, <3>4, MsgTypes DEF SyncInv
  <2>4. QED
      BY <2>2, <2>3
<1>10. CASE \/ StartupDone \/ Drain \/ DrainEnds \/ Disconnect \/ HandleEval \/ HandleMemory
            \/ HandleGc \/ HandleClose \/ EmitClose \/ Reply \/ SendNodeMsgOrReject \/ Stop
  <2>1. node' = node /\ evalSyncActive' = evalSyncActive /\ syncReply' = syncReply /\ control' = control
      BY <1>10 DEF StartupDone, Drain, DrainEnds, Disconnect, HandleEval, HandleMemory, HandleGc,
         HandleClose, EmitClose, Reply, SendNodeMsgOrReject, Stop, tableVars, requestVars
  <2>2. worker'.msg = worker.msg \/ worker'.msg = Nothing
    <3>1. worker = [pc |-> worker.pc, msg |-> worker.msg, left |-> worker.left, waits |-> worker.waits]
        BY ThreadFacts
    <3>2. CASE StartupDone \/ HandleGc \/ HandleClose \/ SendNodeMsgOrReject \/ Reply
        BY <3>1, <3>2 DEF StartupDone, HandleGc, HandleClose, SendNodeMsgOrReject, Reply, Rest, Goto
    <3>3. CASE \/ Drain \/ DrainEnds \/ Disconnect \/ HandleEval \/ HandleMemory \/ EmitClose \/ Stop
        BY <3>1, <3>3 DEF Drain, DrainEnds, Disconnect, HandleEval, HandleMemory, EmitClose, Stop, Goto
    <3>4. QED
        BY <1>10, <3>2, <3>3
  <2>3. QED
      BY <2>1, <2>2, SyncUnmoved
<1>11. QED
    BY <1>1, <1>2, <1>3, <1>4, <1>5, <1>6, <1>7, <1>8, <1>9, <1>10, SyncSteps

\* A step that moves no request from one owner to another keeps every request's owner.
LEMMA OwnersUnmoved ==
    ASSUME NativeRuntimeTypeOK, NEW q \in Requests, OwnedOnce(q),
           control' = control,
           nodeCh' = nodeCh \/ \E m \in NodeMsgs : m.t # "resolve" /\ nodeCh' = Append(nodeCh, m),
           js' = js \/ \E m \in Tasks : m.t \notin {"resolve", "reject"} /\ js' = Append(js, m),
           worker'.msg.id = worker.msg.id, AtNode(q)' = AtNode(q), AtReply(q)' = AtReply(q),
           promise' = promise
    PROVE  OwnedOnce(q)'
<1>1. InControl(q)' = InControl(q)
    BY PartsAre
<1>2. InNodeCh(q)' = InNodeCh(q)
  <2>1. CASE nodeCh' = nodeCh
      BY <2>1, PartsAre
  <2>2. ASSUME NEW m \in NodeMsgs, m.t # "resolve", nodeCh' = Append(nodeCh, m)
        PROVE  InNodeCh(q)' = InNodeCh(q)
      BY <2>2, PartsAre, PartsChange
  <2>3. QED
      BY <2>1, <2>2
<1>3. InJs(q)' = InJs(q)
  <2>1. CASE js' = js
      BY <2>1, PartsAre
  <2>2. ASSUME NEW m \in Tasks, m.t \notin {"resolve", "reject"}, js' = Append(js, m)
        PROVE  InJs(q)' = InJs(q)
      BY <2>2, PartsAre, PartsChange
  <2>3. QED
      BY <2>1, <2>2
<1>4. AtWorker(q)' = AtWorker(q)
    BY DEF AtWorker
<1>5. QED
    BY <1>1, <1>2, <1>3, <1>4 DEF OwnedOnce

\* What the end of the worker thread makes of the channels: every request that waits
\* in one of them is rejected, an evalSync by its reply.
LEMMA OwnersAtEnd ==
    ASSUME NativeRuntimeTypeOK, PendingHasOneOwner, SyncInv, NEW q \in Requests,
           ThreadEnds, node' = node, promise' = promise, worker.msg = Nothing
    PROVE  OwnedOnce(q)'
<1> DEFINE rc == Rejections(control, Awaited)
           rn == Rejections(nodeCh, {"resolve"})
           A == {m \in ControlMsgs : m.t \in Awaited /\ m.id = q}
           E == {Msg("evalSync", q)}
           R == {m \in NodeMsgs : m.t \in {"resolve"} /\ m.id = q}
<1>1. control \in Seq(ControlMsgs) /\ nodeCh \in Seq(NodeMsgs) /\ js \in Seq(Tasks)
    BY DEF NativeRuntimeTypeOK
<1>2. /\ \A m \in ControlMsgs : m.t \in Awaited => m.id \in Requests
      /\ \A m \in NodeMsgs : m.t \in {"resolve"} => m.id \in Requests
    BY MsgIds, MsgTypes
<1>3. /\ rc \in Seq(Tasks) /\ rn \in Seq(Tasks)
      /\ Count(rc, TasksOf(q)) = Count(control, A)
      /\ Count(rn, TasksOf(q)) = Count(nodeCh, R)
  <2>1. Count(rc, TasksOf(q)) = Count(control, A)
    <3>1. PICK type : type = Awaited
        OBVIOUS
    <3>2. Count(Rejections(control, type), TasksOf(q)) = Count(control, {m \in ControlMsgs : m.t \in type /\ m.id = q})
      <4>1. \A m \in ControlMsgs : m.t \in type => m.id \in Requests
          BY <1>2, <3>1
      <4>2. control \in Seq(ControlMsgs)
          BY <1>1
      <4>3. QED
          BY <4>1, <4>2, RejectionsCount DEF TasksOf
    <3>3. QED
        BY <3>1, <3>2, Zenon
  <2>2. Count(rn, TasksOf(q)) = Count(nodeCh, R)
    <3>1. PICK type : type = {"resolve"}
        OBVIOUS
    <3>2. Count(Rejections(nodeCh, type), TasksOf(q)) = Count(nodeCh, {m \in NodeMsgs : m.t \in type /\ m.id = q})
      <4>1. \A m \in NodeMsgs : m.t \in type => m.id \in Requests
          BY <1>2, <3>1
      <4>2. nodeCh \in Seq(NodeMsgs)
          BY <1>1
      <4>3. QED
          BY <4>1, <4>2, RejectionsCount DEF TasksOf
    <3>3. QED
        BY <3>1, <3>2, Zenon
  <2>3. QED
      BY <2>1, <2>2, EndTasks
<1>4. R = ResultOf(q)
  <2>1. \A m \in NodeMsgs : m.t = "resolve" => m = Msg(m.t, m.id)
      BY MsgIds, MsgTypes
  <2>2. Msg("resolve", q) \in NodeMsgs
      BY MsgTypes
  <2>3. QED
      BY <2>1, <2>2 DEF ResultOf, Msg
<1>5. ControlOf(q) = A \cup E /\ A \cap E = {}
  <2>1. A \subseteq ControlOf(q) /\ E \subseteq ControlOf(q) /\ A \cap E = {}
      BY DEF ControlOf, ControlMsgs, Msg, Awaited
  <2>2. ASSUME NEW m \in ControlOf(q) PROVE m \in A \cup E
    <3>1. m.id = q /\ m.t \in Awaited \cup {"evalSync"} /\ m = Msg(m.t, m.id) /\ m \in ControlMsgs
        BY <2>2 DEF ControlOf, ControlMsgs, Msg
    <3>2. QED
        BY <3>1
  <2>3. QED
      BY <2>1, <2>2
<1>6. js' = js \o rc \o rn /\ control' = <<>> /\ nodeCh' = <<>> /\ worker'.msg = Nothing
    BY DEF ThreadEnds, Rest
<1>7. InControl(q) = Count(control, A) + Count(control, E)
    BY <1>1, <1>5, CountUnion DEF InControl
<1>8. InNodeCh(q) = Count(nodeCh, R)
    BY <1>4 DEF InNodeCh
<1> HIDE DEF rc, rn, A, E, R
<1>9. InJs(q)' = InJs(q) + Count(control, A) + Count(nodeCh, R)
  <2> DEFINE jc == js \o rc
  <2>1. jc \in Seq(Tasks)
      BY <1>1, <1>3
  <2>2. Count(jc, TasksOf(q)) = Count(js, TasksOf(q)) + Count(rc, TasksOf(q))
      BY <1>1, <1>3, CountConcat
  <2>3. js' = jc \o rn
      BY <1>6
  <2> HIDE DEF jc
  <2>4. Count(jc \o rn, TasksOf(q)) = Count(jc, TasksOf(q)) + Count(rn, TasksOf(q))
      BY <1>3, <2>1, CountConcat
  <2>5. QED
      BY <1>3, <2>2, <2>3, <2>4, PartsAre
<1>10. InControl(q)' = 0 /\ InNodeCh(q)' = 0
    BY <1>6, CountNone, PartsAre
<1>11. AtWorker(q)' = 0 /\ AtWorker(q) = 0 /\ AtNode(q)' = AtNode(q)
  <2>1. Nothing.id # q
      BY MsgTypes, ZeroIsNoRequest
  <2>2. QED
      BY <1>6, <2>1 DEF AtWorker, AtNode
<1>12. /\ Count(control, A) \in Nat /\ Count(control, E) \in Nat /\ Count(nodeCh, R) \in Nat
       /\ InJs(q) \in Nat
    BY <1>1, CountType, PartsChange
<1>13. AtReply(q)' = AtReply(q) + Count(control, E)
  <2>1. DOMAIN control = 1..Len(control) /\ \A i \in 1..Len(control) : control[i] \in ControlMsgs
      BY <1>1
  <2>2. Count(control, E) = 0 <=> \A i \in 1..Len(control) : control[i] # Msg("evalSync", q)
      BY <1>1, CountZero DEF E
  <2>3. CASE Count(control, E) = 0
    <3>1. CASE \A i \in 1..Len(control) : control[i].t # "evalSync"
      <4>1. syncReply' = syncReply
          BY <2>1, <3>1 DEF ThreadEnds
      <4>2. QED
          BY <2>3, <4>1 DEF AtReply
    <3>2. ASSUME NEW i \in 1..Len(control), control[i].t = "evalSync" PROVE AtReply(q)' = AtReply(q)
      <4>1. node.msg = control[i] /\ control[i] = Msg("evalSync", control[i].id)
          BY <2>1, <3>2, MsgIds DEF SyncInv
      <4>2. node.msg.id # q
          BY <2>2, <2>3, <4>1
      <4>3. QED
          BY <4>2 DEF AtReply
    <3>3. QED
        BY <2>3, <1>12, <3>1, <3>2 DEF AtReply
  <2>4. CASE Count(control, E) # 0
    <3>1. PICK i \in 1..Len(control) : control[i] = Msg("evalSync", q)
        BY <2>2, <2>4
    <3>2. node.st = "awaiting" /\ node.msg.id = q /\ syncReply = "none"
        BY <3>1 DEF SyncInv, Msg
    <3>3. syncReply' = "dropped"
        BY <2>1, <3>1 DEF ThreadEnds, Msg
    <3>4. AtReply(q) = 0 /\ AtReply(q)' = 1
        BY <3>2, <3>3 DEF AtReply
    <3>5. Count(control, E) = 1
      <4>1. OwnedOnce(q) /\ InNodeCh(q) \in Nat /\ AtNode(q) \in {0, 1}
          BY OwnerIs, PartsChange DEF AtNode
      <4>2. QED
          BY <1>7, <1>11, <1>12, <2>4, <3>4, <4>1 DEF OwnedOnce
    <3>6. QED
        BY <3>4, <3>5
  <2>5. QED
      BY <2>3, <2>4
<1>14. OwnedOnce(q) /\ AtNode(q) \in {0, 1} /\ AtReply(q) \in {0, 1}
    BY OwnerIs DEF AtNode, AtReply
<1>15. QED
    BY <1>7, <1>8, <1>9, <1>10, <1>11, <1>12, <1>13, <1>14 DEF OwnedOnce

LEMMA OwnerSteps ==
    Next =>
      \/ UNCHANGED <<control, nodeCh, js, worker, node, syncReply, promise>>
      \/ \E op \in Awaited, r \in Requests : QueueDenoMsgOrReject(op, r)
      \/ \E r \in Requests : EvalSync(r)
      \/ \E c \in Calls : AsyncSent(c)
      \/ ControlUnblocks \/ EvalSyncReturns \/ PostMessage \/ PostUnblocks \/ Boot
      \/ StartupDone \/ StartupFails \/ TakeControl \/ Drain \/ DrainEnds \/ Disconnect
      \/ HandleEval \/ HandleMemory \/ HandleGc \/ HandleClose \/ EmitClose \/ EvalEnds
      \/ Reply \/ SendNodeMsgOrReject \/ Stop \/ Join \/ Dispatch \/ PumpReceives
      \/ PumpDrains \/ RunTask
BY Zenon
DEF Next, Application, NodeThread, WorkerThread, WorkerCode, Pump, Eval, Memory, Gc, Close,
    Awaited, PostStreamFrame, ForceDispose, TakeData, HostCall, OpStarts, CallTimesOut, PostToNode,
    PostToNodeTimesOut, PumpChecks, HostSettles, requestVars

LEMMA OwnerInit == Init => PendingHasOneOwner
<1> SUFFICES ASSUME Init, NEW q \in Requests PROVE OwnedOnce(q)
    BY OwnerIs
<1>1. control = <<>> /\ nodeCh = <<>> /\ js = <<>> /\ promise[q] = "none"
    BY DEF Init
<1>2. InControl(q) = 0 /\ InNodeCh(q) = 0 /\ InJs(q) = 0
    BY <1>1, CountNone DEF InControl, InNodeCh, InJs
<1>3. AtWorker(q) = 0 /\ AtNode(q) = 0 /\ AtReply(q) = 0
    BY MsgTypes, ZeroIsNoRequest DEF Init, AtWorker, AtNode, AtReply, Free
<1>4. QED
    BY <1>1, <1>2, <1>3 DEF OwnedOnce

LEMMA OwnerStep ==
    ASSUME NativeRuntimeTypeOK, PendingHasOneOwner, SyncInv, Next, NEW q \in Requests
    PROVE  OwnedOnce(q)'
<1>0. /\ OwnedOnce(q) /\ q # 0
      /\ InControl(q) \in Nat /\ InNodeCh(q) \in Nat /\ InJs(q) \in Nat
    BY OwnerIs, PartsChange, ZeroIsNoRequest
<1>1. /\ worker = [pc |-> worker.pc, msg |-> worker.msg, left |-> worker.left, waits |-> worker.waits]
      /\ node = [st |-> node.st, msg |-> node.msg] /\ Nothing.id = 0
    BY ThreadFacts, MsgTypes
<1>2. promise \in [Requests -> {"none", "pending", "fulfilled", "rejected"}]
    BY DEF NativeRuntimeTypeOK
<1>3. CASE UNCHANGED <<control, nodeCh, js, worker, node, syncReply, promise>>
    BY <1>0, <1>3, OwnersUnmoved DEF AtNode, AtReply
\* The application makes a request.
<1>4. ASSUME NEW op \in Awaited, NEW r \in Requests, QueueDenoMsgOrReject(op, r) PROVE OwnedOnce(q)'
  <2>1. /\ node = Free /\ promise[r] = "none" /\ promise' = [promise EXCEPT ![r] = "pending"]
        /\ nodeCh' = nodeCh /\ worker' = worker /\ syncReply' = syncReply
        /\ \/ control' = Append(control, Msg(op, r)) /\ node' = node /\ js' = js
           \/ control' = control /\ node' = [st |-> "queueing", msg |-> Msg(op, r)] /\ js' = js
           \/ control' = control /\ node' = node /\ js' = Append(js, Msg("reject", r))
      BY <1>4 DEF QueueDenoMsgOrReject, MayCall, Settle
  <2>2. /\ Msg(op, r) \in ControlMsgs /\ Msg(op, r).id = r
        /\ Msg("reject", r) \in Tasks /\ Msg("reject", r).t = "reject" /\ Msg("reject", r).id = r
      BY MsgTypes DEF Msg
  <2>3. node.st = "free" /\ AtNode(q) = 0 /\ AtReply(q) = 0
      BY <2>1 DEF Free, AtNode, AtReply
  <2>4. InNodeCh(q)' = InNodeCh(q) /\ AtWorker(q)' = AtWorker(q) /\ AtReply(q)' = 0
      BY <2>1, <2>3, PartsAre DEF AtWorker, AtReply
  <2>5. AtWorker(q) \in Nat
      BY DEF AtWorker
  <2>6. InControl(q)' + InJs(q)' + AtNode(q)' = InControl(q) + InJs(q) + (IF q = r THEN 1 ELSE 0)
    <3>1. CASE control' = Append(control, Msg(op, r)) /\ node' = node /\ js' = js
      <4>1. /\ InControl(q)' = InControl(q) + (IF q = r THEN 1 ELSE 0)
            /\ InJs(q)' = InJs(q)
          BY <2>2, <3>1, PartsAre, PartsChange
      <4>2. AtNode(q)' = 0
          BY <2>3, <3>1 DEF AtNode
      <4>3. QED
          BY <1>0, <4>1, <4>2
    <3>2. CASE control' = control /\ node' = [st |-> "queueing", msg |-> Msg(op, r)] /\ js' = js
      <4>1. InControl(q)' = InControl(q) /\ InJs(q)' = InJs(q)
          BY <3>2, PartsAre
      <4>2. AtNode(q)' = IF q = r THEN 1 ELSE 0
          BY <2>2, <3>2 DEF AtNode
      <4>3. QED
          BY <1>0, <4>1, <4>2
    <3>3. CASE control' = control /\ node' = node /\ js' = Append(js, Msg("reject", r))
      <4>1. /\ InJs(q)' = InJs(q) + (IF q = r THEN 1 ELSE 0)
            /\ InControl(q)' = InControl(q)
          BY <2>2, <3>3, PartsAre, PartsChange
      <4>2. AtNode(q)' = 0
          BY <2>3, <3>3 DEF AtNode
      <4>3. QED
          BY <1>0, <4>1, <4>2
    <3>4. QED
        BY <2>1, <3>1, <3>2, <3>3
  <2>7. InControl(q)' \in Nat /\ InJs(q)' \in Nat /\ AtNode(q)' \in Nat
    <3>1. control' \in Seq(ControlMsgs) /\ js' \in Seq(Tasks)
        BY ControlKeeps, JsKeeps DEF ControlOK, JsOK
    <3>2. QED
        BY <3>1, PartsAre, CountType DEF AtNode
  <2>8. promise'[q] = IF q = r THEN "pending" ELSE promise[q]
      BY <1>2, <2>1
  <2>9. CASE q = r
    <3>1. InControl(q) + InNodeCh(q) + InJs(q) + AtWorker(q) = 0
        BY <1>0, <2>1, <2>3, <2>5, <2>9 DEF OwnedOnce
    <3>2. promise'[q] = "pending"
        BY <2>8, <2>9
    <3>3. InNodeCh(q) = 0 /\ AtWorker(q) = 0 /\ InControl(q) + InJs(q) = 0
        BY <1>0, <2>5, <3>1
    <3>4. InControl(q)' + InJs(q)' + AtNode(q)' = 1
        BY <1>0, <2>6, <2>9, <3>3
    <3>5. QED
        BY <2>4, <2>7, <3>2, <3>3, <3>4 DEF OwnedOnce
  <2>10. CASE q # r
      BY <1>0, <2>3, <2>4, <2>5, <2>6, <2>7, <2>8, <2>10 DEF OwnedOnce
  <2>11. QED
      BY <2>9, <2>10
<1>5. ASSUME NEW r \in Requests, EvalSync(r) PROVE OwnedOnce(q)'
  <2> DEFINE m == Msg("evalSync", r)
  <2>1. /\ node = Free /\ promise[r] = "none" /\ nodeCh' = nodeCh /\ js' = js
        /\ worker' = worker /\ syncReply' = syncReply
        /\ \/ /\ promise' = [promise EXCEPT ![r] = "rejected"] /\ control' = control /\ node' = node
           \/ /\ promise' = [promise EXCEPT ![r] = "pending"]
              /\ control' = Append(control, m) /\ node' = [st |-> "awaiting", msg |-> m]
           \/ /\ promise' = [promise EXCEPT ![r] = "pending"]
              /\ control' = control /\ node' = [st |-> "queueing", msg |-> m]
      BY <1>5 DEF EvalSync, MayCall, Settle
  <2>2. m \in ControlMsgs /\ m.id = r
      BY MsgTypes DEF Msg
  <2> HIDE DEF m
  <2>3. node.st = "free" /\ syncReply = "none" /\ AtNode(q) = 0 /\ AtReply(q) = 0
      BY <2>1 DEF Free, AtNode, AtReply, SyncInv
  <2>4. /\ InNodeCh(q)' = InNodeCh(q) /\ InJs(q)' = InJs(q) /\ AtWorker(q)' = AtWorker(q)
        /\ AtReply(q)' = 0 /\ AtWorker(q) \in Nat
      BY <2>1, <2>3, PartsAre DEF AtWorker, AtReply
  <2>5. CASE promise' = [promise EXCEPT ![r] = "rejected"] /\ control' = control /\ node' = node
    <3>1. InControl(q)' = InControl(q) /\ AtNode(q)' = 0
        BY <2>3, <2>5, PartsAre DEF AtNode
    <3>2. promise'[q] = "pending" <=> promise[q] = "pending"
        BY <1>2, <2>1, <2>5
    <3>3. QED
        BY <1>0, <2>3, <2>4, <3>1, <3>2 DEF OwnedOnce
  <2>6. CASE /\ promise' = [promise EXCEPT ![r] = "pending"]
             /\ control' = Append(control, m) /\ node' = [st |-> "awaiting", msg |-> m]
    <3>1. InControl(q)' = InControl(q) + (IF q = r THEN 1 ELSE 0) /\ AtNode(q)' = 0
        BY <2>2, <2>6, PartsAre, PartsChange DEF AtNode
    <3>2. promise'[q] = IF q = r THEN "pending" ELSE promise[q]
        BY <1>2, <2>6
    <3>3. CASE q = r
      <4>1. InControl(q) + InNodeCh(q) + InJs(q) + AtWorker(q) = 0
          BY <1>0, <2>1, <2>3, <2>4, <3>3 DEF OwnedOnce
      <4>2. promise'[q] = "pending"
          BY <3>2, <3>3
      <4>3. QED
          BY <1>0, <2>4, <3>1, <3>3, <4>1, <4>2 DEF OwnedOnce
    <3>4. CASE q # r
        BY <1>0, <2>3, <2>4, <3>1, <3>2, <3>4 DEF OwnedOnce
    <3>5. QED
        BY <3>3, <3>4
  <2>7. CASE /\ promise' = [promise EXCEPT ![r] = "pending"]
             /\ control' = control /\ node' = [st |-> "queueing", msg |-> m]
    <3>1. InControl(q)' = InControl(q) /\ AtNode(q)' = IF q = r THEN 1 ELSE 0
        BY <2>2, <2>7, PartsAre DEF AtNode
    <3>2. promise'[q] = IF q = r THEN "pending" ELSE promise[q]
        BY <1>2, <2>7
    <3>3. CASE q = r
      <4>1. InControl(q) + InNodeCh(q) + InJs(q) + AtWorker(q) = 0
          BY <1>0, <2>1, <2>3, <2>4, <3>3 DEF OwnedOnce
      <4>2. promise'[q] = "pending"
          BY <3>2, <3>3
      <4>3. QED
          BY <1>0, <2>4, <3>1, <3>3, <4>1, <4>2 DEF OwnedOnce
    <3>4. CASE q # r
        BY <1>0, <2>3, <2>4, <3>1, <3>2, <3>4 DEF OwnedOnce
    <3>5. QED
        BY <3>3, <3>4
  <2>8. QED
      BY <2>1, <2>5, <2>6, <2>7
<1>6. CASE ControlUnblocks
  <2> DEFINE m == node.msg
  <2>1. /\ node.st = "queueing" /\ m \in ControlMsgs /\ m.id \in Requests
        /\ nodeCh' = nodeCh /\ worker' = worker /\ syncReply' = syncReply
        /\ \/ /\ control' = Append(control, m) /\ js' = js /\ promise' = promise
              /\ node' = IF m.t = "evalSync" THEN [node EXCEPT !.st = "awaiting"] ELSE Free
           \/ /\ control' = control /\ js' = js /\ promise' = [promise EXCEPT ![m.id] = "rejected"]
              /\ node' = Free
           \/ /\ control' = control /\ js' = Append(js, Msg("reject", m.id)) /\ promise' = promise
              /\ node' = Free
      BY <1>6, HeldRequests DEF ControlUnblocks, Settle
  <2>2. [node EXCEPT !.st = "awaiting"] = [st |-> "awaiting", msg |-> m]
      BY <1>1
  <2> HIDE DEF m
  <2>3. syncReply = "none" /\ AtReply(q) = 0 /\ AtNode(q) = (IF q = m.id THEN 1 ELSE 0)
      BY <2>1 DEF AtNode, AtReply, SyncInv, m
  <2>4. node'.st \in {"awaiting", "free"}
      BY <2>1, <2>2 DEF Free
  <2>5. /\ InNodeCh(q)' = InNodeCh(q) /\ AtWorker(q)' = AtWorker(q) /\ AtReply(q)' = 0
        /\ AtNode(q)' = 0 /\ AtWorker(q) \in Nat
      BY <2>1, <2>3, <2>4, PartsAre DEF AtNode, AtReply, AtWorker
  <2>6. CASE control' = Append(control, m) /\ js' = js /\ promise' = promise
    <3>1. InControl(q)' = InControl(q) + (IF q = m.id THEN 1 ELSE 0) /\ InJs(q)' = InJs(q)
        BY <2>1, <2>6, PartsAre, PartsChange
    <3>2. QED
        BY <1>0, <2>3, <2>5, <2>6, <3>1 DEF OwnedOnce
  <2>7. CASE control' = control /\ js' = js /\ promise' = [promise EXCEPT ![m.id] = "rejected"]
    <3>1. InControl(q)' = InControl(q) /\ InJs(q)' = InJs(q)
        BY <2>7, PartsAre
    <3>2. promise'[q] = IF q = m.id THEN "rejected" ELSE promise[q]
        BY <1>2, <2>7
    <3>3. QED
        BY <1>0, <2>3, <2>5, <3>1, <3>2 DEF OwnedOnce
  <2>8. CASE control' = control /\ js' = Append(js, Msg("reject", m.id)) /\ promise' = promise
    <3>1. Msg("reject", m.id) \in Tasks /\ Msg("reject", m.id).t = "reject" /\ Msg("reject", m.id).id = m.id
        BY <2>1, MsgTypes DEF Msg
    <3>2. InControl(q)' = InControl(q) /\ InJs(q)' = InJs(q) + (IF q = m.id THEN 1 ELSE 0)
        BY <2>8, <3>1, PartsAre, PartsChange
    <3>3. QED
        BY <1>0, <2>3, <2>5, <2>8, <3>2 DEF OwnedOnce
  <2>9. QED
      BY <2>1, <2>6, <2>7, <2>8
<1>7. CASE EvalSyncReturns
  <2>1. /\ node.st = "awaiting" /\ syncReply # "none" /\ syncReply' = "none" /\ node' = Free
        /\ control' = control /\ nodeCh' = nodeCh /\ js' = js /\ worker' = worker
        /\ \E how \in {"fulfilled", "rejected"} : promise' = [promise EXCEPT ![node.msg.id] = how]
      BY <1>7 DEF EvalSyncReturns, Settle
  <2>2. /\ AtReply(q) = (IF q = node.msg.id THEN 1 ELSE 0) /\ AtNode(q) = 0
        /\ AtReply(q)' = 0 /\ AtNode(q)' = 0 /\ AtWorker(q)' = AtWorker(q) /\ AtWorker(q) \in Nat
      BY <2>1 DEF AtReply, AtNode, AtWorker, Free
  <2>3. InControl(q)' = InControl(q) /\ InNodeCh(q)' = InNodeCh(q) /\ InJs(q)' = InJs(q)
      BY <2>1, PartsAre
  <2>5. q # node.msg.id => promise'[q] = promise[q]
      BY <1>2, <2>1
  <2>6. q = node.msg.id => promise'[q] # "pending"
      BY <1>2, <2>1
  <2>7. QED
      BY <1>0, <2>2, <2>3, <2>5, <2>6 DEF OwnedOnce
<1>8. CASE PostMessage \/ PostUnblocks
  <2>1. /\ control' = control /\ nodeCh' = nodeCh /\ js' = js /\ worker' = worker /\ promise' = promise
        /\ syncReply' = syncReply
        /\ node' = node \/ node' = Free \/ node' = [st |-> "queueing", msg |-> Msg("post", 0)]
        /\ node = Free \/ node = [st |-> "queueing", msg |-> Msg("post", 0)]
      BY <1>8 DEF PostMessage, PostUnblocks, MayCall
  <2>2. AtNode(q) = 0 /\ AtNode(q)' = 0 /\ AtReply(q) = 0 /\ AtReply(q)' = 0
      BY <1>0, <2>1 DEF AtNode, AtReply, Free, Msg
  <2>3. QED
      BY <1>0, <2>1, <2>2, OwnersUnmoved
\* The worker thread takes a request and settles it.
<1>9. CASE Boot \/ StartupFails \/ Join
  <2>1. node' = node /\ promise' = promise /\ worker.msg = Nothing
      BY <1>9, ThreadFacts DEF Boot, StartupFails, Join
  <2>2. CASE ThreadEnds
      BY <2>1, <2>2, OwnersAtEnd
  <2>3. CASE /\ control' = control /\ nodeCh' = nodeCh /\ js' = js /\ syncReply' = syncReply
             /\ worker' = [worker EXCEPT !.pc = "startup", !.waits = TRUE]
    <3>1. worker'.msg.id = worker.msg.id
        BY <1>1, <2>3
    <3>2. AtNode(q)' = AtNode(q) /\ AtReply(q)' = AtReply(q)
        BY <2>1, <2>3 DEF AtNode, AtReply
    <3>3. QED
        BY <1>0, <2>1, <2>3, <3>1, <3>2, OwnersUnmoved
  <2>4. QED
      BY <1>9, <2>2, <2>3 DEF Boot, StartupFails, Join
<1>10. CASE TakeControl
  <2>1. /\ control # <<>> /\ control' = Tail(control) /\ worker.msg = Nothing
        /\ worker' = [worker EXCEPT !.pc = "drain", !.msg = Head(control), !.left = DrainMax]
        /\ nodeCh' = nodeCh /\ js' = js /\ node' = node /\ syncReply' = syncReply /\ promise' = promise
      BY <1>10, ThreadFacts DEF TakeControl, requestVars
  <2>2. worker'.msg = Head(control)
      BY <1>1, <2>1
  <2>3. InControl(q) = InControl(q)' + (IF Head(control).id = q THEN 1 ELSE 0)
      BY <2>1, PartsAre, PartsChange
  <2>4. /\ AtWorker(q) = 0 /\ AtWorker(q)' = (IF Head(control).id = q THEN 1 ELSE 0)
        /\ AtNode(q)' = AtNode(q) /\ AtReply(q)' = AtReply(q)
        /\ AtNode(q) \in Nat /\ AtReply(q) \in Nat
      BY <1>0, <1>1, <2>1, <2>2 DEF AtWorker, AtNode, AtReply
  <2>5. InNodeCh(q)' = InNodeCh(q) /\ InJs(q)' = InJs(q)
      BY <2>1, PartsAre
  <2>6. InControl(q)' \in Nat
    <3>1. control' \in Seq(ControlMsgs)
        BY ControlKeeps DEF ControlOK
    <3>2. QED
        BY <3>1, PartsAre, CountType
  <2>7. QED
      BY <1>0, <2>1, <2>3, <2>4, <2>5, <2>6 DEF OwnedOnce
<1>11. CASE HandleGc \/ HandleClose
  <2> DEFINE m == Msg("resolve", worker.msg.id)
  <2>1. /\ js' = Append(js, m) /\ m \in Tasks /\ m.t = "resolve" /\ m.id = worker.msg.id
        /\ worker'.msg = Nothing
        /\ control' = control /\ nodeCh' = nodeCh
        /\ node' = node /\ syncReply' = syncReply /\ promise' = promise
    <3>1. worker.msg.id \in Requests
        BY <1>11, HeldRequests DEF HandleGc, HandleClose
    <3>2. m \in Tasks /\ m.t = "resolve" /\ m.id = worker.msg.id
        BY <3>1, MsgTypes DEF Msg
    <3>3. QED
        BY <1>11, <3>2 DEF HandleGc, HandleClose, Rest, requestVars
  <2> HIDE DEF m
  <2>2. InJs(q)' = InJs(q) + AtWorker(q)
      BY <2>1, PartsAre, PartsChange DEF AtWorker
  <2>3. AtWorker(q)' = 0 /\ AtNode(q)' = AtNode(q) /\ AtReply(q)' = AtReply(q)
      BY <1>0, <1>1, <2>1 DEF AtWorker, AtNode, AtReply
  <2>4. AtWorker(q) \in Nat /\ AtNode(q) \in Nat /\ AtReply(q) \in Nat
      BY DEF AtWorker, AtNode, AtReply
  <2>5. InControl(q)' = InControl(q) /\ InNodeCh(q)' = InNodeCh(q)
      BY <2>1, PartsAre
  <2>6. QED
      BY <1>0, <2>1, <2>2, <2>3, <2>4, <2>5 DEF OwnedOnce
<1>12. CASE Reply
  <2>1. /\ control' = control /\ nodeCh' = nodeCh
        /\ node' = node /\ syncReply' = syncReply /\ promise' = promise
        /\ \/ worker' = [worker EXCEPT !.pc = "sending"] /\ js' = js
           \/ worker' = Rest /\ js' = Append(js, Msg("reject", worker.msg.id))
      BY <1>12 DEF Reply, Goto, requestVars
  <2>2. AtNode(q)' = AtNode(q) /\ AtReply(q)' = AtReply(q)
      BY <2>1 DEF AtNode, AtReply
  <2>3. CASE worker' = [worker EXCEPT !.pc = "sending"] /\ js' = js
    <3>1. worker'.msg.id = worker.msg.id
        BY <1>1, <2>3
    <3>2. QED
        BY <1>0, <2>1, <2>2, <2>3, <3>1, OwnersUnmoved
  <2>4. CASE worker' = Rest /\ js' = Append(js, Msg("reject", worker.msg.id))
    <3>1. worker.msg.id \in Requests
        BY <1>12, HeldRequests DEF Reply
    <3>2. /\ Msg("reject", worker.msg.id) \in Tasks /\ Msg("reject", worker.msg.id).t = "reject"
          /\ Msg("reject", worker.msg.id).id = worker.msg.id
        BY <3>1, MsgTypes DEF Msg
    <3>3. InJs(q)' = InJs(q) + AtWorker(q)
        BY <2>4, <3>2, PartsAre, PartsChange DEF AtWorker
    <3>4. AtWorker(q)' = 0
        BY <1>0, <1>1, <2>4 DEF AtWorker, Rest
    <3>5. AtWorker(q) \in Nat /\ AtNode(q) \in Nat /\ AtReply(q) \in Nat
        BY DEF AtWorker, AtNode, AtReply
    <3>6. InControl(q)' = InControl(q) /\ InNodeCh(q)' = InNodeCh(q)
        BY <2>1, PartsAre
    <3>7. QED
        BY <1>0, <2>1, <2>2, <3>3, <3>4, <3>5, <3>6 DEF OwnedOnce
  <2>5. QED
      BY <2>1, <2>3, <2>4
<1>13. CASE SendNodeMsgOrReject
  <2> DEFINE m == Msg("resolve", worker.msg.id)
  <2>1. /\ nodeCh' = Append(nodeCh, m) /\ m \in NodeMsgs /\ m.t = "resolve" /\ m.id = worker.msg.id
        /\ worker'.msg = Nothing
        /\ control' = control /\ js' = js
        /\ node' = node /\ syncReply' = syncReply /\ promise' = promise
    <3>1. worker.msg.id \in Requests
        BY <1>13, HeldRequests DEF SendNodeMsgOrReject
    <3>2. m \in NodeMsgs /\ m.t = "resolve" /\ m.id = worker.msg.id
        BY <3>1, MsgTypes DEF Msg
    <3>3. QED
        BY <1>13, <3>2 DEF SendNodeMsgOrReject, Rest, requestVars
  <2> HIDE DEF m
  <2>2. InNodeCh(q)' = InNodeCh(q) + AtWorker(q)
      BY <2>1, PartsAre, PartsChange DEF AtWorker
  <2>3. AtWorker(q)' = 0 /\ AtNode(q)' = AtNode(q) /\ AtReply(q)' = AtReply(q)
      BY <1>0, <1>1, <2>1 DEF AtWorker, AtNode, AtReply
  <2>4. AtWorker(q) \in Nat /\ AtNode(q) \in Nat /\ AtReply(q) \in Nat
      BY DEF AtWorker, AtNode, AtReply
  <2>5. InControl(q)' = InControl(q) /\ InJs(q)' = InJs(q)
      BY <2>1, PartsAre
  <2>6. QED
      BY <1>0, <2>1, <2>2, <2>3, <2>4, <2>5 DEF OwnedOnce
<1>14. CASE EvalEnds
  <2>1. /\ control' = control /\ nodeCh' = nodeCh /\ js' = js /\ node' = node /\ promise' = promise
        /\ IF worker.msg.t = "evalSync"
           THEN syncReply' = "sent" /\ worker' = Rest
           ELSE syncReply' = syncReply /\ worker' = [worker EXCEPT !.pc = "reply"]
      BY <1>14 DEF EvalEnds, Goto
  <2>2. CASE worker.msg.t # "evalSync"
    <3>1. worker'.msg.id = worker.msg.id
        BY <1>1, <2>1, <2>2
    <3>2. AtNode(q)' = AtNode(q) /\ AtReply(q)' = AtReply(q)
        BY <2>1, <2>2 DEF AtNode, AtReply
    <3>3. QED
        BY <1>0, <2>1, <3>1, <3>2, OwnersUnmoved
  <2>3. CASE worker.msg.t = "evalSync"
    <3>1. node.st = "awaiting" /\ node.msg = worker.msg /\ syncReply = "none"
        BY <2>3 DEF SyncInv
    <3>2. AtReply(q) = 0 /\ AtReply(q)' = AtWorker(q) /\ AtNode(q) = 0 /\ AtNode(q)' = 0
        BY <2>1, <2>3, <3>1 DEF AtReply, AtWorker, AtNode
    <3>3. AtWorker(q)' = 0 /\ AtWorker(q) \in Nat
        BY <1>0, <1>1, <2>1, <2>3 DEF AtWorker, Rest
    <3>4. InControl(q)' = InControl(q) /\ InNodeCh(q)' = InNodeCh(q) /\ InJs(q)' = InJs(q)
        BY <2>1, PartsAre
    <3>5. QED
        BY <1>0, <2>1, <3>2, <3>3, <3>4 DEF OwnedOnce
  <2>4. QED
      BY <2>2, <2>3
<1>15. CASE StartupDone \/ Drain \/ DrainEnds \/ Disconnect \/ HandleEval \/ HandleMemory \/ Stop
  <2>1. /\ control' = control /\ nodeCh' = nodeCh /\ js' = js
        /\ node' = node /\ syncReply' = syncReply /\ promise' = promise
      BY <1>15 DEF StartupDone, Drain, DrainEnds, Disconnect, HandleEval, HandleMemory, Stop,
         requestVars
  <2>2. worker'.msg.id = worker.msg.id
    <3>1. CASE StartupDone
        BY <3>1, ThreadFacts DEF StartupDone, Rest
    <3>2. CASE Drain \/ DrainEnds \/ Disconnect \/ HandleEval \/ HandleMemory \/ Stop
        BY <1>1, <3>2 DEF Drain, DrainEnds, Disconnect, HandleEval, HandleMemory, Stop, Goto
    <3>3. QED
        BY <1>15, <3>1, <3>2
  <2>3. AtNode(q)' = AtNode(q) /\ AtReply(q)' = AtReply(q)
      BY <2>1 DEF AtNode, AtReply
  <2>4. QED
      BY <1>0, <2>1, <2>2, <2>3, OwnersUnmoved
<1>16. CASE EmitClose
  <2>1. /\ control' = control /\ node' = node /\ syncReply' = syncReply /\ promise' = promise
        /\ nodeCh' = nodeCh \/ nodeCh' = Append(nodeCh, Msg("emitClose", 0))
        /\ js' = js \/ js' = Append(js, Msg("emitClose", 0))
      BY <1>16 DEF EmitClose, requestVars
  <2>2. worker'.msg.id = worker.msg.id
      BY <1>1, <1>16 DEF EmitClose, Goto
  <2>3. Msg("emitClose", 0) \in NodeMsgs /\ Msg("emitClose", 0) \in Tasks /\ Msg("emitClose", 0).t = "emitClose"
      BY MsgTypes DEF Msg
  <2>4. AtNode(q)' = AtNode(q) /\ AtReply(q)' = AtReply(q)
      BY <2>1 DEF AtNode, AtReply
  <2>5. QED
      BY <1>0, <2>1, <2>2, <2>3, <2>4, OwnersUnmoved
\* The messages of the worker's code settle nothing.
<1>17. ASSUME NEW c \in Calls, AsyncSent(c) PROVE OwnedOnce(q)'
  <2> DEFINE m == Msg(call[c].kind, c)
  <2>1. /\ control' = control /\ js' = js /\ worker' = worker /\ node' = node
        /\ syncReply' = syncReply /\ promise' = promise
        /\ nodeCh' = Append(nodeCh, m) /\ m \in NodeMsgs /\ m.t # "resolve"
      BY <1>17, MsgTypes DEF AsyncSent, requestVars, Msg
  <2> HIDE DEF m
  <2>2. AtNode(q)' = AtNode(q) /\ AtReply(q)' = AtReply(q)
      BY <2>1 DEF AtNode, AtReply
  <2>3. QED
      BY <1>0, <2>1, <2>2, OwnersUnmoved
<1>18. CASE Dispatch
  <2> DEFINE m == Head(dispatcher)
  <2>1. m \in NodeMsgs /\ m.t # "resolve"
    <3>1. m \in DispatchMsgs
        BY <1>18, OneLess DEF Dispatch, NativeRuntimeTypeOK
    <3>2. QED
        BY <3>1, MsgIds, MsgTypes
  <2>2. /\ control' = control /\ js' = js /\ worker' = worker /\ node' = node
        /\ syncReply' = syncReply /\ promise' = promise
        /\ nodeCh' = nodeCh \/ nodeCh' = Append(nodeCh, m)
      BY <1>18 DEF Dispatch, requestVars
  <2> HIDE DEF m
  <2>3. AtNode(q)' = AtNode(q) /\ AtReply(q)' = AtReply(q)
      BY <2>2 DEF AtNode, AtReply
  <2>4. QED
      BY <1>0, <2>1, <2>2, <2>3, OwnersUnmoved
\* The pump passes a result on, or a rejection for it.
<1>19. CASE PumpReceives \/ PumpDrains
  <2> DEFINE m == Head(nodeCh)
  <2>1. /\ control' = control /\ worker' = worker /\ node' = node
        /\ syncReply' = syncReply /\ promise' = promise
        /\ \/ nodeCh' = nodeCh /\ js' = js
           \/ /\ nodeCh # <<>> /\ nodeCh' = Tail(nodeCh)
              /\ \/ js' = Append(js, m)
                 \/ m.t = "resolve" /\ js' = Append(js, Msg("reject", m.id))
                 \/ m.t # "resolve" /\ js' = js
      BY <1>19 DEF PumpReceives, PumpDrains, DispatchNodeMsg, requestVars
  <2>2. /\ AtNode(q)' = AtNode(q) /\ AtReply(q)' = AtReply(q) /\ AtWorker(q)' = AtWorker(q)
        /\ AtNode(q) \in Nat /\ AtReply(q) \in Nat /\ AtWorker(q) \in Nat
      BY <2>1 DEF AtNode, AtReply, AtWorker
  <2>3. InControl(q)' = InControl(q)
      BY <2>1, PartsAre
  <2>4. CASE nodeCh' = nodeCh /\ js' = js
    <3>1. InNodeCh(q)' = InNodeCh(q) /\ InJs(q)' = InJs(q)
        BY <2>4, PartsAre
    <3>2. QED
        BY <1>0, <2>1, <2>2, <2>3, <3>1 DEF OwnedOnce
  <2>5. CASE /\ nodeCh # <<>> /\ nodeCh' = Tail(nodeCh)
             /\ \/ js' = Append(js, m)
                \/ m.t = "resolve" /\ js' = Append(js, Msg("reject", m.id))
                \/ m.t # "resolve" /\ js' = js
    <3>1. m \in NodeMsgs
        BY <2>5, OneLess DEF NativeRuntimeTypeOK
    <3>2. /\ m \in Tasks /\ m.t # "reject"
          /\ m.t = "resolve" => /\ Msg("reject", m.id) \in Tasks /\ Msg("reject", m.id).t = "reject"
                                /\ Msg("reject", m.id).id = m.id
        BY <3>1, MsgIds, MsgTypes DEF Msg
    <3> DEFINE mine == IF m.t = "resolve" /\ m.id = q THEN 1 ELSE 0
    <3>3. InNodeCh(q) = InNodeCh(q)' + mine
        BY <2>5, PartsAre, PartsChange
    <3> HIDE DEF m
    <3>4. InJs(q)' = InJs(q) + mine
      <4>1. CASE js' = Append(js, m)
          BY <3>2, <4>1, PartsAre, PartsChange
      <4>2. CASE m.t = "resolve" /\ js' = Append(js, Msg("reject", m.id))
          BY <3>2, <4>2, PartsAre, PartsChange
      <4>3. CASE m.t # "resolve" /\ js' = js
          BY <1>0, <4>3, PartsAre
      <4>4. QED
          BY <2>5, <4>1, <4>2, <4>3
    <3>5. InNodeCh(q)' \in Nat
      <4>1. nodeCh' \in Seq(NodeMsgs)
          BY NodeChKeeps DEF NodeChOK
      <4>2. QED
          BY <4>1, PartsAre, CountType
    <3>6. mine \in Nat
        OBVIOUS
    <3> HIDE DEF mine
    <3>7. QED
        BY <1>0, <2>1, <2>2, <2>3, <3>3, <3>4, <3>5, <3>6 DEF OwnedOnce
  <2>6. QED
      BY <2>1, <2>4, <2>5
<1>20. CASE RunTask
  <2> DEFINE m == Head(js)
  <2>1. /\ js # <<>> /\ js' = Tail(js) /\ control' = control /\ nodeCh' = nodeCh
        /\ worker' = worker /\ node' = node /\ syncReply' = syncReply
        /\ \/ /\ m.t \in {"resolve", "reject"}
              /\ promise' = [promise EXCEPT ![m.id] = IF m.t = "resolve" THEN "fulfilled" ELSE "rejected"]
           \/ m.t \notin {"resolve", "reject"} /\ promise' = promise
      BY <1>20 DEF RunTask, Settle
  <2> DEFINE mine == IF m.t \in {"resolve", "reject"} /\ m.id = q THEN 1 ELSE 0
  <2>2. InJs(q) = InJs(q)' + mine
      BY <2>1, PartsAre, PartsChange
  <2>3. /\ AtNode(q)' = AtNode(q) /\ AtReply(q)' = AtReply(q) /\ AtWorker(q)' = AtWorker(q)
        /\ AtNode(q) \in Nat /\ AtReply(q) \in Nat /\ AtWorker(q) \in Nat
      BY <2>1 DEF AtNode, AtReply, AtWorker
  <2>4. InControl(q)' = InControl(q) /\ InNodeCh(q)' = InNodeCh(q)
      BY <2>1, PartsAre
  <2>5. InJs(q)' \in Nat
    <3>1. js' \in Seq(Tasks)
        BY JsKeeps DEF JsOK
    <3>2. QED
        BY <3>1, PartsAre, CountType
  <2>6. CASE mine = 1
    <3>1. promise'[q] # "pending"
        BY <1>2, <2>1, <2>6
    <3> HIDE DEF mine
    <3>2. QED
        BY <1>0, <2>2, <2>3, <2>4, <2>5, <2>6, <3>1 DEF OwnedOnce
  <2>7. CASE mine = 0
    <3>1. promise'[q] = promise[q]
        BY <1>2, <2>1, <2>7
    <3> HIDE DEF mine
    <3>2. QED
        BY <1>0, <2>2, <2>3, <2>4, <2>5, <2>7, <3>1 DEF OwnedOnce
  <2>8. QED
      BY <2>6, <2>7
<1>21. QED
    BY <1>3, <1>4, <1>5, <1>6, <1>7, <1>8, <1>9, <1>10, <1>11, <1>12, <1>13, <1>14, <1>15, <1>16,
       <1>17, <1>18, <1>19, <1>20, OwnerSteps

LEMMA TokenSteps ==
    Next =>
      \/ UNCHANGED <<dispatcher, nodeCh, js, invoked, call>>
      \/ \E op \in Awaited, r \in Requests : QueueDenoMsgOrReject(op, r)
      \/ \E c \in Calls, kind \in CallKinds : HostCall(c, kind)
      \/ \E c \in Calls : OpStarts(c)
      \/ \E c \in Calls : AsyncSent(c)
      \/ \E c \in Calls : CallTimesOut(c)
      \/ \E e \in Emits : PostToNode(e)
      \/ \E c \in Calls : HostSettles(c)
      \/ ControlUnblocks \/ Boot \/ StartupFails \/ HandleGc \/ HandleClose \/ EmitClose
      \/ Reply \/ SendNodeMsgOrReject \/ Join \/ Dispatch \/ PumpReceives \/ PumpDrains
      \/ RunTask
BY Zenon
DEF Next, Application, NodeThread, WorkerThread, WorkerCode, Pump, Eval, Memory, Gc, Close,
    Awaited, EvalSync, EvalSyncReturns, PostMessage, PostUnblocks, PostStreamFrame,
    ForceDispose, StartupDone, TakeControl, Drain, DrainEnds, TakeData, Disconnect, HandleEval,
    HandleMemory, EvalEnds, Stop, PostToNodeTimesOut, PumpChecks, workerCode, history

-----------------------------------------------------------------------------
(***************************************************************************)
(* How often a call of the worker's code runs.                             *)
(***************************************************************************)
\* The messages of a call and its runs are together at most Runs(c), which only
\* the wrapper's second call makes two; a call that is not on its way is one
\* short of it, and one that is answered has run as often.
CallOf(c)     == [t : CallTypes, id : {c}]
InDispatch(c) == Count(dispatcher, CallOf(c))
CallsNode(c)  == Count(nodeCh, CallOf(c))
CallsJs(c)    == Count(js, CallOf(c))
Tokens(c)     == InDispatch(c) + CallsNode(c) + CallsJs(c) + invoked[c]

OneToken(c) ==
    /\ Tokens(c) <= Runs(c) /\ invoked[c] >= Runs(c) - 1
    /\ call[c].st \in {"none", "refused", "made", "sending"} => Tokens(c) = Runs(c) - 1
    /\ call[c].st \in {"answered", "running"} => invoked[c] = Runs(c)
    /\ call[c].st = "none" => call[c].kind # "retry"

CallInv == \A c \in Calls : OneToken(c)

LEMMA TokensAre ==
    ASSUME NEW c
    PROVE  /\ InDispatch(c) = Count(dispatcher, CallOf(c)) /\ InDispatch(c)' = Count(dispatcher', CallOf(c))
           /\ CallsNode(c) = Count(nodeCh, CallOf(c)) /\ CallsNode(c)' = Count(nodeCh', CallOf(c))
           /\ CallsJs(c) = Count(js, CallOf(c)) /\ CallsJs(c)' = Count(js', CallOf(c))
           /\ Tokens(c) = InDispatch(c) + CallsNode(c) + CallsJs(c) + invoked[c]
           /\ Tokens(c)' = InDispatch(c)' + CallsNode(c)' + CallsJs(c)' + invoked'[c]
BY DEF InDispatch, CallsNode, CallsJs, Tokens

LEMMA TokensChange ==
    ASSUME NativeRuntimeTypeOK, NEW c \in Calls
    PROVE  /\ InDispatch(c) \in Nat /\ CallsNode(c) \in Nat /\ CallsJs(c) \in Nat /\ invoked[c] \in Nat
           /\ \A m \in DispatchMsgs : Count(Append(dispatcher, m), CallOf(c))
                  = InDispatch(c) + (IF m \in CallOf(c) THEN 1 ELSE 0)
           /\ dispatcher # <<>> => /\ Count(Tail(dispatcher), CallOf(c)) \in Nat
                                   /\ InDispatch(c) = Count(Tail(dispatcher), CallOf(c))
                                        + (IF Head(dispatcher) \in CallOf(c) THEN 1 ELSE 0)
           /\ \A m \in NodeMsgs : Count(Append(nodeCh, m), CallOf(c))
                  = CallsNode(c) + (IF m \in CallOf(c) THEN 1 ELSE 0)
           /\ nodeCh # <<>> => /\ Count(Tail(nodeCh), CallOf(c)) \in Nat
                               /\ CallsNode(c) = Count(Tail(nodeCh), CallOf(c))
                                    + (IF Head(nodeCh) \in CallOf(c) THEN 1 ELSE 0)
           /\ \A m \in Tasks : Count(Append(js, m), CallOf(c))
                  = CallsJs(c) + (IF m \in CallOf(c) THEN 1 ELSE 0)
           /\ js # <<>> => /\ Count(Tail(js), CallOf(c)) \in Nat
                           /\ CallsJs(c) = Count(Tail(js), CallOf(c))
                                + (IF Head(js) \in CallOf(c) THEN 1 ELSE 0)
<1>1. /\ dispatcher \in Seq(DispatchMsgs) /\ nodeCh \in Seq(NodeMsgs) /\ js \in Seq(Tasks)
      /\ invoked \in [Calls -> Nat]
    BY DEF NativeRuntimeTypeOK
<1>2. InDispatch(c) \in Nat /\ CallsNode(c) \in Nat /\ CallsJs(c) \in Nat /\ invoked[c] \in Nat
    BY <1>1, CountType DEF InDispatch, CallsNode, CallsJs
<1>3. \A m \in DispatchMsgs : Count(Append(dispatcher, m), CallOf(c))
                  = InDispatch(c) + (IF m \in CallOf(c) THEN 1 ELSE 0)
    BY <1>1, CountAppend DEF InDispatch
<1>4. dispatcher # <<>> => /\ Tail(dispatcher) \in Seq(DispatchMsgs)
                           /\ InDispatch(c) = Count(Tail(dispatcher), CallOf(c))
                                        + (IF Head(dispatcher) \in CallOf(c) THEN 1 ELSE 0)
    BY <1>1, CountTail DEF InDispatch
<1>5. \A m \in NodeMsgs : Count(Append(nodeCh, m), CallOf(c))
                  = CallsNode(c) + (IF m \in CallOf(c) THEN 1 ELSE 0)
    BY <1>1, CountAppend DEF CallsNode
<1>6. nodeCh # <<>> => /\ Tail(nodeCh) \in Seq(NodeMsgs)
                       /\ CallsNode(c) = Count(Tail(nodeCh), CallOf(c))
                                    + (IF Head(nodeCh) \in CallOf(c) THEN 1 ELSE 0)
    BY <1>1, CountTail DEF CallsNode
<1>7. \A m \in Tasks : Count(Append(js, m), CallOf(c)) = CallsJs(c) + (IF m \in CallOf(c) THEN 1 ELSE 0)
    BY <1>1, CountAppend DEF CallsJs
<1>8. js # <<>> => /\ Tail(js) \in Seq(Tasks)
                   /\ CallsJs(c) = Count(Tail(js), CallOf(c)) + (IF Head(js) \in CallOf(c) THEN 1 ELSE 0)
    BY <1>1, CountTail DEF CallsJs
<1>9. /\ dispatcher # <<>> => Count(Tail(dispatcher), CallOf(c)) \in Nat
      /\ nodeCh # <<>> => Count(Tail(nodeCh), CallOf(c)) \in Nat
      /\ js # <<>> => Count(Tail(js), CallOf(c)) \in Nat
    BY <1>4, <1>6, <1>8, CountType
<1>10. QED
    BY <1>2, <1>3, <1>4, <1>5, <1>6, <1>7, <1>8, <1>9

LEMMA NoTokens ==
    ASSUME NativeRuntimeTypeOK, NEW c \in Calls, Tokens(c) = 0
    PROVE  InDispatch(c) = 0 /\ CallsNode(c) = 0 /\ CallsJs(c) = 0 /\ invoked[c] = 0
<1>1. InDispatch(c) \in Nat /\ CallsNode(c) \in Nat /\ CallsJs(c) \in Nat /\ invoked[c] \in Nat
    BY TokensChange
<1>2. InDispatch(c) + CallsNode(c) + CallsJs(c) + invoked[c] = 0
    BY TokensAre
<1> DEFINE two == InDispatch(c) + CallsNode(c)
           three == two + CallsJs(c)
<1>3. two \in Nat /\ three \in Nat /\ three + invoked[c] = 0
    BY <1>1, <1>2
<1>4. two + CallsJs(c) = three
    OBVIOUS
<1> HIDE DEF three
<1>5. three = 0 /\ invoked[c] = 0
    BY <1>1, <1>3
<1>6. InDispatch(c) + CallsNode(c) = two
    OBVIOUS
<1> HIDE DEF two
<1>7. two = 0 /\ CallsJs(c) = 0
    BY <1>1, <1>3, <1>4, <1>5
<1>8. QED
    BY <1>1, <1>5, <1>6, <1>7

LEMMA RunsAre ==
    ASSUME NEW c
    PROVE  /\ Runs(c) \in {1, 2} /\ Runs(c)' \in {1, 2}
           /\ Runs(c) = IF call[c].kind = "retry" THEN 2 ELSE 1
           /\ Runs(c)' = IF call'[c].kind = "retry" THEN 2 ELSE 1
BY DEF Runs

\* Fewer messages, no run, and no step forward of the call but into its op.
LEMMA TokensFewer ==
    ASSUME NativeRuntimeTypeOK, NEW c \in Calls, OneToken(c),
           InDispatch(c)' \in Nat, CallsNode(c)' \in Nat, CallsJs(c)' \in Nat,
           InDispatch(c)' + CallsNode(c)' + CallsJs(c)' <= InDispatch(c) + CallsNode(c) + CallsJs(c),
           invoked'[c] = invoked[c], call'[c].kind = call[c].kind,
           \/ call'[c].st = call[c].st
           \/ call'[c].st \notin {"none", "refused", "made", "sending", "answered", "running"}
           \/ call[c].st = "running" /\ call'[c].st = "answered"
           \/ call[c].st = "made" /\ call'[c].st \in {"refused", "sending"}
    PROVE  OneToken(c)'
<1>1. invoked[c] \in Nat /\ InDispatch(c) \in Nat /\ CallsNode(c) \in Nat /\ CallsJs(c) \in Nat
    BY TokensChange
<1>2. /\ Tokens(c)' <= Tokens(c) /\ Tokens(c)' \in Nat /\ Tokens(c) \in Nat
      /\ Tokens(c)' >= invoked'[c]
    BY <1>1, TokensAre
<1>3. Runs(c)' = Runs(c) /\ Runs(c) \in {1, 2}
    BY RunsAre
<1> HIDE DEF OneToken
<1>4. Tokens(c)' <= Runs(c)' /\ invoked'[c] >= Runs(c)' - 1
    BY <1>1, <1>2, <1>3 DEF OneToken
<1>5. call'[c].st \in {"none", "refused", "made", "sending"} => Tokens(c)' = Runs(c)' - 1
    BY <1>1, <1>2, <1>3, <1>4 DEF OneToken
<1>6. call'[c].st \in {"answered", "running"} => invoked'[c] = Runs(c)'
    BY <1>3 DEF OneToken
<1>7. call'[c].st = "none" => call'[c].kind # "retry"
    BY DEF OneToken
<1>8. QED
    BY <1>4, <1>5, <1>6, <1>7 DEF OneToken

LEMMA CallInit == Init => CallInv
<1> SUFFICES ASSUME Init, NEW c \in Calls PROVE OneToken(c)
    BY DEF CallInv
<1>1. /\ dispatcher = <<>> /\ nodeCh = <<>> /\ js = <<>> /\ invoked[c] = 0
      /\ call[c] = [kind |-> "none", st |-> "none"]
    BY DEF Init
<1>2. Tokens(c) = 0 /\ Runs(c) = 1
    BY <1>1, CountNone DEF Tokens, InDispatch, CallsNode, CallsJs, Runs
<1>3. QED
    BY <1>1, <1>2 DEF OneToken

LEMMA CallStep ==
    ASSUME NativeRuntimeTypeOK, CallInv, Next, NEW c \in Calls
    PROVE  OneToken(c)'
<1>0. /\ OneToken(c)
      /\ InDispatch(c) \in Nat /\ CallsNode(c) \in Nat /\ CallsJs(c) \in Nat /\ invoked[c] \in Nat
    BY TokensChange DEF CallInv
<1>1. call \in [Calls -> [kind : {"none"} \cup CallTypes,
                          st : {"none", "refused", "made", "handing", "sending", "sent",
                                "running", "answered", "failed"}]]
    BY DEF NativeRuntimeTypeOK
<1>2. ASSUME dispatcher' = dispatcher \/ \E m \in DispatchMsgs : m \notin CallOf(c) /\ dispatcher' = Append(dispatcher, m),
             nodeCh' = nodeCh \/ \E m \in NodeMsgs : m \notin CallOf(c) /\ nodeCh' = Append(nodeCh, m),
             js' = js \/ \E m \in Tasks : m \notin CallOf(c) /\ js' = Append(js, m)
      PROVE  InDispatch(c)' = InDispatch(c) /\ CallsNode(c)' = CallsNode(c) /\ CallsJs(c)' = CallsJs(c)
  <2>1. InDispatch(c)' = InDispatch(c)
    <3>1. CASE dispatcher' = dispatcher
        BY <3>1, TokensAre
    <3>2. ASSUME NEW m \in DispatchMsgs, m \notin CallOf(c), dispatcher' = Append(dispatcher, m)
          PROVE  InDispatch(c)' = InDispatch(c)
        BY <1>0, <3>2, TokensAre, TokensChange
    <3>3. QED
        BY <1>2, <3>1, <3>2
  <2>2. CallsNode(c)' = CallsNode(c)
    <3>1. CASE nodeCh' = nodeCh
        BY <3>1, TokensAre
    <3>2. ASSUME NEW m \in NodeMsgs, m \notin CallOf(c), nodeCh' = Append(nodeCh, m)
          PROVE  CallsNode(c)' = CallsNode(c)
        BY <1>0, <3>2, TokensAre, TokensChange
    <3>3. QED
        BY <1>2, <3>1, <3>2
  <2>3. CallsJs(c)' = CallsJs(c)
    <3>1. CASE js' = js
        BY <3>1, TokensAre
    <3>2. ASSUME NEW m \in Tasks, m \notin CallOf(c), js' = Append(js, m)
          PROVE  CallsJs(c)' = CallsJs(c)
        BY <1>0, <3>2, TokensAre, TokensChange
    <3>3. QED
        BY <1>2, <3>1, <3>2
  <2>4. QED
      BY <2>1, <2>2, <2>3
<1>3. ASSUME InDispatch(c)' = InDispatch(c), CallsNode(c)' = CallsNode(c), CallsJs(c)' = CallsJs(c),
             invoked' = invoked, call'[c].kind = call[c].kind,
             \/ call'[c].st = call[c].st
             \/ call'[c].st \notin {"none", "refused", "made", "sending", "answered", "running"}
             \/ call[c].st = "running" /\ call'[c].st = "answered"
             \/ call[c].st = "made" /\ call'[c].st \in {"refused", "sending"}
      PROVE  OneToken(c)'
    BY <1>0, <1>3, TokensFewer
<1>4. CASE UNCHANGED <<dispatcher, nodeCh, js, invoked, call>>
    BY <1>2, <1>3, <1>4
\* Messages of others.
<1>5. CASE \/ \E op \in Awaited, r \in Requests : QueueDenoMsgOrReject(op, r)
           \/ ControlUnblocks \/ HandleGc \/ HandleClose \/ Reply \/ EmitClose \/ SendNodeMsgOrReject
           \/ \E e \in Emits : PostToNode(e)
  <2>1. /\ \A r : Msg("reject", r) \notin CallOf(c) /\ Msg("resolve", r) \notin CallOf(c)
        /\ \A e : Msg("message", e) \notin CallOf(c)
        /\ Msg("emitClose", 0) \notin CallOf(c)
      BY DEF Msg, CallOf
  <2>2. invoked' = invoked /\ call' = call
      BY <1>5 DEF QueueDenoMsgOrReject, ControlUnblocks, HandleGc, HandleClose, Reply, EmitClose,
         SendNodeMsgOrReject, PostToNode, workerCode, history
  <2>3. ASSUME NEW op \in Awaited, NEW r \in Requests, QueueDenoMsgOrReject(op, r) PROVE OneToken(c)'
    <3>1. dispatcher' = dispatcher /\ nodeCh' = nodeCh /\ (js' = js \/ js' = Append(js, Msg("reject", r)))
        BY <2>3 DEF QueueDenoMsgOrReject, workerCode
    <3>2. QED
        BY <1>2, <1>3, <2>1, <2>2, <3>1, MsgTypes
  <2>4. CASE ControlUnblocks
    <3>1. dispatcher' = dispatcher /\ nodeCh' = nodeCh /\ (js' = js \/ js' = Append(js, Msg("reject", node.msg.id)))
        BY <2>4 DEF ControlUnblocks, workerCode
    <3>2. Msg("reject", node.msg.id) \in Tasks
        BY <2>4, HeldRequests, MsgTypes DEF ControlUnblocks
    <3>3. QED
        BY <1>2, <1>3, <2>1, <2>2, <3>1, <3>2
  <2>5. CASE HandleGc \/ HandleClose \/ Reply
    <3>1. /\ dispatcher' = dispatcher /\ nodeCh' = nodeCh
          /\ \/ js' = js \/ js' = Append(js, Msg("reject", worker.msg.id))
             \/ js' = Append(js, Msg("resolve", worker.msg.id))
        BY <2>5 DEF HandleGc, HandleClose, Reply, workerCode
    <3>2. Msg("reject", worker.msg.id) \in Tasks /\ Msg("resolve", worker.msg.id) \in Tasks
        BY <2>5, HeldRequests, MsgTypes DEF HandleGc, HandleClose, Reply
    <3>3. QED
        BY <1>2, <1>3, <2>1, <2>2, <3>1, <3>2
  <2>6. CASE EmitClose
    <3>1. /\ dispatcher' = dispatcher
          /\ nodeCh' = nodeCh \/ nodeCh' = Append(nodeCh, Msg("emitClose", 0))
          /\ js' = js \/ js' = Append(js, Msg("emitClose", 0))
        BY <2>6 DEF EmitClose, workerCode
    <3>2. QED
        BY <1>2, <1>3, <2>1, <2>2, <3>1, MsgTypes
  <2>7. CASE SendNodeMsgOrReject
    <3>1. dispatcher' = dispatcher /\ js' = js /\ nodeCh' = Append(nodeCh, Msg("resolve", worker.msg.id))
        BY <2>7 DEF SendNodeMsgOrReject, workerCode
    <3>2. Msg("resolve", worker.msg.id) \in NodeMsgs
        BY <2>7, HeldRequests, MsgTypes DEF SendNodeMsgOrReject
    <3>3. QED
        BY <1>2, <1>3, <2>1, <2>2, <3>1, <3>2
  <2>8. ASSUME NEW e \in Emits, PostToNode(e) PROVE OneToken(c)'
    <3>1. dispatcher' = Append(dispatcher, Msg("message", e)) /\ js' = js /\ nodeCh' = nodeCh
        BY <2>8 DEF PostToNode
    <3>2. QED
        BY <1>2, <1>3, <2>1, <2>2, <3>1, MsgTypes
  <2>9. QED
      BY <1>5, <2>3, <2>4, <2>5, <2>6, <2>7, <2>8
<1>6. CASE Boot \/ StartupFails \/ Join
  <2>1. dispatcher' = dispatcher /\ invoked' = invoked /\ call' = call
      BY <1>6 DEF Boot, StartupFails, Join, workerCode, history
  <2>2. CASE nodeCh' = nodeCh /\ js' = js
      BY <1>2, <1>3, <2>1, <2>2
  <2>3. CASE ThreadEnds
    <3> DEFINE rc == Rejections(control, Awaited)
               rn == Rejections(nodeCh, {"resolve"})
               jc == js \o rc
    <3>1. js \in Seq(Tasks) /\ rc \in Seq(Tasks) /\ rn \in Seq(Tasks) /\ jc \in Seq(Tasks)
      <4>1. js \in Seq(Tasks) /\ rc \in Seq(Tasks) /\ rn \in Seq(Tasks)
          BY EndTasks DEF NativeRuntimeTypeOK
      <4> HIDE DEF rc, rn
      <4>2. QED
          BY <4>1
    <3>2. rc \in Seq(Rejects) /\ rn \in Seq(Rejects)
        BY EndRejects
    <3>3. js' = jc \o rn /\ nodeCh' = <<>>
        BY <2>3 DEF ThreadEnds
    <3> HIDE DEF rc, rn
    <3>4. Count(jc, CallOf(c)) = Count(js, CallOf(c)) + Count(rc, CallOf(c))
        BY <3>1, CountConcat
    <3> HIDE DEF jc
    <3>5. Count(jc \o rn, CallOf(c)) = Count(jc, CallOf(c)) + Count(rn, CallOf(c))
        BY <3>1, CountConcat
    <3>6. \A m \in Rejects : m \notin CallOf(c)
        BY DEF Rejects, CallOf
    <3>7. Count(rc, CallOf(c)) = 0
      <4>1. \A i \in 1..Len(rc) : rc[i] \in Rejects
          BY <3>2
      <4>2. QED
          BY <3>1, <3>6, <4>1, CountZero
    <3>8. Count(rn, CallOf(c)) = 0
      <4>1. \A i \in 1..Len(rn) : rn[i] \in Rejects
          BY <3>2
      <4>2. QED
          BY <3>1, <3>6, <4>1, CountZero
    <3>9. CallsJs(c)' = CallsJs(c) /\ CallsNode(c)' = 0 /\ InDispatch(c)' = InDispatch(c)
        BY <1>0, <2>1, <3>3, <3>4, <3>5, <3>7, <3>8, CountNone, TokensAre
    <3>10. QED
        BY <1>0, <2>1, <3>9, TokensFewer
  <2>4. QED
      BY <1>6, <2>2, <2>3 DEF Boot, StartupFails, Join
\* The call is made.
<1>7. ASSUME NEW d \in Calls, NEW kind \in CallKinds, HostCall(d, kind) PROVE OneToken(c)'
  <2>1. /\ call[d].st = "none" /\ nodeCh' = nodeCh /\ js' = js /\ invoked' = invoked
        /\ \E st \in {"refused", "handing", "made"} :
              /\ call' = [call EXCEPT ![d] = [kind |-> kind, st |-> st]]
              /\ st # "handing" => dispatcher' = dispatcher
              /\ st = "handing" => dispatcher' = Append(dispatcher, Msg("sync", d))
      BY <1>7, KindsAreCalls DEF HostCall, history
  <2>2. PICK st \in {"refused", "handing", "made"} :
              /\ call' = [call EXCEPT ![d] = [kind |-> kind, st |-> st]]
              /\ st # "handing" => dispatcher' = dispatcher
              /\ st = "handing" => dispatcher' = Append(dispatcher, Msg("sync", d))
      BY <2>1
  <2>3. /\ Msg("sync", d) \in DispatchMsgs
        /\ Msg("sync", d) \in CallOf(c) <=> d = c
        /\ call'[d].st = st /\ call'[d].kind \in CallKinds /\ (d # c => call'[c] = call[c])
      BY <1>1, <2>2, MsgTypes DEF Msg, CallOf
  <2>4. CASE d # c
      BY <1>2, <1>3, <2>1, <2>2, <2>3, <2>4
  <2>5. CASE d = c
    <3>1. Tokens(c) = 0
        BY <1>0, <2>1, <2>5, RunsAre DEF OneToken
    <3>2. InDispatch(c) = 0 /\ CallsNode(c) = 0 /\ CallsJs(c) = 0 /\ invoked[c] = 0
        BY <3>1, NoTokens
    <3>3. CallsNode(c)' = 0 /\ CallsJs(c)' = 0 /\ invoked'[c] = 0
        BY <2>1, <3>2, TokensAre
    <3>4. InDispatch(c)' = IF st = "handing" THEN 1 ELSE 0
      <4>1. CASE st # "handing"
          BY <2>2, <3>2, <4>1, TokensAre
      <4>2. CASE st = "handing"
        <5>1. dispatcher' = Append(dispatcher, Msg("sync", d)) /\ Msg("sync", d) \in CallOf(c)
            BY <2>2, <2>3, <2>5, <4>2
        <5>2. InDispatch(c)' = InDispatch(c) + 1
            BY <2>3, <5>1, TokensAre, TokensChange
        <5>3. QED
            BY <3>2, <4>2, <5>2
      <4>3. QED
          BY <4>1, <4>2
    <3>5. Tokens(c)' = IF st = "handing" THEN 1 ELSE 0
        BY <3>3, <3>4, TokensAre
    <3>6. Runs(c)' = 1
        BY <2>3, <2>5, RunsAre, KindsAreCalls
    <3>7. QED
        BY <2>2, <2>3, <2>5, <3>3, <3>5, <3>6 DEF OneToken
  <2>6. QED
      BY <2>4, <2>5
\* Its op is polled.
<1>14. ASSUME NEW d \in Calls, OpStarts(d) PROVE OneToken(c)'
  <2>1. /\ call[d].st = "made" /\ nodeCh' = nodeCh /\ js' = js /\ invoked' = invoked
        /\ dispatcher' = dispatcher
        /\ \E st \in {"refused", "sending"} : call' = [call EXCEPT ![d].st = st]
      BY <1>14 DEF OpStarts, CallGets, history
  <2>2. PICK st \in {"refused", "sending"} : call' = [call EXCEPT ![d].st = st]
      BY <2>1
  <2>4. /\ call'[c].kind = call[c].kind
        /\ \/ call'[c].st = call[c].st
           \/ call[c].st = "made" /\ call'[c].st \in {"refused", "sending"}
    <3>1. CASE c = d
        BY <1>1, <2>1, <2>2, <3>1
    <3>2. ASSUME c # d PROVE call'[c] = call[c]
        BY <1>1, <2>2, <3>2
    <3>3. QED
        BY <3>1, <3>2
  <2>3. QED
      BY <1>2, <1>3, <2>1, <2>4
<1>8. ASSUME NEW d \in Calls, AsyncSent(d) PROVE OneToken(c)'
  <2> DEFINE m == Msg(call[d].kind, d)
  <2>1. /\ call[d].st = "sending" /\ dispatcher' = dispatcher /\ js' = js /\ invoked' = invoked
        /\ nodeCh' = Append(nodeCh, m) /\ m \in NodeMsgs /\ (m \in CallOf(c) <=> d = c)
        /\ call' = [call EXCEPT ![d].st = "sent"]
      BY <1>8, MsgTypes DEF AsyncSent, CallGets, history, Msg, CallOf
  <2> HIDE DEF m
  <2>2. CASE d # c
    <3>1. call'[c] = call[c]
        BY <1>1, <2>1, <2>2
    <3>2. QED
        BY <1>2, <1>3, <2>1, <2>2, <3>1
  <2>3. CASE d = c
    <3>1. Tokens(c) = Runs(c) - 1
        BY <1>0, <2>1, <2>3 DEF OneToken
    <3>2. /\ CallsNode(c)' = CallsNode(c) + 1 /\ InDispatch(c)' = InDispatch(c)
          /\ CallsJs(c)' = CallsJs(c) /\ invoked'[c] = invoked[c]
        BY <2>1, <2>3, TokensAre, TokensChange
    <3>3. Tokens(c)' = Tokens(c) + 1
        BY <1>0, <3>2, TokensAre
    <3>4. call'[c].st = "sent" /\ call'[c].kind = call[c].kind
        BY <1>1, <2>1, <2>3
    <3>5. Runs(c)' = Runs(c) /\ Runs(c) \in {1, 2}
        BY <3>4, RunsAre
    <3>6. QED
        BY <1>0, <3>1, <3>2, <3>3, <3>4, <3>5 DEF OneToken
  <2>4. QED
      BY <2>2, <2>3
<1>9. ASSUME NEW d \in Calls, CallTimesOut(d) \/ HostSettles(d) PROVE OneToken(c)'
  <2>1. /\ dispatcher' = dispatcher /\ js' = js /\ invoked' = invoked /\ nodeCh' = nodeCh
        /\ \/ call' = [call EXCEPT ![d].st = "failed"]
           \/ call[d].st = "running" /\ call' = [call EXCEPT ![d].st = "answered"]
      BY <1>9 DEF CallTimesOut, HostSettles, CallGets, history
  <2>2. /\ call'[c].kind = call[c].kind
        /\ \/ call'[c].st = call[c].st \/ call'[c].st = "failed"
           \/ call[c].st = "running" /\ call'[c].st = "answered"
      BY <1>1, <2>1
  <2>3. QED
      BY <1>2, <1>3, <2>1, <2>2
<1>10. CASE Dispatch
  <2> DEFINE m == Head(dispatcher)
             got == IF m \in CallOf(c) THEN 1 ELSE 0
  <2>1. /\ dispatcher # <<>> /\ dispatcher' = Tail(dispatcher) /\ js' = js /\ invoked' = invoked
        /\ nodeCh' = nodeCh \/ nodeCh' = Append(nodeCh, m)
      BY <1>10 DEF Dispatch, history
  <2>2. m \in DispatchMsgs /\ m \in NodeMsgs
      BY <2>1, OneLess, MsgTypes DEF NativeRuntimeTypeOK
  <2>3. call'[c].st \in {call[c].st, "sent", "failed"} /\ call'[c].kind = call[c].kind
    <3>1. CASE m.t = "sync"
      <4>1. m.id \in Calls
          BY <2>2, <3>1, MsgIds
      <4>2. \E st \in {call[m.id].st, "sent", "failed"} : call' = [call EXCEPT ![m.id].st = st]
        <5> DEFINE ack == IF PumpLives THEN "sent" ELSE "failed"
                   st == IF call[m.id].st = "handing" THEN ack ELSE call[m.id].st
        <5>1. call' = [call EXCEPT ![m.id].st = st]
            BY <1>10, <3>1 DEF Dispatch
        <5>2. st \in {call[m.id].st, "sent", "failed"}
            OBVIOUS
        <5>3. QED
            BY <5>1, <5>2
      <4> HIDE DEF m
      <4>3. QED
          BY <1>1, <4>1, <4>2
    <3>2. CASE m.t # "sync"
        BY <1>10, <3>2 DEF Dispatch
    <3>3. QED
        BY <3>1, <3>2
  <2>4. InDispatch(c) = InDispatch(c)' + got /\ InDispatch(c)' \in Nat
      BY <2>1, TokensAre, TokensChange
  <2> HIDE DEF m
  <2>5. CallsNode(c)' = CallsNode(c) \/ CallsNode(c)' = CallsNode(c) + got
    <3>1. CASE nodeCh' = nodeCh
        BY <3>1, TokensAre
    <3>2. CASE nodeCh' = Append(nodeCh, m)
        BY <2>2, <3>2, TokensAre, TokensChange
    <3>3. QED
        BY <2>1, <3>1, <3>2
  <2>6. CallsJs(c)' = CallsJs(c) /\ got \in {0, 1}
      BY <2>1, TokensAre
  <2> HIDE DEF got
  <2>7. /\ InDispatch(c)' \in Nat /\ CallsNode(c)' \in Nat /\ CallsJs(c)' \in Nat
        /\ InDispatch(c)' + CallsNode(c)' + CallsJs(c)' <= InDispatch(c) + CallsNode(c) + CallsJs(c)
      BY <1>0, <2>4, <2>5, <2>6
  <2>8. invoked'[c] = invoked[c]
      BY <2>1
  <2>9. QED
      BY <1>0, <2>3, <2>7, <2>8, TokensFewer
<1>11. CASE PumpReceives \/ PumpDrains
  <2> DEFINE m == Head(nodeCh)
             got == IF m \in CallOf(c) THEN 1 ELSE 0
  <2>1. /\ dispatcher' = dispatcher /\ invoked' = invoked
        /\ \/ nodeCh' = nodeCh /\ js' = js /\ call' = call
           \/ /\ nodeCh # <<>> /\ nodeCh' = Tail(nodeCh)
              /\ \/ js' = js
                 \/ js' = Append(js, m)
                 \/ m.t = "resolve" /\ js' = Append(js, Msg("reject", m.id))
              /\ \/ call' = call
                 \/ /\ m.t \in CallTypes
                    /\ call' = [call EXCEPT ![m.id].st = IF call[m.id].st \in {"handing", "sent"} THEN "failed" ELSE call[m.id].st]
      BY <1>11 DEF PumpReceives, PumpDrains, DispatchNodeMsg, history
  <2>2. CASE nodeCh' = nodeCh /\ js' = js /\ call' = call
      BY <1>2, <1>3, <2>1, <2>2
  <2>3. CASE /\ nodeCh # <<>> /\ nodeCh' = Tail(nodeCh)
             /\ \/ js' = js
                \/ js' = Append(js, m)
                \/ m.t = "resolve" /\ js' = Append(js, Msg("reject", m.id))
             /\ \/ call' = call
                \/ /\ m.t \in CallTypes
                   /\ call' = [call EXCEPT ![m.id].st = IF call[m.id].st \in {"handing", "sent"} THEN "failed" ELSE call[m.id].st]
    <3>1. m \in NodeMsgs
        BY <2>3, OneLess DEF NativeRuntimeTypeOK
    <3>2. /\ m \in Tasks
          /\ m.t = "resolve" => Msg("reject", m.id) \in Tasks /\ Msg("reject", m.id) \notin CallOf(c)
          /\ m.t \in CallTypes => m.id \in Calls
        BY <3>1, MsgIds, MsgTypes DEF Msg, CallOf
    <3>3. CallsNode(c) = CallsNode(c)' + got /\ CallsNode(c)' \in Nat
        BY <2>3, TokensAre, TokensChange
    <3> HIDE DEF m
    <3>4. CallsJs(c)' = CallsJs(c) \/ CallsJs(c)' = CallsJs(c) + got
      <4>1. CASE js' = js
          BY <4>1, TokensAre
      <4>2. CASE js' = Append(js, m)
          BY <3>2, <4>2, TokensAre, TokensChange
      <4>3. CASE m.t = "resolve" /\ js' = Append(js, Msg("reject", m.id))
          BY <1>0, <3>2, <4>3, TokensAre, TokensChange
      <4>4. QED
          BY <2>3, <4>1, <4>2, <4>3
    <3>5. InDispatch(c)' = InDispatch(c) /\ got \in {0, 1}
        BY <2>1, TokensAre
    <3>6. call'[c].st \in {call[c].st, "failed"} /\ call'[c].kind = call[c].kind
      <4>1. CASE call' = call
          BY <4>1
      <4>2. ASSUME call' = [call EXCEPT ![m.id].st =
                               IF call[m.id].st \in {"handing", "sent"} THEN "failed" ELSE call[m.id].st]
            PROVE  call'[c].st \in {call[c].st, "failed"} /\ call'[c].kind = call[c].kind
        <5>1. PICK i, st : /\ i = m.id
                           /\ st = IF call[i].st \in {"handing", "sent"} THEN "failed" ELSE call[i].st
            OBVIOUS
        <5>2. call' = [call EXCEPT ![i].st = st] /\ st \in {call[i].st, "failed"}
            BY <4>2, <5>1
        <5>3. QED
            BY <1>1, <5>2
      <4>3. QED
          BY <2>3, <4>1, <4>2
    <3> HIDE DEF got
    <3>7. QED
        BY <1>0, <2>1, <3>3, <3>4, <3>5, <3>6, TokensFewer
  <2>4. QED
      BY <2>1, <2>2, <2>3
\* The function runs.
<1>12. CASE RunTask
  <2> DEFINE m == Head(js)
             got == IF m \in CallOf(c) THEN 1 ELSE 0
  <2>1. /\ js # <<>> /\ js' = Tail(js) /\ dispatcher' = dispatcher /\ nodeCh' = nodeCh
        /\ \/ m.t \notin CallTypes /\ invoked' = invoked /\ call' = call
           \/ /\ m.t \in CallTypes
              /\ invoked' = [invoked EXCEPT ![m.id] = invoked[m.id] + 1]
              /\ \/ call[m.id].st # "sent" /\ call' = [call EXCEPT ![m.id].st = call[m.id].st]
                 \/ call[m.id].st = "sent" /\ call' = [call EXCEPT ![m.id].st = "running"]
                 \/ call[m.id].st = "sent" /\ call' = [call EXCEPT ![m.id].st = "answered"]
                 \/ /\ call[m.id].kind = "sync"
                    /\ call' = [call EXCEPT ![m.id] = [kind |-> "retry", st |-> "made"]]
    <3>1. /\ js # <<>> /\ js' = Tail(js) /\ dispatcher' = dispatcher /\ nodeCh' = nodeCh
          /\ \/ m.t \notin CallTypes /\ invoked' = invoked /\ call' = call
             \/ /\ m.t \in CallTypes
                /\ invoked' = [invoked EXCEPT ![m.id] = invoked[m.id] + 1]
                /\ InvokeAtOnce(m) \/ InvokeLater(m)
        BY <1>12 DEF RunTask, Invoke
    <3> DEFINE known == call[m.id].st
    <3>2. InvokeAtOnce(m) =>
              \/ call' = [call EXCEPT ![m.id].st = IF known = "sent" THEN "answered" ELSE known]
              \/ /\ call[m.id].kind = "sync"
                 /\ call' = [call EXCEPT ![m.id] = [kind |-> "retry", st |-> "made"]]
        BY DEF InvokeAtOnce, CallGets
    <3>3. InvokeLater(m) =>
              \E later \in BOOLEAN :
                  call' = [call EXCEPT ![m.id].st = IF known # "sent" THEN known
                                                   ELSE IF later THEN "running" ELSE "answered"]
        BY DEF InvokeLater, CallGets
    <3> HIDE DEF m
    <3>4. QED
        BY <3>1, <3>2, <3>3
  <2>2. m \in Tasks
      BY <2>1, OneLess DEF NativeRuntimeTypeOK
  <2>3. m \in CallOf(c) <=> m.t \in CallTypes /\ m.id = c
    <3>1. m.t \in CallTypes => m = [t |-> m.t, id |-> m.id]
        BY <2>2 DEF Tasks, NodeMsgs, CallMsgs, EmitMsgs, Msg
    <3>2. QED
        BY <3>1 DEF CallOf
  <2>4. CallsJs(c) = CallsJs(c)' + got /\ CallsJs(c)' \in Nat
      BY <2>1, TokensAre, TokensChange
  <2>5. InDispatch(c)' = InDispatch(c) /\ CallsNode(c)' = CallsNode(c)
      BY <2>1, TokensAre
  <2>6. m.t \in CallTypes => m.id \in Calls
      BY <2>2, MsgIds
  <2> HIDE DEF m
  <2>7. invoked \in [Calls -> Nat]
      BY DEF NativeRuntimeTypeOK
  <2>8. CASE m \notin CallOf(c)
    <3>1. invoked'[c] = invoked[c] /\ call'[c] = call[c]
        BY <1>1, <2>1, <2>3, <2>7, <2>8
    <3>2. got = 0
        BY <2>8
    <3> HIDE DEF got
    <3>3. QED
        BY <1>0, <2>4, <2>5, <3>1, <3>2, TokensFewer
  <2>9. CASE m \in CallOf(c)
    <3>1. m.id = c /\ m.t \in CallTypes /\ got = 1
        BY <2>3, <2>9
    <3>2. Runs(c) \in {1, 2} /\ Tokens(c) = InDispatch(c) + CallsNode(c) + CallsJs(c) + invoked[c]
        BY RunsAre, TokensAre
    <3>3. /\ CallsJs(c) = 1 /\ InDispatch(c) = 0 /\ CallsNode(c) = 0
          /\ invoked[c] = Runs(c) - 1 /\ Tokens(c) = Runs(c)
        BY <1>0, <2>4, <3>1, <3>2 DEF OneToken
    <3>4. invoked'[c] = Runs(c)
        BY <2>1, <2>7, <3>1, <3>2, <3>3
    <3>5. Tokens(c)' = Runs(c)
        BY <2>4, <2>5, <3>1, <3>2, <3>3, <3>4, TokensAre
    <3>6. call[c].st \notin {"none", "refused", "made", "sending"}
        BY <1>0, <3>2, <3>3 DEF OneToken
    <3>7. CASE call'[c].st \in {call[c].st, "running", "answered"} /\ call'[c].kind = call[c].kind
      <4>1. Runs(c)' = Runs(c)
          BY <3>7, RunsAre
      <4>2. QED
          BY <3>2, <3>4, <3>5, <3>6, <3>7, <4>1 DEF OneToken
    <3>8. CASE call[c].kind = "sync" /\ call'[c] = [kind |-> "retry", st |-> "made"]
      <4>1. Runs(c) = 1 /\ Runs(c)' = 2
          BY <3>8, RunsAre
      <4>2. QED
          BY <3>4, <3>5, <3>8, <4>1 DEF OneToken
    <3>9. QED
        BY <1>1, <2>1, <3>1, <3>7, <3>8
  <2>10. QED
      BY <2>8, <2>9
<1>13. QED
    BY <1>4, <1>5, <1>6, <1>7, <1>8, <1>9, <1>10, <1>11, <1>12, <1>14, TokenSteps

LEMMA DeliverySteps ==
    Next =>
      \/ UNCHANGED <<posted, delivered, data, before, worker>>
      \/ \E op \in Awaited, r \in Requests : QueueDenoMsgOrReject(op, r)
      \/ \E r \in Requests : EvalSync(r)
      \/ PostMessage \/ PostUnblocks \/ PostStreamFrame \/ Boot \/ StartupDone
      \/ StartupFails \/ TakeControl \/ Drain \/ DrainEnds \/ TakeData \/ Disconnect
      \/ HandleEval \/ HandleMemory \/ HandleGc \/ HandleClose \/ EmitClose \/ EvalEnds
      \/ Reply \/ SendNodeMsgOrReject \/ Stop \/ Join
BY Zenon
DEF Next, Application, NodeThread, WorkerThread, WorkerCode, Pump, Eval, Memory, Gc, Close,
    Awaited, ControlUnblocks, EvalSyncReturns, ForceDispose, HostCall, AsyncSent, OpStarts, CallTimesOut,
    PostToNode, PostToNodeTimesOut, Dispatch, PumpChecks, PumpReceives, PumpDrains, RunTask,
    HostSettles, requestVars

-----------------------------------------------------------------------------
(***************************************************************************)
(* While the Node thread stands in evalSync().                             *)
(***************************************************************************)
\* No step but the first poll of an op, and a synchronous call, puts a call of the
\* worker's code under way.
LEMMA UnderWayShrinks ==
    ASSUME NativeRuntimeTypeOK, Next, evalSyncActive
    PROVE  UnderWay' \subseteq UnderWay
<1> DEFINE Going == {"handing", "sending", "sent", "running"}
<1>1. call \in [Calls -> [kind : {"none"} \cup CallTypes,
                          st : {"none", "refused", "made", "handing", "sending", "sent",
                                "running", "answered", "failed"}]]
    BY DEF NativeRuntimeTypeOK
<1> SUFFICES ASSUME NEW c \in Calls, call'[c].st \in Going PROVE call[c].st \in Going
    BY DEF UnderWay
<1>2. ASSUME NEW d, NEW st, call' = [call EXCEPT ![d].st = st],
             d \in Calls => st = call[d].st \/ st \notin Going \/ call[d].st \in Going
      PROVE  call[c].st \in Going
  <2>1. CASE c = d
      BY <1>1, <1>2, <2>1
  <2>2. CASE c # d
    <3>1. call'[c] = call[c]
        BY <1>1, <1>2, <2>2
    <3>2. QED
        BY <3>1
  <2>3. QED
      BY <2>1, <2>2
<1>3. ASSUME NEW d \in Calls, NEW kind, NEW st, st \notin Going,
             call' = [call EXCEPT ![d] = [kind |-> kind, st |-> st]]
      PROVE  call[c].st \in Going
  <2>1. CASE c = d
      BY <1>1, <1>3, <2>1
  <2>2. CASE c # d
    <3>1. call'[c] = call[c]
        BY <1>1, <1>3, <2>2
    <3>2. QED
        BY <3>1
  <2>3. QED
      BY <2>1, <2>2
<1>4. CASE call' = call
    BY <1>4
<1>5. ASSUME NEW d \in Calls, NEW kind \in CallKinds, HostCall(d, kind) PROVE call[c].st \in Going
  <2>1. \E st \in {"refused", "made"} : call' = [call EXCEPT ![d] = [kind |-> kind, st |-> st]]
      BY <1>5 DEF HostCall
  <2>2. QED
      BY <1>3, <2>1
<1>6. ASSUME NEW d \in Calls, OpStarts(d) PROVE call[c].st \in Going
    BY <1>2, <1>6 DEF OpStarts, CallGets
<1>7. ASSUME NEW d \in Calls, AsyncSent(d) \/ CallTimesOut(d) \/ HostSettles(d)
      PROVE  call[c].st \in Going
    BY <1>2, <1>7 DEF AsyncSent, CallTimesOut, HostSettles, CallGets
<1>8. CASE Dispatch
  <2> DEFINE d == Head(dispatcher).id
             ack == IF PumpLives THEN "sent" ELSE "failed"
             st == IF call[d].st = "handing" THEN ack ELSE call[d].st
  <2>1. call' = call \/ call' = [call EXCEPT ![d].st = st]
      BY <1>8 DEF Dispatch
  <2>2. st = call[d].st \/ call[d].st \in Going
      OBVIOUS
  <2> HIDE DEF d, st, ack
  <2>3. QED
      BY <1>2, <1>4, <2>1, <2>2
<1>9. CASE PumpReceives \/ PumpDrains
  <2> DEFINE d == Head(nodeCh).id
             st == IF call[d].st \in {"handing", "sent"} THEN "failed" ELSE call[d].st
  <2>1. call' = call \/ call' = [call EXCEPT ![d].st = st]
      BY <1>9 DEF PumpReceives, PumpDrains, DispatchNodeMsg
  <2>2. st = call[d].st \/ call[d].st \in Going
      OBVIOUS
  <2> HIDE DEF d, st
  <2>3. QED
      BY <1>2, <1>4, <2>1, <2>2
<1>10. CASE RunTask
  <2> DEFINE m == Head(js)
             d == m.id
  <2>1. call' = call \/ (m.t \in CallTypes /\ (InvokeAtOnce(m) \/ InvokeLater(m)))
      BY <1>10 DEF RunTask, Invoke
  <2>2. m.t \in CallTypes => d \in Calls
      BY <1>10, OneLess, MsgIds DEF RunTask, NativeRuntimeTypeOK
  <2>3. InvokeAtOnce(m) =>
            \/ \E st : /\ call' = [call EXCEPT ![d].st = st]
                       /\ st = call[d].st \/ st \notin Going
            \/ call' = [call EXCEPT ![d] = [kind |-> "retry", st |-> "made"]]
    <3> DEFINE st == IF call[d].st = "sent" THEN "answered" ELSE call[d].st
    <3>1. InvokeAtOnce(m) =>
              \/ call' = [call EXCEPT ![d].st = st]
              \/ call' = [call EXCEPT ![d] = [kind |-> "retry", st |-> "made"]]
        BY DEF InvokeAtOnce, CallGets
    <3>2. st = call[d].st \/ st \notin Going
        OBVIOUS
    <3> HIDE DEF st, m, d
    <3>3. QED
        BY <3>1, <3>2
  <2>4. InvokeLater(m) =>
            \E st : /\ call' = [call EXCEPT ![d].st = st]
                    /\ st = call[d].st \/ call[d].st \in Going
      BY DEF InvokeLater, CallGets
  <2> HIDE DEF m, d
  <2>5. QED
      BY <1>2, <1>3, <1>4, <2>1, <2>2, <2>3, <2>4
<1>11. QED
    BY <1>4, <1>5, <1>6, <1>7, <1>8, <1>9, <1>10, CallSteps

\* Raised by a call of evalSync(), which notes the calls under way, the flag is
\* down again before the next one.
LEMMA EarlierStep ==
    ASSUME NativeRuntimeTypeOK, NoCallDuringEvalSync, Next
    PROVE  NoCallDuringEvalSync'
<1> SUFFICES ASSUME evalSyncActive' PROVE UnderWay' \subseteq earlier'
    BY DEF NoCallDuringEvalSync
<1>1. ASSUME NEW r \in Requests, EvalSync(r) PROVE UnderWay' \subseteq earlier'
  <2>1. call' = call /\ earlier' = UnderWay
      BY <1>1 DEF EvalSync, workerCode
  <2>2. QED
      BY <2>1 DEF UnderWay
<1>2. CASE earlier' = earlier /\ evalSyncActive
    BY <1>2, UnderWayShrinks DEF NoCallDuringEvalSync
<1>3. evalSyncActive \/ \E r \in Requests : EvalSync(r)
    BY FlagSteps DEF ControlUnblocks, EvalSyncReturns, ForceDispose, StartupDone, StartupFails,
       EmitClose, Stop, PumpChecks, PumpReceives, PumpDrains, RunTask, tableVars
<1>4. QED
    BY <1>1, <1>2, <1>3, EarlierSteps

-----------------------------------------------------------------------------
(***************************************************************************)
(* Data before control.                                                    *)
(***************************************************************************)
\* What a full channel holds beyond one drain.
Arrears == IF ChannelSize <= DrainMax THEN 0 ELSE ChannelSize - DrainMax

\* The data messages are delivered in the order of their posting, and the drain has
\* enough left to reach what was posted before its request, up to the arrears.
Delivery == /\ delivered + Len(data) = posted
            /\ \A i \in 1..Len(data) : data[i] = delivered + i

DataInv ==
    /\ worker.pc # "gone" => Delivery
    /\ \A r \in Requests : before[r] <= posted
    /\ worker.pc = "drain" => before[worker.msg.id] <= delivered + worker.left + Arrears
    /\ worker.pc \in {"handle", "eval", "reply", "sending"} => before[worker.msg.id] <= delivered + Arrears

LEMMA DataInit == Init => DataInv
BY DEF Init, DataInv, Delivery

LEMMA DataStep ==
    ASSUME NativeRuntimeTypeOK, PendingHasOneOwner, DataInv, Next
    PROVE  DataInv'
<1>1. /\ data \in Seq(Nat) /\ Len(data) <= ChannelSize /\ Len(data) \in Nat
      /\ posted \in Nat /\ delivered \in Nat /\ before \in [Requests -> Nat]
      /\ ChannelSize \in Nat /\ DrainMax \in Nat /\ worker.left \in Nat
      /\ Arrears \in Nat /\ ChannelSize <= DrainMax + Arrears
  <2>1. /\ data \in Seq(Nat) /\ Len(data) <= ChannelSize
        /\ posted \in Nat /\ delivered \in Nat /\ before \in [Requests -> Nat]
      BY DEF NativeRuntimeTypeOK
  <2>2. Len(data) \in Nat
      BY <2>1
  <2>3. worker.left \in Nat
      BY ThreadFacts
  <2>4. /\ ChannelSize \in Nat /\ DrainMax \in Nat
        /\ Arrears \in Nat /\ ChannelSize <= DrainMax + Arrears
      BY SizesAreNatural DEF Arrears
  <2>5. QED
      BY <2>1, <2>2, <2>3, <2>4
<1>2. worker = [pc |-> worker.pc, msg |-> worker.msg, left |-> worker.left, waits |-> worker.waits]
    BY ThreadFacts
<1>3. CASE UNCHANGED <<posted, delivered, data, before, worker>>
    BY <1>3 DEF DataInv, Delivery
<1>4. ASSUME NEW r \in Requests,
             EvalSync(r) \/ \E op \in Awaited : QueueDenoMsgOrReject(op, r)
      PROVE  DataInv'
  <2>1. /\ promise[r] = "none" /\ before' = [before EXCEPT ![r] = posted]
        /\ posted' = posted /\ delivered' = delivered /\ data' = data /\ worker' = worker
      BY <1>4 DEF EvalSync, QueueDenoMsgOrReject
  <2>2. worker.msg.id # r
      BY <2>1, OneOwner
  <2>3. worker.pc \in {"drain", "handle", "eval", "reply", "sending"} => before'[worker.msg.id] = before[worker.msg.id]
      BY <1>1, <2>1, <2>2, HeldRequests
  <2>4. \A x \in Requests : before'[x] <= posted
      BY <1>1, <2>1 DEF DataInv
  <2>5. QED
      BY <2>1, <2>3, <2>4 DEF DataInv, Delivery
<1>5. CASE PostMessage \/ PostUnblocks \/ PostStreamFrame
  <2>1. /\ delivered' = delivered /\ before' = before /\ worker' = worker
        /\ \/ posted' = posted /\ data' = data
           \/ worker.pc # "gone" /\ posted' = posted + 1 /\ data' = Append(data, posted + 1)
      BY <1>5 DEF PostMessage, PostUnblocks, PostStreamFrame, WorkerLives, requestVars
  <2>2. CASE posted' = posted /\ data' = data
      BY <2>1, <2>2 DEF DataInv, Delivery
  <2>3. CASE worker.pc # "gone" /\ posted' = posted + 1 /\ data' = Append(data, posted + 1)
    <3>1. delivered + Len(data) = posted /\ \A i \in 1..Len(data) : data[i] = delivered + i
        BY <2>3 DEF DataInv, Delivery
    <3>2. /\ Len(data') = Len(data) + 1 /\ data'[Len(data) + 1] = posted + 1
          /\ \A i \in 1..Len(data) : data'[i] = data[i]
        BY <1>1, <2>3
    <3>3. ASSUME NEW i \in 1..Len(data') PROVE data'[i] = delivered + i
      <4>1. i \in 1..Len(data) \/ (i = Len(data) + 1 /\ posted + 1 = delivered + i)
          BY <1>1, <3>1, <3>2
      <4>2. QED
          BY <3>1, <3>2, <4>1
    <3>4. delivered + Len(data') = posted'
        BY <1>1, <2>3, <3>1, <3>2
    <3>5. \A x \in Requests : before[x] <= posted'
        BY <1>1, <2>3 DEF DataInv
    <3>6. QED
        BY <2>1, <3>3, <3>4, <3>5 DEF DataInv, Delivery
  <2>4. QED
      BY <2>1, <2>2, <2>3
<1>6. CASE Boot \/ StartupFails \/ Join
  <2>1. /\ posted' = posted /\ delivered' = delivered /\ before' = before
        /\ \/ worker'.pc = "gone"
           \/ data' = data /\ worker.pc = "boot" /\ worker' = [worker EXCEPT !.pc = "startup", !.waits = TRUE]
      BY <1>6 DEF Boot, StartupFails, Join, ThreadEnds, Rest
  <2>2. QED
      BY <1>2, <2>1 DEF DataInv, Delivery
<1>7. CASE TakeControl
  <2>1. /\ worker.pc = "idle" /\ control # <<>>
        /\ posted' = posted /\ delivered' = delivered /\ before' = before /\ data' = data
        /\ worker' = [worker EXCEPT !.pc = "drain", !.msg = Head(control), !.left = DrainMax]
      BY <1>7 DEF TakeControl, requestVars
  <2>2. worker'.pc = "drain" /\ worker'.msg = Head(control) /\ worker'.left = DrainMax
      BY <1>2, <2>1
  <2>3. Head(control).id \in Requests
      BY <2>1, OneLess, MsgIds DEF NativeRuntimeTypeOK
  <2>4. Delivery
      BY <2>1 DEF DataInv
  <2>5. before[Head(control).id] <= posted /\ before[Head(control).id] \in Nat
      BY <1>1, <2>3 DEF DataInv
  <2>6. before[Head(control).id] <= delivered + DrainMax + Arrears
      BY <1>1, <2>4, <2>5 DEF Delivery
  <2>7. QED
      BY <2>1, <2>2, <2>4, <2>6 DEF DataInv, Delivery
<1>8. CASE Drain \/ TakeData
  <2>1. /\ worker.pc \in {"drain", "idle"} /\ data # <<>>
        /\ delivered' = Head(data) /\ data' = Tail(data) /\ posted' = posted /\ before' = before
        /\ \/ worker.pc = "idle" /\ worker' = worker
           \/ /\ worker.pc = "drain" /\ worker.left > 0 /\ worker' = [worker EXCEPT !.left = @ - 1]
      BY <1>8 DEF Drain, TakeData, Deliver, requestVars
  <2>2. delivered + Len(data) = posted /\ \A i \in 1..Len(data) : data[i] = delivered + i
      BY <2>1 DEF DataInv, Delivery
  <2>3. /\ Len(data) > 0 /\ Head(data) = data[1] /\ Len(data') = Len(data) - 1
        /\ \A i \in 1..Len(data') : data'[i] = data[i + 1] /\ i + 1 \in 1..Len(data)
    <3>1. /\ Len(data) > 0 /\ Head(data) = data[1] /\ Len(Tail(data)) = Len(data) - 1
          /\ \A i \in 1..Len(Tail(data)) : Tail(data)[i] = data[i + 1]
        BY <1>1, <2>1
    <3>2. \A i \in 1..Len(Tail(data)) : i + 1 \in 1..Len(data)
        BY <1>1, <3>1
    <3>3. QED
        BY <2>1, <3>1, <3>2
  <2>4. delivered' = delivered + 1
    <3>1. 1 \in 1..Len(data)
        BY <1>1, <2>3
    <3>2. data[1] = delivered + 1
        BY <2>2, <3>1
    <3>3. QED
        BY <2>1, <2>3, <3>2
  <2>5. delivered' + Len(data') = posted' /\ \A i \in 1..Len(data') : data'[i] = delivered' + i
      BY <1>1, <2>1, <2>2, <2>3, <2>4
  <2>6. CASE worker.pc = "idle" /\ worker' = worker
      BY <2>1, <2>5, <2>6 DEF DataInv, Delivery
  <2>7. CASE worker.pc = "drain" /\ worker.left > 0 /\ worker' = [worker EXCEPT !.left = @ - 1]
    <3>1. worker'.pc = "drain" /\ worker'.msg = worker.msg /\ worker'.left = worker.left - 1
        BY <1>2, <2>7
    <3>2. before[worker.msg.id] <= delivered + worker.left + Arrears /\ before[worker.msg.id] \in Nat
        BY <1>1, <2>7, HeldRequests DEF DataInv
    <3>3. before[worker.msg.id] <= delivered' + worker'.left + Arrears
      <4>1. PICK b \in Nat : b = before[worker.msg.id]
          BY <3>2
      <4>2. PICK k \in Nat : k = worker.left
          BY <1>1
      <4>3. b <= delivered + k + Arrears => b <= (delivered + 1) + (k - 1) + Arrears
          BY <1>1
      <4>4. QED
          BY <2>4, <3>1, <3>2, <4>1, <4>2, <4>3
    <3>4. QED
        BY <2>1, <2>5, <3>1, <3>3 DEF DataInv, Delivery
  <2>8. QED
      BY <2>1, <2>6, <2>7
<1>9. CASE DrainEnds
  <2>1. /\ worker.pc = "drain" /\ (worker.left = 0 \/ data = <<>>)
        /\ posted' = posted /\ delivered' = delivered /\ before' = before /\ data' = data
        /\ worker' = [worker EXCEPT !.pc = "handle", !.left = 0]
      BY <1>9 DEF DrainEnds, requestVars
  <2>2. worker'.pc = "handle" /\ worker'.msg = worker.msg
      BY <1>2, <2>1
  <2>3. before[worker.msg.id] <= delivered + Arrears
    <3>1. /\ before[worker.msg.id] <= delivered + worker.left + Arrears /\ before[worker.msg.id] <= posted
          /\ before[worker.msg.id] \in Nat
        BY <1>1, <2>1, HeldRequests DEF DataInv
    <3>2. data = <<>> => delivered = posted
      <4>1. delivered + Len(data) = posted
          BY <2>1 DEF DataInv, Delivery
      <4>2. QED
          BY <1>1, <4>1
    <3>3. QED
        BY <1>1, <2>1, <3>1, <3>2
  <2>4. QED
      BY <2>1, <2>2, <2>3 DEF DataInv, Delivery
<1>10. CASE HandleEval \/ HandleMemory \/ EvalEnds \/ Reply
  <2>1. /\ posted' = posted /\ delivered' = delivered /\ before' = before /\ data' = data
        /\ worker.pc \in {"handle", "eval", "reply"}
        /\ \/ worker' = Rest
           \/ \E pc \in {"reply", "sending"} : worker' = [worker EXCEPT !.pc = pc]
           \/ \E w \in BOOLEAN : worker' = [worker EXCEPT !.pc = "eval", !.waits = w]
      BY <1>10 DEF HandleEval, HandleMemory, EvalEnds, Reply, Goto, requestVars
  <2>2. CASE worker' = Rest
      BY <2>1, <2>2 DEF DataInv, Delivery, Rest
  <2>3. ASSUME NEW pc \in {"reply", "sending"}, worker' = [worker EXCEPT !.pc = pc] PROVE DataInv'
    <3>1. worker'.pc = pc /\ worker'.msg = worker.msg
        BY <1>2, <2>3
    <3>2. QED
        BY <2>1, <3>1 DEF DataInv, Delivery
  <2>4. ASSUME NEW w \in BOOLEAN, worker' = [worker EXCEPT !.pc = "eval", !.waits = w] PROVE DataInv'
    <3>1. worker'.pc = "eval" /\ worker'.msg = worker.msg
        BY <1>2, <2>4
    <3>2. QED
        BY <2>1, <3>1 DEF DataInv, Delivery
  <2>5. QED
      BY <2>1, <2>2, <2>3, <2>4
<1>11. CASE StartupDone \/ Disconnect \/ HandleGc \/ HandleClose \/ EmitClose \/ SendNodeMsgOrReject \/ Stop
  <2>1. /\ posted' = posted /\ delivered' = delivered /\ before' = before /\ data' = data
        /\ worker.pc # "gone"
      BY <1>11 DEF StartupDone, Disconnect, HandleGc, HandleClose, EmitClose, SendNodeMsgOrReject, Stop, requestVars
  <2>2. worker'.pc \in {"idle", "stopping", "closing", "join"}
      BY <1>2, <1>11 DEF StartupDone, Disconnect, HandleGc, HandleClose, EmitClose, SendNodeMsgOrReject, Stop, Rest, Goto
  <2>3. QED
      BY <2>1, <2>2 DEF DataInv, Delivery
<1>12. QED
    BY <1>3, <1>4, <1>5, <1>6, <1>7, <1>8, <1>9, <1>10, <1>11, DeliverySteps

-----------------------------------------------------------------------------
(***************************************************************************)
(* Messages come before the result of the eval that sent them.             *)
(***************************************************************************)
Holds(ch, m) == \E i \in 1..Len(ch) : ch[i] = m

\* Every x in ch has an m before it.
Precedes(ch, m, x) == \A i \in 1..Len(ch) : ch[i] = x => \E j \in 1..Len(ch) : j < i /\ ch[j] = m

LEMMA AppendKeeps ==
    ASSUME NEW S, NEW ch \in Seq(S), NEW y \in S, NEW m, NEW x
    PROVE  /\ Holds(Append(ch, y), m) <=> (Holds(ch, m) \/ y = m)
           /\ Precedes(ch, m, x) /\ (y = x => Holds(ch, m)) => Precedes(Append(ch, y), m, x)
<1> DEFINE t == Append(ch, y)
           l == Len(ch)
<1>1. /\ l \in Nat /\ Len(t) = l + 1 /\ t[l + 1] = y
      /\ \A i \in 1..l : t[i] = ch[i]
    OBVIOUS
<1> HIDE DEF t
<1>2. \A i \in 1..(l + 1) : i \in 1..l \/ i = l + 1
    BY <1>1
<1>3. \A i \in 1..l : i \in 1..(l + 1) /\ i < l + 1
    BY <1>1
<1>4. l + 1 \in 1..(l + 1)
    BY <1>1
<1> HIDE DEF l
<1>5. Holds(t, m) <=> (Holds(ch, m) \/ y = m)
    BY <1>1, <1>2, <1>3, <1>4 DEF Holds, l
<1>6. Precedes(ch, m, x) /\ (y = x => Holds(ch, m)) => Precedes(t, m, x)
    BY <1>1, <1>2, <1>3, <1>4 DEF Holds, Precedes, l
<1>7. QED
    BY <1>5, <1>6 DEF t

LEMMA TailKeeps ==
    ASSUME NEW S, NEW ch \in Seq(S), ch # <<>>, NEW m, NEW x, Head(ch) # m
    PROVE  /\ Holds(ch, m) => Holds(Tail(ch), m)
           /\ Precedes(ch, m, x) => Head(ch) # x /\ Precedes(Tail(ch), m, x)
<1> DEFINE t == Tail(ch)
           l == Len(ch)
           h == Head(ch)
<1>1. /\ l \in Nat /\ l >= 1 /\ Len(t) = l - 1 /\ ch[1] = h
      /\ \A i \in 1..(l - 1) : t[i] = ch[i + 1]
    OBVIOUS
<1> HIDE DEF t, l, h
<1>2. \A i \in 1..l : i = 1 \/ (i - 1 \in 1..(l - 1) /\ t[i - 1] = ch[i])
  <2>1. \A i \in 1..l : i = 1 \/ (i - 1 \in 1..(l - 1) /\ (i - 1) + 1 = i)
      BY <1>1
  <2>2. QED
      BY <1>1, <2>1
<1>3. \A i \in 1..(l - 1) : i + 1 \in 1..l /\ t[i] = ch[i + 1]
    BY <1>1
<1>4. 1 \in 1..l /\ h # m
    BY <1>1 DEF h
<1>5. Holds(ch, m) => Holds(t, m)
    BY <1>1, <1>2, <1>4 DEF Holds, l
<1>6. Precedes(ch, m, x) => h # x
    BY <1>1, <1>4 DEF Precedes, l
<1>7. ASSUME Precedes(ch, m, x) PROVE Precedes(t, m, x)
  <2>1. SUFFICES ASSUME NEW i \in 1..(l - 1), t[i] = x PROVE \E j \in 1..(l - 1) : j < i /\ t[j] = m
      BY <1>1 DEF Precedes
  <2>2. PICK k \in 1..l : k < i + 1 /\ ch[k] = m
      BY <1>3, <1>7, <2>1 DEF Precedes, l
  <2>3. k # 1
      BY <1>1, <1>4, <2>2
  <2>4. k - 1 \in 1..(l - 1) /\ t[k - 1] = m
      BY <1>2, <2>2, <2>3
  <2>5. k - 1 < i
      BY <1>1, <2>1, <2>2
  <2>6. QED
      BY <2>4, <2>5
<1>8. QED
    BY <1>5, <1>6, <1>7 DEF t, h

LEMMA ConcatKeeps ==
    ASSUME NEW S, NEW ch \in Seq(S), NEW q \in Seq(S), NEW m, NEW x,
           \A i \in 1..Len(q) : q[i] # x
    PROVE  /\ Holds(ch, m) => Holds(ch \o q, m)
           /\ Precedes(ch, m, x) => Precedes(ch \o q, m, x)
<1> DEFINE t == ch \o q
           l == Len(ch)
           n == Len(q)
<1>1. /\ l \in Nat /\ n \in Nat /\ Len(t) = l + n
      /\ \A i \in 1..l : t[i] = ch[i]
      /\ \A i \in 1..n : t[l + i] = q[i]
    OBVIOUS
<1> HIDE DEF t, l, n
<1>2. \A i \in 1..l : i \in 1..(l + n)
    BY <1>1
<1>3. ASSUME NEW i \in 1..(l + n), i \notin 1..l PROVE t[i] # x
  <2>1. i - l \in 1..n /\ l + (i - l) = i
      BY <1>1, <1>3
  <2>2. t[i] = q[i - l]
      BY <1>1, <2>1
  <2>3. QED
      BY <2>1, <2>2 DEF n
<1>4. Holds(ch, m) => Holds(t, m)
    BY <1>1, <1>2 DEF Holds, l
<1>5. Precedes(ch, m, x) => Precedes(t, m, x)
    BY <1>1, <1>2, <1>3 DEF Precedes, l
<1>6. QED
    BY <1>4, <1>5 DEF t

LEMMA SoleSteps ==
    Next =>
      \/ UNCHANGED <<node, control, worker>>
      \/ \E op \in Awaited, r \in Requests : QueueDenoMsgOrReject(op, r)
      \/ \E r \in Requests : EvalSync(r)
      \/ ControlUnblocks \/ EvalSyncReturns \/ PostMessage \/ PostUnblocks \/ Boot
      \/ StartupDone \/ StartupFails \/ TakeControl \/ Drain \/ DrainEnds \/ Disconnect
      \/ HandleEval \/ HandleMemory \/ HandleGc \/ HandleClose \/ EmitClose \/ EvalEnds
      \/ Reply \/ SendNodeMsgOrReject \/ Stop \/ Join
BY Zenon
DEF Next, Application, NodeThread, WorkerThread, WorkerCode, Pump, Eval, Memory, Gc, Close,
    Awaited, PostStreamFrame, ForceDispose, TakeData, HostCall, AsyncSent, OpStarts, CallTimesOut,
    PostToNode, PostToNodeTimesOut, Dispatch, PumpChecks, PumpReceives, PumpDrains, RunTask,
    HostSettles, requestVars

LEMMA AheadSteps ==
    Next =>
      \/ UNCHANGED <<promise, node, control, worker>>
      \/ \E op \in Awaited, r \in Requests : QueueDenoMsgOrReject(op, r)
      \/ \E r \in Requests : EvalSync(r)
      \/ ControlUnblocks \/ EvalSyncReturns \/ PostMessage \/ PostUnblocks \/ Boot
      \/ StartupDone \/ StartupFails \/ TakeControl \/ Drain \/ DrainEnds \/ Disconnect
      \/ HandleEval \/ HandleMemory \/ HandleGc \/ HandleClose \/ EmitClose \/ EvalEnds
      \/ Reply \/ SendNodeMsgOrReject \/ Stop \/ Join \/ RunTask
BY Zenon
DEF Next, Application, NodeThread, WorkerThread, WorkerCode, Pump, Eval, Memory, Gc, Close,
    Awaited, PostStreamFrame, ForceDispose, TakeData, HostCall, AsyncSent, OpStarts, CallTimesOut,
    PostToNode, PostToNodeTimesOut, Dispatch, PumpChecks, PumpReceives, PumpDrains, HostSettles,
    requestVars

\* While evalSync waits for an answer, no other request goes by its name.
SoleRequest ==
    node.st = "awaiting" =>
        /\ worker.msg.id = node.msg.id => worker.msg.t = "evalSync"
        /\ \A i \in 1..Len(control) : control[i].id = node.msg.id => control[i].t = "evalSync"

LEMMA SoleInit == Init => SoleRequest
BY DEF Init, SoleRequest, Free

LEMMA SoleStep ==
    ASSUME NativeRuntimeTypeOK, PendingHasOneOwner, SoleRequest, Next
    PROVE  SoleRequest'
<1>0. /\ control \in Seq(ControlMsgs) /\ Len(control) \in Nat
      /\ worker = [pc |-> worker.pc, msg |-> worker.msg, left |-> worker.left, waits |-> worker.waits]
    BY ThreadFacts DEF NativeRuntimeTypeOK
<1>1. ASSUME node' = node, control' = control, worker'.msg = worker.msg \/ worker'.msg = Nothing
      PROVE  SoleRequest'
    BY <1>1, HeldRequests, MsgTypes, ZeroIsNoRequest DEF SoleRequest
<1>2. CASE UNCHANGED <<node, control, worker>>
    BY <1>1, <1>2
<1>3. ASSUME NEW op \in Awaited, NEW r \in Requests, QueueDenoMsgOrReject(op, r) PROVE SoleRequest'
  <2>1. node = Free /\ (node' = node \/ node' = [st |-> "queueing", msg |-> Msg(op, r)])
      BY <1>3 DEF QueueDenoMsgOrReject, MayCall
  <2>2. QED
      BY <2>1 DEF SoleRequest, Free
<1>4. ASSUME NEW r \in Requests, EvalSync(r) PROVE SoleRequest'
  <2> DEFINE m == Msg("evalSync", r)
  <2>1. /\ node = Free /\ promise[r] = "none" /\ worker' = worker
        /\ \/ node' = node
           \/ node' = [st |-> "queueing", msg |-> m]
           \/ /\ node' = [st |-> "awaiting", msg |-> m]
              /\ control' = Append(control, m)
      BY <1>4 DEF EvalSync, MayCall
  <2>2. m.id = r /\ m.t = "evalSync"
      BY DEF Msg
  <2>3. worker.msg.id # r /\ \A i \in 1..Len(control) : control[i].id # r
      BY <2>1, OneOwner
  <2> HIDE DEF m
  <2>4. CASE node' = [st |-> "awaiting", msg |-> m] /\ control' = Append(control, m)
    <3>1. \A i \in 1..Len(control') : control'[i] = m \/ control'[i].id # r
        BY <1>0, <2>3, <2>4
    <3>2. QED
        BY <2>1, <2>2, <2>3, <2>4, <3>1 DEF SoleRequest
  <2>5. CASE node' = node \/ node' = [st |-> "queueing", msg |-> m]
      BY <2>1, <2>5 DEF SoleRequest, Free
  <2>6. QED
      BY <2>1, <2>4, <2>5
<1>5. CASE ControlUnblocks
  <2>1. /\ node.st = "queueing" /\ node.msg.t # "post" /\ worker' = worker
        /\ \/ node' = Free
           \/ /\ control' = Append(control, node.msg) /\ node.msg.t = "evalSync"
              /\ node' = [node EXCEPT !.st = "awaiting"]
      BY <1>5 DEF ControlUnblocks
  <2>2. CASE node' = Free
      BY <2>2 DEF SoleRequest, Free
  <2>3. CASE /\ control' = Append(control, node.msg) /\ node.msg.t = "evalSync"
             /\ node' = [node EXCEPT !.st = "awaiting"]
    <3>1. node' = [st |-> "awaiting", msg |-> node.msg]
        BY <2>3, ThreadFacts
    <3>2. node.msg.id \in Requests
        BY <2>1, HeldRequests
    <3>3. PICK r \in Requests : r = node.msg.id
        BY <3>2
    <3>4. worker.msg.id # r /\ \A i \in 1..Len(control) : control[i].id # r
        BY <2>1, <3>3, OneOwner
    <3>5. \A i \in 1..Len(control') : control'[i] = node.msg \/ control'[i].id # r
        BY <1>0, <2>3, <3>4
    <3>6. QED
        BY <2>1, <2>3, <3>1, <3>3, <3>4, <3>5 DEF SoleRequest
  <2>4. QED
      BY <2>1, <2>2, <2>3
<1>6. CASE EvalSyncReturns
    BY <1>6 DEF EvalSyncReturns, SoleRequest, Free
<1>7. CASE PostMessage \/ PostUnblocks
  <2>1. /\ node' = node \/ node' = Free \/ node' = [st |-> "queueing", msg |-> Msg("post", 0)]
        /\ control' = control /\ worker' = worker
      BY <1>7 DEF PostMessage, PostUnblocks
  <2>2. QED
      BY <1>1, <2>1 DEF SoleRequest, Free
<1>8. CASE TakeControl
  <2>1. /\ control # <<>> /\ control' = Tail(control) /\ node' = node
        /\ worker' = [worker EXCEPT !.pc = "drain", !.msg = Head(control), !.left = DrainMax]
      BY <1>8 DEF TakeControl, requestVars
  <2>2. worker'.msg = control[1]
      BY <1>0, <2>1
  <2>3. 1 \in 1..Len(control) /\ \A i \in 1..Len(control') : control'[i] = control[i + 1] /\ i + 1 \in 1..Len(control)
      BY <1>0, <2>1
  <2>4. QED
      BY <2>1, <2>2, <2>3 DEF SoleRequest
<1>9. CASE Boot \/ StartupFails \/ Join
  <2>1. node' = node /\ (control' = control \/ control' = <<>>) /\ (worker'.msg = worker.msg \/ worker'.msg = Nothing)
      BY <1>0, <1>9 DEF Boot, StartupFails, Join, ThreadEnds, Rest
  <2>2. CASE control' = control
      BY <1>1, <2>1, <2>2
  <2>3. CASE control' = <<>>
    <3>1. Len(control') = 0
        BY <2>3
    <3>2. QED
        BY <2>1, <3>1, HeldRequests, MsgTypes, ZeroIsNoRequest DEF SoleRequest
  <2>4. QED
      BY <2>1, <2>2, <2>3
<1>10. CASE StartupDone \/ HandleGc \/ HandleClose \/ SendNodeMsgOrReject \/ Reply \/ EvalEnds
  <2>1. node' = node /\ control' = control /\ (worker'.msg = worker.msg \/ worker'.msg = Nothing)
      BY <1>0, <1>10 DEF StartupDone, HandleGc, HandleClose, SendNodeMsgOrReject, Reply, EvalEnds, Rest,
                         Goto, requestVars
  <2>2. QED
      BY <1>1, <2>1
<1>11. CASE \/ Drain \/ DrainEnds \/ Disconnect \/ HandleEval \/ HandleMemory \/ EmitClose \/ Stop
  <2>1. node' = node /\ control' = control /\ worker'.msg = worker.msg
      BY <1>0, <1>11 DEF Drain, DrainEnds, Disconnect, HandleEval, HandleMemory, EmitClose, Stop, Goto,
                         requestVars
  <2>2. QED
      BY <1>1, <2>1
<1>12. QED
    BY <1>2, <1>3, <1>4, <1>5, <1>6, <1>7, <1>8, <1>9, <1>10, <1>11, SoleSteps

\* The request is with the worker as an eval, or behind it: none of its name comes.
NotAhead(r) ==
    /\ promise[r] # "none"
    /\ \A i \in 1..Len(control) : control[i].id # r
    /\ node.msg.id # r
    /\ worker.msg.id = r => worker.msg.t = "eval"

LEMMA NotAheadStep ==
    ASSUME NativeRuntimeTypeOK, NEW r \in Requests, NotAhead(r), Next
    PROVE  NotAhead(r)'
<1>0. /\ control \in Seq(ControlMsgs) /\ Len(control) \in Nat
      /\ worker = [pc |-> worker.pc, msg |-> worker.msg, left |-> worker.left, waits |-> worker.waits]
      /\ node = [st |-> node.st, msg |-> node.msg]
      /\ promise \in [Requests -> {"none", "pending", "fulfilled", "rejected"}]
      /\ r # 0 /\ Nothing.id = 0 /\ Free.msg.id = 0
    BY ThreadFacts, MsgTypes, ZeroIsNoRequest DEF NativeRuntimeTypeOK, Free
<1>1. ASSUME promise'[r] # "none", node'.msg.id # r,
             control' = control \/ Len(control') = 0,
             worker'.msg = worker.msg \/ worker'.msg = Nothing
      PROVE  NotAhead(r)'
    BY <1>0, <1>1 DEF NotAhead
<1>2. CASE UNCHANGED <<promise, node, control, worker>>
    BY <1>1, <1>2 DEF NotAhead
<1>3. ASSUME NEW op \in Awaited \cup {"evalSync"}, NEW q \in Requests,
             EvalSync(q) \/ (op \in Awaited /\ QueueDenoMsgOrReject(op, q)) PROVE NotAhead(r)'
  <2>1. /\ promise[q] = "none" /\ worker' = worker
        /\ \E how \in {"pending", "rejected"} : promise' = [promise EXCEPT ![q] = how]
        /\ \E t \in Awaited \cup {"evalSync"} :
              /\ node' = node \/ node'.msg = Msg(t, q)
              /\ control' = control \/ control' = Append(control, Msg(t, q))
      BY <1>3 DEF EvalSync, QueueDenoMsgOrReject, Settle
  <2>2. q # r
      BY <2>1 DEF NotAhead
  <2>3. promise'[r] = promise[r]
      BY <1>0, <2>1, <2>2
  <2>4. node'.msg.id # r
      BY <2>1, <2>2 DEF NotAhead, Msg
  <2>5. \A i \in 1..Len(control') : control'[i].id # r
    <3>1. PICK m : m.id = q /\ (control' = control \/ control' = Append(control, m))
        BY <2>1 DEF Msg
    <3>2. QED
        BY <1>0, <2>2, <3>1 DEF NotAhead
  <2>6. QED
      BY <2>1, <2>3, <2>4, <2>5 DEF NotAhead
<1>4. CASE ControlUnblocks
  <2>1. /\ worker' = worker
        /\ \/ promise' = promise
           \/ promise' = [promise EXCEPT ![node.msg.id] = "rejected"]
        /\ node' = Free \/ node' = [node EXCEPT !.st = "awaiting"]
        /\ control' = control \/ control' = Append(control, node.msg)
      BY <1>4 DEF ControlUnblocks, Settle
  <2>2. node.msg.id # r
      BY DEF NotAhead
  <2>3. promise'[r] = promise[r] /\ node'.msg.id # r
      BY <1>0, <2>1, <2>2
  <2>4. \A i \in 1..Len(control') : control'[i].id # r
    <3>1. PICK m : m.id # r /\ (control' = control \/ control' = Append(control, m))
        BY <2>1, <2>2
    <3>2. QED
        BY <1>0, <3>1 DEF NotAhead
  <2>5. QED
      BY <2>1, <2>3, <2>4 DEF NotAhead
<1>5. CASE EvalSyncReturns
  <2>1. /\ worker' = worker /\ control' = control /\ node' = Free
        /\ \E how \in {"fulfilled", "rejected"} : promise' = [promise EXCEPT ![node.msg.id] = how]
      BY <1>5 DEF EvalSyncReturns, Settle
  <2>2. promise'[r] # "none"
      BY <1>0, <2>1 DEF NotAhead
  <2>3. QED
      BY <1>0, <1>1, <2>1, <2>2
<1>6. CASE PostMessage \/ PostUnblocks
  <2>1. /\ node' = node \/ node' = Free \/ node' = [st |-> "queueing", msg |-> Msg("post", 0)]
        /\ control' = control /\ worker' = worker /\ promise' = promise
      BY <1>6 DEF PostMessage, PostUnblocks
  <2>2. node'.msg.id # r
      BY <1>0, <2>1 DEF NotAhead, Msg
  <2>3. QED
      BY <1>1, <2>1, <2>2 DEF NotAhead
<1>7. CASE RunTask
  <2>1. /\ node' = node /\ control' = control /\ worker' = worker
        /\ \/ promise' = promise
           \/ \E how \in {"fulfilled", "rejected"} : promise' = [promise EXCEPT ![Head(js).id] = how]
      BY <1>7 DEF RunTask, Settle
  <2>2. promise'[r] # "none"
      BY <1>0, <2>1 DEF NotAhead
  <2>3. QED
      BY <1>1, <2>1, <2>2 DEF NotAhead
<1>8. CASE TakeControl
  <2>1. /\ control # <<>> /\ control' = Tail(control) /\ node' = node /\ promise' = promise
        /\ worker' = [worker EXCEPT !.pc = "drain", !.msg = Head(control), !.left = DrainMax]
      BY <1>8 DEF TakeControl, requestVars
  <2>2. worker'.msg = control[1]
      BY <1>0, <2>1
  <2>3. 1 \in 1..Len(control) /\ \A i \in 1..Len(control') : control'[i] = control[i + 1] /\ i + 1 \in 1..Len(control)
      BY <1>0, <2>1
  <2>4. QED
      BY <2>1, <2>2, <2>3 DEF NotAhead
<1>9. CASE Boot \/ StartupFails \/ Join
  <2>1. /\ node' = node /\ promise' = promise
        /\ control' = control \/ control' = <<>>
        /\ worker'.msg = worker.msg \/ worker'.msg = Nothing
      BY <1>0, <1>9 DEF Boot, StartupFails, Join, ThreadEnds, Rest
  <2>2. QED
      BY <1>1, <2>1 DEF NotAhead
<1>10. CASE StartupDone \/ HandleGc \/ HandleClose \/ SendNodeMsgOrReject \/ Reply \/ EvalEnds
  <2>1. /\ node' = node /\ control' = control /\ promise' = promise
        /\ worker'.msg = worker.msg \/ worker'.msg = Nothing
      BY <1>0, <1>10 DEF StartupDone, HandleGc, HandleClose, SendNodeMsgOrReject, Reply, EvalEnds, Rest,
                         Goto, requestVars
  <2>2. QED
      BY <1>1, <2>1 DEF NotAhead
<1>11. CASE \/ Drain \/ DrainEnds \/ Disconnect \/ HandleEval \/ HandleMemory \/ EmitClose \/ Stop
  <2>1. node' = node /\ control' = control /\ promise' = promise /\ worker'.msg = worker.msg
      BY <1>0, <1>11 DEF Drain, DrainEnds, Disconnect, HandleEval, HandleMemory, EmitClose, Stop, Goto,
                         requestVars
  <2>2. QED
      BY <1>1, <2>1 DEF NotAhead
<1>12. QED
    BY <1>2, <1>3, <1>4, <1>5, <1>6, <1>7, <1>8, <1>9, <1>10, <1>11, AheadSteps

LEMMA NotAheadNow ==
    ASSUME NativeRuntimeTypeOK, PendingHasOneOwner, SoleRequest, NEW r \in Requests,
           worker.msg = Msg("eval", r)
    PROVE  NotAhead(r)
<1>1. worker.msg.id = r /\ worker.msg.t = "eval"
    BY DEF Msg
<1>2. /\ promise[r] = "pending" /\ \A i \in 1..Len(control) : control[i].id # r
      /\ ~(node.st = "queueing" /\ node.msg.id = r)
    BY <1>1, OneOwner
<1>3. node.msg.id # r
    BY <1>1, <1>2, ThreadFacts, MsgTypes, ZeroIsNoRequest DEF SoleRequest, Free
<1>4. QED
    BY <1>1, <1>2, <1>3 DEF NotAhead

LEMMA HeardSteps ==
    Next =>
      \/ UNCHANGED <<promise, registered, nodeCh, js, worker>>
      \/ \E op \in Awaited, r \in Requests : QueueDenoMsgOrReject(op, r)
      \/ \E r \in Requests : EvalSync(r)
      \/ \E c \in Calls : AsyncSent(c)
      \/ ControlUnblocks \/ EvalSyncReturns \/ ForceDispose \/ Boot \/ StartupDone
      \/ StartupFails \/ TakeControl \/ Drain \/ DrainEnds \/ Disconnect \/ HandleEval
      \/ HandleMemory \/ HandleGc \/ HandleClose \/ EmitClose \/ EvalEnds \/ Reply
      \/ SendNodeMsgOrReject \/ Stop \/ Join \/ Dispatch \/ PumpReceives \/ PumpDrains
      \/ RunTask
BY Zenon
DEF Next, Application, NodeThread, WorkerThread, WorkerCode, Pump, Eval, Memory, Gc, Close,
    Awaited, PostMessage, PostUnblocks, PostStreamFrame, TakeData, HostCall, OpStarts, CallTimesOut,
    PostToNode, PostToNodeTimesOut, PumpChecks, HostSettles, tableVars, requestVars

\* A message that was sent during an eval and is not heard yet is ahead of the
\* eval's result wherever that is, or the worker is no longer registered.
OnTheWay(e) == ~registered \/ Holds(js, Msg("message", e))

AheadOf(e, r) ==
    /\ promise[r] # "fulfilled"
    /\ worker.msg = Msg("eval", r) => OnTheWay(e) \/ Holds(nodeCh, Msg("message", e))
    /\ OnTheWay(e) \/ Precedes(nodeCh, Msg("message", e), Msg("resolve", r))
    /\ Precedes(js, Msg("message", e), Msg("resolve", r))

LEMMA AheadStep ==
    ASSUME NativeRuntimeTypeOK, NEW e \in Emits, NEW r \in Requests,
           NotAhead(r), AheadOf(e, r), e \notin seen', Next
    PROVE  AheadOf(e, r)'
<1> DEFINE m  == Msg("message", e)
           ok == Msg("resolve", r)
           ev == Msg("eval", r)
<1>0. /\ nodeCh \in Seq(NodeMsgs) /\ js \in Seq(Tasks)
      /\ worker = [pc |-> worker.pc, msg |-> worker.msg, left |-> worker.left, waits |-> worker.waits]
      /\ promise \in [Requests -> {"none", "pending", "fulfilled", "rejected"}]
      /\ Nothing # ev /\ m # ok /\ Nothing.id = 0 /\ r # 0 /\ ev.id = r /\ ev.t = "eval" /\ ok.id = r
      /\ NodeMsgs \subseteq Tasks
    BY ThreadFacts, MsgTypes, ZeroIsNoRequest DEF NativeRuntimeTypeOK, Msg, Nothing
<1>a. /\ promise[r] # "fulfilled"
      /\ worker.msg = ev => ~registered \/ Holds(js, m) \/ Holds(nodeCh, m)
      /\ ~registered \/ Holds(js, m) \/ Precedes(nodeCh, m, ok)
      /\ Precedes(js, m, ok)
      /\ worker.msg.id = r => worker.msg.t = "eval"
    BY DEF AheadOf, OnTheWay, NotAhead
<1> HIDE DEF m, ok, ev
<1>b. ASSUME NEW y \in Tasks
      PROVE  /\ Holds(Append(js, y), m) <=> (Holds(js, m) \/ y = m)
             /\ (y # ok \/ Holds(js, m)) => Precedes(Append(js, y), m, ok)
    BY <1>0, <1>a, AppendKeeps
<1>c. ASSUME NEW y \in NodeMsgs
      PROVE  /\ Holds(nodeCh, m) => Holds(Append(nodeCh, y), m)
             /\ Precedes(nodeCh, m, ok) /\ (y # ok \/ Holds(nodeCh, m)) => Precedes(Append(nodeCh, y), m, ok)
    BY <1>0, AppendKeeps
\* What is to be shown, and two ways to show it.
<1>1. ASSUME promise'[r] # "fulfilled",
             worker'.msg = ev => ~registered' \/ Holds(js', m) \/ Holds(nodeCh', m),
             ~registered' \/ Holds(js', m) \/ Precedes(nodeCh', m, ok),
             Precedes(js', m, ok)
      PROVE  AheadOf(e, r)'
    BY <1>1 DEF AheadOf, OnTheWay, m, ok, ev
<1>2. ASSUME promise' = promise, ~registered => ~registered',
             worker'.msg = ev => worker.msg = ev,
             nodeCh' = nodeCh,
             js' = js \/ \E y \in Tasks : y # ok /\ js' = Append(js, y)
      PROVE  AheadOf(e, r)'
  <2>1. Holds(js, m) => Holds(js', m)
      BY <1>b, <1>2
  <2>2. Precedes(js', m, ok)
      BY <1>a, <1>b, <1>2
  <2>3. QED
      BY <1>a, <1>1, <1>2, <2>1, <2>2
<1>3. CASE UNCHANGED <<promise, registered, nodeCh, js, worker>>
    BY <1>2, <1>3
<1>4. ASSUME NEW op \in Awaited, NEW q \in Requests, QueueDenoMsgOrReject(op, q) PROVE AheadOf(e, r)'
  <2>1. /\ promise' = [promise EXCEPT ![q] = "pending"] /\ registered' = registered /\ worker' = worker
        /\ nodeCh' = nodeCh
        /\ js' = js \/ js' = Append(js, Msg("reject", q))
      BY <1>4 DEF QueueDenoMsgOrReject, Settle, tableVars
  <2>2. Msg("reject", q) \in Tasks /\ Msg("reject", q) # ok
      BY MsgTypes DEF Msg, ok
  <2>3. Holds(js, m) => Holds(js', m)
      BY <1>b, <2>1, <2>2
  <2>4. Precedes(js', m, ok)
      BY <1>a, <1>b, <2>1, <2>2
  <2>5. promise'[r] # "fulfilled"
      BY <1>0, <1>a, <2>1
  <2>6. QED
      BY <1>a, <1>1, <2>1, <2>3, <2>4, <2>5
<1>5. ASSUME NEW q \in Requests, EvalSync(q) PROVE AheadOf(e, r)'
  <2>1. /\ \E how \in {"pending", "rejected"} : promise' = [promise EXCEPT ![q] = how]
        /\ registered' = registered /\ worker' = worker /\ nodeCh' = nodeCh /\ js' = js
      BY <1>5 DEF EvalSync, Settle
  <2>2. promise'[r] # "fulfilled"
      BY <1>0, <1>a, <2>1
  <2>3. QED
      BY <1>a, <1>1, <2>1, <2>2
<1>6. CASE ControlUnblocks
  <2> DEFINE y == Msg("reject", node.msg.id)
  <2>1. /\ registered' = registered /\ worker' = worker /\ nodeCh' = nodeCh
        /\ promise' = promise \/ promise' = [promise EXCEPT ![node.msg.id] = "rejected"]
        /\ js' = js \/ js' = Append(js, y)
      BY <1>6 DEF ControlUnblocks, Settle
  <2>2. y \in Tasks /\ y # ok
    <3>1. node.msg.id \in Requests
        BY <1>6, HeldRequests DEF ControlUnblocks
    <3>2. QED
        BY <3>1, MsgTypes DEF Msg, ok
  <2> HIDE DEF y
  <2>3. Holds(js, m) => Holds(js', m)
      BY <1>b, <2>1, <2>2
  <2>4. Precedes(js', m, ok)
      BY <1>a, <1>b, <2>1, <2>2
  <2>5. promise'[r] # "fulfilled"
      BY <1>0, <1>a, <2>1
  <2>6. QED
      BY <1>a, <1>1, <2>1, <2>3, <2>4, <2>5
<1>7. CASE EvalSyncReturns
  <2>1. /\ registered' = registered /\ worker' = worker /\ nodeCh' = nodeCh /\ js' = js
        /\ \E how : promise' = [promise EXCEPT ![node.msg.id] = how]
      BY <1>7 DEF EvalSyncReturns, Settle
  <2>2. node.msg.id # r
      BY DEF NotAhead
  <2>3. promise'[r] = promise[r]
      BY <1>0, <2>1, <2>2
  <2>4. QED
      BY <1>a, <1>1, <2>1, <2>3
<1>8. CASE ForceDispose
  <2>1. UNCHANGED <<promise, worker, nodeCh, js>> /\ ~registered'
      BY <1>8 DEF ForceDispose, requestVars
  <2>2. QED
      BY <1>2, <2>1
<1>9. CASE Boot \/ StartupFails \/ Join
  <2>1. promise' = promise /\ registered' = registered
      BY <1>9 DEF Boot, StartupFails, Join, tableVars
  <2>2. CASE nodeCh' = nodeCh /\ js' = js /\ worker' = [worker EXCEPT !.pc = "startup", !.waits = TRUE]
    <3>1. worker'.msg = worker.msg
        BY <1>0, <2>2
    <3>2. QED
        BY <1>2, <2>1, <2>2, <3>1
  <2>3. CASE ThreadEnds
    <3> DEFINE p == Rejections(control, Awaited)
               q == Rejections(nodeCh, {"resolve"})
    <3>1. nodeCh' = <<>> /\ js' = (js \o p) \o q /\ worker'.msg = Nothing
        BY <2>3 DEF ThreadEnds, Rest
    <3>2. p \in Seq(Rejects) /\ q \in Seq(Rejects)
        BY EndRejects
    <3> HIDE DEF p, q
    <3>3. \A y \in Rejects : y \in Tasks /\ y # ok
        BY MsgTypes DEF Rejects, Tasks, Msg, ok
    <3>4. /\ p \in Seq(Tasks) /\ q \in Seq(Tasks)
          /\ \A i \in 1..Len(p) : p[i] # ok
          /\ \A i \in 1..Len(q) : q[i] # ok
      <4>1. Rejects \subseteq Tasks
          BY <3>3
      <4>2. p \in Seq(Tasks) /\ q \in Seq(Tasks)
          BY <3>2, <4>1
      <4>3. \A i \in 1..Len(p) : p[i] \in Rejects
          BY <3>2
      <4>4. \A i \in 1..Len(q) : q[i] \in Rejects
          BY <3>2
      <4>5. QED
          BY <3>3, <4>2, <4>3, <4>4
    <3>5. js \o p \in Seq(Tasks)
        BY <1>0, <3>4
    <3>6. /\ Holds(js, m) => Holds(js \o p, m)
          /\ Precedes(js \o p, m, ok)
        BY <1>0, <1>a, <3>4, ConcatKeeps
    <3>7. /\ Holds(js \o p, m) => Holds((js \o p) \o q, m)
          /\ Precedes((js \o p) \o q, m, ok)
        BY <3>4, <3>5, <3>6, ConcatKeeps
    <3>8. Precedes(nodeCh', m, ok)
        BY <3>1 DEF Precedes
    <3>9. QED
        BY <1>0, <1>a, <1>1, <2>1, <3>1, <3>7, <3>8
  <2>4. QED
      BY <1>9, <2>2, <2>3 DEF Boot, StartupFails, Join
<1>10. CASE TakeControl
  <2>1. /\ control # <<>> /\ UNCHANGED <<promise, registered, nodeCh, js>>
        /\ worker' = [worker EXCEPT !.pc = "drain", !.msg = Head(control), !.left = DrainMax]
      BY <1>10 DEF TakeControl, requestVars, tableVars
  <2>2. worker'.msg = control[1] /\ 1 \in 1..Len(control)
    <3>1. control \in Seq(ControlMsgs)
        BY DEF NativeRuntimeTypeOK
    <3>2. QED
        BY <1>0, <2>1, <3>1
  <2>3. worker'.msg # ev
      BY <1>0, <2>2 DEF NotAhead
  <2>4. QED
      BY <1>2, <2>1, <2>3
<1>11. CASE HandleGc \/ HandleClose
  <2> DEFINE y == Msg("resolve", worker.msg.id)
  <2>1. /\ UNCHANGED <<promise, registered, nodeCh>> /\ js' = Append(js, y)
        /\ worker'.msg = Nothing /\ worker.pc = "handle" /\ worker.msg.t # "eval"
      BY <1>11 DEF HandleGc, HandleClose, Rest, requestVars, tableVars
  <2>2. worker.msg.id # r
      BY <1>a, <2>1
  <2>3. y \in Tasks /\ y # ok
    <3>1. worker.msg.id \in Requests
        BY <2>1, HeldRequests
    <3>2. QED
        BY <2>2, <3>1, MsgTypes DEF Msg, ok
  <2> HIDE DEF y
  <2>4. QED
      BY <1>0, <1>2, <2>1, <2>3
<1>12. CASE EmitClose
  <2> DEFINE y == Msg("emitClose", 0)
  <2>1. /\ UNCHANGED <<promise, registered>> /\ worker' = [worker EXCEPT !.pc = "stopping"]
        /\ \/ js' = js /\ nodeCh' = Append(nodeCh, y)
           \/ nodeCh' = nodeCh /\ (js' = js \/ js' = Append(js, y))
      BY <1>12 DEF EmitClose, Goto, requestVars
  <2>2. y \in NodeMsgs /\ y # ok
      BY MsgTypes DEF Msg, ok
  <2>3. worker'.msg = worker.msg
      BY <1>0, <2>1
  <2> HIDE DEF y
  <2>4. CASE nodeCh' = nodeCh
      BY <1>0, <1>2, <2>1, <2>2, <2>3, <2>4
  <2>5. CASE js' = js /\ nodeCh' = Append(nodeCh, y)
    <3>1. /\ Holds(nodeCh, m) => Holds(nodeCh', m)
          /\ Precedes(nodeCh, m, ok) => Precedes(nodeCh', m, ok)
        BY <1>c, <2>2, <2>5
    <3>2. QED
        BY <1>a, <1>1, <2>1, <2>3, <2>5, <3>1
  <2>6. QED
      BY <2>1, <2>4, <2>5
<1>13. CASE Reply
  <2> DEFINE y == Msg("reject", worker.msg.id)
  <2>1. /\ UNCHANGED <<promise, registered, nodeCh>>
        /\ \/ worker' = [worker EXCEPT !.pc = "sending"] /\ js' = js
           \/ worker' = Rest /\ js' = Append(js, y)
      BY <1>13 DEF Reply, Goto, requestVars, tableVars
  <2>2. y \in Tasks /\ y # ok
    <3>1. worker.msg.id \in Requests
        BY <1>13, HeldRequests DEF Reply
    <3>2. QED
        BY <3>1, MsgTypes DEF Msg, ok
  <2>3. worker'.msg = worker.msg \/ worker'.msg = Nothing
      BY <1>0, <2>1 DEF Rest
  <2> HIDE DEF y
  <2>4. QED
      BY <1>0, <1>2, <2>1, <2>2, <2>3
\* The result follows the message into the pump's channel.
<1>14. CASE SendNodeMsgOrReject
  <2> DEFINE y == Msg("resolve", worker.msg.id)
  <2>1. /\ UNCHANGED <<promise, registered, js>> /\ nodeCh' = Append(nodeCh, y)
        /\ worker.pc = "sending" /\ worker'.msg = Nothing
      BY <1>14 DEF SendNodeMsgOrReject, Rest, requestVars, tableVars
  <2>2. worker.msg \in ControlMsgs /\ worker.msg.id \in Requests
      BY <2>1, HeldRequests
  <2>3. y \in NodeMsgs
      BY <2>2, MsgTypes
  <2>4. y = ok => worker.msg = ev
    <3>1. y = ok => worker.msg.id = r
        BY DEF Msg, ok
    <3>2. worker.msg = Msg(worker.msg.t, worker.msg.id)
        BY <2>2, MsgIds
    <3>3. QED
        BY <1>a, <3>1, <3>2 DEF ev
  <2> HIDE DEF y
  <2>5. Precedes(nodeCh, m, ok) /\ (y = ok => Holds(nodeCh, m)) => Precedes(nodeCh', m, ok)
      BY <1>c, <2>1, <2>3
  <2>6. QED
      BY <1>0, <1>a, <1>1, <2>1, <2>4, <2>5
<1>15. CASE StartupDone \/ EvalEnds
  <2>1. UNCHANGED <<promise, registered, nodeCh, js>> /\ (worker'.msg = worker.msg \/ worker'.msg = Nothing)
      BY <1>0, <1>15 DEF StartupDone, EvalEnds, Rest, Goto, requestVars, tableVars
  <2>2. QED
      BY <1>0, <1>2, <2>1
<1>16. CASE \/ Drain \/ DrainEnds \/ Disconnect \/ HandleEval \/ HandleMemory \/ Stop
  <2>1. UNCHANGED <<promise, registered, nodeCh, js>> /\ worker'.msg = worker.msg
      BY <1>0, <1>16 DEF Drain, DrainEnds, Disconnect, HandleEval, HandleMemory, Stop, Goto,
                         requestVars, tableVars
  <2>2. QED
      BY <1>2, <2>1
\* Messages that are no result join the pump's channel.
<1>17. ASSUME NEW y \in NodeMsgs, y.t # "resolve", nodeCh' = nodeCh \/ nodeCh' = Append(nodeCh, y),
              UNCHANGED <<promise, registered, js, worker>>
       PROVE  AheadOf(e, r)'
  <2>1. y # ok
      BY <1>17 DEF Msg, ok
  <2>2. /\ Holds(nodeCh, m) => Holds(nodeCh', m)
        /\ Precedes(nodeCh, m, ok) => Precedes(nodeCh', m, ok)
      BY <1>c, <1>17, <2>1
  <2>3. QED
      BY <1>a, <1>1, <1>17, <2>2
<1>18. ASSUME NEW c \in Calls, AsyncSent(c) PROVE AheadOf(e, r)'
  <2>1. \E k \in CallTypes : nodeCh' = Append(nodeCh, Msg(k, c))
      BY <1>18 DEF AsyncSent
  <2>2. \A k \in CallTypes : Msg(k, c) \in NodeMsgs /\ Msg(k, c).t # "resolve"
      BY MsgTypes DEF Msg
  <2>3. UNCHANGED <<promise, registered, js, worker>>
      BY <1>18 DEF AsyncSent, requestVars, tableVars
  <2>4. QED
      BY <1>17, <2>1, <2>2, <2>3
<1>19. CASE Dispatch
  <2>1. dispatcher # <<>> /\ (nodeCh' = nodeCh \/ nodeCh' = Append(nodeCh, Head(dispatcher)))
      BY <1>19 DEF Dispatch
  <2>2. Head(dispatcher) \in NodeMsgs /\ Head(dispatcher).t # "resolve"
      BY <2>1, OneLess, MsgTypes, MsgIds DEF NativeRuntimeTypeOK
  <2>3. UNCHANGED <<promise, registered, js, worker>>
      BY <1>19 DEF Dispatch, requestVars, tableVars
  <2>4. QED
      BY <1>17, <2>1, <2>2, <2>3
\* The pump hands the messages on in their order, or drops them all.
<1>20. CASE PumpReceives \/ PumpDrains
  <2> DEFINE h == Head(nodeCh)
  <2>1. UNCHANGED <<promise, registered, worker>>
      BY <1>20 DEF PumpReceives, PumpDrains, requestVars, tableVars
  <2>2. \/ nodeCh' = nodeCh /\ js' = js
        \/ /\ nodeCh # <<>> /\ nodeCh' = Tail(nodeCh)
           /\ \/ registered /\ js' = Append(js, h)
              \/ ~registered /\ (js' = js \/ (h.t = "resolve" /\ js' = Append(js, Msg("reject", h.id))))
      BY <1>20 DEF PumpReceives, PumpDrains, DispatchNodeMsg
  <2>3. CASE nodeCh' = nodeCh /\ js' = js
      BY <1>2, <2>1, <2>3
  <2>4. CASE nodeCh # <<>> /\ nodeCh' = Tail(nodeCh) /\ registered /\ js' = Append(js, h)
    <3>1. h \in Tasks
        BY <1>0, <2>4, OneLess
    <3> HIDE DEF h
    <3>2. Holds(js', m) <=> (Holds(js, m) \/ h = m)
        BY <1>b, <2>4, <3>1
    <3>3. CASE h = m
      <4>1. Precedes(js', m, ok)
          BY <1>0, <1>a, <1>b, <2>4, <3>1, <3>3
      <4>2. QED
          BY <1>a, <1>1, <2>1, <3>2, <3>3, <4>1
    <3>4. CASE h # m
      <4>1. /\ Holds(nodeCh, m) => Holds(nodeCh', m)
            /\ Precedes(nodeCh, m, ok) => h # ok /\ Precedes(nodeCh', m, ok)
          BY <1>0, <2>4, <3>4, TailKeeps DEF h
      <4>2. h = ok => Holds(js, m)
          BY <1>a, <2>4, <4>1
      <4>3. Precedes(js', m, ok)
          BY <1>a, <1>b, <2>4, <3>1, <4>2
      <4>4. QED
          BY <1>a, <1>1, <2>1, <3>2, <4>1, <4>3
    <3>5. QED
        BY <3>3, <3>4
  <2>5. CASE /\ nodeCh # <<>> /\ ~registered
             /\ js' = js \/ (h.t = "resolve" /\ js' = Append(js, Msg("reject", h.id)))
    <3>1. h.t = "resolve" => Msg("reject", h.id) \in Tasks /\ Msg("reject", h.id) # ok
      <4>1. h \in NodeMsgs
          BY <1>0, <2>5, OneLess
      <4>2. h.t = "resolve" => h.id \in Requests
          BY <1>0, <4>1, MsgIds
      <4>3. QED
          BY <4>2, MsgTypes DEF Msg, ok
    <3> HIDE DEF h
    <3>2. Precedes(js', m, ok)
        BY <1>a, <1>b, <2>5, <3>1
    <3>3. QED
        BY <1>a, <1>1, <2>1, <2>5, <3>2
  <2>6. QED
      BY <2>2, <2>3, <2>4, <2>5
\* The Node thread hears the message before it settles the promise.
<1>21. CASE RunTask
  <2> DEFINE h == Head(js)
  <2>1. js # <<>> /\ js' = Tail(js) /\ nodeCh' = nodeCh /\ worker' = worker
      BY <1>21 DEF RunTask
  <2>2. h \in Tasks
      BY <1>0, <2>1, OneLess
  <2>3. /\ ~registered => ~registered'
        /\ h.t = "message" => seen' = seen \cup {h.id}
        /\ promise' = promise \/ /\ h.t \in {"resolve", "reject"}
                                 /\ promise' = [promise EXCEPT ![h.id] = IF h.t = "resolve" THEN "fulfilled" ELSE "rejected"]
      BY <1>21 DEF RunTask, Settle
  <2>4. h.t \in {"resolve", "reject"} => h = Msg(h.t, h.id)
      BY <2>2, MsgIds
  <2> HIDE DEF h
  <2>5. h # m
      BY <2>3 DEF Msg, m
  <2>6. /\ Holds(js, m) => Holds(js', m)
        /\ h # ok /\ Precedes(js', m, ok)
      BY <1>0, <1>a, <2>1, <2>5, TailKeeps DEF h
  <2>7. promise'[r] # "fulfilled"
    <3>1. CASE promise' = promise
        BY <1>a, <3>1
    <3>2. CASE h.t = "reject" /\ promise' = [promise EXCEPT ![h.id] = "rejected"]
        BY <1>0, <1>a, <3>2
    <3>3. CASE h.t = "resolve" /\ promise' = [promise EXCEPT ![h.id] = "fulfilled"]
      <4>1. h.id # r
          BY <2>4, <2>6, <3>3 DEF ok
      <4>2. QED
          BY <1>0, <1>a, <3>3, <4>1
    <3>4. QED
        BY <2>3, <3>1, <3>2, <3>3
  <2>8. QED
      BY <1>a, <1>1, <2>1, <2>3, <2>6, <2>7
<1>22. QED
    BY <1>3, <1>4, <1>5, <1>6, <1>7, <1>8, <1>9, <1>10, <1>11, <1>12, <1>13, <1>14, <1>15, <1>16,
       <1>18, <1>19, <1>20, <1>21, HeardSteps

\* An emitted message: while it is handed over its eval has not ended; then nothing
\* that goes by the eval's name overtakes it.
EvalEmits(e, r) ==
    emit[e].by = Msg("eval", r) =>
        /\ emit[e].st # "none"
        /\ emit[e].st = "handing" => worker.pc = "eval" /\ worker.msg = Msg("eval", r)
        /\ NotAhead(r)
        /\ emit[e].st = "sent" /\ e \notin seen => AheadOf(e, r)

EmitInv == \A e \in Emits, r \in Requests : EvalEmits(e, r)

LEMMA EmitInit == Init => EmitInv
BY DEF Init, EmitInv, EvalEmits, Msg, Nothing

\* The worker's code stands in hostPostMessage until it is told.
LEMMA HandingHolds ==
    ASSUME NEW e \in Emits, emit[e].st = "handing", worker.pc = "eval", Next
    PROVE  worker' = worker
<1>1. Blocked
    BY DEF Blocked
<1>2. QED
    BY <1>1, WorkerSteps DEF Boot, StartupDone, StartupFails, TakeControl, Drain, DrainEnds, Disconnect,
       HandleEval, HandleMemory, HandleGc, HandleClose, EmitClose, EvalEnds, Reply,
       SendNodeMsgOrReject, Stop, Join

\* What a step does with one emitted message.
LEMMA EmitMoves ==
    ASSUME NativeRuntimeTypeOK, NEW e \in Emits, Next
    PROVE  \/ emit'[e] = emit[e]
           \/ PostToNode(e)
           \/ emit'[e].by = emit[e].by /\ emit'[e].st = "failed"
           \/ /\ emit'[e].by = emit[e].by /\ emit[e].st = "handing" /\ emit'[e].st = "sent"
              /\ Dispatch /\ nodeCh' = Append(nodeCh, Msg("message", e))
<1>1. emit \in [Emits -> [st : {"none", "handing", "sent", "failed"}, by : ControlMsgs \cup {Nothing}]]
    BY DEF NativeRuntimeTypeOK
<1>2. ASSUME NEW f \in Emits, PostToNode(f), f # e PROVE emit'[e] = emit[e]
    BY <1>1, <1>2 DEF PostToNode
<1>3. ASSUME NEW f \in Emits, PostToNodeTimesOut(f)
      PROVE  emit'[e] = emit[e] \/ (emit'[e].by = emit[e].by /\ emit'[e].st = "failed")
  <2>1. emit' = [emit EXCEPT ![f].st = "failed"]
      BY <1>3 DEF PostToNodeTimesOut
  <2>2. QED
      BY <1>1, <2>1
<1>4. CASE Dispatch
  <2> DEFINE h == Head(dispatcher)
             ack == IF PumpLives THEN "sent" ELSE "failed"
  <2>1. h \in DispatchMsgs
      BY <1>4, OneLess DEF Dispatch, NativeRuntimeTypeOK
  <2>2. h.t # "sync" => h = Msg("message", h.id)
      BY <2>1, MsgIds
  <2>3. /\ nodeCh' = IF PumpLives THEN Append(nodeCh, h) ELSE nodeCh
        /\ \/ emit' = emit
           \/ /\ h.t # "sync"
              /\ emit' = [emit EXCEPT ![h.id].st = IF @ = "handing" THEN ack ELSE @]
      BY <1>4 DEF Dispatch, workerCode
  <2> HIDE DEF h
  <2>4. CASE emit' = emit
      BY <2>4
  <2>5. ASSUME h.t # "sync", emit' = [emit EXCEPT ![h.id].st = IF @ = "handing" THEN ack ELSE @],
               h.id = e, emit[e].st = "handing"
        PROVE  /\ emit'[e].by = emit[e].by
               /\ emit'[e].st = "failed" \/ (emit'[e].st = "sent" /\ nodeCh' = Append(nodeCh, Msg("message", e)))
    <3>1. emit'[e] = [emit[e] EXCEPT !.st = ack]
        BY <1>1, <2>5
    <3>2. emit'[e].by = emit[e].by /\ emit'[e].st = ack
        BY <1>1, <3>1
    <3>3. ack = "sent" => nodeCh' = Append(nodeCh, Msg("message", e))
        BY <2>2, <2>3, <2>5
    <3>4. ack \in {"sent", "failed"}
        OBVIOUS
    <3>5. QED
        BY <3>2, <3>3, <3>4
  <2>6. ASSUME emit' = [emit EXCEPT ![h.id].st = IF @ = "handing" THEN ack ELSE @],
               h.id # e \/ emit[e].st # "handing"
        PROVE  emit'[e] = emit[e]
    <3>1. CASE h.id # e
        BY <1>1, <2>6, <3>1
    <3>2. CASE h.id = e /\ emit[e].st # "handing"
      <4>1. emit'[e] = [emit[e] EXCEPT !.st = emit[e].st]
          BY <1>1, <2>6, <3>2
      <4>2. QED
          BY <1>1, <4>1
    <3>3. QED
        BY <2>6, <3>1, <3>2
  <2>7. QED
      BY <1>4, <2>3, <2>4, <2>5, <2>6
<1>5. QED
    BY <1>2, <1>3, <1>4, EmitSteps

LEMMA EmitStep ==
    ASSUME NativeRuntimeTypeOK, PendingHasOneOwner, SoleRequest,
           NEW e \in Emits, NEW r \in Requests, EvalEmits(e, r), Next
    PROVE  EvalEmits(e, r)'
<1> DEFINE ev == Msg("eval", r)
<1>0. ev.id = r /\ ev.t = "eval" /\ ev # Nothing
    BY DEF Msg, Nothing
<1> HIDE DEF ev
<1>a. emit[e].by = ev => /\ emit[e].st # "none"
                         /\ emit[e].st = "handing" => worker.pc = "eval" /\ worker.msg = ev
                         /\ NotAhead(r)
                         /\ emit[e].st = "sent" /\ e \notin seen => AheadOf(e, r)
    BY DEF EvalEmits, ev
<1>b. ASSUME emit'[e].by = ev =>
                /\ emit'[e].st # "none"
                /\ emit'[e].st = "handing" => worker'.pc = "eval" /\ worker'.msg = ev
                /\ NotAhead(r)'
                /\ emit'[e].st = "sent" /\ e \notin seen' => AheadOf(e, r)'
      PROVE  EvalEmits(e, r)'
    BY <1>b DEF EvalEmits, ev
<1>c. e \in seen => e \in seen'
    BY HistorySteps DEF RunTask
<1>1. CASE emit'[e] = emit[e]
  <2>1. SUFFICES ASSUME emit[e].by = ev
                 PROVE  /\ emit[e].st # "none"
                        /\ emit[e].st = "handing" => worker'.pc = "eval" /\ worker'.msg = ev
                        /\ NotAhead(r)'
                        /\ emit[e].st = "sent" /\ e \notin seen' => AheadOf(e, r)'
      BY <1>1, <1>b
  <2>2. emit[e].st = "handing" => worker'.pc = "eval" /\ worker'.msg = ev
      BY <1>a, <2>1, HandingHolds
  <2>3. NotAhead(r)'
      BY <1>a, <2>1, NotAheadStep
  <2>4. emit[e].st = "sent" /\ e \notin seen' => AheadOf(e, r)'
      BY <1>a, <1>c, <2>1, AheadStep
  <2>5. QED
      BY <1>a, <2>1, <2>2, <2>3, <2>4
<1>2. CASE PostToNode(e)
  <2>1. /\ emit' = [emit EXCEPT ![e] = [st |-> "handing", by |-> worker.msg]]
        /\ UNCHANGED <<promise, control, node, worker>>
        /\ worker.pc \in {"eval", "startup"}
      BY <1>2 DEF PostToNode, Running, requestVars
  <2>2. emit'[e] = [st |-> "handing", by |-> worker.msg]
      BY <2>1 DEF NativeRuntimeTypeOK
  <2>3. worker.msg = ev => worker.pc = "eval" /\ NotAhead(r)
      BY <1>0, <2>1, ThreadFacts, NotAheadNow DEF ev
  <2>4. NotAhead(r) => NotAhead(r)'
      BY <2>1 DEF NotAhead
  <2>5. QED
      BY <1>b, <2>1, <2>2, <2>3, <2>4
<1>3. CASE emit'[e].by = emit[e].by /\ emit'[e].st = "failed"
    BY <1>3, <1>a, <1>b, NotAheadStep
<1>4. CASE /\ emit'[e].by = emit[e].by /\ emit[e].st = "handing" /\ emit'[e].st = "sent"
           /\ Dispatch /\ nodeCh' = Append(nodeCh, Msg("message", e))
  <2> DEFINE m == Msg("message", e)
             ok == Msg("resolve", r)
  <2>1. SUFFICES ASSUME emit[e].by = ev PROVE NotAhead(r)' /\ AheadOf(e, r)'
      BY <1>4, <1>b
  <2>2. worker.msg = ev /\ NotAhead(r)' /\ UNCHANGED <<promise, js, worker>>
      BY <1>4, <1>a, <2>1, NotAheadStep DEF Dispatch, requestVars
  <2>3. /\ promise[r] = "pending"
        /\ \A i \in 1..Len(nodeCh) : nodeCh[i] # ok
        /\ \A i \in 1..Len(js) : js[i] # ok
      BY <1>0, <2>2, OneOwner
  <2>4. m \in NodeMsgs /\ m # ok /\ nodeCh \in Seq(NodeMsgs)
      BY MsgTypes DEF Msg, NativeRuntimeTypeOK
  <2> HIDE DEF m, ok
  <2>5. Precedes(nodeCh, m, ok) /\ Precedes(js, m, ok)
      BY <2>3 DEF Precedes
  <2>6. nodeCh' = Append(nodeCh, m)
      BY <1>4 DEF m
  <2>7. Holds(nodeCh', m) /\ Precedes(nodeCh', m, ok)
      BY <2>4, <2>5, <2>6, AppendKeeps
  <2>8. promise'[r] # "fulfilled" /\ Precedes(js', m, ok)
      BY <2>2, <2>3, <2>5
  <2>9. AheadOf(e, r)'
      BY <2>7, <2>8 DEF AheadOf, m, ok
  <2>10. QED
      BY <2>2, <2>9
<1>5. QED
    BY <1>1, <1>2, <1>3, <1>4, EmitMoves

-----------------------------------------------------------------------------
(***************************************************************************)
(* The theorems.                                                           *)
(***************************************************************************)
RuntimeInv ==
    /\ NativeRuntimeTypeOK /\ PendingHasOneOwner
    /\ SyncInv /\ SoleRequest /\ CallInv /\ NoCallDuringEvalSync /\ EmitInv

LEMMA InvInit == Init => RuntimeInv
<1>1. Init => NoCallDuringEvalSync
    BY DEF Init, NoCallDuringEvalSync
<1>2. QED
    BY <1>1, TypeInit, OwnerInit, SyncInit, SoleInit, CallInit, EmitInit DEF RuntimeInv

LEMMA InvStutters == RuntimeInv /\ UNCHANGED vars => RuntimeInv'
<1> SUFFICES ASSUME RuntimeInv, UNCHANGED vars PROVE RuntimeInv'
    OBVIOUS
<1> USE DEF vars, tableVars, requestVars, workerCode, history, pumpVars
<1>1. NativeRuntimeTypeOK'
    BY TypeStep DEF RuntimeInv
<1>2. PendingHasOneOwner'
    BY DEF RuntimeInv, PendingHasOneOwner, Holders
<1>3. SyncInv'
    BY DEF RuntimeInv, SyncInv
<1>4. CallInv'
    BY DEF RuntimeInv, CallInv, OneToken, Tokens, InDispatch, CallsNode, CallsJs, Runs
<1>5. NoCallDuringEvalSync'
    BY DEF RuntimeInv, NoCallDuringEvalSync, UnderWay
<1>6. SoleRequest'
    BY DEF RuntimeInv, SoleRequest
<1>7. EmitInv'
    BY DEF RuntimeInv, EmitInv, EvalEmits, NotAhead, AheadOf, OnTheWay
<1>8. QED
    BY <1>1, <1>2, <1>3, <1>4, <1>5, <1>6, <1>7 DEF RuntimeInv

LEMMA InvStep == RuntimeInv /\ [Next]_vars => RuntimeInv'
<1> SUFFICES ASSUME RuntimeInv, Next PROVE RuntimeInv'
    BY InvStutters
<1>1. /\ NativeRuntimeTypeOK /\ PendingHasOneOwner
      /\ SyncInv /\ SoleRequest /\ CallInv /\ NoCallDuringEvalSync /\ EmitInv
    BY DEF RuntimeInv
<1>2. NativeRuntimeTypeOK'
    BY <1>1, TypeStep
<1>3. PendingHasOneOwner'
  <2>1. \A r \in Requests : OwnedOnce(r)'
      BY <1>1, OwnerStep
  <2>2. QED
      BY <2>1 DEF PendingHasOneOwner, Holders, OwnedOnce, InControl, InNodeCh, InJs, AtWorker,
                  AtNode, AtReply, ControlOf, ResultOf, TasksOf
<1>4. SyncInv'
    BY <1>1, SyncStep
<1>5. CallInv'
  <2>1. \A c \in Calls : OneToken(c)'
      BY <1>1, CallStep
  <2>2. QED
      BY <2>1 DEF CallInv
<1>6. NoCallDuringEvalSync'
    BY <1>1, EarlierStep
<1>7. SoleRequest'
    BY <1>1, SoleStep
<1>8. EmitInv'
  <2>1. \A e \in Emits, r \in Requests : EvalEmits(e, r)'
      BY <1>1, EmitStep DEF EmitInv
  <2>2. QED
      BY <2>1 DEF EmitInv
<1>9. QED
    BY <1>2, <1>3, <1>4, <1>5, <1>6, <1>7, <1>8 DEF RuntimeInv

\* Every variable keeps its type and every channel its capacity, and a promise is
\* pending exactly as long as one message or thread can settle it: whatever the
\* order in which the worker is closed, disposed of or fails to start.
THEOREM RequestsAreConsistent == Spec => []RequestsConsistent
<1>1. Init => RuntimeInv
    BY InvInit
<1>2. RuntimeInv /\ [Next]_vars => RuntimeInv'
    BY InvStep
<1>3. RuntimeInv => RequestsConsistent
    BY DEF RuntimeInv, RequestsConsistent
<1>4. QED
    BY <1>1, <1>2, <1>3, PTL DEF Spec

\* A host function runs once for a call of the worker's code that is answered, and
\* twice for one that the wrapper made again, as an asynchronous one, because the
\* function had returned a promise; it runs no more often, and not for a call that
\* was refused, whatever times out and however late its message arrives.
THEOREM FunctionsRunAsCalled == Spec => []RunsMatchCalls
<1>1. RuntimeInv => RunsMatchCalls
  <2> SUFFICES ASSUME RuntimeInv, NEW c \in Calls
               PROVE  /\ invoked[c] <= Runs(c)
                      /\ call[c].st = "answered" => invoked[c] = Runs(c)
                      /\ call[c].st = "refused" => invoked[c] = Runs(c) - 1
      BY DEF RunsMatchCalls
  <2>1. NativeRuntimeTypeOK /\ OneToken(c)
      BY DEF RuntimeInv, CallInv
  <2>2. /\ InDispatch(c) \in Nat /\ CallsNode(c) \in Nat /\ CallsJs(c) \in Nat /\ invoked[c] \in Nat
        /\ Tokens(c) = InDispatch(c) + CallsNode(c) + CallsJs(c) + invoked[c]
        /\ Runs(c) \in {1, 2}
      BY <2>1, TokensChange, TokensAre, RunsAre
  <2>3. /\ Tokens(c) <= Runs(c) /\ invoked[c] >= Runs(c) - 1
        /\ call[c].st = "refused" => Tokens(c) = Runs(c) - 1
        /\ call[c].st = "answered" => invoked[c] = Runs(c)
      BY <2>1 DEF OneToken
  <2>4. QED
      BY <2>2, <2>3
<1>2. QED
    BY <1>1, InvInit, InvStep, PTL DEF Spec

\* A message that the worker's code posted during an eval, and was told is sent, is
\* heard on the Node side before the promise of the eval is fulfilled: nothing on
\* their way, of the pump, of a close or of a disposal, lets the result pass it.
THEOREM MessagesComeFirst == Spec => []EventsBeforeResult
<1>1. RuntimeInv => EventsBeforeResult
  <2> SUFFICES ASSUME RuntimeInv, NEW e \in Emits, emit[e].st = "sent", emit[e].by.t = "eval",
                      promise[emit[e].by.id] = "fulfilled", e \notin seen
               PROVE  FALSE
      BY DEF EventsBeforeResult
  <2>1. emit[e].by \in ControlMsgs
      BY MsgTypes DEF RuntimeInv, NativeRuntimeTypeOK
  <2>2. PICK r \in Requests : emit[e].by = Msg("eval", r) /\ emit[e].by.id = r
      BY <2>1, MsgIds
  <2>3. EvalEmits(e, r)
      BY DEF RuntimeInv, EmitInv
  <2>4. QED
      BY <2>2, <2>3 DEF EvalEmits, AheadOf
<1>2. QED
    BY <1>1, InvInit, InvStep, PTL DEF Spec

\* While the Node thread stands in evalSync() the ops let no call of the worker's
\* code through, of whatever kind, made before or during it: under way are only
\* calls whose op had started when evalSync() was called.
THEOREM EvalSyncAdmitsNoCall == Spec => []NoCallDuringEvalSync
<1>1. RuntimeInv => NoCallDuringEvalSync
    BY DEF RuntimeInv
<1>2. QED
    BY <1>1, InvInit, InvStep, PTL DEF Spec

\* Of the data messages posted before a request, no more are undelivered when the
\* worker handles the request than a full channel holds beyond one drain.
Handling        == worker.pc \in {"handle", "eval", "reply", "sending"}
ArrearsBounded  == Handling => delivered + Arrears >= before[worker.msg.id]

THEOREM DataArrearsAreBounded == Spec => []ArrearsBounded
<1>1. RuntimeInv /\ DataInv /\ [Next]_vars => DataInv'
  <2> SUFFICES ASSUME RuntimeInv, DataInv, [Next]_vars PROVE DataInv'
      OBVIOUS
  <2>1. CASE Next
      BY <2>1, DataStep DEF RuntimeInv
  <2>2. CASE UNCHANGED vars
      BY <2>2 DEF vars, requestVars, DataInv, Delivery
  <2>3. QED
      BY <2>1, <2>2
<1>2. RuntimeInv /\ DataInv => ArrearsBounded
  <2> SUFFICES ASSUME RuntimeInv, DataInv, Handling
               PROVE  delivered + Arrears >= before[worker.msg.id]
      BY DEF ArrearsBounded
  <2>1. delivered \in Nat /\ before[worker.msg.id] \in Nat /\ Arrears \in Nat
      BY HeldRequests, SizesAreNatural DEF RuntimeInv, NativeRuntimeTypeOK, Handling, Arrears
  <2>2. QED
      BY <2>1 DEF DataInv, Handling
<1>3. QED
    BY <1>1, <1>2, InvInit, InvStep, DataInit, PTL DEF Spec

\* Where one drain can empty a full channel, every data message posted before a
\* request has been delivered when the worker handles the request.
THEOREM DataComesFirst ==
    ASSUME ChannelSize <= DrainMax
    PROVE  Spec => []DataBeforeControl
<1>1. NativeRuntimeTypeOK /\ ArrearsBounded => DataBeforeControl
  <2> SUFFICES ASSUME NativeRuntimeTypeOK, ArrearsBounded, Handling
               PROVE  delivered >= before[worker.msg.id]
      BY DEF DataBeforeControl, Handling
  <2>1. delivered \in Nat /\ Arrears = 0
      BY DEF NativeRuntimeTypeOK, Arrears
  <2>2. QED
      BY <2>1 DEF ArrearsBounded
<1>2. RequestsConsistent => NativeRuntimeTypeOK
    BY DEF RequestsConsistent
<1>3. QED
    BY <1>1, <1>2, RequestsAreConsistent, DataArrearsAreBounded, PTL

-----------------------------------------------------------------------------
(***************************************************************************)
(* Where the runtime may stand still with a request pending.               *)
(***************************************************************************)
\* The calls that the event loop serves, and those of them without a timeout.
LoopKinds      == {"async", "import", "retry"}
UnboundedKinds == {"async", "retry"}

\* When each thread has a step: the guards of the actions of NodeThread,
\* WorkerThread, Pump and Dispatch.  On the instances that TLC checks each is
\* the same as ENABLED of that action.
NodeCanMove ==
    \/ node = Free /\ (js # <<>> \/ \E c \in Calls : call[c].st = "running")
    \/ node.st = "awaiting" /\ syncReply # "none"
    \/ node.st = "queueing" /\ (WorkerLives => IF node.msg.t = "post" THEN Room(data) ELSE Room(control))

WorkerCanMove ==
    \/ worker.pc \in {"boot", "drain", "handle", "closing", "reply", "stopping"}
    \/ worker.pc = "startup" /\ ~Blocked /\ ~OutstandingCall
    \/ worker.pc = "idle" /\ (control # <<>> \/ data # <<>> \/ (~registered /\ node.st # "queueing"))
    \/ worker.pc = "eval" /\ ~Blocked /\ (worker.waits => ~OutstandingCall)
    \/ worker.pc = "sending" /\ Room(nodeCh)
    \/ worker.pc = "join" /\ pump = "done"
    \/ \E c \in Calls :
          \/ Polled(c) /\ call[c].st = "made"
          \/ Polled(c) /\ call[c].kind \in LoopKinds /\ call[c].st = "sending" /\ Room(nodeCh)
          \/ call[c].kind = "sync" /\ call[c].st \in {"handing", "sent"}
          \/ LoopRuns /\ call[c].kind = "import" /\ call[c].st \in {"sent", "running"}
    \/ \E e \in Emits : emit[e].st = "handing"

PumpCanMove       == pump \in {"check", "drain"} \/ (pump = "recv" /\ nodeCh # <<>>)
DispatcherCanMove == dispatcher # <<>> /\ (PumpLives => Room(nodeCh))

SomeThreadMoves == NodeCanMove \/ WorkerCanMove \/ PumpCanMove \/ DispatcherCanMove

\* The eval waits for a call that the Node thread has to answer, and the Node
\* thread stands in a call of the addon.
CallAwaitsNode ==
    /\ node # Free /\ worker.pc = "eval" /\ worker.waits
    /\ \E c \in Calls : \/ call[c].st = "running"
                        \/ call[c].kind \in UnboundedKinds /\ call[c].st = "sent"

\* The worker thread joins a pump that waits for a message.
WorkerAwaitsPump == worker.pc = "join" /\ pump = "recv" /\ nodeCh = <<>>

EvalPending  == \E r \in Requests : promise[r] = "pending"
PendingMoves == EvalPending => SomeThreadMoves \/ CallAwaitsNode \/ WorkerAwaitsPump

\* Where the pump is for each place of the worker thread, and what is empty while
\* it is not there.
Stations ==
    /\ pump = "off" => worker.pc \in {"boot", "startup", "gone"}
    /\ pump \in {"drain", "done"} => stop
    /\ stop => worker.pc \in {"join", "gone"}
    /\ worker.pc = "gone" => control = <<>> /\ nodeCh = <<>>
    /\ worker.pc \in {"boot", "startup"} =>
          /\ nodeCh = <<>> /\ dispatcher = <<>>
          /\ \A c \in Calls : call[c].st = "none"
          /\ \A e \in Emits : emit[e].st = "none"

\* A call is handed to the dispatcher, or sent to the pump, according to its kind.
KindFits(c) ==
    /\ call[c].st = "handing" => call[c].kind = "sync"
    /\ call[c].st \in {"made", "sending"} => call[c].kind \in LoopKinds
    /\ call[c].st = "sent" => call[c].kind \in CallTypes

\* An asynchronous call that was sent is in a channel, as long as there is one.
OnItsWay(k, c) == \/ Holds(nodeCh, Msg(k, c)) \/ Holds(js, Msg(k, c))
                  \/ worker.pc = "gone"
Underway(c) == \A k \in UnboundedKinds : call[c] = [kind |-> k, st |-> "sent"] => OnItsWay(k, c)

\* The evalSync() that the Node thread waits for is with the worker, or answered.
AnswerComes ==
    /\ node.st = "awaiting" /\ syncReply = "none" =>
          worker.msg.t = "evalSync" \/ \E i \in 1..Len(control) : control[i].t = "evalSync"
    /\ worker.pc \in {"reply", "sending"} => worker.msg.t # "evalSync"

MovesInv == /\ Stations /\ AnswerComes
            /\ \A c \in Calls : KindFits(c) /\ Underway(c)

Busy == {"idle", "drain", "handle", "eval", "reply", "sending", "closing", "stopping"}

LEMMA PcMoves ==
    ASSUME NativeRuntimeTypeOK, Next
    PROVE  \/ worker' = worker
           \/ Boot /\ worker.pc = "boot" /\ worker'.pc = "startup" /\ nodeCh' = nodeCh
           \/ StartupDone
           \/ /\ worker.pc \in {"boot", "startup", "join"} /\ worker'.pc = "gone"
              /\ control' = <<>> /\ nodeCh' = <<>>
           \/ Stop
           \/ worker.pc \in Busy /\ worker'.pc \in Busy
<1>0. worker = [pc |-> worker.pc, msg |-> worker.msg, left |-> worker.left, waits |-> worker.waits]
    BY ThreadFacts
<1> DEFINE At(pc) == [worker EXCEPT !.pc = pc]
<1>a. \A pc : At(pc).pc = pc
    BY <1>0
<1>1. CASE UNCHANGED worker
    BY <1>1
<1>2. CASE Boot
  <2>1. \/ worker' = [worker EXCEPT !.pc = "startup", !.waits = TRUE] /\ nodeCh' = nodeCh
        \/ ThreadEnds
      BY <1>2 DEF Boot
  <2>2. worker.pc = "boot" /\ [worker EXCEPT !.pc = "startup", !.waits = TRUE].pc = "startup"
      BY <1>0, <1>2 DEF Boot
  <2>3. QED
      BY <1>2, <2>1, <2>2 DEF ThreadEnds, Rest
<1>3. CASE StartupFails \/ Join
    BY <1>3 DEF StartupFails, Join, ThreadEnds, Rest
<1>4. CASE TakeControl \/ Drain \/ DrainEnds \/ HandleEval
    BY <1>0, <1>4 DEF TakeControl, Drain, DrainEnds, HandleEval, Busy
<1>5. CASE HandleGc \/ HandleClose \/ SendNodeMsgOrReject
    BY <1>5 DEF HandleGc, HandleClose, SendNodeMsgOrReject, Rest, Busy
<1>6. CASE Disconnect \/ HandleMemory \/ EmitClose \/ EvalEnds \/ Reply
  <2>1. /\ worker.pc \in {"idle", "handle", "closing", "eval", "reply"}
        /\ \/ \E pc \in {"stopping", "reply", "sending"} : worker' = At(pc)
           \/ worker' = Rest
      BY <1>6 DEF Disconnect, HandleMemory, EmitClose, EvalEnds, Reply, Goto
  <2> HIDE DEF At
  <2>2. worker'.pc \in Busy
      BY <1>a, <2>1 DEF Rest, Busy
  <2>3. QED
      BY <2>1, <2>2 DEF Busy
<1>7. QED
    BY <1>1, <1>2, <1>3, <1>4, <1>5, <1>6, WorkerSteps

\* What a step does to one call.
LEMMA CallMoves ==
    ASSUME NativeRuntimeTypeOK, NEW c \in Calls, Next
    PROVE  \/ call'[c] = call[c]
           \/ /\ Running
              /\ \/ call'[c].st = "refused"
                 \/ call'[c].st = "handing" /\ call'[c].kind = "sync"
                 \/ call'[c].st = "made" /\ call'[c].kind \in LoopKinds
           \/ /\ call'[c].kind = call[c].kind /\ call[c].st = "made"
              /\ call'[c].st \in {"refused", "sending"}
           \/ call[c].st = "sent" /\ call'[c] = [kind |-> "retry", st |-> "made"]
           \/ /\ call'[c].kind = call[c].kind /\ call[c].st = "sending" /\ call'[c].st = "sent"
              /\ AsyncSent(c)
           \/ /\ call'[c].kind = call[c].kind /\ call[c].st = "handing" /\ call'[c].st = "sent"
              /\ dispatcher # <<>>
           \/ /\ call'[c].kind = call[c].kind /\ call[c].st # "none"
              /\ call'[c].st \in {"failed", "running", "answered"}
<1>1. call \in [Calls -> [kind : {"none"} \cup CallTypes,
                          st : {"none", "refused", "made", "handing", "sending",
                                "sent", "running", "answered", "failed"}]]
    BY DEF NativeRuntimeTypeOK
<1>2. ASSUME NEW d, NEW s, call' = [call EXCEPT ![d].st = s]
      PROVE  \/ call'[c] = call[c]
             \/ d = c /\ call'[c].kind = call[c].kind /\ call'[c].st = s
    BY <1>1, <1>2
<1>3. ASSUME NEW d \in Calls, NEW kind \in CallKinds, HostCall(d, kind)
      PROVE  \/ call'[c] = call[c]
             \/ /\ Running
                /\ \/ call'[c].st = "refused"
                   \/ call'[c].st = "handing" /\ call'[c].kind = "sync"
                   \/ call'[c].st = "made" /\ call'[c].kind \in LoopKinds
  <2>1. \/ call' = [call EXCEPT ![d] = [kind |-> kind, st |-> "refused"]]
        \/ kind = "sync" /\ call' = [call EXCEPT ![d] = [kind |-> kind, st |-> "handing"]]
        \/ kind # "sync" /\ call' = [call EXCEPT ![d] = [kind |-> kind, st |-> "made"]]
      BY <1>3 DEF HostCall
  <2>2. Running /\ kind \in {"sync", "async", "import"}
      BY <1>3, KindsAreCalls DEF HostCall
  <2>3. QED
      BY <1>1, <2>1, <2>2 DEF LoopKinds
<1>11. ASSUME NEW d \in Calls, OpStarts(d)
       PROVE  \/ call'[c] = call[c]
              \/ /\ call'[c].kind = call[c].kind /\ call[c].st = "made"
                 /\ call'[c].st \in {"refused", "sending"}
  <2>1. PICK s \in {"refused", "sending"} : call' = [call EXCEPT ![d].st = s] /\ call[d].st = "made"
      BY <1>11 DEF OpStarts, CallGets
  <2>2. QED
      BY <1>2, <2>1
<1>4. ASSUME NEW d \in Calls, AsyncSent(d)
      PROVE  \/ call'[c] = call[c]
             \/ /\ call'[c].kind = call[c].kind /\ call[c].st = "sending" /\ call'[c].st = "sent"
                /\ AsyncSent(c)
  <2>1. call' = [call EXCEPT ![d].st = "sent"] /\ call[d].st = "sending"
      BY <1>4 DEF AsyncSent, CallGets
  <2>2. QED
      BY <1>2, <1>4, <2>1
<1>5. ASSUME NEW d \in Calls, CallTimesOut(d) \/ HostSettles(d)
      PROVE  \/ call'[c] = call[c]
             \/ /\ call'[c].kind = call[c].kind /\ call[c].st # "none"
                /\ call'[c].st \in {"failed", "running", "answered"}
  <2>1. /\ call[d].st # "none"
        /\ call' = [call EXCEPT ![d].st = "failed"] \/ call' = [call EXCEPT ![d].st = "answered"]
      BY <1>5 DEF CallTimesOut, HostSettles, CallGets
  <2>2. QED
      BY <1>2, <2>1
<1>6. CASE Dispatch
  <2> DEFINE d == Head(dispatcher).id
             s == IF call[d].st = "handing" THEN (IF PumpLives THEN "sent" ELSE "failed") ELSE call[d].st
  <2>1. dispatcher # <<>> /\ (call' = call \/ call' = [call EXCEPT ![d].st = s])
      BY <1>6 DEF Dispatch
  <2>2. s = call[d].st \/ (call[d].st = "handing" /\ s \in {"sent", "failed"})
      OBVIOUS
  <2> HIDE DEF d, s
  <2>3. call'[c] = call[c] \/ (d = c /\ call'[c].kind = call[c].kind /\ call'[c].st = s)
      BY <1>2, <2>1
  <2>4. s = call[c].st /\ d = c /\ call'[c].kind = call[c].kind /\ call'[c].st = s => call'[c] = call[c]
      BY <1>1, <2>1
  <2>5. QED
      BY <2>1, <2>2, <2>3, <2>4
<1>7. CASE PumpReceives \/ PumpDrains
  <2> DEFINE d == Head(nodeCh).id
             s == IF call[d].st \in {"handing", "sent"} THEN "failed" ELSE call[d].st
  <2>1. call' = call \/ call' = [call EXCEPT ![d].st = s]
      BY <1>7 DEF PumpReceives, PumpDrains, DispatchNodeMsg
  <2>2. s = call[d].st \/ (call[d].st # "none" /\ s = "failed")
      OBVIOUS
  <2> HIDE DEF d, s
  <2>3. call'[c] = call[c] \/ (d = c /\ call'[c].kind = call[c].kind /\ call'[c].st = s)
      BY <1>2, <2>1
  <2>4. s = call[c].st /\ d = c /\ call'[c].kind = call[c].kind /\ call'[c].st = s => call'[c] = call[c]
      BY <1>1, <2>1
  <2>5. QED
      BY <2>1, <2>2, <2>3, <2>4
<1>8. CASE RunTask
  <2> DEFINE d == Head(js).id
  <2>1. \/ call' = call \/ InvokeAtOnce(Head(js)) \/ InvokeLater(Head(js))
      BY <1>8 DEF RunTask, Invoke
  <2>2. \/ call' = call
        \/ \E s : /\ call' = [call EXCEPT ![d].st = s]
                  /\ s = call[d].st \/ (call[d].st = "sent" /\ s \in {"running", "answered"})
        \/ /\ call[d].st = "sent"
           /\ call' = [call EXCEPT ![d] = [kind |-> "retry", st |-> "made"]]
    <3>1. InvokeAtOnce(Head(js)) =>
              \/ \E s : /\ call' = [call EXCEPT ![d].st = s]
                        /\ s = call[d].st \/ (call[d].st = "sent" /\ s \in {"running", "answered"})
              \/ /\ call[d].st = "sent"
                 /\ call' = [call EXCEPT ![d] = [kind |-> "retry", st |-> "made"]]
      <4> DEFINE s0 == IF call[d].st = "sent" THEN "answered" ELSE call[d].st
      <4>1. InvokeAtOnce(Head(js)) =>
                \/ call' = [call EXCEPT ![d].st = s0]
                \/ /\ call[d].st = "sent"
                   /\ call' = [call EXCEPT ![d] = [kind |-> "retry", st |-> "made"]]
          BY DEF InvokeAtOnce, CallGets
      <4>2. s0 = call[d].st \/ (call[d].st = "sent" /\ s0 \in {"running", "answered"})
          OBVIOUS
      <4> HIDE DEF s0, d
      <4>3. QED
          BY <4>1, <4>2
    <3>2. InvokeLater(Head(js)) =>
              \E s : /\ call' = [call EXCEPT ![d].st = s]
                     /\ s = call[d].st \/ (call[d].st = "sent" /\ s \in {"running", "answered"})
        BY DEF InvokeLater, CallGets
    <3> HIDE DEF d
    <3>3. QED
        BY <2>1, <3>1, <3>2
  <2> HIDE DEF d
  <2>3. CASE call' = call
      BY <2>3
  <2>4. ASSUME NEW s, call' = [call EXCEPT ![d].st = s],
               s = call[d].st \/ (call[d].st = "sent" /\ s \in {"running", "answered"})
        PROVE  \/ call'[c] = call[c]
               \/ /\ call'[c].kind = call[c].kind /\ call[c].st # "none"
                  /\ call'[c].st \in {"failed", "running", "answered"}
    <3>1. call'[c] = call[c] \/ (d = c /\ call'[c].kind = call[c].kind /\ call'[c].st = s)
        BY <1>2, <2>4
    <3>2. s = call[c].st /\ d = c /\ call'[c].kind = call[c].kind /\ call'[c].st = s => call'[c] = call[c]
        BY <1>1, <2>4
    <3>3. QED
        BY <2>4, <3>1, <3>2
  <2>5. CASE /\ call[d].st = "sent"
             /\ call' = [call EXCEPT ![d] = [kind |-> "retry", st |-> "made"]]
      BY <1>1, <2>5
  <2>6. QED
      BY <2>2, <2>3, <2>4, <2>5
<1>9. CASE UNCHANGED call
    BY <1>9
<1>10. QED
    BY <1>3, <1>4, <1>5, <1>6, <1>7, <1>8, <1>9, <1>11, CallSteps

LEMMA PumpSteps ==
    Next =>
      \/ UNCHANGED <<pump, stop>>
      \/ StartupDone \/ Stop \/ PumpChecks \/ PumpReceives \/ PumpDrains
BY Zenon
DEF Next, Application, NodeThread, WorkerThread, WorkerCode, Pump, Eval, Memory, Gc, Close,
    Awaited, QueueDenoMsgOrReject, EvalSync, ControlUnblocks, EvalSyncReturns, PostMessage,
    PostUnblocks, PostStreamFrame, ForceDispose, Boot, StartupFails, TakeControl, Drain,
    DrainEnds, TakeData, Disconnect, HandleEval, HandleMemory, HandleGc, HandleClose, EmitClose,
    EvalEnds, Reply, SendNodeMsgOrReject, Join, HostCall, AsyncSent, OpStarts, CallTimesOut, PostToNode,
    PostToNodeTimesOut, Dispatch, RunTask, HostSettles, pumpVars

LEMMA StationsStep ==
    ASSUME NativeRuntimeTypeOK, Stations, ~StartupCalls, Next
    PROVE  Stations'
<1> DEFINE Early(pc) == pc \in {"boot", "startup"}
<1>1. /\ pump \in {"off", "check", "recv", "drain", "done"} /\ stop \in BOOLEAN
      /\ nodeCh \in Seq(NodeMsgs) /\ dispatcher \in Seq(DispatchMsgs)
      /\ emit \in [Emits -> [st : {"none", "handing", "sent", "failed"}, by : ControlMsgs \cup {Nothing}]]
    BY DEF NativeRuntimeTypeOK
<1>2. /\ pump = "off" => worker.pc \in {"boot", "startup", "gone"}
      /\ pump \in {"drain", "done"} => stop
      /\ stop => worker.pc \in {"join", "gone"}
      /\ worker.pc = "gone" => control = <<>> /\ nodeCh = <<>>
      /\ Early(worker.pc) => /\ nodeCh = <<>> /\ dispatcher = <<>>
                            /\ \A c \in Calls : call[c].st = "none"
                            /\ \A e \in Emits : emit[e].st = "none"
    BY DEF Stations
<1>3. \/ worker' = worker
      \/ Boot /\ worker.pc = "boot" /\ worker'.pc = "startup" /\ nodeCh' = nodeCh
      \/ StartupDone
      \/ /\ worker.pc \in {"boot", "startup", "join"} /\ worker'.pc = "gone"
         /\ control' = <<>> /\ nodeCh' = <<>>
      \/ Stop
      \/ worker.pc \in Busy /\ worker'.pc \in Busy
    BY PcMoves
<1>4. /\ StartupDone => worker.pc = "startup" /\ worker'.pc = "idle" /\ pump' = "check" /\ stop' = stop
      /\ Stop => worker.pc = "stopping" /\ worker'.pc = "join" /\ pump' = pump /\ stop'
  <2>1. worker = [pc |-> worker.pc, msg |-> worker.msg, left |-> worker.left, waits |-> worker.waits]
      BY ThreadFacts
  <2>2. QED
      BY <2>1 DEF StartupDone, Stop, Goto, Rest
<1>5. /\ \/ pump' = pump /\ stop' = stop
         \/ StartupDone \/ Stop
         \/ pump = "check" /\ pump' = (IF stop THEN "drain" ELSE "recv") /\ stop' = stop
         \/ pump = "recv" /\ pump' = "check" /\ stop' = stop
         \/ pump = "drain" /\ pump' \in {"drain", "done"} /\ stop' = stop
    BY PumpSteps DEF PumpChecks, PumpReceives, PumpDrains
<1>6. pump' = "off" => worker'.pc \in {"boot", "startup", "gone"}
    BY <1>2, <1>3, <1>4, <1>5 DEF Busy
<1>7. (pump' \in {"drain", "done"} => stop') /\ (stop' => worker'.pc \in {"join", "gone"})
    BY <1>1, <1>2, <1>3, <1>4, <1>5 DEF Busy
<1>8. ASSUME worker'.pc = "gone" PROVE control' = <<>> /\ nodeCh' = <<>>
  <2>1. worker' = worker \/ (control' = <<>> /\ nodeCh' = <<>>)
      BY <1>3, <1>4, <1>8 DEF Busy
  <2>2. CASE worker' = worker
    <3>1. worker.pc = "gone" /\ control = <<>> /\ nodeCh = <<>>
        BY <1>2, <1>8, <2>2
    <3>2. control' = control
        BY <3>1, ControlSteps, <2>2, <1>8
        DEF QueueDenoMsgOrReject, EvalSync, ControlUnblocks, Boot, StartupFails, TakeControl, Join, WorkerLives
    <3>3. nodeCh' = nodeCh
        BY <3>1, NodeChSteps
        DEF AsyncSent, Polled, LoopRuns, Boot, StartupFails, EmitClose, SendNodeMsgOrReject, Join, Dispatch,
            PumpReceives, PumpDrains, PumpLives, WorkerLives
    <3>4. QED
        BY <3>1, <3>2, <3>3
  <2>3. QED
      BY <2>1, <2>2
<1>9. ASSUME Early(worker'.pc)
      PROVE  /\ nodeCh' = <<>> /\ dispatcher' = <<>>
             /\ \A c \in Calls : call'[c].st = "none"
             /\ \A e \in Emits : emit'[e].st = "none"
  <2>1. worker' = worker \/ (worker.pc = "boot" /\ worker'.pc = "startup" /\ nodeCh' = nodeCh)
      BY <1>3, <1>4, <1>9 DEF Busy
  <2>2. Early(worker.pc)
      BY <1>9, <2>1
  <2>3. /\ nodeCh = <<>> /\ dispatcher = <<>>
        /\ \A c \in Calls : call[c].st = "none"
        /\ \A e \in Emits : emit[e].st = "none"
      BY <2>2 DEF Stations
  <2>4. ~Running
      BY <2>2 DEF Running
  <2>5. nodeCh' = nodeCh
    <3>1. ~ \E c \in Calls : AsyncSent(c)
        BY <2>3 DEF AsyncSent
    <3>2. CASE Boot \/ StartupFails \/ Join
      <4>1. worker' = worker => worker.pc = worker'.pc
          OBVIOUS
      <4>2. worker'.pc = "gone" \/ nodeCh' = nodeCh
          BY <3>2 DEF Boot, StartupFails, Join, ThreadEnds, Rest
      <4>3. QED
          BY <1>9, <4>2
    <3>3. ~EmitClose /\ ~SendNodeMsgOrReject /\ ~Dispatch /\ ~PumpReceives
        BY <2>2, <2>3 DEF EmitClose, SendNodeMsgOrReject, Dispatch, PumpReceives
    <3>4. PumpDrains => nodeCh' = nodeCh
        BY <2>3 DEF PumpDrains
    <3>5. QED
        BY <3>1, <3>2, <3>3, <3>4, NodeChSteps
  <2>6. dispatcher' = dispatcher
      BY <2>3, <2>4, DispatcherSteps DEF HostCall, PostToNode, Dispatch
  <2>7. ASSUME NEW c \in Calls PROVE call'[c].st = "none"
      BY <2>3, <2>4, CallMoves
  <2>8. ASSUME NEW e \in Emits PROVE emit'[e].st = "none"
      BY <2>3, <2>4, EmitSteps DEF PostToNode, PostToNodeTimesOut, Dispatch
  <2>9. QED
      BY <2>3, <2>5, <2>6, <2>7, <2>8
<1>10. QED
    BY <1>6, <1>7, <1>8, <1>9 DEF Stations

LEMMA KindStep ==
    ASSUME NativeRuntimeTypeOK, NEW c \in Calls, KindFits(c), Next
    PROVE  KindFits(c)'
BY CallMoves DEF KindFits, LoopKinds

LEMMA HoldsAppend ==
    ASSUME NEW S, NEW ch \in Seq(S), NEW y \in S, NEW m
    PROVE  Holds(Append(ch, y), m) <=> (Holds(ch, m) \/ y = m)
BY AppendKeeps

LEMMA HoldsConcat ==
    ASSUME NEW S, NEW ch \in Seq(S), NEW q \in Seq(S), NEW m, Holds(ch, m)
    PROVE  Holds(ch \o q, m)
<1>1. PICK i \in 1..Len(ch) : ch[i] = m
    BY DEF Holds
<1>2. i \in 1..Len(ch \o q) /\ (ch \o q)[i] = m
    BY <1>1
<1>3. QED
    BY <1>2 DEF Holds

LEMMA HoldsTail ==
    ASSUME NEW S, NEW ch \in Seq(S), ch # <<>>, NEW m, Holds(ch, m), Head(ch) # m
    PROVE  Holds(Tail(ch), m)
BY TailKeeps

\* One message handed on by the pump: it goes to the Node thread's tasks, or its
\* call has failed.
LEMMA DispatchHolds ==
    ASSUME NativeRuntimeTypeOK, NEW c \in Calls, NEW k \in UnboundedKinds,
           nodeCh # <<>>, DispatchNodeMsg,
           call'[c] = call[c], call[c].st = "sent",
           Holds(nodeCh, Msg(k, c)) \/ Holds(js, Msg(k, c))
    PROVE  Holds(nodeCh', Msg(k, c)) \/ Holds(js', Msg(k, c))
<1> DEFINE m == Msg(k, c)
           h == Head(nodeCh)
<1>1. /\ nodeCh \in Seq(NodeMsgs) /\ js \in Seq(Tasks) /\ h \in NodeMsgs /\ h \in Tasks
      /\ m.t = k /\ m.id = c
      /\ call \in [Calls -> [kind : {"none"} \cup CallTypes,
                             st : {"none", "refused", "made", "handing", "sending",
                                   "sent", "running", "answered", "failed"}]]
  <2>1. nodeCh \in Seq(NodeMsgs) /\ js \in Seq(Tasks) /\ CallOK
      BY TypeParts DEF NodeChOK, JsOK
  <2>2. h \in NodeMsgs
      BY <2>1, OneLess
  <2>3. QED
      BY <2>1, <2>2, MsgTypes DEF Msg, CallOK
<1>2. nodeCh' = Tail(nodeCh)
    BY DEF DispatchNodeMsg
<1>3. \/ registered /\ js' = Append(js, h)
      \/ /\ ~registered
         /\ js' = js \/ (h.t = "resolve" /\ js' = Append(js, Msg("reject", h.id)))
         /\ h.t = k =>
               call' = [call EXCEPT ![h.id].st = IF call[h.id].st \in {"handing", "sent"} THEN "failed" ELSE call[h.id].st]
    BY DEF DispatchNodeMsg, UnboundedKinds
<1>4. h.t = "resolve" => Msg("reject", h.id) \in Tasks
    BY <1>1, MsgIds, MsgTypes
<1>5. h = m => registered
  <2>1. SUFFICES ASSUME h = m, ~registered PROVE FALSE
      OBVIOUS
  <2>2. h.t = k /\ h.id = c
      BY <1>1, <2>1
  <2>3. call' = [call EXCEPT ![c].st = "failed"]
      BY <1>3, <2>1, <2>2
  <2>4. QED
      BY <1>1, <2>3
<1> HIDE DEF m, h
<1>6. \A y \in Tasks : Holds(Append(js, y), m) <=> (Holds(js, m) \/ y = m)
    BY <1>1, HoldsAppend
<1>7. Holds(js, m) => Holds(js', m)
    BY <1>1, <1>3, <1>4, <1>6
<1>8. h = m => Holds(js', m)
    BY <1>1, <1>3, <1>5, <1>6
<1>9. Holds(nodeCh, m) /\ h # m => Holds(nodeCh', m)
    BY <1>1, <1>2, HoldsTail DEF h
<1>10. Holds(nodeCh, m) \/ Holds(js, m)
    BY DEF m
<1>11. QED
    BY <1>7, <1>8, <1>9, <1>10 DEF m

LEMMA UnderwaySteps ==
    Next =>
      \/ UNCHANGED <<nodeCh, js>>
      \/ \E op \in Awaited, r \in Requests : QueueDenoMsgOrReject(op, r)
      \/ \E c \in Calls : AsyncSent(c)
      \/ ControlUnblocks \/ Boot \/ StartupFails \/ HandleGc \/ HandleClose \/ EmitClose
      \/ Reply \/ SendNodeMsgOrReject \/ Join \/ Dispatch \/ PumpReceives \/ PumpDrains
      \/ RunTask
BY NodeChSteps, JsSteps, Zenon

LEMMA UnderwayStep ==
    ASSUME NativeRuntimeTypeOK, NEW c \in Calls, KindFits(c), Underway(c), Next
    PROVE  Underway(c)'
<1> SUFFICES ASSUME NEW k \in UnboundedKinds, call'[c] = [kind |-> k, st |-> "sent"]
             PROVE  OnItsWay(k, c)'
    BY DEF Underway
<1> DEFINE m == Msg(k, c)
<1>0. call'[c].kind = k /\ call'[c].st = "sent" /\ k \in {"async", "retry"}
    BY DEF UnboundedKinds
<1>1. /\ nodeCh \in Seq(NodeMsgs) /\ js \in Seq(Tasks) /\ m \in NodeMsgs
      /\ call \in [Calls -> [kind : {"none"} \cup CallTypes,
                             st : {"none", "refused", "made", "handing", "sending",
                                   "sent", "running", "answered", "failed"}]]
    BY <1>0, MsgTypes DEF NativeRuntimeTypeOK
<1>2. AsyncSent(c) \/ call'[c] = call[c]
    BY <1>0, CallMoves DEF KindFits
<1>3. CASE AsyncSent(c) /\ call[c].kind = k
  <2>1. nodeCh' = Append(nodeCh, m)
      BY <1>3 DEF AsyncSent
  <2>2. Holds(nodeCh', m)
      BY <1>1, <2>1, HoldsAppend
  <2>3. QED
      BY <2>2 DEF OnItsWay
<1>4. AsyncSent(c) => call[c].kind = k
  <2>1. AsyncSent(c) => call' = [call EXCEPT ![c].st = "sent"]
      BY DEF AsyncSent, CallGets
  <2>2. QED
      BY <1>0, <1>1, <2>1
<1>5. CASE call'[c] = call[c]
  <2>1. call[c].kind = k /\ call[c].st = "sent" /\ OnItsWay(k, c)
      BY <1>0, <1>5 DEF Underway
  <2>2. CASE worker.pc = "gone"
    <3>1. worker'.pc = "gone"
        BY <2>2, PcMoves DEF StartupDone, Stop, Busy
    <3>2. QED
        BY <3>1 DEF OnItsWay
  <2>3. CASE Holds(nodeCh, m) \/ Holds(js, m)
    <3>1. \A y \in NodeMsgs : Holds(Append(nodeCh, y), m) <=> (Holds(nodeCh, m) \/ y = m)
        BY <1>1, HoldsAppend
    <3>2. \A y \in Tasks : Holds(Append(js, y), m) <=> (Holds(js, m) \/ y = m)
        BY <1>1, HoldsAppend
    <3>3. CASE UNCHANGED <<nodeCh, js>>
        BY <2>3, <3>3 DEF OnItsWay
    <3>4. ASSUME NEW op \in Awaited, NEW r \in Requests, QueueDenoMsgOrReject(op, r)
          PROVE  OnItsWay(k, c)'
      <4>1. nodeCh' = nodeCh /\ (js' = js \/ js' = Append(js, Msg("reject", r)))
          BY <3>4 DEF QueueDenoMsgOrReject
      <4>2. Msg("reject", r) \in Tasks
          BY MsgTypes
      <4>3. QED
          BY <2>3, <3>2, <4>1, <4>2 DEF OnItsWay
    <3>5. CASE ControlUnblocks
      <4>1. /\ nodeCh' = nodeCh /\ (js' = js \/ js' = Append(js, Msg("reject", node.msg.id)))
            /\ js' # js => node.st = "queueing" /\ node.msg.t # "post"
          BY <3>5 DEF ControlUnblocks
      <4>2. js' # js => Msg("reject", node.msg.id) \in Tasks
        <5>1. js' # js => node.msg \in ControlMsgs
            BY <4>1, ThreadFacts DEF Msg
        <5>2. QED
            BY <5>1, MsgIds, MsgTypes
      <4>3. QED
          BY <2>3, <3>2, <4>1, <4>2 DEF OnItsWay
    <3>6. CASE HandleGc \/ HandleClose \/ Reply
      <4>1. nodeCh' = nodeCh /\ worker.msg \in ControlMsgs
          BY <3>6, ThreadFacts DEF HandleGc, HandleClose, Reply
      <4>2. js' = js \/ \E t \in {"resolve", "reject"} : js' = Append(js, Msg(t, worker.msg.id))
          BY <3>6 DEF HandleGc, HandleClose, Reply
      <4>3. \A t \in {"resolve", "reject"} : Msg(t, worker.msg.id) \in Tasks
          BY <4>1, MsgIds, MsgTypes
      <4>4. QED
          BY <2>3, <3>2, <4>1, <4>2, <4>3 DEF OnItsWay
    <3>7. CASE EmitClose
      <4>1. \/ nodeCh' = nodeCh /\ js' = js
            \/ nodeCh' = Append(nodeCh, Msg("emitClose", 0)) /\ js' = js
            \/ nodeCh' = nodeCh /\ js' = Append(js, Msg("emitClose", 0))
          BY <3>7 DEF EmitClose
      <4>2. QED
          BY <2>3, <3>1, <3>2, <4>1, MsgTypes DEF OnItsWay
    <3>8. CASE SendNodeMsgOrReject
      <4>1. nodeCh' = Append(nodeCh, Msg("resolve", worker.msg.id)) /\ js' = js /\ worker.msg \in ControlMsgs
          BY <3>8, ThreadFacts DEF SendNodeMsgOrReject
      <4>2. Msg("resolve", worker.msg.id) \in NodeMsgs
          BY <4>1, MsgIds, MsgTypes
      <4>3. QED
          BY <2>3, <3>1, <4>1, <4>2 DEF OnItsWay
    <3>9. CASE Boot \/ StartupFails \/ Join
      <4>1. worker'.pc = "gone" \/ (nodeCh' = nodeCh /\ js' = js)
          BY <3>9 DEF Boot, StartupFails, Join, ThreadEnds, Rest
      <4>2. QED
          BY <2>3, <4>1 DEF OnItsWay
    <3>10. CASE Dispatch
      <4>1. js' = js /\ (nodeCh' = nodeCh \/ nodeCh' = Append(nodeCh, Head(dispatcher))) /\ dispatcher # <<>>
          BY <3>10 DEF Dispatch
      <4>2. Head(dispatcher) \in NodeMsgs
          BY <4>1, MsgTypes, OneLess DEF NativeRuntimeTypeOK
      <4>3. QED
          BY <2>3, <3>1, <4>1, <4>2 DEF OnItsWay
    <3>11. ASSUME NEW d \in Calls, AsyncSent(d) PROVE OnItsWay(k, c)'
      <4>1. js' = js /\ nodeCh' = Append(nodeCh, Msg(call[d].kind, d)) /\ call[d].kind \in {"async", "import", "retry"}
          BY <3>11 DEF AsyncSent
      <4>2. Msg(call[d].kind, d) \in NodeMsgs
          BY <4>1, MsgTypes
      <4>3. QED
          BY <2>3, <3>1, <4>1, <4>2 DEF OnItsWay
    <3>12. CASE PumpReceives \/ PumpDrains
      <4>1. (nodeCh # <<>> /\ DispatchNodeMsg) \/ (nodeCh' = nodeCh /\ js' = js)
          BY <3>12 DEF PumpReceives, PumpDrains
      <4>2. QED
          BY <1>5, <2>1, <2>3, <4>1, DispatchHolds DEF OnItsWay
    <3>13. CASE RunTask
      <4> DEFINE h == Head(js)
      <4>1. nodeCh' = nodeCh /\ js' = Tail(js) /\ js # <<>> /\ m.t = k /\ m.id = c
          BY <3>13 DEF RunTask, Msg
      <4>2. h # m
        <5>1. SUFFICES ASSUME h = m PROVE FALSE
            OBVIOUS
        <5>2. h.t = k /\ h.id = c
            BY <4>1, <5>1
        <5>3. InvokeLater(h)
            BY <1>0, <3>13, <5>2 DEF RunTask, Invoke
        <5>4. \E st \in {"running", "answered"} : call' = [call EXCEPT ![c].st = st]
            BY <2>1, <5>2, <5>3 DEF InvokeLater, CallGets
        <5>5. QED
            BY <1>1, <1>5, <2>1, <5>4
      <4>3. Holds(js, m) => Holds(js', m)
          BY <1>1, <4>1, <4>2, HoldsTail
      <4>4. QED
          BY <2>3, <4>1, <4>3 DEF OnItsWay
    <3>14. QED
        BY <3>3, <3>4, <3>5, <3>6, <3>7, <3>8, <3>9, <3>10, <3>11, <3>12, <3>13, UnderwaySteps
  <2>4. QED
      BY <2>1, <2>2, <2>3 DEF OnItsWay
<1>6. QED
    BY <1>2, <1>3, <1>4, <1>5

LEMMA AnswerStep ==
    ASSUME NativeRuntimeTypeOK, SyncInv, AnswerComes, Next
    PROVE  AnswerComes'
<1> DEFINE Asks(ch) == \E i \in 1..Len(ch) : ch[i].t = "evalSync"
           Given == node.st = "awaiting" /\ syncReply = "none" => worker.msg.t = "evalSync" \/ Asks(control)
           Kept == worker.pc \in {"reply", "sending"} => worker.msg.t # "evalSync"
<1>1. /\ control \in Seq(ControlMsgs) /\ node.st \in {"free", "queueing", "awaiting"}
      /\ worker = [pc |-> worker.pc, msg |-> worker.msg, left |-> worker.left, waits |-> worker.waits]
      /\ worker.pc \notin {"drain", "handle", "eval", "reply", "sending"} => worker.msg.t # "evalSync"
    BY ThreadFacts, MsgTypes DEF NativeRuntimeTypeOK
<1>2. Given /\ Kept
    BY DEF AnswerComes
<1>3. \A m \in ControlMsgs : /\ Asks(control) => Asks(Append(control, m))
                             /\ m.t = "evalSync" => Asks(Append(control, m))
  <2>1. SUFFICES ASSUME NEW m \in ControlMsgs
                 PROVE  /\ Asks(control) => Asks(Append(control, m))
                        /\ m.t = "evalSync" => Asks(Append(control, m))
      OBVIOUS
  <2> DEFINE t == Append(control, m)
             l == Len(control)
  <2>2. /\ l \in Nat /\ Len(t) = l + 1 /\ t[l + 1] = m
        /\ \A i \in 1..l : t[i] = control[i]
      BY <1>1
  <2> HIDE DEF t, l
  <2>3. (\A i \in 1..l : i \in 1..(l + 1)) /\ l + 1 \in 1..(l + 1)
      BY <2>2
  <2>4. (\E i \in 1..l : control[i].t = "evalSync") => Asks(t)
      BY <2>2, <2>3
  <2>5. m.t = "evalSync" => Asks(t)
      BY <2>2, <2>3
  <2>6. QED
      BY <2>4, <2>5 DEF t, l
<1> SUFFICES Given' /\ Kept'
    BY DEF AnswerComes
<1>4. CASE UNCHANGED <<node, evalSyncActive, syncReply, control, worker>>
    BY <1>2, <1>4
<1>5. ASSUME NEW op \in Awaited, NEW r \in Requests, QueueDenoMsgOrReject(op, r) PROVE Given' /\ Kept'
  <2>1. worker' = worker /\ node'.st # "awaiting"
      BY <1>1, <1>5 DEF QueueDenoMsgOrReject, MayCall, Free
  <2>2. QED
      BY <1>2, <2>1
<1>6. ASSUME NEW r \in Requests, EvalSync(r) PROVE Given' /\ Kept'
  <2>1. /\ worker' = worker /\ node = Free
        /\ node'.st = "awaiting" => control' = Append(control, Msg("evalSync", r))
      BY <1>6 DEF EvalSync, MayCall, Free
  <2>2. Msg("evalSync", r) \in ControlMsgs /\ Msg("evalSync", r).t = "evalSync"
      BY MsgTypes DEF Msg
  <2>3. Asks(Append(control, Msg("evalSync", r)))
      BY <1>3, <2>2
  <2>4. Kept'
      BY <1>2, <2>1
  <2>5. Given'
      BY <2>1, <2>3
  <2>6. QED
      BY <2>4, <2>5
<1>7. CASE ControlUnblocks
  <2>1. node = [st |-> node.st, msg |-> node.msg] /\ node.msg \in ControlMsgs
      BY <1>7, ThreadFacts DEF ControlUnblocks, Msg
  <2>2. /\ worker' = worker
        /\ node'.st = "awaiting" => node.msg.t = "evalSync" /\ control' = Append(control, node.msg)
      BY <1>7, <2>1 DEF ControlUnblocks, Free
  <2>3. node.msg.t = "evalSync" => Asks(Append(control, node.msg))
      BY <1>3, <2>1
  <2>4. Kept'
      BY <1>2, <2>2
  <2>5. Given'
      BY <2>2, <2>3
  <2>6. QED
      BY <2>4, <2>5
<1>8. CASE EvalSyncReturns \/ PostMessage \/ PostUnblocks
  <2>1. worker' = worker /\ (node'.st # "awaiting" \/ (node' = node /\ syncReply' = syncReply /\ control' = control))
      BY <1>8 DEF EvalSyncReturns, PostMessage, PostUnblocks, Free
  <2>2. QED
      BY <1>2, <2>1
<1>9. CASE TakeControl
  <2>1. /\ node' = node /\ syncReply' = syncReply /\ control # <<>> /\ control' = Tail(control)
        /\ worker'.msg = Head(control) /\ worker'.pc = "drain" /\ worker.pc = "idle"
      BY <1>1, <1>9 DEF TakeControl, requestVars
  <2>2. Asks(control) => Head(control).t = "evalSync" \/ Asks(Tail(control))
    <3>1. SUFFICES ASSUME NEW i \in 1..Len(control), control[i].t = "evalSync", Head(control).t # "evalSync"
                   PROVE  Asks(Tail(control))
        OBVIOUS
    <3>2. Head(control) = control[1] /\ Len(control) \in Nat
        BY <1>1, <2>1
    <3>3. i # 1
        BY <3>1, <3>2
    <3>4. i - 1 \in 1..Len(Tail(control)) /\ Tail(control)[i - 1] = control[i]
        BY <1>1, <2>1, <3>2, <3>3
    <3>5. QED
        BY <3>1, <3>4
  <2>3. Given'
      BY <1>1, <1>2, <2>1, <2>2
  <2>4. QED
      BY <2>1, <2>3
<1>10. CASE Boot \/ StartupFails \/ Join
  <2>1. node' = node /\ worker.msg.t # "evalSync"
      BY <1>1, <1>10 DEF Boot, StartupFails, Join
  <2>2. \/ /\ worker' = [worker EXCEPT !.pc = "startup", !.waits = TRUE]
           /\ syncReply' = syncReply /\ control' = control
        \/ /\ worker' = [Rest EXCEPT !.pc = "gone"]
           /\ syncReply' = IF \E i \in DOMAIN control : control[i].t = "evalSync"
                           THEN "dropped" ELSE syncReply
      BY <1>10 DEF Boot, StartupFails, Join, ThreadEnds
  <2>3. DOMAIN control = 1..Len(control)
      BY <1>1
  <2>4. Given'
      BY <1>1, <1>2, <2>1, <2>2, <2>3
  <2>5. Kept'
      BY <1>1, <2>2 DEF Rest
  <2>6. QED
      BY <2>4, <2>5
<1>11. CASE StartupDone \/ Drain \/ DrainEnds \/ Disconnect \/ HandleEval \/ EmitClose \/ Stop
  <2>1. node' = node /\ syncReply' = syncReply /\ control' = control
    <3>1. UNCHANGED requestVars \/ UNCHANGED <<node, syncReply>>
        BY <1>11, Zenon
        DEF StartupDone, Drain, DrainEnds, Disconnect, HandleEval, EmitClose, Stop
    <3>2. control' = control
        BY <1>11 DEF StartupDone, Drain, DrainEnds, Disconnect, HandleEval, EmitClose, Stop
    <3>3. QED
        BY <3>1, <3>2 DEF requestVars
  <2>2. /\ worker'.pc \notin {"reply", "sending"}
        /\ worker'.msg = worker.msg \/ worker.msg.t # "evalSync"
    <3>1. CASE StartupDone \/ Disconnect \/ EmitClose \/ Stop
        BY <1>1, <3>1 DEF StartupDone, Disconnect, EmitClose, Stop, Goto, Rest
    <3>2. CASE Drain \/ DrainEnds \/ HandleEval
        BY <1>1, <3>2 DEF Drain, DrainEnds, HandleEval
    <3>3. QED
        BY <1>11, <3>1, <3>2
  <2>3. QED
      BY <1>2, <2>1, <2>2
<1>12. CASE HandleMemory \/ HandleGc \/ HandleClose
  <2>1. /\ node' = node /\ syncReply' = syncReply /\ control' = control
        /\ worker.msg.t # "evalSync"
        /\ worker'.msg = worker.msg \/ worker'.pc \notin {"reply", "sending"}
      BY <1>1, <1>12 DEF HandleMemory, HandleGc, HandleClose, Goto, Rest, requestVars
  <2>2. QED
      BY <1>2, <2>1
<1>13. CASE EvalEnds
  <2>1. /\ node' = node /\ control' = control
        /\ \/ worker.msg.t = "evalSync" /\ syncReply' = "sent" /\ worker'.pc = "idle"
           \/ worker.msg.t # "evalSync" /\ syncReply' = syncReply /\ worker'.msg = worker.msg
      BY <1>1, <1>13 DEF EvalEnds, Goto, Rest
  <2>2. QED
      BY <1>2, <2>1
<1>14. CASE Reply \/ SendNodeMsgOrReject
  <2>1. /\ node' = node /\ syncReply' = syncReply /\ control' = control
        /\ worker.pc \in {"reply", "sending"}
        /\ worker'.msg = worker.msg \/ worker'.pc \notin {"reply", "sending"}
      BY <1>1, <1>14 DEF Reply, SendNodeMsgOrReject, Goto, Rest, requestVars
  <2>2. QED
      BY <1>2, <2>1
<1>15. QED
    BY <1>4, <1>5, <1>6, <1>7, <1>8, <1>9, <1>10, <1>11, <1>12, <1>13, <1>14, SyncSteps

LEMMA MovesInit == Init => MovesInv
<1> SUFFICES ASSUME Init PROVE MovesInv
    OBVIOUS
<1>1. /\ pump = "off" /\ stop = FALSE /\ worker.pc = "boot" /\ node = Free
      /\ nodeCh = <<>> /\ dispatcher = <<>>
      /\ \A c \in Calls : call[c].st = "none"
      /\ \A e \in Emits : emit[e].st = "none"
    BY DEF Init
<1>2. Stations
    BY <1>1 DEF Stations
<1>3. AnswerComes
    BY <1>1 DEF AnswerComes, Free
<1>4. ASSUME NEW c \in Calls PROVE KindFits(c) /\ Underway(c)
    BY <1>1 DEF KindFits, Underway
<1>5. QED
    BY <1>2, <1>3, <1>4 DEF MovesInv

LEMMA MovesStep ==
    ASSUME ~StartupCalls
    PROVE  RuntimeInv /\ MovesInv /\ [Next]_vars => MovesInv'
<1> SUFFICES ASSUME RuntimeInv, MovesInv, [Next]_vars PROVE MovesInv'
    OBVIOUS
<1>1. CASE Next
  <2>1. NativeRuntimeTypeOK /\ SyncInv
      BY DEF RuntimeInv
  <2>2. Stations'
      BY <1>1, <2>1, StationsStep DEF MovesInv
  <2>3. AnswerComes'
      BY <1>1, <2>1, AnswerStep DEF MovesInv
  <2>4. ASSUME NEW c \in Calls PROVE KindFits(c)' /\ Underway(c)'
      BY <1>1, <2>1, KindStep, UnderwayStep DEF MovesInv
  <2>5. QED
      BY <2>2, <2>3, <2>4 DEF MovesInv
<1>2. CASE UNCHANGED vars
  <2> USE <1>2 DEF vars, tableVars, requestVars, workerCode, history, pumpVars
  <2>1. Stations'
      BY DEF MovesInv, Stations
  <2>2. AnswerComes'
      BY DEF MovesInv, AnswerComes
  <2>3. ASSUME NEW c \in Calls PROVE KindFits(c)' /\ Underway(c)'
      BY DEF MovesInv, KindFits, Underway, OnItsWay
  <2>4. QED
      BY <2>1, <2>2, <2>3 DEF MovesInv
<1>3. QED
    BY <1>1, <1>2

\* While the worker thread is there, what is in the pump's channel is taken.
LEMMA PumpServes ==
    ASSUME NativeRuntimeTypeOK, Stations, nodeCh # <<>>
    PROVE  SomeThreadMoves
<1>1. pump \in {"off", "check", "recv", "drain", "done"} /\ stop \in BOOLEAN
    BY DEF NativeRuntimeTypeOK
<1>2. pump # "off"
    BY DEF Stations
<1>3. pump = "done" => worker.pc = "join"
    BY DEF Stations
<1>4. QED
    BY <1>1, <1>2, <1>3 DEF SomeThreadMoves, PumpCanMove, WorkerCanMove

\* The worker thread has a step, or waits for a thread that has one, or for the
\* Node thread while that stands in the addon, or for a pump that waits for it.
LEMMA WorkerMoves ==
    ASSUME NativeRuntimeTypeOK, MovesInv, worker.pc # "gone",
           worker.pc = "idle" => control # <<>> \/ data # <<>>
    PROVE  SomeThreadMoves \/ CallAwaitsNode \/ WorkerAwaitsPump
<1>1. /\ nodeCh \in Seq(NodeMsgs) /\ js \in Seq(Tasks) /\ worker.waits \in BOOLEAN
      /\ pump \in {"off", "check", "recv", "drain", "done"}
      /\ Stations
    BY ThreadFacts DEF NativeRuntimeTypeOK, MovesInv
<1>2. nodeCh # <<>> => SomeThreadMoves
    BY <1>1, PumpServes
<1>3. Room(nodeCh) \/ nodeCh # <<>>
    BY SizesAreNatural DEF Room
<1>4. WorkerCanMove => SomeThreadMoves
    BY DEF SomeThreadMoves
<1>5. CASE worker.pc \in {"boot", "drain", "handle", "closing", "reply", "stopping"}
    BY <1>4, <1>5 DEF WorkerCanMove
<1>6. CASE worker.pc = "startup"
  <2>1. /\ \A c \in Calls : call[c].st = "none"
        /\ \A e \in Emits : emit[e].st = "none"
      BY <1>1, <1>6 DEF Stations
  <2>2. ~Blocked /\ ~OutstandingCall
      BY <2>1 DEF Blocked, OutstandingCall, UnderWay
  <2>3. QED
      BY <1>4, <1>6, <2>2 DEF WorkerCanMove
<1>7. CASE worker.pc = "idle"
    BY <1>4, <1>7 DEF WorkerCanMove
<1>8. CASE worker.pc = "sending"
    BY <1>2, <1>3, <1>4, <1>8 DEF WorkerCanMove
<1>9. CASE worker.pc = "join"
  <2>1. pump # "off"
      BY <1>1, <1>9 DEF Stations
  <2>2. QED
      BY <1>1, <1>4, <1>9, <2>1 DEF WorkerCanMove, WorkerAwaitsPump, SomeThreadMoves, PumpCanMove
<1>10. CASE worker.pc = "eval"
  <2>1. CASE Blocked
      BY <1>4, <2>1 DEF Blocked, WorkerCanMove
  <2>2. CASE ~Blocked /\ ~(worker.waits /\ OutstandingCall)
      BY <1>4, <1>10, <2>2 DEF WorkerCanMove
  <2>3. CASE ~Blocked /\ worker.waits /\ OutstandingCall
    <3>1. PICK c \in Calls : call[c].st \in {"made", "handing", "sending", "sent", "running"}
        BY <2>3 DEF OutstandingCall, UnderWay
    <3>2. KindFits(c) /\ Underway(c) /\ Polled(c) /\ LoopRuns
        BY <1>10, <2>3 DEF MovesInv, Polled, LoopRuns
    <3>3. CASE call[c].st = "handing"
        BY <1>4, <3>2, <3>3 DEF KindFits, WorkerCanMove
    <3>9. CASE call[c].st = "made"
      <4>1. \E d \in Calls : Polled(d) /\ call[d].st = "made"
          BY <3>2, <3>9
      <4>2. QED
          BY <1>4, <4>1 DEF WorkerCanMove
    <3>4. CASE call[c].st = "sending"
        BY <1>2, <1>3, <1>4, <3>2, <3>4 DEF KindFits, WorkerCanMove
    <3>5. CASE call[c].st = "running"
      <4>1. CASE node = Free
          BY <3>5, <4>1 DEF SomeThreadMoves, NodeCanMove
      <4>2. CASE node # Free
          BY <1>10, <2>3, <3>5, <4>2 DEF CallAwaitsNode
      <4>3. QED
          BY <4>1, <4>2
    <3>6. CASE call[c].st = "sent" /\ call[c].kind \notin UnboundedKinds
        BY <1>4, <3>2, <3>6 DEF KindFits, WorkerCanMove, UnboundedKinds
    <3>7. CASE call[c].st = "sent" /\ call[c].kind \in UnboundedKinds
      <4>0. call[c] = [kind |-> call[c].kind, st |-> "sent"]
          BY <3>7 DEF NativeRuntimeTypeOK
      <4>1. nodeCh # <<>> \/ js # <<>>
          BY <1>10, <3>2, <3>7, <4>0 DEF Underway, OnItsWay, Holds
      <4>2. CASE node # Free
          BY <1>10, <2>3, <3>7, <4>2 DEF CallAwaitsNode
      <4>3. CASE node = Free /\ js # <<>>
          BY <4>3 DEF SomeThreadMoves, NodeCanMove
      <4>4. QED
          BY <1>2, <4>1, <4>2, <4>3
    <3>8. QED
        BY <3>1, <3>3, <3>4, <3>5, <3>6, <3>7, <3>9
  <2>4. QED
      BY <2>1, <2>2, <2>3
<1>11. QED
    BY <1>5, <1>6, <1>7, <1>8, <1>9, <1>10, ThreadFacts

\* With a worker thread that has nothing to do, whoever holds the settler of a
\* pending promise has.
LEMMA HolderMoves ==
    ASSUME RuntimeInv, MovesInv, NEW r \in Requests, promise[r] = "pending",
           control = <<>>, worker.pc = "gone" \/ (worker.pc = "idle" /\ data = <<>>)
    PROVE  SomeThreadMoves
<1>1. /\ NativeRuntimeTypeOK /\ SyncInv /\ Stations /\ AnswerComes
      /\ OwnedOnce(r)
    BY OwnerIs DEF RuntimeInv, MovesInv
<1>2. /\ node.st \in {"free", "queueing", "awaiting"}
      /\ node.st = "free" => node = Free
      /\ worker.msg = Nothing
    BY <1>1, ThreadFacts
<1>3. nodeCh # <<>> => SomeThreadMoves
    BY <1>1, PumpServes
<1>4. CASE node.st = "queueing"
  <2>1. WorkerLives => Room(control) /\ Room(data)
      BY SizesAreNatural DEF WorkerLives, Room
  <2>2. QED
      BY <1>4, <2>1 DEF SomeThreadMoves, NodeCanMove
<1>5. CASE node.st = "awaiting"
  <2>1. ~ \E i \in 1..Len(control) : control[i].t = "evalSync"
      BY Nought
  <2>2. syncReply # "none"
      BY <1>1, <1>2, <1>5, <2>1, MsgTypes DEF AnswerComes
  <2>3. QED
      BY <1>5, <2>2 DEF SomeThreadMoves, NodeCanMove
<1>6. CASE node = Free /\ js # <<>>
    BY <1>6 DEF SomeThreadMoves, NodeCanMove
<1>7. CASE node = Free /\ js = <<>> /\ nodeCh = <<>>
  <2>1. InControl(r) = 0 /\ InNodeCh(r) = 0 /\ InJs(r) = 0
      BY <1>7, CountNone DEF InControl, InNodeCh, InJs
  <2>2. AtWorker(r) = 0
      BY <1>2, MsgTypes, ZeroIsNoRequest DEF AtWorker
  <2>3. AtNode(r) = 0 /\ AtReply(r) = 0
      BY <1>7 DEF AtNode, AtReply, Free
  <2>4. QED
      BY <1>1, <2>1, <2>2, <2>3 DEF OwnedOnce
<1>8. QED
    BY <1>2, <1>3, <1>4, <1>5, <1>6, <1>7

\* If the startup module calls nothing, the runtime never stands still with a
\* request pending, whatever fills up, is closed, disposed of or times out, but in
\* two places: an eval waits for a call that the Node thread is to answer while
\* that is blocked in the addon, by evalSync() or by a full channel, or the worker
\* thread joins a pump that waits for a message.
THEOREM OnlyTwoStandstills ==
    ASSUME ~StartupCalls
    PROVE  Spec => []PendingMoves
<1>1. RuntimeInv /\ MovesInv => PendingMoves
  <2> SUFFICES ASSUME RuntimeInv, MovesInv, EvalPending
               PROVE  SomeThreadMoves \/ CallAwaitsNode \/ WorkerAwaitsPump
      BY DEF PendingMoves
  <2>1. PICK r \in Requests : promise[r] = "pending"
      BY DEF EvalPending
  <2>2. NativeRuntimeTypeOK /\ (worker.pc = "gone" => control = <<>>)
      BY DEF RuntimeInv, MovesInv, Stations
  <2>3. CASE worker.pc # "gone" /\ (worker.pc = "idle" => control # <<>> \/ data # <<>>)
      BY <2>2, <2>3, WorkerMoves
  <2>4. CASE control = <<>> /\ (worker.pc = "gone" \/ (worker.pc = "idle" /\ data = <<>>))
      BY <2>1, <2>4, HolderMoves
  <2>5. QED
      BY <2>2, <2>3, <2>4
<1>2. RuntimeInv /\ MovesInv /\ [Next]_vars => MovesInv'
    BY MovesStep
<1>3. QED
    BY <1>1, <1>2, InvInit, InvStep, MovesInit, PTL DEF Spec
=============================================================================
