------------------------ MODULE ModuleRegistryProofs ------------------------
(***************************************************************************)
(* Theorems about the module registry, for any names, any limit and any    *)
(* number of generated specifiers.                                         *)
(***************************************************************************)
EXTENDS ModuleRegistry, FiniteSetTheorems, FunctionTheorems,
    WellFoundedInduction, TLAPS

\* x comes before y in s.
Before(s, x, y) == \E i, j \in 1..Len(s) : i < j /\ s[i] = x /\ s[j] = y

\* No element of s comes twice.
Once(s) == \A i, j \in 1..Len(s) : s[i] = s[j] => i = j

\* The loaded persistent entries.
LoadedKeys(m) == {k \in PersistentKeys(m) : m[k].loaded}

\* The queue s holds every persistent key of m once.
QueueOf(m, s) == s \in Seq(Keys) /\ Once(s) /\ Range(s) = PersistentKeys(m)

\* Map, queue and history agree: the history h of loads is the order in which the
\* queue holds the loaded keys.
MapInv(m, s, h) ==
    /\ DOMAIN m \subseteq Keys
    /\ \A k \in DOMAIN m : m[k] \in Entries /\ (m[k].persistent <=> m[k].left = 0)
    /\ QueueOf(m, s)
    /\ h \in Seq(Keys)
    /\ Range(h) = LoadedKeys(m)
    /\ \A x, y \in LoadedKeys(m) : Before(h, x, y) <=> Before(s, x, y)

\* Registered entries are persistent, generated ones have a used number, and
\* what was loaded is known to V8.
EntriesHaveOrigin ==
    /\ \A n \in Names : Canon(n) \in DOMAIN modules => modules[Canon(n)].persistent
    /\ \A i \in 1..MaxVirtual : Virtual(i) \in DOMAIN modules => i <= counter
    /\ LoadedKeys(modules) \subseteq known

\* A served wrapper waits for an entry that no load has consumed.
WrappersUnloaded ==
    \A k \in wrappers :
        /\ k \in PersistentKeys(modules) /\ ~modules[k].loaded
        /\ \E i \in 1..MaxVirtual : k = Virtual(i)

\* The module being evaluated is a generated, ephemeral one.
EvaluatesEphemeral ==
    evaluating # Idle =>
        /\ \E i \in 1..counter : evaluating.key = Virtual(i)
        /\ evaluating.key \notin PersistentKeys(modules)

(***************************************************************************)
(* The inductive invariant.  The order of eviction needs the queue's order *)
(* to be the order of loads among loaded entries, WrapperCanLink that what *)
(* a wrapper waits for is not evictable, RegisteredIsImportable that only  *)
(* loaded entries are.                                                     *)
(***************************************************************************)
RegistryInv ==
    /\ RegistryTypeOK
    /\ MapInv(modules, lru, recency)
    /\ EntriesHaveOrigin
    /\ WrappersUnloaded
    /\ EvaluatesEphemeral
    /\ RegisteredIsImportable

-----------------------------------------------------------------------------
(***************************************************************************)
(* Sequences: what Less, Append, \o and SubSeq do to the elements of a     *)
(* sequence and to their order.                                            *)
(***************************************************************************)
LEMMA NatSetInduction ==
    ASSUME NEW S \in SUBSET Nat, 0 \in S, \A n \in S : n + 1 \in S
    PROVE  S = Nat
<1>1. SUFFICES ASSUME Nat \ S # {} PROVE FALSE
    OBVIOUS
<1>2. PICK x \in Nat \ S : \A y \in Nat \ S : ~(<<y, x>> \in OpToRel(<, Nat))
    BY <1>1, NatLessThanWellFounded, WFMin
<1>3. x \in Nat /\ x # 0 /\ x - 1 \in Nat
    OBVIOUS
<1>4. <<x - 1, x>> \in OpToRel(<, Nat)
    BY <1>3 DEF OpToRel
<1>5. x - 1 \in S
    BY <1>2, <1>3, <1>4
<1>6. x - 1 + 1 \in S
    BY <1>5
<1>7. QED
    BY <1>3, <1>6

\* A set of numbers that reaches 0, and n + 1 from n as far as l, has them all.
LEMMA UpToInduction ==
    ASSUME NEW l \in Nat, NEW S, 0 \in S, \A n \in 0..l : n \in S /\ n + 1 <= l => n + 1 \in S
    PROVE  0..l \subseteq S
<1> DEFINE T == {n \in Nat : n <= l => n \in S}
<1>1. T \in SUBSET Nat /\ 0 \in T
    OBVIOUS
<1>2. ASSUME NEW n \in T PROVE n + 1 \in T
    OBVIOUS
<1> HIDE DEF T
<1>3. T = Nat
    BY <1>1, <1>2, NatSetInduction
<1>4. QED
    BY <1>3 DEF T

LEMMA RangeOfSeq ==
    ASSUME NEW S, NEW s \in Seq(S)
    PROVE  /\ DOMAIN s = 1..Len(s) /\ Len(s) \in Nat
           /\ Range(s) = {s[i] : i \in 1..Len(s)}
           /\ Range(s) \subseteq S
BY DEF Range

LEMMA BeforeInRange ==
    ASSUME NEW S, NEW s \in Seq(S), NEW x, NEW y, Before(s, x, y)
    PROVE  x \in Range(s) /\ y \in Range(s)
BY RangeOfSeq DEF Before

LEMMA OnceBefore ==
    ASSUME NEW S, NEW s \in Seq(S)
    PROVE  Once(s) <=> \A x \in S : ~Before(s, x, x)
<1>1. ASSUME Once(s), NEW x \in S, Before(s, x, x) PROVE FALSE
    BY <1>1 DEF Once, Before
<1>2. ASSUME \A x \in S : ~Before(s, x, x) PROVE Once(s)
  <2>1. SUFFICES ASSUME NEW i \in 1..Len(s), NEW j \in 1..Len(s), s[i] = s[j], i # j
                 PROVE  FALSE
      BY DEF Once
  <2>2. i < j \/ j < i
      BY <2>1
  <2>3. s[i] \in S
      OBVIOUS
  <2>4. Before(s, s[i], s[i])
      BY <2>1, <2>2 DEF Before
  <2>5. QED
      BY <1>2, <2>3, <2>4
<1>3. QED
    BY <1>1, <1>2

LEMMA AppendOrder ==
    ASSUME NEW S, NEW s \in Seq(S), NEW e \in S
    PROVE  /\ Append(s, e) \in Seq(S)
           /\ Range(Append(s, e)) = Range(s) \cup {e}
           /\ \A x, y : Before(Append(s, e), x, y)
                          <=> Before(s, x, y) \/ (x \in Range(s) /\ y = e)
<1> DEFINE t == Append(s, e)
           l == Len(s)
<1>1. /\ t \in Seq(S) /\ Len(t) = l + 1 /\ l \in Nat
      /\ \A i \in 1..l : t[i] = s[i]
      /\ t[l + 1] = e
    OBVIOUS
<1>2. Range(t) = {t[i] : i \in 1..(l + 1)} /\ Range(s) = {s[i] : i \in 1..l}
    BY <1>1, RangeOfSeq
<1> HIDE DEF t, l
<1>3. \A i \in 1..(l + 1) : i \in 1..l \/ i = l + 1
    BY <1>1
<1>4. \A i \in 1..l : i \in 1..(l + 1) /\ i < l + 1
    BY <1>1
<1>5. l + 1 \in 1..(l + 1)
    BY <1>1
<1>6. Range(t) = Range(s) \cup {e}
    BY <1>1, <1>2, <1>3, <1>4, <1>5
<1>7. ASSUME NEW x, NEW y
      PROVE  Before(t, x, y) <=> Before(s, x, y) \/ (x \in Range(s) /\ y = e)
  <2>1. Before(t, x, y) <=> \E i, j \in 1..(l + 1) : i < j /\ t[i] = x /\ t[j] = y
      BY <1>1 DEF Before
  <2>2. Before(s, x, y) <=> \E i, j \in 1..l : i < j /\ s[i] = x /\ s[j] = y
      BY DEF Before, l
  <2>3. ASSUME NEW i \in 1..(l + 1), NEW j \in 1..(l + 1), i < j, t[i] = x, t[j] = y
        PROVE  Before(s, x, y) \/ (x \in Range(s) /\ y = e)
    <3>1. i \in 1..l
        BY <1>1, <2>3
    <3>2. CASE j \in 1..l
        BY <1>1, <2>2, <2>3, <3>1, <3>2
    <3>3. CASE j = l + 1
        BY <1>1, <1>2, <2>3, <3>1, <3>3
    <3>4. QED
        BY <1>3, <3>2, <3>3
  <2>4. ASSUME Before(s, x, y) PROVE Before(t, x, y)
      BY <1>1, <1>4, <2>1, <2>2, <2>4
  <2>5. ASSUME x \in Range(s), y = e PROVE Before(t, x, y)
      BY <1>1, <1>2, <1>4, <1>5, <2>1, <2>5
  <2>6. QED
      BY <2>1, <2>3, <2>4, <2>5
<1>8. QED
    BY <1>1, <1>6, <1>7 DEF t

LEMMA ConcatOrder ==
    ASSUME NEW S, NEW s \in Seq(S), NEW u \in Seq(S)
    PROVE  /\ s \o u \in Seq(S)
           /\ Range(s \o u) = Range(s) \cup Range(u)
           /\ \A x, y : Before(s \o u, x, y)
                          <=> \/ Before(s, x, y) \/ Before(u, x, y)
                              \/ (x \in Range(s) /\ y \in Range(u))
<1> DEFINE t == s \o u
           l == Len(s)
           n == Len(u)
<1>1. /\ t \in Seq(S) /\ Len(t) = l + n /\ l \in Nat /\ n \in Nat
      /\ \A i \in 1..l : t[i] = s[i]
      /\ \A i \in 1..n : t[l + i] = u[i]
    OBVIOUS
<1>2. /\ Range(t) = {t[i] : i \in 1..(l + n)} /\ Range(s) = {s[i] : i \in 1..l}
      /\ Range(u) = {u[i] : i \in 1..n}
    BY <1>1, RangeOfSeq
<1> HIDE DEF t, l, n
<1>3. ASSUME NEW i \in 1..(l + n)
      PROVE  i \in 1..l \/ \E d \in 1..n : i = l + d
  <2>1. CASE i <= l
      BY <1>1, <2>1
  <2>2. CASE i > l
    <3>1. i - l \in 1..n /\ i = l + (i - l)
        BY <1>1, <2>2
    <3>2. QED
        BY <3>1
  <2>3. QED
      BY <1>1, <2>1, <2>2
<1>4. /\ \A i \in 1..l : i \in 1..(l + n) /\ \A d \in 1..n : i < l + d
      /\ \A d \in 1..n : l + d \in 1..(l + n)
    BY <1>1
<1>5. Range(t) = Range(s) \cup Range(u)
  <2>1. ASSUME NEW i \in 1..(l + n) PROVE t[i] \in Range(s) \cup Range(u)
    <3>1. CASE i \in 1..l
        BY <1>1, <1>2, <3>1
    <3>2. CASE \E d \in 1..n : i = l + d
        BY <1>1, <1>2, <3>2
    <3>3. QED
        BY <1>3, <3>1, <3>2
  <2>2. Range(s) \subseteq Range(t)
      BY <1>1, <1>2, <1>4
  <2>3. Range(u) \subseteq Range(t)
      BY <1>1, <1>2, <1>4
  <2>4. QED
      BY <1>2, <2>1, <2>2, <2>3
<1>6. ASSUME NEW x, NEW y
      PROVE  Before(t, x, y) <=> \/ Before(s, x, y) \/ Before(u, x, y)
                                 \/ (x \in Range(s) /\ y \in Range(u))
  <2>1. Before(t, x, y) <=> \E i, j \in 1..(l + n) : i < j /\ t[i] = x /\ t[j] = y
      BY <1>1 DEF Before
  <2>2. /\ Before(s, x, y) <=> \E i, j \in 1..l : i < j /\ s[i] = x /\ s[j] = y
        /\ Before(u, x, y) <=> \E i, j \in 1..n : i < j /\ u[i] = x /\ u[j] = y
      BY DEF Before, l, n
  <2>3. ASSUME NEW i \in 1..(l + n), NEW j \in 1..(l + n), i < j, t[i] = x, t[j] = y
        PROVE  \/ Before(s, x, y) \/ Before(u, x, y)
               \/ (x \in Range(s) /\ y \in Range(u))
    <3>1. CASE i \in 1..l /\ j \in 1..l
        BY <1>1, <2>2, <2>3, <3>1
    <3>2. CASE i \in 1..l /\ \E d \in 1..n : j = l + d
        BY <1>1, <1>2, <2>3, <3>2
    <3>3. ASSUME NEW c \in 1..n, NEW d \in 1..n, i = l + c, j = l + d
          PROVE  Before(u, x, y)
      <4>1. c < d /\ u[c] = x /\ u[d] = y
          BY <1>1, <2>3, <3>3
      <4>2. QED
          BY <2>2, <4>1
    <3>4. ASSUME NEW c \in 1..n, i = l + c, j \in 1..l
          PROVE  FALSE
        BY <1>1, <2>3, <3>4
    <3>5. QED
        BY <1>3, <3>1, <3>2, <3>3, <3>4
  <2>4. ASSUME Before(s, x, y) PROVE Before(t, x, y)
      BY <1>1, <1>4, <2>1, <2>2, <2>4
  <2>5. ASSUME Before(u, x, y) PROVE Before(t, x, y)
    <3>1. PICK i \in 1..n, j \in 1..n : i < j /\ u[i] = x /\ u[j] = y
        BY <2>2, <2>5
    <3>2. l + i < l + j /\ t[l + i] = x /\ t[l + j] = y
        BY <1>1, <3>1
    <3>3. QED
        BY <1>4, <2>1, <3>2
  <2>6. ASSUME x \in Range(s), y \in Range(u) PROVE Before(t, x, y)
    <3>1. PICK i \in 1..l, d \in 1..n : s[i] = x /\ u[d] = y
        BY <1>2, <2>6
    <3>2. QED
        BY <1>1, <1>4, <2>1, <3>1
  <2>7. QED
      BY <2>1, <2>3, <2>4, <2>5, <2>6
<1>7. QED
    BY <1>1, <1>5, <1>6 DEF t

\* f[n] is what Less leaves of the first n elements of s.
Leaving(f, S, s, K, n) ==
    /\ f \in [0..n -> Seq(S)]
    /\ f[0] = <<>>
    /\ \A i \in 1..n : f[i] = IF s[i] \in K THEN f[i - 1] ELSE Append(f[i - 1], s[i])

LEMMA LeavingExists ==
    ASSUME NEW S, NEW s \in Seq(S), NEW K
    PROVE  \E f : Leaving(f, S, s, K, Len(s))
<1> DEFINE l == Len(s)
           T == {n \in 0..l : \E f : Leaving(f, S, s, K, n)}
<1>0. l \in Nat
    OBVIOUS
<1>1. 0 \in T
  <2>1. Leaving([i \in 0..0 |-> <<>>], S, s, K, 0)
      BY DEF Leaving
  <2>2. QED
      BY <1>0, <2>1
<1>2. ASSUME NEW n \in 0..l, n \in T, n + 1 <= l PROVE n + 1 \in T
  <2>1. PICK f : Leaving(f, S, s, K, n)
      BY <1>2
  <2>2. s[n + 1] \in S /\ n \in Nat
      BY <1>2
  <2> DEFINE next == IF s[n + 1] \in K THEN f[n] ELSE Append(f[n], s[n + 1])
             g == [i \in 0..n + 1 |-> IF i <= n THEN f[i] ELSE next]
  <2>3. next \in Seq(S)
    <3>1. f[n] \in Seq(S)
        BY <2>1, <2>2 DEF Leaving
    <3>2. QED
        BY <2>2, <3>1
  <2> HIDE DEF next
  <2>4. g \in [0..n + 1 -> Seq(S)] /\ g[0] = <<>>
      BY <2>1, <2>2, <2>3 DEF Leaving
  <2>5. ASSUME NEW i \in 1..n + 1
        PROVE  g[i] = IF s[i] \in K THEN g[i - 1] ELSE Append(g[i - 1], s[i])
    <3>1. CASE i <= n
      <4>1. i \in 1..n /\ g[i] = f[i] /\ g[i - 1] = f[i - 1]
          BY <2>2, <3>1
      <4>2. QED
          BY <2>1, <4>1 DEF Leaving
    <3>2. CASE i = n + 1
        BY <2>2, <3>2 DEF next
    <3>3. QED
        BY <2>2, <3>1, <3>2
  <2>6. Leaving(g, S, s, K, n + 1)
      BY <2>4, <2>5 DEF Leaving
  <2>7. n + 1 \in 0..l
      BY <1>0, <1>2
  <2>8. QED
      BY <2>6, <2>7
<1> HIDE DEF T
<1>3. 0..l \subseteq T
    BY <1>0, <1>1, <1>2, UpToInduction
<1>4. l \in T
    BY <1>0, <1>3
<1>5. QED
    BY <1>4 DEF T, l

LEMMA LessLeaves ==
    ASSUME NEW S, NEW s \in Seq(S), NEW K, NEW f, Leaving(f, S, s, K, Len(s))
    PROVE  Less(s, K) = f[Len(s)]
<1> DEFINE l == Len(s)
           Body(g) == [n \in 0..Len(s) |->
                          IF n = 0 THEN <<>>
                          ELSE IF s[n] \in K THEN g[n - 1] ELSE Append(g[n - 1], s[n])]
           upTo == CHOOSE g : g = Body(g)
<1>0. l \in Nat
    OBVIOUS
<1>1. Less(s, K) = upTo[Len(s)]
    BY DEF Less
<1>2. f = Body(f)
  <2>1. f \in [0..Len(s) -> Seq(S)]
      BY DEF Leaving
  <2>2. ASSUME NEW n \in 0..Len(s) PROVE f[n] = Body(f)[n]
    <3>1. CASE n = 0
        BY <3>1 DEF Leaving
    <3>2. CASE n # 0
      <4>1. n \in 1..Len(s)
          BY <3>2
      <4>2. QED
          BY <4>1 DEF Leaving
    <3>3. QED
        BY <3>1, <3>2
  <2> DEFINE g == Body(f)
             D == 0..Len(s)
  <2>3. f = [n \in D |-> f[n]] /\ g = [n \in D |-> g[n]]
      BY <2>1
  <2>4. \A n \in D : f[n] = g[n]
      BY <2>2
  <2> HIDE DEF Body, g, D
  <2>5. f = g
      BY <2>3, <2>4
  <2>6. QED
      BY <2>5 DEF g
<1>3. upTo = Body(upTo)
    BY <1>2
<1>4. ASSUME NEW n \in 0..Len(s)
      PROVE  upTo[n] = IF n = 0 THEN <<>>
                       ELSE IF s[n] \in K THEN upTo[n - 1] ELSE Append(upTo[n - 1], s[n])
    BY <1>3
<1> HIDE DEF upTo, Body
<1> DEFINE T == {n \in 0..l : upTo[n] = f[n]}
<1>5. 0 \in T
    BY <1>0, <1>4 DEF Leaving
<1>6. ASSUME NEW n \in 0..l, n \in T, n + 1 <= l PROVE n + 1 \in T
  <2>1. n \in Nat /\ n + 1 \in 1..l /\ upTo[n] = f[n] /\ (n + 1) - 1 = n /\ n + 1 # 0 /\ n + 1 \in 0..l
      BY <1>0, <1>6
  <2>2. f[n + 1] = IF s[n + 1] \in K THEN f[(n + 1) - 1] ELSE Append(f[(n + 1) - 1], s[n + 1])
      BY <2>1 DEF Leaving
  <2>3. upTo[n + 1] = IF s[n + 1] \in K THEN upTo[(n + 1) - 1] ELSE Append(upTo[(n + 1) - 1], s[n + 1])
      BY <1>4, <2>1
  <2>4. QED
      BY <2>1, <2>2, <2>3
<1> HIDE DEF T
<1>7. 0..l \subseteq T
    BY <1>0, <1>5, <1>6, UpToInduction
<1>8. l \in T
    BY <1>0, <1>7
<1>9. QED
    BY <1>1, <1>8 DEF T, l

\* The first n elements of a sequence, by their order: one more element is an
\* append.
LEMMA FirstElements ==
    ASSUME NEW S, NEW s \in Seq(S), NEW n \in Nat, n + 1 <= Len(s)
    PROVE  /\ SubSeq(s, 1, n) \in Seq(S)
           /\ SubSeq(s, 1, n + 1) = Append(SubSeq(s, 1, n), s[n + 1])
           /\ s[n + 1] \in S
<1>1. s[n + 1] \in S
    OBVIOUS
<1>2. /\ SubSeq(s, 1, n) \in Seq(S) /\ Len(SubSeq(s, 1, n)) = n
      /\ \A i \in 1..n : SubSeq(s, 1, n)[i] = s[i]
    OBVIOUS
<1>3. /\ SubSeq(s, 1, n + 1) \in Seq(S) /\ Len(SubSeq(s, 1, n + 1)) = n + 1
      /\ \A i \in 1..(n + 1) : SubSeq(s, 1, n + 1)[i] = s[i]
    OBVIOUS
<1> DEFINE a == SubSeq(s, 1, n)
           b == SubSeq(s, 1, n + 1)
<1> HIDE DEF a, b
<1>4. /\ Append(a, s[n + 1]) \in Seq(S) /\ Len(Append(a, s[n + 1])) = n + 1
      /\ \A i \in 1..n : Append(a, s[n + 1])[i] = a[i]
      /\ Append(a, s[n + 1])[n + 1] = s[n + 1]
    BY <1>1, <1>2 DEF a
<1>5. b = Append(a, s[n + 1])
  <2>1. \A i \in 1..(n + 1) : b[i] = Append(a, s[n + 1])[i]
    <3>1. \A i \in 1..(n + 1) : i \in 1..n \/ i = n + 1
        OBVIOUS
    <3>2. QED
        BY <1>2, <1>3, <1>4, <3>1 DEF a, b
  <2>2. QED
      BY <1>3, <1>4, <2>1 DEF b
<1>6. QED
    BY <1>1, <1>2, <1>5 DEF a, b

\* Less keeps the elements that are not in K, in their order.
LEMMA LessOrder ==
    ASSUME NEW S, NEW s \in Seq(S), NEW K
    PROVE  /\ Less(s, K) \in Seq(S)
           /\ Range(Less(s, K)) = Range(s) \ K
           /\ \A x, y \in S : Before(Less(s, K), x, y) <=> Before(s, x, y) /\ x \notin K /\ y \notin K
<1> DEFINE l == Len(s)
           Kept(r, t) == /\ Range(r) = Range(t) \ K
                         /\ \A x, y \in S : Before(r, x, y) <=> Before(t, x, y) /\ x \notin K /\ y \notin K
<1>0. l \in Nat
    OBVIOUS
<1>1. PICK f : Leaving(f, S, s, K, l)
    BY LeavingExists
<1> DEFINE T == {n \in 0..l : Kept(f[n], SubSeq(s, 1, n))}
<1>2. 0 \in T
  <2>1. f[0] = <<>> /\ SubSeq(s, 1, 0) = <<>>
      BY <1>1 DEF Leaving
  <2>2. Range(<<>>) = {} /\ \A x, y : ~Before(<<>>, x, y)
      BY DEF Range, Before
  <2>3. Kept(f[0], SubSeq(s, 1, 0))
      BY <2>1, <2>2
  <2>4. QED
      BY <1>0, <2>3
<1>3. ASSUME NEW n \in 0..l, n \in T, n + 1 <= l PROVE n + 1 \in T
  <2> DEFINE r == f[n]
             t == SubSeq(s, 1, n)
             e == s[n + 1]
             r1 == f[n + 1]
             t1 == SubSeq(s, 1, n + 1)
  <2>1. n \in Nat /\ n + 1 \in 0..l /\ n + 1 \in 1..l /\ (n + 1) - 1 = n
      BY <1>0, <1>3
  <2>2. t \in Seq(S) /\ t1 = Append(t, e) /\ e \in S
      BY <1>3, <2>1, FirstElements
  <2>3. r \in Seq(S) /\ r1 = IF e \in K THEN r ELSE Append(r, e)
      BY <1>1, <2>1 DEF Leaving
  <2>4. Kept(r, t)
      BY <1>3
  <2> HIDE DEF r, t, e, r1, t1
  <2>5. /\ Range(t1) = Range(t) \cup {e}
        /\ \A x, y : Before(t1, x, y) <=> Before(t, x, y) \/ (x \in Range(t) /\ y = e)
      BY <2>2, AppendOrder
  <2>6. Kept(r1, t1)
    <3>1. CASE e \in K
        BY <2>3, <2>4, <2>5, <3>1
    <3>2. CASE e \notin K
      <4>1. /\ Range(r1) = Range(r) \cup {e}
            /\ \A x, y : Before(r1, x, y) <=> Before(r, x, y) \/ (x \in Range(r) /\ y = e)
          BY <2>2, <2>3, <3>2, AppendOrder
      <4>2. QED
          BY <2>4, <2>5, <3>2, <4>1
    <3>3. QED
        BY <3>1, <3>2
  <2>7. QED
      BY <2>1, <2>6 DEF r1, t1
<1> HIDE DEF T, Kept
<1>4. 0..l \subseteq T
    BY <1>0, <1>2, <1>3, UpToInduction
<1>5. Kept(f[l], SubSeq(s, 1, l))
    BY <1>0, <1>4 DEF T
<1>6. SubSeq(s, 1, l) = s
    OBVIOUS
<1>7. Less(s, K) = f[l]
    BY <1>1, LessLeaves
<1>8. f[l] \in Seq(S)
  <2>1. f \in [0..l -> Seq(S)] /\ l \in 0..l
      BY <1>0, <1>1 DEF Leaving
  <2> HIDE DEF l
  <2>2. QED
      BY <2>1
<1>9. QED
    BY <1>5, <1>6, <1>7, <1>8 DEF Kept

-----------------------------------------------------------------------------
(***************************************************************************)
(* Eviction: what Victims, Evicted and Rotated do to a queue that holds    *)
(* every persistent key of a map once.                                     *)
(***************************************************************************)
\* How many evictable elements the first i positions of s have.
Rank(m, s, i) == Cardinality({j \in 1..i : Evictable(m, s[j])})

Excess(m) == Cardinality(PersistentKeys(m)) - Limit

LEMMA QueueCardinality ==
    ASSUME NEW m, NEW s, QueueOf(m, s)
    PROVE  IsFiniteSet(PersistentKeys(m)) /\ Cardinality(PersistentKeys(m)) = Len(s)
<1> DEFINE l == Len(s)
<1>1. s \in [1..l -> Range(s)] /\ l \in Nat
    BY RangeOfSeq DEF QueueOf
<1>2. \A i, j \in 1..l : s[i] = s[j] => i = j
    BY DEF QueueOf, Once
<1>3. \A x \in Range(s) : \E i \in 1..l : s[i] = x
    BY RangeOfSeq DEF QueueOf
<1> HIDE DEF l
<1>4. s \in Bijection(1..l, Range(s))
    BY <1>1, <1>2, <1>3 DEF Bijection, Injection, Surjection, IsInjective
<1>5. ExistsBijection(1..l, Range(s))
    BY <1>4 DEF ExistsBijection
<1>6. IsFiniteSet(1..l) /\ Cardinality(1..l) = l
    BY <1>1, FS_Interval
<1>7. QED
    BY <1>5, <1>6, FS_Bijection DEF QueueOf, l

LEMMA RankType ==
    ASSUME NEW m, NEW s, NEW i \in Nat
    PROVE  /\ IsFiniteSet({j \in 1..i : Evictable(m, s[j])})
           /\ Rank(m, s, i) \in Nat
           /\ Rank(m, s, 0) = 0
<1>1. IsFiniteSet(1..i)
    BY FS_Interval
<1>2. IsFiniteSet({j \in 1..i : Evictable(m, s[j])})
    BY <1>1, FS_Subset
<1>3. {j \in 1..0 : Evictable(m, s[j])} = {}
    OBVIOUS
<1>4. QED
    BY <1>2, <1>3, FS_CardinalityType, FS_EmptySet DEF Rank

LEMMA RankGrows ==
    ASSUME NEW m, NEW s, NEW i \in Nat, NEW j \in Nat, i <= j
    PROVE  Rank(m, s, i) <= Rank(m, s, j)
<1>1. {d \in 1..i : Evictable(m, s[d])} \subseteq {d \in 1..j : Evictable(m, s[d])}
    OBVIOUS
<1>2. QED
    BY <1>1, RankType, FS_Subset DEF Rank

LEMMA RankStep ==
    ASSUME NEW m, NEW s, NEW i \in Nat
    PROVE  Rank(m, s, i + 1) = IF Evictable(m, s[i + 1]) THEN Rank(m, s, i) + 1
                               ELSE Rank(m, s, i)
<1> DEFINE A == {j \in 1..i : Evictable(m, s[j])}
           B == {j \in 1..(i + 1) : Evictable(m, s[j])}
<1>1. IsFiniteSet(A)
    BY RankType
<1>2. i + 1 \notin A
    OBVIOUS
<1>3. CASE Evictable(m, s[i + 1])
  <2>1. B = A \cup {i + 1}
      BY <1>3
  <2>2. Cardinality(B) = Cardinality(A) + 1
      BY <1>1, <1>2, <2>1, FS_AddElement
  <2>3. QED
      BY <1>3, <2>2 DEF Rank
<1>4. CASE ~Evictable(m, s[i + 1])
  <2>1. B = A
    <3>1. \A j \in 1..(i + 1) : j \in 1..i \/ j = i + 1
        OBVIOUS
    <3>2. QED
        BY <1>4, <3>1
  <2>2. QED
      BY <1>4, <2>1 DEF Rank
<1>5. QED
    BY <1>3, <1>4

\* The positions evicted, in terms of ranks.
LEMMA VictimRank ==
    ASSUME NEW m, NEW s
    PROVE  /\ Victims(m, s) \subseteq 1..Len(s)
           /\ \A i \in 1..Len(s) : i \in Victims(m, s)
                 <=> Evictable(m, s[i]) /\ Rank(m, s, i) <= Excess(m)
BY DEF Victims, Rank, Excess

\* An evictable position before a victim is a victim.
LEMMA VictimsFirst ==
    ASSUME NEW m, NEW s, QueueOf(m, s), NEW p \in Victims(m, s),
           NEW i \in 1..Len(s), i <= p, Evictable(m, s[i])
    PROVE  i \in Victims(m, s)
<1>1. i \in Nat /\ p \in Nat
    BY VictimRank
<1>2. Rank(m, s, i) <= Rank(m, s, p) /\ Rank(m, s, i) \in Nat /\ Rank(m, s, p) \in Nat
    BY <1>1, RankGrows, RankType
<1>3. Excess(m) \in Int /\ Rank(m, s, p) <= Excess(m)
  <2>1. Len(s) \in Nat
      BY DEF QueueOf
  <2>2. QED
      BY <2>1, QueueCardinality, RegistryAssumption, VictimRank DEF Excess
<1>4. QED
    BY <1>2, <1>3, VictimRank

LEMMA LastVictim ==
    ASSUME NEW m, NEW s, QueueOf(m, s), Victims(m, s) # {}
    PROVE  \E p \in Victims(m, s) : \A j \in Victims(m, s) : j <= p
<1> DEFINE l == Len(s)
           V == Victims(m, s)
           T == {n \in 0..l : (\E j \in V : j <= n) => \E p \in V : \A j \in V : j <= n => j <= p}
<1>1. V \subseteq 1..l /\ l \in Nat
    BY VictimRank DEF QueueOf
<1> HIDE DEF l, V
<1>2. 0 \in T
    BY <1>1
<1>3. ASSUME NEW n \in 0..l, n \in T, n + 1 <= l PROVE n + 1 \in T
  <2>0. n \in Nat /\ n + 1 \in 0..l /\ \A j \in V : j \in Nat
      BY <1>1, <1>3
  <2>1. CASE n + 1 \in V
    <3>1. \A j \in V : j <= n + 1 => j <= n + 1
        OBVIOUS
    <3>2. QED
        BY <2>0, <2>1, <3>1
  <2>2. CASE n + 1 \notin V
    <3>1. \A j \in V : j <= n + 1 <=> j <= n
        BY <2>0, <2>2
    <3>2. QED
        BY <1>3, <2>0, <3>1
  <2>3. QED
      BY <2>1, <2>2
<1> HIDE DEF T
<1>4. 0..l \subseteq T
    BY <1>1, <1>2, <1>3, UpToInduction
<1>5. l \in T
    BY <1>1, <1>4
<1>6. QED
    BY <1>1, <1>5 DEF T, V

\* As many positions are evicted as the map is over its limit, when there are so
\* many evictable ones.
LEMMA EnoughVictims ==
    ASSUME NEW m, NEW s, QueueOf(m, s), NEW q \in 1..Len(s),
           Evictable(m, s[q]), q \notin Victims(m, s)
    PROVE  IsFiniteSet(Victims(m, s)) /\ Cardinality(Victims(m, s)) >= Excess(m)
<1> DEFINE l == Len(s)
           V == Victims(m, s)
           N == Excess(m)
           Upto(n) == V \cap 1..n
           T == {n \in 0..l : IF Rank(m, s, n) <= N THEN Cardinality(Upto(n)) = Rank(m, s, n)
                              ELSE Cardinality(Upto(n)) >= N}
<1>1. V \subseteq 1..l /\ l \in Nat /\ N \in Int
  <2>1. Len(s) \in Nat
      BY DEF QueueOf
  <2>2. QED
      BY <2>1, QueueCardinality, RegistryAssumption, VictimRank DEF Excess
<1>2. IsFiniteSet(V)
  <2>1. IsFiniteSet(1..l)
      BY <1>1, FS_Interval
  <2>2. V \in SUBSET (1..l)
      BY <1>1
  <2> HIDE DEF V, l
  <2>3. QED
      BY <2>1, <2>2, FS_Subset
<1>3. \A n \in Nat : IsFiniteSet(Upto(n)) /\ Cardinality(Upto(n)) \in Nat
    BY <1>2, FS_Subset, FS_CardinalityType
<1>4. ASSUME NEW n \in 0..l PROVE n \in Nat /\ Rank(m, s, n) \in Nat
  <2>1. n \in Nat
      BY <1>1
  <2>2. QED
      BY <2>1, RankType
<1>5. \A n \in 1..l : n \in V <=> Evictable(m, s[n]) /\ Rank(m, s, n) <= N
    BY VictimRank
<1> HIDE DEF l, V, N
<1>6. 0 \in T
  <2>0. 0 \in Nat
      OBVIOUS
  <2>1. Upto(0) = {} /\ Rank(m, s, 0) = 0 /\ 0 \in 0..l
    <3>1. Rank(m, s, 0) = 0
        BY <2>0, RankType
    <3>2. QED
        BY <1>1, <3>1
  <2>2. Cardinality(Upto(0)) = 0
      BY <2>1, FS_EmptySet
  <2>3. CASE N >= 0
      BY <1>1, <2>1, <2>2, <2>3
  <2>4. CASE N < 0
      BY <1>1, <2>1, <2>2, <2>4
  <2>5. QED
      BY <1>1, <2>3, <2>4
<1>7. ASSUME NEW n \in 0..l, n \in T, n + 1 <= l PROVE n + 1 \in T
  <2>1. n \in Nat /\ n + 1 \in 0..l /\ n + 1 \in 1..l
      BY <1>1, <1>7
  <2> DEFINE a == Rank(m, s, n)
             b == Rank(m, s, n + 1)
             A == Upto(n)
             B == Upto(n + 1)
  <2>2. a \in Nat /\ b \in Nat /\ IsFiniteSet(A) /\ Cardinality(A) \in Nat /\ Cardinality(B) \in Nat
      BY <1>3, <1>4, <2>1
  <2>3. b = IF Evictable(m, s[n + 1]) THEN a + 1 ELSE a
      BY <2>1, RankStep
  <2>4. IF a <= N THEN Cardinality(A) = a ELSE Cardinality(A) >= N
      BY <1>7
  <2>5. \A j \in V : j <= n + 1 <=> j <= n \/ j = n + 1
      BY <1>1, <2>1
  <2>6. CASE n + 1 \in V
    <3>1. B = A \cup {n + 1} /\ n + 1 \notin A
        BY <1>1, <2>1, <2>5, <2>6
    <3> HIDE DEF A, B, a, b
    <3>2. Cardinality(B) = Cardinality(A) + 1
        BY <2>2, <3>1, FS_AddElement
    <3>3. b = a + 1 /\ b <= N
        BY <1>5, <2>1, <2>3, <2>6 DEF b
    <3>4. Cardinality(B) = b /\ b <= N
        BY <1>1, <2>2, <2>4, <3>2, <3>3
    <3>5. QED
        BY <2>1, <3>4 DEF B, b
  <2>7. CASE n + 1 \notin V
    <3>1. B = A
        BY <1>1, <2>1, <2>5, <2>7
    <3>2. Evictable(m, s[n + 1]) => ~(b <= N)
        BY <1>5, <2>1, <2>7
    <3> HIDE DEF A, B, a, b
    <3>3. IF b <= N THEN Cardinality(B) = b ELSE Cardinality(B) >= N
        BY <1>1, <2>2, <2>3, <2>4, <3>1, <3>2
    <3>4. QED
        BY <2>1, <3>3 DEF B, b
  <2>8. QED
      BY <2>6, <2>7
<1> HIDE DEF T
<1>8. 0..l \subseteq T
    BY <1>1, <1>6, <1>7, UpToInduction
<1>9. l \in T
    BY <1>1, <1>8
<1>10. Upto(l) = V
    BY <1>1
<1>11. Rank(m, s, q) <= Rank(m, s, l) /\ ~(Rank(m, s, q) <= N)
  <2>1. q \in 1..l /\ q \in Nat /\ q <= l
      BY <1>1 DEF l
  <2>2. Rank(m, s, q) <= Rank(m, s, l)
      BY <1>1, <2>1, RankGrows
  <2>3. QED
      BY <1>5, <2>1, <2>2 DEF V
<1>12. Rank(m, s, q) \in Nat /\ Rank(m, s, l) \in Nat
  <2>1. q \in 1..l /\ q \in Nat
      BY <1>1 DEF l
  <2>2. QED
      BY <1>1, <2>1, RankType
<1>13. Cardinality(V) >= N
  <2>1. ~(Rank(m, s, l) <= N)
      BY <1>1, <1>11, <1>12
  <2>2. QED
      BY <1>9, <1>10, <2>1 DEF T
<1>14. QED
    BY <1>2, <1>13 DEF V, N

\* What goes is loaded and persistent, and the oldest: before an entry that goes
\* there is no evictable one that stays.
LEMMA EvictedAreOldest ==
    ASSUME NEW m, NEW s, QueueOf(m, s)
    PROVE  /\ Evicted(m, s) \subseteq LoadedKeys(m)
           /\ \A x, y : Before(s, x, y) /\ y \in Evicted(m, s) /\ Evictable(m, x)
                          => x \in Evicted(m, s)
<1>1. ASSUME NEW x \in Evicted(m, s) PROVE x \in LoadedKeys(m)
  <2>1. PICK i \in Victims(m, s) : x = s[i]
      BY DEF Evicted
  <2>2. Evictable(m, x)
      BY <2>1, VictimRank
  <2>3. QED
      BY <2>2 DEF Evictable, LoadedKeys, PersistentKeys
<1>2. ASSUME NEW x, NEW y, Before(s, x, y), y \in Evicted(m, s), Evictable(m, x)
      PROVE  x \in Evicted(m, s)
  <2>1. PICK i, j \in 1..Len(s) : i < j /\ s[i] = x /\ s[j] = y
      BY <1>2 DEF Before
  <2>2. PICK v \in Victims(m, s) : y = s[v]
      BY <1>2 DEF Evicted
  <2>3. v \in 1..Len(s)
      BY VictimRank
  <2>4. v = j
      BY <2>1, <2>2, <2>3 DEF QueueOf, Once
  <2>5. i <= v
      BY <2>1, <2>4
  <2>6. i \in Victims(m, s)
      BY <1>2, <2>1, <2>5, VictimsFirst
  <2>7. QED
      BY <2>1, <2>6 DEF Evicted
<1>3. QED
    BY <1>1, <1>2

\* The scan leaves the queue without the evicted keys, and the evictable ones
\* among them in their order.
LEMMA RotatedOrder ==
    ASSUME NEW m, NEW s, QueueOf(m, s)
    PROVE  /\ Rotated(m, s) \in Seq(Keys)
           /\ Once(Rotated(m, s))
           /\ Range(Rotated(m, s)) = PersistentKeys(m) \ Evicted(m, s)
           /\ \A x, y \in LoadedKeys(m) \ Evicted(m, s) :
                 Before(Rotated(m, s), x, y) <=> Before(s, x, y)
<1> DEFINE V == Victims(m, s)
           E == Evicted(m, s)
<1>0. s \in Seq(Keys) /\ Once(s) /\ Range(s) = PersistentKeys(m)
    BY DEF QueueOf
<1>1. CASE V = {}
  <2>1. Rotated(m, s) = s /\ E = {}
      BY <1>1 DEF Rotated, Evicted
  <2>2. QED
      BY <1>0, <2>1
<1>2. CASE V # {}
  <2> DEFINE p == CHOOSE i \in Victims(m, s) : \A j \in Victims(m, s) : j <= i
             a == SubSeq(s, 1, p)
             b == SubSeq(s, p + 1, Len(s))
             r == Rotated(m, s)
  <2>1. p \in V /\ \A j \in V : j <= p
      BY <1>2, LastVictim
  <2>2. p \in 1..Len(s)
      BY <2>1, VictimRank
  <2>3. r = b \o Less(a, E)
      BY <1>2 DEF Rotated
  <2> HIDE DEF p
  <2>4. /\ a \in Seq(Keys) /\ Len(a) = p /\ \A i \in 1..p : a[i] = s[i]
        /\ b \in Seq(Keys) /\ Len(b) = Len(s) - p
        /\ \A i \in 1..(Len(s) - p) : b[i] = s[p + i]
      BY <1>0, <2>2
  <2>5. s = a \o b
    <3>1. a \o b \in Seq(Keys) /\ Len(a \o b) = Len(s) /\ Len(s) \in Nat
        BY <1>0, <2>2, <2>4
    <3>2. ASSUME NEW i \in 1..Len(s) PROVE (a \o b)[i] = s[i]
      <4>1. CASE i <= p
          BY <2>2, <2>4, <3>1, <4>1
      <4>2. CASE i > p
        <5>1. i - p \in 1..(Len(s) - p) /\ p + (i - p) = i
            BY <2>2, <3>1, <4>2
        <5>2. (a \o b)[i] = b[i - p]
            BY <2>2, <2>4, <3>1, <4>2, <5>1
        <5>3. QED
            BY <2>4, <5>1, <5>2
      <4>3. QED
          BY <2>2, <4>1, <4>2
    <3> DEFINE c == a \o b
    <3> HIDE DEF c
    <3>3. c \in Seq(Keys) /\ Len(c) = Len(s) /\ \A i \in 1..Len(s) : c[i] = s[i]
        BY <3>1, <3>2 DEF c
    <3>4. s = c
        BY <1>0, <3>3
    <3>5. QED
        BY <3>4 DEF c
  <2>6. a \in Seq(Keys) /\ b \in Seq(Keys)
      BY <2>4
  <2>7. E \subseteq Range(a)
    <3>1. \A i \in V : i \in 1..p /\ s[i] = a[i]
        BY <2>1, <2>2, <2>4, VictimRank
    <3>2. Range(a) = {a[i] : i \in 1..Len(a)}
        BY <2>6, RangeOfSeq
    <3>3. QED
        BY <2>4, <3>1, <3>2 DEF Evicted
  <2>8. \A x \in Range(a) : Evictable(m, x) => x \in E
    <3>1. ASSUME NEW i \in 1..p, Evictable(m, s[i]) PROVE i \in V
      <4>1. i \in 1..Len(s) /\ i <= p
          BY <1>0, <2>2
      <4>2. QED
          BY <2>1, <3>1, <4>1, VictimsFirst
    <3>2. Range(a) = {a[i] : i \in 1..Len(a)}
        BY <2>6, RangeOfSeq
    <3>3. QED
        BY <2>4, <3>1, <3>2 DEF Evicted
  <2> HIDE DEF a, b, r, E, V
  <2> DEFINE u == Less(a, E)
  <2>9. /\ u \in Seq(Keys) /\ Range(u) = Range(a) \ E
        /\ \A x, y \in Keys : Before(u, x, y) <=> Before(a, x, y) /\ x \notin E /\ y \notin E
      BY <2>6, LessOrder
  <2> HIDE DEF u
  <2>10. /\ Range(s) = Range(a) \cup Range(b)
         /\ \A x, y : Before(s, x, y)
                        <=> \/ Before(a, x, y) \/ Before(b, x, y)
                            \/ (x \in Range(a) /\ y \in Range(b))
      BY <2>5, <2>6, ConcatOrder
  <2>11. /\ r \in Seq(Keys) /\ Range(r) = Range(b) \cup Range(u)
         /\ \A x, y : Before(r, x, y)
                        <=> \/ Before(b, x, y) \/ Before(u, x, y)
                            \/ (x \in Range(b) /\ y \in Range(u))
      BY <2>3, <2>6, <2>9, ConcatOrder DEF u
  <2>12. \A x \in Keys : ~Before(s, x, x)
      BY <1>0, OnceBefore
  <2>13. /\ Range(a) \cap Range(b) = {}
         /\ \A x \in Keys : ~Before(a, x, x) /\ ~Before(b, x, x)
    <3>1. Range(a) \subseteq Keys
        BY <2>6, RangeOfSeq
    <3>2. QED
        BY <2>10, <2>12, <3>1
  <2>14. Once(r)
    <3>1. \A x \in Keys : ~Before(r, x, x)
        BY <2>9, <2>11, <2>13
    <3>2. QED
        BY <2>11, <3>1, OnceBefore
  <2>15. Range(r) = PersistentKeys(m) \ E
      BY <1>0, <2>7, <2>9, <2>10, <2>11, <2>13
  <2>16. ASSUME NEW x \in LoadedKeys(m) \ E, NEW y \in LoadedKeys(m) \ E
         PROVE  Before(r, x, y) <=> Before(s, x, y)
    <3>1. Evictable(m, x) /\ Evictable(m, y) /\ x \in Range(s) /\ y \in Range(s)
        BY <1>0 DEF LoadedKeys, PersistentKeys, Evictable
    <3>2. x \notin Range(a) /\ y \notin Range(a)
        BY <2>8, <3>1
    <3>3. ~Before(a, x, y) /\ ~Before(u, x, y)
        BY <2>6, <2>9, <3>2, BeforeInRange
    <3>4. QED
        BY <2>9, <2>10, <2>11, <3>2, <3>3
  <2>17. QED
      BY <2>11, <2>14, <2>15, <2>16 DEF r, E
<1>3. QED
    BY <1>1, <1>2

\* After the scan the cap holds, or nothing is left that it may evict.
LEMMA EvictionRestoresCap ==
    ASSUME NEW m, NEW s, QueueOf(m, s)
    PROVE  \/ Cardinality(PersistentKeys(m) \ Evicted(m, s)) <= Limit
           \/ LoadedKeys(m) \subseteq Evicted(m, s)
<1> DEFINE V == Victims(m, s)
           E == Evicted(m, s)
           P == PersistentKeys(m)
<1>1. SUFFICES ASSUME NEW x \in LoadedKeys(m), x \notin E
               PROVE  Cardinality(P \ E) <= Limit
    OBVIOUS
<1>2. PICK q \in 1..Len(s) : s[q] = x
  <2>1. x \in Range(s)
      BY DEF QueueOf, LoadedKeys
  <2>2. QED
      BY <2>1, RangeOfSeq DEF QueueOf
<1>3. Evictable(m, s[q]) /\ q \notin V
    BY <1>1, <1>2 DEF Evictable, LoadedKeys, PersistentKeys, Evicted
<1>4. IsFiniteSet(V) /\ Cardinality(V) >= Excess(m)
    BY <1>3, EnoughVictims
<1>5. IsFiniteSet(E) /\ Cardinality(E) = Cardinality(V)
  <2> DEFINE f == [i \in V |-> s[i]]
  <2>1. f \in [V -> E] /\ \A e \in E : \E i \in V : f[i] = e
      BY DEF Evicted
  <2>2. \A i, j \in V : f[i] = f[j] => i = j
      BY VictimRank DEF QueueOf, Once
  <2> HIDE DEF f, V, E
  <2>3. f \in Bijection(V, E)
      BY <2>1, <2>2, Fun_IsBij
  <2>4. ExistsBijection(V, E)
      BY <2>3 DEF ExistsBijection
  <2>5. QED
      BY <1>4, <2>4, FS_Bijection DEF V
<1>6. IsFiniteSet(P) /\ Cardinality(P) \in Nat
    BY QueueCardinality, FS_CardinalityType
<1>7. E \subseteq P
    BY EvictedAreOldest DEF LoadedKeys
<1>8. Cardinality(P \ E) = Cardinality(P) - Cardinality(E)
  <2>1. P \cap E = E
      BY <1>7
  <2> HIDE DEF P, E
  <2>2. QED
      BY <1>6, <2>1, FS_Difference
<1>9. Cardinality(E) \in Nat
    BY <1>5, FS_CardinalityType
<1>10. QED
    BY <1>4, <1>5, <1>6, <1>8, <1>9, RegistryAssumption DEF Excess

-----------------------------------------------------------------------------
(***************************************************************************)
(* The operations, on the map, the queue and the history of loads.         *)
(***************************************************************************)
LEMMA TouchOrder ==
    ASSUME NEW s \in Seq(Keys), Once(s), NEW k \in Keys
    PROVE  /\ Touch(s, k) \in Seq(Keys) /\ Once(Touch(s, k))
           /\ Range(Touch(s, k)) = Range(s) \cup {k}
           /\ \A x, y \in Keys : Before(Touch(s, k), x, y)
                 <=> \/ Before(s, x, y) /\ x # k /\ y # k
                     \/ x \in Range(s) \ {k} /\ y = k
<1> DEFINE u == Less(s, {k})
           t == Touch(s, k)
<1>1. /\ u \in Seq(Keys) /\ Range(u) = Range(s) \ {k}
      /\ \A x, y \in Keys : Before(u, x, y) <=> Before(s, x, y) /\ x # k /\ y # k
    BY LessOrder
<1>2. t = Append(u, k)
    BY DEF Touch, Without
<1> HIDE DEF u, t
<1>3. /\ t \in Seq(Keys) /\ Range(t) = Range(u) \cup {k}
      /\ \A x, y : Before(t, x, y) <=> Before(u, x, y) \/ (x \in Range(u) /\ y = k)
    BY <1>1, <1>2, AppendOrder
<1>4. \A x \in Keys : ~Before(t, x, x)
    BY <1>1, <1>3, OnceBefore
<1>5. Once(t)
    BY <1>3, <1>4, OnceBefore
<1>6. QED
    BY <1>1, <1>3, <1>5 DEF t

LEMMA WithoutOrder ==
    ASSUME NEW s \in Seq(Keys), Once(s), NEW K
    PROVE  Less(s, K) \in Seq(Keys) /\ Once(Less(s, K))
<1>1. /\ Less(s, K) \in Seq(Keys)
      /\ \A x, y \in Keys : Before(Less(s, K), x, y) <=> Before(s, x, y) /\ x \notin K /\ y \notin K
    BY LessOrder
<1>2. \A x \in Keys : ~Before(Less(s, K), x, x)
    BY <1>1, OnceBefore
<1>3. QED
    BY <1>1, <1>2, OnceBefore

\* A put: the new map, queue and history, and what it evicts.
LEMMA StoreKeeps ==
    ASSUME NEW m, NEW s, NEW h, MapInv(m, s, h), NEW k \in Keys
    PROVE  LET m1 == Put(m, k, Persistent)
               s1 == Touch(s, k)
               E == Evicted(m1, s1)
               m2 == Drop(m1, E)
           IN  /\ MapInv(m2, Rotated(m1, s1), Less(h, {k} \cup E))
               /\ E \subseteq LoadedKeys(m) \ {k}
               /\ DOMAIN m2 = (DOMAIN m \cup {k}) \ E
               /\ \A x \in DOMAIN m2 : m2[x] = IF x = k THEN Persistent ELSE m[x]
               /\ \A x, y : Before(h, x, y) /\ y \in E => x \in E \cup {k}
               /\ Cardinality(PersistentKeys(m2)) <= Limit \/ LoadedKeys(m2) = {}
<1> DEFINE m1 == Put(m, k, Persistent)
           s1 == Touch(s, k)
           E == Evicted(m1, s1)
           m2 == Drop(m1, E)
           r == Rotated(m1, s1)
           h2 == Less(h, {k} \cup E)
<1>1. /\ DOMAIN m1 = DOMAIN m \cup {k}
      /\ \A x \in DOMAIN m1 : m1[x] = IF x = k THEN Persistent ELSE m[x]
    BY DEF Put
<1>2. /\ DOMAIN m2 = DOMAIN m1 \ E
      /\ \A x \in DOMAIN m2 : m2[x] = m1[x]
    BY DEF Drop
<1>3. Persistent \in Entries /\ Persistent.persistent /\ Persistent.left = 0 /\ ~Persistent.loaded
    BY DEF Persistent, Entries, Budget
<1>4. /\ s \in Seq(Keys) /\ Once(s) /\ Range(s) = PersistentKeys(m) /\ h \in Seq(Keys)
      /\ Range(h) = LoadedKeys(m) /\ PersistentKeys(m) \subseteq Keys
      /\ LoadedKeys(m) \subseteq PersistentKeys(m)
    BY DEF MapInv, QueueOf, PersistentKeys, LoadedKeys
<1>5. /\ s1 \in Seq(Keys) /\ Once(s1) /\ Range(s1) = Range(s) \cup {k}
      /\ \A x, y \in Keys : Before(s1, x, y)
            <=> \/ Before(s, x, y) /\ x # k /\ y # k
                \/ x \in Range(s) \ {k} /\ y = k
    BY <1>4, TouchOrder
<1> HIDE DEF m1, s1
<1>6. PersistentKeys(m1) = PersistentKeys(m) \cup {k}
    BY <1>1, <1>3 DEF PersistentKeys
<1>7. LoadedKeys(m1) = LoadedKeys(m) \ {k}
    BY <1>1, <1>3 DEF PersistentKeys, LoadedKeys
<1>8. QueueOf(m1, s1)
    BY <1>4, <1>5, <1>6 DEF QueueOf
<1>9. /\ E \subseteq LoadedKeys(m1)
      /\ \A x, y : Before(s1, x, y) /\ y \in E /\ Evictable(m1, x) => x \in E
    BY <1>8, EvictedAreOldest
<1>10. /\ r \in Seq(Keys) /\ Once(r) /\ Range(r) = PersistentKeys(m1) \ E
       /\ \A x, y \in LoadedKeys(m1) \ E : Before(r, x, y) <=> Before(s1, x, y)
    BY <1>8, RotatedOrder
<1>11. Cardinality(PersistentKeys(m1) \ E) <= Limit \/ LoadedKeys(m1) \subseteq E
    BY <1>8, EvictionRestoresCap
<1>12. /\ h2 \in Seq(Keys) /\ Range(h2) = Range(h) \ ({k} \cup E)
       /\ \A x, y \in Keys : Before(h2, x, y)
             <=> Before(h, x, y) /\ x \notin {k} \cup E /\ y \notin {k} \cup E
    BY <1>4, LessOrder
<1> HIDE DEF m2, E, r, h2
<1>13. PersistentKeys(m2) = PersistentKeys(m1) \ E /\ LoadedKeys(m2) = LoadedKeys(m1) \ E
    BY <1>2 DEF PersistentKeys, LoadedKeys
<1>14. ASSUME NEW x \in LoadedKeys(m2), NEW y \in LoadedKeys(m2)
       PROVE  Before(h2, x, y) <=> Before(r, x, y)
  <2>1. /\ x \in LoadedKeys(m) /\ x \in Keys /\ x \notin {k} \cup E
        /\ y \in LoadedKeys(m) /\ y \in Keys /\ y \notin {k} \cup E
      BY <1>4, <1>7, <1>13
  <2>2. Before(h2, x, y) <=> Before(h, x, y)
      BY <1>12, <2>1
  <2>3. Before(h, x, y) <=> Before(s, x, y)
      BY <2>1 DEF MapInv
  <2>4. Before(s, x, y) <=> Before(s1, x, y)
      BY <1>5, <2>1
  <2>5. Before(s1, x, y) <=> Before(r, x, y)
      BY <1>10, <1>13
  <2>6. QED
      BY <2>2, <2>3, <2>4, <2>5
<1>15. MapInv(m2, r, h2)
  <2>1. DOMAIN m2 \subseteq Keys
      BY <1>1, <1>2 DEF MapInv
  <2>2. \A x \in DOMAIN m2 : m2[x] \in Entries /\ (m2[x].persistent <=> m2[x].left = 0)
      BY <1>1, <1>2, <1>3 DEF MapInv
  <2>3. QueueOf(m2, r)
      BY <1>10, <1>13 DEF QueueOf
  <2>4. Range(h2) = LoadedKeys(m2)
      BY <1>4, <1>7, <1>12, <1>13
  <2>5. QED
      BY <1>12, <1>14, <2>1, <2>2, <2>3, <2>4 DEF MapInv
<1>16. ASSUME NEW x, NEW y, Before(h, x, y), y \in E, x # k PROVE x \in E
  <2>1. x \in LoadedKeys(m) /\ y \in LoadedKeys(m)
      BY <1>4, <1>16, BeforeInRange
  <2>2. Before(s, x, y)
      BY <1>16, <2>1 DEF MapInv
  <2>3. y # k
      BY <1>7, <1>9, <1>16
  <2>4. Before(s1, x, y)
      BY <1>4, <1>5, <1>16, <2>1, <2>2, <2>3
  <2>5. Evictable(m1, x)
      BY <1>7, <1>16, <2>1 DEF LoadedKeys, PersistentKeys, Evictable
  <2>6. QED
      BY <1>9, <1>16, <2>4, <2>5
<1>17. Cardinality(PersistentKeys(m2)) <= Limit \/ LoadedKeys(m2) = {}
    BY <1>11, <1>13
<1>18. QED
    BY <1>1, <1>2, <1>7, <1>9, <1>15, <1>16, <1>17 DEF m1, s1, m2, E, r, h2

\* A load of a persistent entry: the key goes to the end of the queue and of the
\* history.
LEMMA LoadPersistentKeeps ==
    ASSUME NEW m, NEW s, NEW h, MapInv(m, s, h), NEW k \in PersistentKeys(m)
    PROVE  LET m2 == Put(m, k, [m[k] EXCEPT !.loaded = TRUE])
           IN  /\ MapInv(m2, Touch(s, k), Append(Without(h, k), k))
               /\ DOMAIN m2 = DOMAIN m
               /\ \A x \in DOMAIN m : m2[x].persistent = m[x].persistent
               /\ \A x \in DOMAIN m \ {k} : m2[x] = m[x]
               /\ PersistentKeys(m2) = PersistentKeys(m)
               /\ LoadedKeys(m2) = LoadedKeys(m) \cup {k}
<1> DEFINE e == [m[k] EXCEPT !.loaded = TRUE]
           m2 == Put(m, k, e)
           s2 == Touch(s, k)
           h2 == Touch(h, k)
<1>1. k \in DOMAIN m /\ m[k] \in Entries /\ m[k].persistent /\ k \in Keys
    BY DEF PersistentKeys, MapInv
<1>2. e \in Entries /\ e.persistent /\ e.loaded /\ e.left = m[k].left
    BY <1>1 DEF Entries
<1> HIDE DEF e
<1>3. /\ DOMAIN m2 = DOMAIN m
      /\ \A x \in DOMAIN m : m2[x] = IF x = k THEN e ELSE m[x]
    BY <1>1 DEF Put
<1>4. /\ s \in Seq(Keys) /\ Once(s) /\ Range(s) = PersistentKeys(m) /\ h \in Seq(Keys)
      /\ Range(h) = LoadedKeys(m) /\ PersistentKeys(m) \subseteq Keys
      /\ LoadedKeys(m) \subseteq PersistentKeys(m)
    BY DEF MapInv, QueueOf, PersistentKeys, LoadedKeys
<1>5. Once(h)
  <2>1. ASSUME NEW x \in Keys, Before(h, x, x) PROVE FALSE
    <3>1. x \in LoadedKeys(m)
        BY <1>4, <2>1, BeforeInRange
    <3>2. Before(s, x, x)
        BY <2>1, <3>1 DEF MapInv
    <3>3. QED
        BY <1>4, <2>1, <3>2, OnceBefore
  <2>2. QED
      BY <1>4, <2>1, OnceBefore
<1>6. /\ s2 \in Seq(Keys) /\ Once(s2) /\ Range(s2) = Range(s) \cup {k}
      /\ \A x, y \in Keys : Before(s2, x, y)
            <=> \/ Before(s, x, y) /\ x # k /\ y # k
                \/ x \in Range(s) \ {k} /\ y = k
    BY <1>1, <1>4, TouchOrder
<1>7. /\ h2 \in Seq(Keys) /\ Range(h2) = Range(h) \cup {k}
      /\ \A x, y \in Keys : Before(h2, x, y)
            <=> \/ Before(h, x, y) /\ x # k /\ y # k
                \/ x \in Range(h) \ {k} /\ y = k
    BY <1>1, <1>4, <1>5, TouchOrder
<1>8. PersistentKeys(m2) = PersistentKeys(m)
    BY <1>1, <1>2, <1>3 DEF PersistentKeys
<1>9. LoadedKeys(m2) = LoadedKeys(m) \cup {k}
    BY <1>1, <1>2, <1>3 DEF PersistentKeys, LoadedKeys
<1>10. h2 = Append(Without(h, k), k)
    BY DEF Touch
<1> HIDE DEF m2, s2, h2
<1>11. ASSUME NEW x \in LoadedKeys(m2), NEW y \in LoadedKeys(m2)
       PROVE  Before(h2, x, y) <=> Before(s2, x, y)
  <2>1. x \in Keys /\ y \in Keys
      BY <1>1, <1>4, <1>9
  <2>2. CASE y = k
      BY <1>4, <1>6, <1>7, <1>9, <2>1, <2>2
  <2>3. CASE x = k
      BY <1>6, <1>7, <2>1, <2>3
  <2>4. CASE x # k /\ y # k
    <3>1. Before(h, x, y) <=> Before(s, x, y)
        BY <1>9, <2>4 DEF MapInv
    <3>2. QED
        BY <1>6, <1>7, <2>1, <2>4, <3>1
  <2>5. QED
      BY <2>2, <2>3, <2>4
<1>12. MapInv(m2, s2, h2)
  <2>1. DOMAIN m2 \subseteq Keys
      BY <1>3 DEF MapInv
  <2>2. \A x \in DOMAIN m2 : m2[x] \in Entries /\ (m2[x].persistent <=> m2[x].left = 0)
      BY <1>1, <1>2, <1>3 DEF MapInv
  <2>3. QueueOf(m2, s2)
      BY <1>1, <1>4, <1>6, <1>8 DEF QueueOf
  <2>4. h2 \in Seq(Keys) /\ Range(h2) = LoadedKeys(m2)
      BY <1>4, <1>7, <1>9
  <2>5. QED
      BY <1>11, <2>1, <2>2, <2>3, <2>4 DEF MapInv
<1>13. \A x \in DOMAIN m : m2[x].persistent = m[x].persistent
    BY <1>1, <1>2, <1>3 DEF MapInv, Entries
<1>14. QED
    BY <1>3, <1>8, <1>9, <1>10, <1>12, <1>13 DEF m2, s2, h2, e

\* What changes ephemeral entries only keeps the queue and the history.
LEMMA EphemeralKeeps ==
    ASSUME NEW m, NEW s, NEW h, MapInv(m, s, h), NEW m2,
           DOMAIN m2 \subseteq Keys,
           \A x \in DOMAIN m2 : m2[x] \in Entries /\ (m2[x].persistent <=> m2[x].left = 0),
           PersistentKeys(m2) = PersistentKeys(m),
           \A x \in PersistentKeys(m) : m2[x] = m[x]
    PROVE  MapInv(m2, s, h) /\ LoadedKeys(m2) = LoadedKeys(m)
<1>1. LoadedKeys(m2) = LoadedKeys(m)
    BY DEF LoadedKeys
<1>2. QED
    BY <1>1 DEF MapInv, QueueOf

\* A removal, from the map, the queue and the history.
LEMMA DropKeeps ==
    ASSUME NEW m, NEW s, NEW h, MapInv(m, s, h), NEW K
    PROVE  /\ MapInv(Drop(m, K), Less(s, K), Less(h, K))
           /\ DOMAIN Drop(m, K) = DOMAIN m \ K
           /\ \A x \in DOMAIN m \ K : Drop(m, K)[x] = m[x]
           /\ PersistentKeys(Drop(m, K)) = PersistentKeys(m) \ K
           /\ LoadedKeys(Drop(m, K)) = LoadedKeys(m) \ K
<1> DEFINE m2 == Drop(m, K)
           s2 == Less(s, K)
           h2 == Less(h, K)
<1>1. /\ DOMAIN m2 = DOMAIN m \ K
      /\ \A x \in DOMAIN m \ K : m2[x] = m[x]
    BY DEF Drop
<1>2. /\ s \in Seq(Keys) /\ Once(s) /\ Range(s) = PersistentKeys(m) /\ h \in Seq(Keys)
      /\ Range(h) = LoadedKeys(m) /\ PersistentKeys(m) \subseteq Keys
      /\ LoadedKeys(m) \subseteq PersistentKeys(m)
    BY DEF MapInv, QueueOf, PersistentKeys, LoadedKeys
<1>3. /\ s2 \in Seq(Keys) /\ Range(s2) = Range(s) \ K
      /\ \A x, y \in Keys : Before(s2, x, y) <=> Before(s, x, y) /\ x \notin K /\ y \notin K
    BY <1>2, LessOrder
<1>4. /\ h2 \in Seq(Keys) /\ Range(h2) = Range(h) \ K
      /\ \A x, y \in Keys : Before(h2, x, y) <=> Before(h, x, y) /\ x \notin K /\ y \notin K
    BY <1>2, LessOrder
<1>5. Once(s2)
    BY <1>2, WithoutOrder
<1> HIDE DEF m2, s2, h2
<1>6. PersistentKeys(m2) = PersistentKeys(m) \ K
    BY <1>1 DEF PersistentKeys
<1>7. LoadedKeys(m2) = LoadedKeys(m) \ K
    BY <1>1 DEF PersistentKeys, LoadedKeys
<1>8. \A x, y \in LoadedKeys(m2) : Before(h2, x, y) <=> Before(s2, x, y)
    BY <1>2, <1>3, <1>4, <1>7 DEF MapInv
<1>9. MapInv(m2, s2, h2)
  <2>1. DOMAIN m2 \subseteq Keys
      BY <1>1 DEF MapInv
  <2>2. \A x \in DOMAIN m2 : m2[x] \in Entries /\ (m2[x].persistent <=> m2[x].left = 0)
      BY <1>1 DEF MapInv
  <2>3. QED
      BY <1>2, <1>3, <1>4, <1>5, <1>6, <1>7, <1>8, <2>1, <2>2 DEF MapInv, QueueOf
<1>10. QED
    BY <1>1, <1>6, <1>7, <1>9 DEF m2, s2, h2

\* Removing from the queue what is not in it keeps it.
LEMMA AbsentKeeps ==
    ASSUME NEW m, NEW s, NEW h, MapInv(m, s, h), NEW k, k \notin PersistentKeys(m)
    PROVE  MapInv(m, Less(s, {k}), h)
<1> DEFINE s2 == Less(s, {k})
<1>1. /\ s \in Seq(Keys) /\ Once(s) /\ Range(s) = PersistentKeys(m)
      /\ PersistentKeys(m) \subseteq Keys /\ LoadedKeys(m) \subseteq PersistentKeys(m)
    BY DEF MapInv, QueueOf, PersistentKeys, LoadedKeys
<1>2. /\ s2 \in Seq(Keys) /\ Range(s2) = Range(s) \ {k}
      /\ \A x, y \in Keys : Before(s2, x, y) <=> Before(s, x, y) /\ x \notin {k} /\ y \notin {k}
    BY <1>1, LessOrder
<1>3. Once(s2)
    BY <1>1, WithoutOrder
<1> HIDE DEF s2
<1>4. QueueOf(m, s2)
    BY <1>1, <1>2, <1>3 DEF QueueOf
<1>5. \A x, y \in LoadedKeys(m) : Before(h, x, y) <=> Before(s2, x, y)
    BY <1>1, <1>2 DEF MapInv
<1>6. QED
    BY <1>4, <1>5 DEF MapInv, s2

-----------------------------------------------------------------------------
(***************************************************************************)
(* The state invariant: the initial state, and one lemma per action.       *)
(***************************************************************************)
\* Canonical and generated keys, and the idle key, are told apart.
LEMMA KeyFacts ==
    /\ \A n \in Names : Canon(n) \in Keys
    /\ \A i \in 1..MaxVirtual : Virtual(i) \in Keys
    /\ \A n, i : Canon(n) # Virtual(i)
    /\ \A n, o : Canon(n) = Canon(o) => n = o
    /\ \A i, j : Virtual(i) = Virtual(j) => i = j
BY DEF Canon, Virtual, Keys

LEMMA IdleFacts == Idle.stage = "idle" /\ Idle.key = <<"none", 0>>
BY DEF Idle

LEMMA EmptyFacts ==
    /\ DOMAIN <<>> = {} /\ PersistentKeys(<<>>) = {} /\ LoadedKeys(<<>>) = {}
    /\ MapInv(<<>>, <<>>, <<>>)
<1>1. /\ DOMAIN <<>> = {} /\ <<>> \in Seq(Keys) /\ Len(<<>>) = 0
    OBVIOUS
<1>2. PersistentKeys(<<>>) = {} /\ LoadedKeys(<<>>) = {}
    BY <1>1 DEF PersistentKeys, LoadedKeys
<1>3. Range(<<>>) = {} /\ Once(<<>>)
    BY <1>1 DEF Range, Once
<1>4. QED
    BY <1>1, <1>2, <1>3 DEF MapInv, QueueOf

LEMMA InitInv == ASSUME Init PROVE RegistryInv
<1>1. RegistryTypeOK
    BY EmptyFacts, RegistryAssumption, IdleFacts DEF Init, RegistryTypeOK, Idle
<1>2. MapInv(modules, lru, recency)
    BY EmptyFacts DEF Init
<1>3. EntriesHaveOrigin /\ WrappersUnloaded /\ EvaluatesEphemeral
    BY EmptyFacts DEF Init, EntriesHaveOrigin, WrappersUnloaded, EvaluatesEphemeral
<1>4. RegisteredIsImportable
    BY EmptyFacts DEF Init, RegisteredIsImportable
<1>5. QED
    BY <1>1, <1>2, <1>3, <1>4 DEF RegistryInv

\* The types of map, queue and history follow from their agreement.
OtherTypes ==
    /\ DOMAIN aliases \subseteq Names
    /\ \A n \in DOMAIN aliases : aliases[n] = Canon(n)
    /\ counter \in 0..MaxVirtual
    /\ known \subseteq Keys
    /\ evaluating \in [key : Keys \cup {Idle.key}, stage : {"idle", "load", "run"}]
    /\ wrappers \subseteq Keys

LEMMA InvParts ==
    ASSUME MapInv(modules', lru', recency'), OtherTypes',
           EntriesHaveOrigin', WrappersUnloaded', EvaluatesEphemeral', RegisteredIsImportable'
    PROVE  RegistryInv'
<1>1. RegistryTypeOK'
    BY DEF RegistryTypeOK, OtherTypes, MapInv, QueueOf
<1>2. MapInv(modules, lru, recency)'
    BY DEF MapInv, QueueOf, Once, Before, LoadedKeys, PersistentKeys, Range
<1>3. QED
    BY <1>1, <1>2 DEF RegistryInv

LEMMA StoreStep ==
    ASSUME RegistryInv, NEW k \in Keys, Store(k)
    PROVE  /\ MapInv(modules', lru', recency')
           /\ \E E \in SUBSET (LoadedKeys(modules) \ {k}) :
                 /\ DOMAIN modules' = (DOMAIN modules \cup {k}) \ E
                 /\ \A x \in DOMAIN modules' :
                       modules'[x] = IF x = k THEN Persistent ELSE modules[x]
                 /\ \A x, y : Before(recency, x, y) /\ y \in E => x \in E \cup {k}
           /\ Cardinality(PersistentKeys(modules')) <= Limit \/ LoadedKeys(modules') = {}
<1> DEFINE m1 == Put(modules, k, Persistent)
           s1 == Touch(lru, k)
           E == Evicted(m1, s1)
           m2 == Drop(m1, E)
<1>1. MapInv(modules, lru, recency)
    BY DEF RegistryInv
<1>2. modules' = m2 /\ lru' = Rotated(m1, s1) /\ recency' = Less(recency, {k} \cup E)
    BY DEF Store
<1>3. /\ MapInv(m2, Rotated(m1, s1), Less(recency, {k} \cup E))
      /\ E \subseteq LoadedKeys(modules) \ {k}
      /\ DOMAIN m2 = (DOMAIN modules \cup {k}) \ E
      /\ \A x \in DOMAIN m2 : m2[x] = IF x = k THEN Persistent ELSE modules[x]
      /\ \A x, y : Before(recency, x, y) /\ y \in E => x \in E \cup {k}
      /\ Cardinality(PersistentKeys(m2)) <= Limit \/ LoadedKeys(m2) = {}
    BY <1>1, StoreKeeps
<1> HIDE DEF m1, s1, E, m2
<1>4. QED
    BY <1>2, <1>3

LEMMA RegisterInv ==
    ASSUME RegistryInv, NEW n \in Names, Register(n)
    PROVE  RegistryInv'
<1> DEFINE k == Canon(n)
<1>1. k \in Keys /\ \A i : k # Virtual(i)
    BY KeyFacts
<1>2. RegistryTypeOK /\ EntriesHaveOrigin /\ WrappersUnloaded /\ EvaluatesEphemeral /\ RegisteredIsImportable
    BY DEF RegistryInv
<1>3. MapInv(modules', lru', recency')
    BY <1>1, <1>2, StoreStep DEF Register, RegistryTypeOK
<1>4. PICK E \in SUBSET (LoadedKeys(modules) \ {k}) :
          /\ DOMAIN modules' = (DOMAIN modules \cup {k}) \ E
          /\ \A x \in DOMAIN modules' :
                modules'[x] = IF x = k THEN Persistent ELSE modules[x]
    BY <1>1, <1>2, StoreStep DEF Register, RegistryTypeOK
<1>5. Persistent.persistent /\ ~Persistent.loaded
    BY DEF Persistent
<1>6. /\ evaluating = Idle /\ aliases' = Put(aliases, n, k)
      /\ UNCHANGED <<counter, known, evaluating, wrappers>>
    BY DEF Register
<1> HIDE DEF k
<1>7. OtherTypes'
    BY <1>2, <1>6 DEF RegistryTypeOK, OtherTypes, Put, k
<1>8. EntriesHaveOrigin'
  <2>1. \A o \in Names : Canon(o) \in DOMAIN modules' => modules'[Canon(o)].persistent
      BY <1>2, <1>4, <1>5 DEF EntriesHaveOrigin
  <2>2. \A i \in 1..MaxVirtual : Virtual(i) \in DOMAIN modules' => i <= counter'
      BY <1>1, <1>2, <1>4, <1>6 DEF EntriesHaveOrigin
  <2>3. LoadedKeys(modules') \subseteq known'
      BY <1>2, <1>4, <1>5, <1>6 DEF EntriesHaveOrigin, LoadedKeys, PersistentKeys
  <2>4. QED
      BY <2>1, <2>2, <2>3 DEF EntriesHaveOrigin, LoadedKeys, PersistentKeys
<1>9. WrappersUnloaded'
  <2>1. ASSUME NEW w \in wrappers'
        PROVE  w \in PersistentKeys(modules') /\ ~modules'[w].loaded
    <3>1. w \in PersistentKeys(modules) /\ ~modules[w].loaded /\ w # k
        BY <1>1, <1>2, <1>6, <2>1 DEF WrappersUnloaded
    <3>2. QED
        BY <1>4, <3>1 DEF PersistentKeys, LoadedKeys
  <2>2. QED
      BY <1>2, <1>6, <2>1 DEF WrappersUnloaded, PersistentKeys
<1>10. EvaluatesEphemeral'
    BY <1>6 DEF EvaluatesEphemeral
<1>11. RegisteredIsImportable'
  <2>1. ASSUME NEW o \in DOMAIN aliases' PROVE aliases'[o] \in DOMAIN modules' \cup known'
    <3>1. CASE o = n
      <4>1. aliases'[o] = k
          BY <1>6, <3>1 DEF Put
      <4>2. QED
          BY <1>4, <4>1
    <3>2. CASE o # n
      <4>1. o \in DOMAIN aliases /\ aliases'[o] = aliases[o]
          BY <1>6, <2>1, <3>2 DEF Put
      <4>2. aliases[o] \in DOMAIN modules \cup known
          BY <1>2, <4>1 DEF RegisteredIsImportable
      <4>3. LoadedKeys(modules) \subseteq known
          BY <1>2 DEF EntriesHaveOrigin
      <4>4. QED
          BY <1>4, <1>6, <4>1, <4>2, <4>3
    <3>3. QED
        BY <3>1, <3>2
  <2>2. QED
      BY <2>1 DEF RegisteredIsImportable
<1>12. QED
    BY <1>3, <1>7, <1>8, <1>9, <1>10, <1>11, InvParts

LEMMA ServeSourceInv ==
    ASSUME RegistryInv, ServeSource
    PROVE  RegistryInv'
<1> DEFINE k == Virtual(counter + 1)
<1>2. RegistryTypeOK /\ EntriesHaveOrigin /\ WrappersUnloaded /\ EvaluatesEphemeral /\ RegisteredIsImportable
    BY DEF RegistryInv
<1>0. counter + 1 \in 1..MaxVirtual /\ counter \in Nat
    BY <1>2, RegistryAssumption DEF ServeSource, RegistryTypeOK
<1>1. k \in Keys /\ \A n : k # Canon(n)
    BY <1>0, KeyFacts
<1>3. MapInv(modules', lru', recency')
    BY <1>1, <1>2, StoreStep DEF ServeSource
<1>4. PICK E \in SUBSET (LoadedKeys(modules) \ {k}) :
          /\ DOMAIN modules' = (DOMAIN modules \cup {k}) \ E
          /\ \A x \in DOMAIN modules' :
                modules'[x] = IF x = k THEN Persistent ELSE modules[x]
    BY <1>1, <1>2, StoreStep DEF ServeSource
<1>5. Persistent.persistent /\ ~Persistent.loaded
    BY DEF Persistent
<1>6. /\ counter' = counter + 1 /\ wrappers' = wrappers \cup {k}
      /\ UNCHANGED <<aliases, known, evaluating>>
    BY DEF ServeSource
<1>7. OtherTypes'
    BY <1>0, <1>1, <1>2, <1>6 DEF RegistryTypeOK, OtherTypes
<1>8. \A i \in 1..MaxVirtual : Virtual(i) = k => i = counter + 1
    BY KeyFacts
<1> HIDE DEF k
<1>9. EntriesHaveOrigin'
  <2>1. \A o \in Names : Canon(o) \in DOMAIN modules' => modules'[Canon(o)].persistent
      BY <1>1, <1>2, <1>4, <1>5 DEF EntriesHaveOrigin
  <2>2. ASSUME NEW i \in 1..MaxVirtual, Virtual(i) \in DOMAIN modules' PROVE i <= counter'
    <3>1. CASE Virtual(i) = k
        BY <1>0, <1>6, <1>8, <3>1
    <3>2. CASE Virtual(i) # k
        BY <1>0, <1>2, <1>4, <1>6, <2>2, <3>2 DEF EntriesHaveOrigin
    <3>3. QED
        BY <3>1, <3>2
  <2>3. LoadedKeys(modules') \subseteq known'
      BY <1>2, <1>4, <1>5, <1>6 DEF EntriesHaveOrigin, LoadedKeys, PersistentKeys
  <2>4. QED
      BY <2>1, <2>2, <2>3 DEF EntriesHaveOrigin, LoadedKeys, PersistentKeys
<1>10. WrappersUnloaded'
  <2>1. ASSUME NEW w \in wrappers
        PROVE  /\ w \in PersistentKeys(modules') /\ ~modules'[w].loaded
               /\ \E i \in 1..MaxVirtual : w = Virtual(i)
    <3>1. w \in PersistentKeys(modules) /\ ~modules[w].loaded
          /\ \E i \in 1..MaxVirtual : w = Virtual(i)
        BY <1>2, <2>1 DEF WrappersUnloaded
    <3>2. w \in DOMAIN modules'
        BY <1>4, <3>1 DEF PersistentKeys, LoadedKeys
    <3>3. QED
        BY <1>4, <1>5, <3>1, <3>2 DEF PersistentKeys
  <2>2. /\ k \in PersistentKeys(modules') /\ ~modules'[k].loaded
        /\ \E i \in 1..MaxVirtual : k = Virtual(i)
      BY <1>0, <1>4, <1>5 DEF PersistentKeys, k
  <2>3. QED
      BY <1>6, <2>1, <2>2 DEF WrappersUnloaded, PersistentKeys
<1>11. EvaluatesEphemeral'
  <2>1. SUFFICES ASSUME evaluating # Idle
                 PROVE  /\ \E i \in 1..counter' : evaluating.key = Virtual(i)
                        /\ evaluating.key \notin PersistentKeys(modules')
      BY <1>6 DEF EvaluatesEphemeral, PersistentKeys
  <2>2. PICK i \in 1..counter : evaluating.key = Virtual(i)
      BY <1>2, <2>1 DEF EvaluatesEphemeral
  <2>3. i \in 1..MaxVirtual /\ i # counter + 1 /\ i \in 1..counter'
    <3>1. counter' = counter + 1 /\ MaxVirtual \in Nat
        BY <1>6, RegistryAssumption
    <3>2. QED
        BY <1>0, <2>2, <3>1
  <2>4. evaluating.key # k
      BY <1>8, <2>2, <2>3
  <2>5. evaluating.key \notin PersistentKeys(modules')
      BY <1>2, <1>4, <2>1, <2>4 DEF EvaluatesEphemeral, PersistentKeys
  <2>6. QED
      BY <2>2, <2>3, <2>5
<1>12. RegisteredIsImportable'
  <2>1. LoadedKeys(modules) \subseteq known
      BY <1>2 DEF EntriesHaveOrigin
  <2>2. QED
      BY <1>2, <1>4, <1>6, <2>1 DEF RegisteredIsImportable
<1>13. QED
    BY <1>3, <1>7, <1>9, <1>10, <1>11, <1>12, InvParts

LEMMA ClearInv ==
    ASSUME RegistryInv, NEW n \in Names, Clear(n)
    PROVE  RegistryInv'
<1> DEFINE k == Canon(n)
<1>1. RegistryTypeOK /\ EntriesHaveOrigin /\ WrappersUnloaded /\ EvaluatesEphemeral /\ RegisteredIsImportable
    BY DEF RegistryInv
<1>2. aliases[n] = k /\ n \in DOMAIN aliases
    BY <1>1 DEF Clear, RegistryTypeOK
<1>3. /\ modules' = Drop(modules, {k}) /\ lru' = Less(lru, {k}) /\ recency' = Less(recency, {k})
      /\ aliases' = Drop(aliases, {n})
      /\ UNCHANGED <<counter, known, evaluating, wrappers>> /\ evaluating = Idle
    BY <1>2 DEF Clear, Without
<1>4. /\ MapInv(modules', lru', recency')
      /\ DOMAIN modules' = DOMAIN modules \ {k}
      /\ \A x \in DOMAIN modules \ {k} : modules'[x] = modules[x]
      /\ PersistentKeys(modules') = PersistentKeys(modules) \ {k}
      /\ LoadedKeys(modules') = LoadedKeys(modules) \ {k}
  <2>1. MapInv(modules, lru, recency)
      BY DEF RegistryInv
  <2>2. QED
      BY <1>3, <2>1, DropKeeps
<1>5. /\ DOMAIN aliases' = DOMAIN aliases \ {n}
      /\ \A o \in DOMAIN aliases' : aliases'[o] = aliases[o] /\ aliases[o] # k
    BY <1>1, <1>3, KeyFacts DEF Drop, RegistryTypeOK
<1>6. \A i : k # Virtual(i)
    BY KeyFacts
<1> HIDE DEF k
<1>7. OtherTypes'
    BY <1>1, <1>3, <1>5 DEF OtherTypes, RegistryTypeOK
<1>8. EntriesHaveOrigin'
  <2>1. LoadedKeys(modules') \subseteq known'
      BY <1>1, <1>3, <1>4 DEF EntriesHaveOrigin
  <2>2. QED
      BY <1>1, <1>3, <1>4, <2>1 DEF EntriesHaveOrigin, LoadedKeys, PersistentKeys
<1>9. WrappersUnloaded'
    BY <1>1, <1>3, <1>4, <1>6 DEF WrappersUnloaded, PersistentKeys
<1>10. EvaluatesEphemeral'
    BY <1>3 DEF EvaluatesEphemeral
<1>11. RegisteredIsImportable'
    BY <1>1, <1>3, <1>4, <1>5 DEF RegisteredIsImportable
<1>12. QED
    BY <1>4, <1>7, <1>8, <1>9, <1>10, <1>11, InvParts

LEMMA BeginEvalInv ==
    ASSUME RegistryInv, BeginEval
    PROVE  RegistryInv'
<1> DEFINE k == Virtual(counter + 1)
<1>1. RegistryTypeOK /\ EntriesHaveOrigin /\ WrappersUnloaded /\ EvaluatesEphemeral /\ RegisteredIsImportable
    BY DEF RegistryInv
<1>2. counter + 1 \in 1..MaxVirtual /\ counter \in Nat
    BY <1>1, RegistryAssumption DEF BeginEval, RegistryTypeOK
<1>3. k \in Keys /\ \A n : k # Canon(n)
    BY <1>2, KeyFacts
<1>4. \A i \in 1..MaxVirtual : Virtual(i) = k => i = counter + 1
    BY KeyFacts
<1>5. k \notin DOMAIN modules
    BY <1>1, <1>2 DEF EntriesHaveOrigin
<1>6. /\ counter' = counter + 1 /\ evaluating' = [key |-> k, stage |-> "load"]
      /\ modules' = Put(modules, k, Ephemeral) /\ lru' = Less(lru, {k})
      /\ UNCHANGED <<aliases, known, wrappers, recency>>
    BY DEF BeginEval, Without
<1> HIDE DEF k
<1>7. Ephemeral \in Entries /\ ~Ephemeral.persistent /\ Ephemeral.left # 0
    BY DEF Ephemeral, Entries, Budget
<1>8. /\ DOMAIN modules' = DOMAIN modules \cup {k}
      /\ \A x \in DOMAIN modules' : modules'[x] = IF x = k THEN Ephemeral ELSE modules[x]
    BY <1>6 DEF Put
<1>9. PersistentKeys(modules') = PersistentKeys(modules)
    BY <1>5, <1>7, <1>8 DEF PersistentKeys
<1>10. MapInv(modules', lru', recency') /\ LoadedKeys(modules') = LoadedKeys(modules)
  <2>1. k \notin PersistentKeys(modules) /\ MapInv(modules, lru, recency)
      BY <1>5 DEF PersistentKeys, RegistryInv
  <2>2. MapInv(modules, lru', recency')
      BY <1>6, <2>1, AbsentKeeps
  <2>3. DOMAIN modules' \subseteq Keys
      BY <1>3, <1>8, <2>1 DEF MapInv
  <2>4. \A x \in DOMAIN modules' :
            modules'[x] \in Entries /\ (modules'[x].persistent <=> modules'[x].left = 0)
      BY <1>7, <1>8, <2>1 DEF MapInv
  <2>5. \A x \in PersistentKeys(modules) : modules'[x] = modules[x]
      BY <1>5, <1>8 DEF PersistentKeys
  <2>6. QED
      BY <1>9, <2>2, <2>3, <2>4, <2>5, EphemeralKeeps
<1>11. OtherTypes'
    BY <1>1, <1>2, <1>3, <1>6 DEF OtherTypes, RegistryTypeOK
<1>12. EntriesHaveOrigin'
  <2>1. \A o \in Names : Canon(o) \in DOMAIN modules' => modules'[Canon(o)].persistent
      BY <1>1, <1>3, <1>8 DEF EntriesHaveOrigin
  <2>2. ASSUME NEW i \in 1..MaxVirtual, Virtual(i) \in DOMAIN modules' PROVE i <= counter'
    <3>1. CASE Virtual(i) = k
        BY <1>2, <1>4, <1>6, <3>1
    <3>2. CASE Virtual(i) # k
        BY <1>1, <1>2, <1>6, <1>8, <2>2, <3>2 DEF EntriesHaveOrigin
    <3>3. QED
        BY <3>1, <3>2
  <2>3. LoadedKeys(modules') \subseteq known'
      BY <1>1, <1>6, <1>10 DEF EntriesHaveOrigin
  <2>4. QED
      BY <2>1, <2>2, <2>3 DEF EntriesHaveOrigin, LoadedKeys, PersistentKeys
<1>13. WrappersUnloaded'
    BY <1>1, <1>5, <1>6, <1>8, <1>9 DEF WrappersUnloaded, PersistentKeys
<1>14. EvaluatesEphemeral'
  <2>1. evaluating'.key = k /\ counter + 1 \in 1..counter'
      BY <1>2, <1>6
  <2>2. evaluating'.key \notin PersistentKeys(modules')
      BY <1>5, <1>9, <2>1 DEF PersistentKeys
  <2>3. QED
      BY <2>1, <2>2 DEF EvaluatesEphemeral, PersistentKeys, k
<1>15. RegisteredIsImportable'
    BY <1>1, <1>6, <1>8 DEF RegisteredIsImportable
<1>16. QED
    BY <1>10, <1>11, <1>12, <1>13, <1>14, <1>15, InvParts

\* A load, of either kind: it takes nothing but its own key away.
LEMMA LoadStep ==
    ASSUME RegistryInv, NEW k, GetForLoad(k)
    PROVE  /\ MapInv(modules', lru', recency')
           /\ DOMAIN modules' \subseteq DOMAIN modules
           /\ DOMAIN modules \ {k} \subseteq DOMAIN modules'
           /\ \A x \in DOMAIN modules' : modules'[x].persistent = modules[x].persistent
           /\ \A x \in DOMAIN modules' \ {k} : modules'[x] = modules[x]
           /\ PersistentKeys(modules') = PersistentKeys(modules)
           /\ LoadedKeys(modules') \subseteq LoadedKeys(modules) \cup {k}
<1>1. MapInv(modules, lru, recency)
    BY DEF RegistryInv
<1>2. CASE LoadPersistent(k)
  <2>1. /\ k \in PersistentKeys(modules)
        /\ modules' = Put(modules, k, [modules[k] EXCEPT !.loaded = TRUE])
        /\ lru' = Touch(lru, k)
        /\ recency' = Append(Without(recency, k), k)
      BY <1>2 DEF LoadPersistent
  <2>2. /\ MapInv(modules', lru', recency')
        /\ DOMAIN modules' = DOMAIN modules
        /\ \A x \in DOMAIN modules : modules'[x].persistent = modules[x].persistent
        /\ \A x \in DOMAIN modules \ {k} : modules'[x] = modules[x]
        /\ PersistentKeys(modules') = PersistentKeys(modules)
        /\ LoadedKeys(modules') = LoadedKeys(modules) \cup {k}
      BY <1>1, <2>1, LoadPersistentKeeps
  <2>3. QED
      BY <2>2
<1>3. CASE LoadEphemeral(k)
  <2>1. /\ k \in DOMAIN modules /\ k \notin PersistentKeys(modules)
        /\ modules' = IF modules[k].left > 1
                      THEN [modules EXCEPT ![k].left = @ - 1]
                      ELSE Drop(modules, {k})
        /\ UNCHANGED <<lru, recency>>
      BY <1>3 DEF LoadEphemeral
  <2>2. modules[k] \in Entries /\ ~modules[k].persistent /\ modules[k].left \in 1..Budget
      BY <1>1, <2>1 DEF MapInv, PersistentKeys, Entries, Budget
  <2>3. CASE modules[k].left > 1
    <3>1. modules' = [x \in DOMAIN modules |->
                         IF x = k THEN [modules[k] EXCEPT !.left = @ - 1] ELSE modules[x]]
        BY <2>1, <2>3
    <3> DEFINE e == [modules[k] EXCEPT !.left = @ - 1]
    <3>2. e \in Entries /\ e.persistent = FALSE /\ e.left # 0 /\ modules[k].persistent = FALSE
        BY <2>2, <2>3 DEF Entries, Budget
    <3> HIDE DEF e
    <3>3. /\ DOMAIN modules' = DOMAIN modules
          /\ \A x \in DOMAIN modules : modules'[x] = IF x = k THEN e ELSE modules[x]
        BY <3>1 DEF e
    <3>4. PersistentKeys(modules') = PersistentKeys(modules)
        BY <3>2, <3>3 DEF PersistentKeys
    <3>5. DOMAIN modules' \subseteq Keys
        BY <1>1, <3>3 DEF MapInv
    <3>6. \A x \in DOMAIN modules' :
              modules'[x] \in Entries /\ (modules'[x].persistent <=> modules'[x].left = 0)
        BY <1>1, <3>2, <3>3 DEF MapInv
    <3>7. \A x \in PersistentKeys(modules) : modules'[x] = modules[x]
        BY <2>1, <3>3 DEF PersistentKeys
    <3>8. MapInv(modules', lru, recency) /\ LoadedKeys(modules') = LoadedKeys(modules)
        BY <1>1, <3>4, <3>5, <3>6, <3>7, EphemeralKeeps
    <3>9. \A x \in DOMAIN modules' : modules'[x].persistent = modules[x].persistent
        BY <3>2, <3>3
    <3>10. QED
        BY <2>1, <3>3, <3>4, <3>8, <3>9
  <2>4. CASE ~(modules[k].left > 1)
    <3>1. modules' = Drop(modules, {k})
        BY <2>1, <2>4
    <3>2. /\ DOMAIN modules' = DOMAIN modules \ {k}
          /\ \A x \in DOMAIN modules' : modules'[x] = modules[x]
        BY <3>1 DEF Drop
    <3>3. PersistentKeys(modules') = PersistentKeys(modules)
        BY <2>1, <3>2 DEF PersistentKeys
    <3>4. DOMAIN modules' \subseteq Keys
        BY <1>1, <3>2 DEF MapInv
    <3>5. \A x \in DOMAIN modules' :
              modules'[x] \in Entries /\ (modules'[x].persistent <=> modules'[x].left = 0)
        BY <1>1, <3>2 DEF MapInv
    <3>6. \A x \in PersistentKeys(modules) : modules'[x] = modules[x]
        BY <2>1, <3>2 DEF PersistentKeys
    <3>7. MapInv(modules', lru, recency) /\ LoadedKeys(modules') = LoadedKeys(modules)
        BY <1>1, <3>3, <3>4, <3>5, <3>6, EphemeralKeeps
    <3>8. QED
        BY <2>1, <3>2, <3>3, <3>7
  <2>5. QED
      BY <2>3, <2>4
<1>4. QED
    BY <1>2, <1>3 DEF GetForLoad

LEMMA LoadEvalInv ==
    ASSUME RegistryInv, LoadEval
    PROVE  RegistryInv'
<1> DEFINE k == evaluating.key
<1>1. RegistryTypeOK /\ EntriesHaveOrigin /\ WrappersUnloaded /\ EvaluatesEphemeral /\ RegisteredIsImportable
    BY DEF RegistryInv
<1>2. /\ evaluating.stage = "load" /\ GetForLoad(k) /\ known' = known \cup {k}
      /\ evaluating' = [evaluating EXCEPT !.stage = "run"]
      /\ UNCHANGED <<aliases, counter, wrappers>>
    BY DEF LoadEval
<1>3. evaluating # Idle
    BY <1>2, IdleFacts
<1>4. PICK i \in 1..counter : k = Virtual(i)
    BY <1>1, <1>3 DEF EvaluatesEphemeral
<1>5. k \notin PersistentKeys(modules) /\ k \in Keys /\ \A n : k # Canon(n)
  <2>1. i \in 1..MaxVirtual
      BY <1>1, <1>4, RegistryAssumption DEF RegistryTypeOK
  <2>2. QED
      BY <1>1, <1>3, <1>4, <2>1, KeyFacts DEF EvaluatesEphemeral
<1>6. /\ evaluating' \in [key : Keys \cup {Idle.key}, stage : {"idle", "load", "run"}]
      /\ evaluating'.key = k
    BY <1>1, <1>2 DEF RegistryTypeOK
<1> HIDE DEF k
<1>7. /\ MapInv(modules', lru', recency')
      /\ DOMAIN modules' \subseteq DOMAIN modules
      /\ DOMAIN modules \ {k} \subseteq DOMAIN modules'
      /\ \A x \in DOMAIN modules' : modules'[x].persistent = modules[x].persistent
      /\ \A x \in DOMAIN modules' \ {k} : modules'[x] = modules[x]
      /\ PersistentKeys(modules') = PersistentKeys(modules)
      /\ LoadedKeys(modules') \subseteq LoadedKeys(modules) \cup {k}
    BY <1>2, LoadStep
<1>8. OtherTypes'
    BY <1>1, <1>2, <1>5, <1>6 DEF OtherTypes, RegistryTypeOK
<1>9. EntriesHaveOrigin'
  <2>1. LoadedKeys(modules') \subseteq known'
      BY <1>1, <1>2, <1>7 DEF EntriesHaveOrigin
  <2>2. QED
      BY <1>1, <1>2, <1>7, <2>1 DEF EntriesHaveOrigin, LoadedKeys, PersistentKeys
<1>10. WrappersUnloaded'
  <2>1. ASSUME NEW w \in wrappers
        PROVE  /\ w \in PersistentKeys(modules') /\ ~modules'[w].loaded
               /\ \E j \in 1..MaxVirtual : w = Virtual(j)
    <3>1. /\ w \in PersistentKeys(modules) /\ ~modules[w].loaded /\ w # k
          /\ \E j \in 1..MaxVirtual : w = Virtual(j)
        BY <1>1, <1>5, <2>1 DEF WrappersUnloaded
    <3>2. w \in DOMAIN modules' \ {k}
        BY <1>7, <3>1 DEF PersistentKeys
    <3>3. QED
        BY <1>7, <3>1, <3>2
  <2>2. QED
      BY <1>2, <2>1 DEF WrappersUnloaded, PersistentKeys
<1>11. EvaluatesEphemeral'
  <2>1. evaluating'.key \notin PersistentKeys(modules')
      BY <1>5, <1>6, <1>7
  <2>2. \E j \in 1..counter' : evaluating'.key = Virtual(j)
      BY <1>2, <1>4, <1>6
  <2>3. QED
      BY <2>1, <2>2 DEF EvaluatesEphemeral, PersistentKeys
<1>12. RegisteredIsImportable'
    BY <1>1, <1>2, <1>7 DEF RegisteredIsImportable
<1>13. QED
    BY <1>7, <1>8, <1>9, <1>10, <1>11, <1>12, InvParts

LEMMA LoadInv ==
    ASSUME RegistryInv, NEW k \in Keys, NEW rewritten \in BOOLEAN, Load(k, rewritten)
    PROVE  RegistryInv'
<1>1. RegistryTypeOK /\ EntriesHaveOrigin /\ WrappersUnloaded /\ EvaluatesEphemeral /\ RegisteredIsImportable
    BY DEF RegistryInv
<1>2. /\ GetForLoad(k) /\ known' = known \cup {k} /\ wrappers' = wrappers \ {k}
      /\ UNCHANGED <<aliases, counter, evaluating>>
    BY DEF Load
<1>3. /\ MapInv(modules', lru', recency')
      /\ DOMAIN modules' \subseteq DOMAIN modules
      /\ DOMAIN modules \ {k} \subseteq DOMAIN modules'
      /\ \A x \in DOMAIN modules' : modules'[x].persistent = modules[x].persistent
      /\ \A x \in DOMAIN modules' \ {k} : modules'[x] = modules[x]
      /\ PersistentKeys(modules') = PersistentKeys(modules)
      /\ LoadedKeys(modules') \subseteq LoadedKeys(modules) \cup {k}
    BY <1>2, LoadStep
<1>4. OtherTypes'
    BY <1>1, <1>2 DEF OtherTypes, RegistryTypeOK
<1>5. EntriesHaveOrigin'
  <2>1. LoadedKeys(modules') \subseteq known'
      BY <1>1, <1>2, <1>3 DEF EntriesHaveOrigin
  <2>2. QED
      BY <1>1, <1>2, <1>3, <2>1 DEF EntriesHaveOrigin, LoadedKeys, PersistentKeys
<1>6. WrappersUnloaded'
  <2>1. ASSUME NEW w \in wrappers \ {k}
        PROVE  /\ w \in PersistentKeys(modules') /\ ~modules'[w].loaded
               /\ \E j \in 1..MaxVirtual : w = Virtual(j)
    <3>1. /\ w \in PersistentKeys(modules) /\ ~modules[w].loaded
          /\ \E j \in 1..MaxVirtual : w = Virtual(j)
        BY <1>1, <2>1 DEF WrappersUnloaded
    <3>2. w \in DOMAIN modules' \ {k}
        BY <1>3, <2>1, <3>1 DEF PersistentKeys
    <3>3. QED
        BY <1>3, <3>1, <3>2
  <2>2. QED
      BY <1>2, <2>1 DEF WrappersUnloaded, PersistentKeys
<1>7. EvaluatesEphemeral'
  <2>1. PersistentKeys(modules)' = PersistentKeys(modules)
      BY <1>3 DEF PersistentKeys
  <2>2. QED
      BY <1>1, <1>2, <2>1 DEF EvaluatesEphemeral
<1>8. RegisteredIsImportable'
    BY <1>1, <1>2, <1>3 DEF RegisteredIsImportable
<1>9. QED
    BY <1>3, <1>4, <1>5, <1>6, <1>7, <1>8, InvParts

LEMMA EndEvalInv ==
    ASSUME RegistryInv, NEW ok \in BOOLEAN, EndEval(ok)
    PROVE  RegistryInv'
<1> DEFINE k == evaluating.key
<1>1. RegistryTypeOK /\ EntriesHaveOrigin /\ WrappersUnloaded /\ EvaluatesEphemeral /\ RegisteredIsImportable
    BY DEF RegistryInv
<1>2. /\ evaluating # Idle /\ evaluating' = Idle
      /\ modules' = IF ok THEN modules ELSE Drop(modules, {k})
      /\ UNCHANGED <<aliases, lru, counter, known, wrappers, recency>>
    BY DEF EndEval
<1>3. k \notin PersistentKeys(modules) /\ \A n : k # Canon(n)
    BY <1>1, <1>2, KeyFacts DEF EvaluatesEphemeral
<1>4. MapInv(modules, lru, recency)
    BY DEF RegistryInv
<1> HIDE DEF k
<1>5. /\ DOMAIN modules' \subseteq DOMAIN modules /\ DOMAIN modules \ {k} \subseteq DOMAIN modules'
      /\ \A x \in DOMAIN modules' : modules'[x] = modules[x]
    BY <1>2 DEF Drop
<1>6. PersistentKeys(modules') = PersistentKeys(modules)
    BY <1>3, <1>5 DEF PersistentKeys
<1>7. MapInv(modules', lru', recency') /\ LoadedKeys(modules') = LoadedKeys(modules)
  <2>1. \A x \in DOMAIN modules' : modules'[x] \in Entries /\ (modules'[x].persistent <=> modules'[x].left = 0)
      BY <1>4, <1>5 DEF MapInv
  <2>2. DOMAIN modules' \subseteq Keys
      BY <1>4, <1>5 DEF MapInv
  <2>3. \A x \in PersistentKeys(modules) : modules'[x] = modules[x]
      BY <1>5, <1>6 DEF PersistentKeys
  <2>4. QED
      BY <1>2, <1>4, <1>6, <2>1, <2>2, <2>3, EphemeralKeeps
<1>8. OtherTypes'
    BY <1>1, <1>2 DEF OtherTypes, RegistryTypeOK, Idle
<1>9. EntriesHaveOrigin'
  <2>1. LoadedKeys(modules') \subseteq known'
      BY <1>1, <1>2, <1>7 DEF EntriesHaveOrigin
  <2>2. QED
      BY <1>1, <1>2, <1>5, <2>1 DEF EntriesHaveOrigin, LoadedKeys, PersistentKeys
<1>10. WrappersUnloaded'
    BY <1>1, <1>2, <1>5, <1>6 DEF WrappersUnloaded, PersistentKeys
<1>11. EvaluatesEphemeral'
    BY <1>2 DEF EvaluatesEphemeral, Idle
<1>12. RegisteredIsImportable'
  <2>1. ASSUME NEW o \in DOMAIN aliases PROVE aliases[o] \in DOMAIN modules' \cup known
    <3>1. aliases[o] # k
        BY <1>1, <1>3, <2>1 DEF RegistryTypeOK
    <3>2. aliases[o] \in DOMAIN modules \cup known
        BY <1>1, <2>1 DEF RegisteredIsImportable
    <3>3. QED
        BY <1>5, <3>1, <3>2
  <2>2. QED
      BY <1>2, <2>1 DEF RegisteredIsImportable
<1>13. QED
    BY <1>7, <1>8, <1>9, <1>10, <1>11, <1>12, InvParts

LEMMA AbandonInv ==
    ASSUME RegistryInv, NEW k \in Keys, Abandon(k)
    PROVE  RegistryInv'
<1>1. /\ wrappers' \subseteq wrappers
      /\ UNCHANGED <<modules, aliases, lru, counter, known, evaluating, recency>>
    BY DEF Abandon
<1>2. /\ RegistryTypeOK /\ EntriesHaveOrigin /\ WrappersUnloaded /\ EvaluatesEphemeral
      /\ RegisteredIsImportable /\ MapInv(modules, lru, recency)
    BY DEF RegistryInv
<1>3. OtherTypes' /\ WrappersUnloaded'
    BY <1>1, <1>2 DEF OtherTypes, RegistryTypeOK, WrappersUnloaded, PersistentKeys
<1>4. EntriesHaveOrigin' /\ EvaluatesEphemeral' /\ RegisteredIsImportable'
    BY <1>1, <1>2 DEF EntriesHaveOrigin, EvaluatesEphemeral, RegisteredIsImportable,
                      LoadedKeys, PersistentKeys
<1>5. MapInv(modules', lru', recency')
    BY <1>1, <1>2
<1>6. QED
    BY <1>3, <1>4, <1>5, InvParts

LEMMA StutterInv ==
    ASSUME RegistryInv, UNCHANGED vars
    PROVE  RegistryInv'
BY DEF vars, RegistryInv, RegistryTypeOK, MapInv, QueueOf, Once, Before, EntriesHaveOrigin,
       WrappersUnloaded, EvaluatesEphemeral, RegisteredIsImportable, LoadedKeys,
       PersistentKeys, Range

\* Every step keeps the invariant.
LEMMA NextInv ==
    ASSUME RegistryInv, [Next]_vars
    PROVE  RegistryInv'
<1>1. ASSUME NEW n \in Names, Register(n) PROVE RegistryInv'
    BY <1>1, RegisterInv
<1>2. ASSUME NEW n \in Names, Clear(n) PROVE RegistryInv'
    BY <1>2, ClearInv
<1>3. CASE BeginEval
    BY <1>3, BeginEvalInv
<1>4. CASE LoadEval
    BY <1>4, LoadEvalInv
<1>5. ASSUME NEW ok \in BOOLEAN, EndEval(ok) PROVE RegistryInv'
    BY <1>5, EndEvalInv
<1>6. CASE ServeSource
    BY <1>6, ServeSourceInv
<1>7. ASSUME NEW k \in Keys, Abandon(k) PROVE RegistryInv'
    BY <1>7, AbandonInv
<1>8. ASSUME NEW k \in Keys, NEW rewritten \in BOOLEAN, Load(k, rewritten) PROVE RegistryInv'
    BY <1>8, LoadInv
<1>9. CASE UNCHANGED vars
    BY <1>9, StutterInv
<1>10. QED
    BY <1>1, <1>2, <1>3, <1>4, <1>5, <1>6, <1>7, <1>8, <1>9 DEF Next

LEMMA InvAlways == Spec => []RegistryInv
<1>1. Init => RegistryInv
    BY InitInv
<1>2. RegistryInv /\ [Next]_vars => RegistryInv'
    BY NextInv
<1>3. QED
    BY <1>1, <1>2, PTL DEF Spec

-----------------------------------------------------------------------------
(***************************************************************************)
(* The theorems.                                                           *)
(***************************************************************************)
LEMMA InvImplies ==
    ASSUME RegistryInv
    PROVE  RegistryConsistent /\ WrapperCanLink /\ RegisteredIsImportable
<1>1. QueueOf(modules, lru) /\ RegistryTypeOK
    BY DEF RegistryInv, MapInv
<1>2. {lru[i] : i \in 1..Len(lru)} = PersistentKeys(modules)
    BY <1>1, RangeOfSeq DEF QueueOf
<1>3. Len(lru) = Cardinality(PersistentKeys(modules))
    BY <1>1, QueueCardinality
<1>4. QED
    BY <1>1, <1>2, <1>3 DEF RegistryConsistent, QueueMatchesMap, RegistryInv, WrapperCanLink,
                            WrappersUnloaded

\* The queue that decides who goes holds every persistent entry once and nothing
\* else (put_persistent, get_for_load, remove_named, evict_persistent_if_needed).
THEOREM QueueHoldsTheMap == Spec => []RegistryConsistent
<1>1. RegistryInv => RegistryConsistent
    BY InvImplies
<1>2. QED
    BY <1>1, InvAlways, PTL

\* The source behind a served wrapper is there until it is linked
\* (build_source_typed_module against eviction and module.clear).
THEOREM ServedWrapperLinks == Spec => []WrapperCanLink
<1>1. RegistryInv => WrapperCanLink
    BY InvImplies
<1>2. QED
    BY <1>1, InvAlways, PTL

\* A registered name can be imported until it is cleared: eviction takes only what
\* V8 already holds.
THEOREM RegisteredStaysImportable == Spec => []RegisteredIsImportable
<1>1. RegistryInv => RegisteredIsImportable
    BY InvImplies
<1>2. QED
    BY <1>1, InvAlways, PTL

\* What a put does, from the facts of StoreStep.
LEMMA StoreEvictsOldest ==
    ASSUME RegistryInv, NEW k \in Keys, Store(k)
    PROVE  OldestGoFirst /\ CapRestored
<1>1. MapInv(modules, lru, recency)
    BY DEF RegistryInv
<1>2. recency \in Seq(Keys) /\ Range(recency) = LoadedKeys(modules)
    BY <1>1 DEF MapInv
<1>3. PICK E \in SUBSET (LoadedKeys(modules) \ {k}) :
          /\ DOMAIN modules' = (DOMAIN modules \cup {k}) \ E
          /\ \A x \in DOMAIN modules' :
                modules'[x] = IF x = k THEN Persistent ELSE modules[x]
          /\ \A x, y : Before(recency, x, y) /\ y \in E => x \in E \cup {k}
    BY StoreStep
<1>4. OldestGoFirst
  <2>1. SUFFICES ASSUME NEW i \in 1..Len(recency), NEW j \in 1..Len(recency), i < j,
                        recency[j] \notin DOMAIN modules', recency[i] \in DOMAIN modules'
                 PROVE  ~modules'[recency[i]].loaded
      BY DEF OldestGoFirst
  <2>2. Before(recency, recency[i], recency[j])
      BY <2>1 DEF Before
  <2>3. recency[j] \in E
    <3>1. recency[j] \in LoadedKeys(modules)
        BY <1>2, RangeOfSeq
    <3>2. QED
        BY <1>3, <2>1, <3>1 DEF LoadedKeys, PersistentKeys
  <2>4. recency[i] = k
      BY <1>3, <2>1, <2>2, <2>3
  <2>5. QED
      BY <1>3, <2>1, <2>4 DEF Persistent
<1>5. CapRestored
  <2>1. Cardinality(PersistentKeys(modules')) <= Limit \/ LoadedKeys(modules') = {}
      BY StoreStep
  <2>2. QED
      BY <2>1 DEF CapRestored, LoadedKeys
<1>6. QED
    BY <1>4, <1>5

\* A put that goes over the limit evicts what was loaded longest ago, and until the
\* limit holds again or nothing loaded is left (evict_persistent_if_needed).
THEOREM EvictionIsLeastRecent == Spec => PutEvictsLeastRecent
<1>1. ASSUME RegistryInv, [Next]_vars
      PROVE  [StoreRequest => OldestGoFirst /\ CapRestored]_vars
  <2>1. ASSUME ServeSource PROVE OldestGoFirst /\ CapRestored
    <3>1. counter + 1 \in 1..MaxVirtual
        BY <1>1, <2>1, RegistryAssumption DEF ServeSource, RegistryInv, RegistryTypeOK
    <3>2. Virtual(counter + 1) \in Keys /\ Store(Virtual(counter + 1))
        BY <2>1, <3>1, KeyFacts DEF ServeSource
    <3>3. QED
        BY <1>1, <3>2, StoreEvictsOldest
  <2>2. ASSUME NEW n \in Names, Register(n) PROVE OldestGoFirst /\ CapRestored
    <3>1. Canon(n) \in Keys /\ Store(Canon(n))
        BY <2>2, KeyFacts DEF Register
    <3>2. QED
        BY <1>1, <3>1, StoreEvictsOldest
  <2>3. QED
      BY <2>1, <2>2 DEF StoreRequest
<1>2. QED
    BY <1>1, InvAlways, PTL DEF PutEvictsLeastRecent, Spec
=============================================================================
