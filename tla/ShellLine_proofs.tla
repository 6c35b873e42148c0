--------------------------- MODULE ShellLine_proofs ---------------------------
(***************************************************************************)
(* Proofs about module ShellLine, for every size of the line and of the    *)
(* ring, every alphabet, every set of commands and every script, and about *)
(* the environment of ShellEnv, for every sequence of calls.               *)
(***************************************************************************)
EXTENDS ShellEnv, TLAPS, WellFoundedInduction, SequenceTheorems, FiniteSetTheorems

-----------------------------------------------------------------------------
(* Least elements and loops.                                                *)

\* A set of numbers has a least one.
LEMMA LeastNat ==
  ASSUME NEW T \in SUBSET Nat, T # {}
  PROVE  \E x \in T : \A y \in T : x <= y
<1>1. PICK x \in T : \A y \in T : <<y, x>> \notin OpToRel(<, Nat)
  BY NatLessThanWellFounded, WFMin, Zenon
<1>2. ASSUME NEW y \in T PROVE ~ (y < x)
  <2>1. y \in Nat /\ x \in Nat
    OBVIOUS
  <2>2. QED
    BY <1>1, <2>1 DEF OpToRel
<1>3. QED
  BY <1>2

\* Induction, for the set of the numbers that have a property: what holds
\* before a loop and after every round of it holds after all of them.
LEMMA SetInduction ==
  ASSUME NEW n \in Nat, NEW T, 0 \in T,
         \A k \in 0..(n - 1) : k \in T => k + 1 \in T
  PROVE  0..n \subseteq T
<1> DEFINE Rest == {k \in 0..n : k \notin T}
<1>1. SUFFICES ASSUME Rest # {}
               PROVE  FALSE
  OBVIOUS
<1>2. Rest \in SUBSET Nat
  OBVIOUS
<1>3. PICK m \in Rest : \A k \in Rest : m <= k
  BY <1>1, <1>2, LeastNat
<1>4. m \in 0..n /\ m \notin T /\ m # 0
  BY <1>3
<1>5. m - 1 \in 0..(n - 1) /\ m - 1 \in 0..n /\ m - 1 + 1 = m
  BY <1>4
<1>6. m - 1 \notin Rest
  BY <1>3, <1>4, <1>5
<1>7. QED
  BY <1>4, <1>5, <1>6

\* The values after each of n rounds of a loop that starts with a and turns x
\* into step[k, x] in round k.
IsLoop(f, S, a, n, step) ==
    f \in [0..n -> S] /\ f[0] = a /\ \A k \in 1..n : f[k] = step[<<k, f[k - 1]>>]

\* Such a loop has a value after each round.
LEMMA Iteration ==
  ASSUME NEW S, NEW a \in S, NEW n \in Nat, NEW step \in [(1..n) \X S -> S]
  PROVE  \E f : IsLoop(f, S, a, n, step)
<1> DEFINE Loop(f, m) == f[0] = a /\ \A k \in 1..m : f[k] = step[<<k, f[k - 1]>>]
           T == {m \in 0..n : \E f \in [0..m -> S] : Loop(f, m)}
<1>1. 0 \in T
  <2> DEFINE f == [k \in 0..0 |-> a]
  <2>1. f \in [0..0 -> S] /\ Loop(f, 0)
    OBVIOUS
  <2> HIDE DEF f
  <2>2. QED
    BY <2>1
<1>2. ASSUME NEW m \in 0..(n - 1), m \in T
      PROVE  m + 1 \in T
  <2>1. PICK f \in [0..m -> S] : Loop(f, m)
    BY <1>2
  <2> DEFINE g == [k \in 0..(m + 1) |-> IF k = m + 1 THEN step[<<m + 1, f[m]>>] ELSE f[k]]
  <2>2. m + 1 \in 1..n /\ f[m] \in S
    OBVIOUS
  <2>3. <<m + 1, f[m]>> \in (1..n) \X S
    BY <2>2
  <2>4. step[<<m + 1, f[m]>>] \in S
    BY <2>3
  <2>5. g \in [0..(m + 1) -> S]
    BY <2>4
  <2>6. g[0] = a
    BY <2>1
  <2>7. ASSUME NEW k \in 1..(m + 1)
        PROVE  g[k] = step[<<k, g[k - 1]>>]
    <3>1. CASE k = m + 1
      <4>1. k \in 0..(m + 1) /\ k - 1 = m /\ m \in 0..(m + 1) /\ m # m + 1
        BY <3>1
      <4>2. g[k] = step[<<k, f[m]>>] /\ g[k - 1] = f[m]
        BY <4>1, <3>1
      <4>3. QED
        BY <4>2
    <3>2. CASE k # m + 1
      <4>1. k \in 1..m /\ k - 1 \in 0..(m + 1) /\ k - 1 # m + 1 /\ k \in 0..(m + 1)
        BY <3>2
      <4>2. g[k] = f[k] /\ g[k - 1] = f[k - 1]
        BY <4>1, <3>2
      <4>3. f[k] = step[<<k, f[k - 1]>>]
        BY <4>1, <2>1
      <4>4. QED
        BY <4>2, <4>3
    <3>3. QED
      BY <3>1, <3>2
  <2> HIDE DEF g
  <2>8. Loop(g, m + 1)
    BY <2>6, <2>7
  <2>9. m + 1 \in 0..n
    OBVIOUS
  <2>10. QED
    BY <2>5, <2>8, <2>9
<1>3. 0..n \subseteq T
  <2> HIDE DEF T
  <2>1. QED
    BY <1>1, <1>2, SetInduction
<1>4. n \in T
  BY <1>3
<1>5. PICK f \in [0..n -> S] : Loop(f, n)
  BY <1>4
<1>6. IsLoop(f, S, a, n, step)
  BY <1>5 DEF IsLoop
<1>7. QED
  BY <1>6

-----------------------------------------------------------------------------
(* Minima and maxima.                                                       *)

LEMMA MinOfTwo ==
  ASSUME NEW a \in Int, NEW b \in Int
  PROVE  Min({a, b}) = IF a <= b THEN a ELSE b
<1>1. CASE a <= b
  <2>1. a \in {a, b} /\ \A y \in {a, b} : a =< y
    BY <1>1
  <2>2. \A x \in {a, b} : (\A y \in {a, b} : x =< y) => x = a
    BY <1>1
  <2>3. QED
    BY <1>1, <2>1, <2>2 DEF Min
<1>2. CASE b < a
  <2>1. b \in {a, b} /\ \A y \in {a, b} : b =< y
    BY <1>2
  <2>2. \A x \in {a, b} : (\A y \in {a, b} : x =< y) => x = b
    BY <1>2
  <2>3. QED
    BY <1>2, <2>1, <2>2 DEF Min
<1>3. QED
  BY <1>1, <1>2

\* The greatest element of a set of numbers, where one is known.
LEMMA MaxIs ==
  ASSUME NEW T, T \subseteq Int, NEW m \in T, \A x \in T : x <= m
  PROVE  Max(T) = m
<1>1. m \in T /\ \A y \in T : m >= y
  OBVIOUS
<1>2. \A x \in T : (\A y \in T : x >= y) => x = m
  OBVIOUS
<1>3. QED
  BY <1>1, <1>2 DEF Max

LEMMA MaxOfTwo ==
  ASSUME NEW a \in Int, NEW b \in Int
  PROVE  Max({a, b}) = IF a >= b THEN a ELSE b
<1>1. CASE a >= b
  BY <1>1, MaxIs
<1>2. CASE b > a
  BY <1>2, MaxIs
<1>3. QED
  BY <1>1, <1>2

\* A set of numbers with a bound has a greatest one.
LEMMA MaxExists ==
  ASSUME NEW n \in Nat, NEW T, T \subseteq 0..n, T # {}
  PROVE  Max(T) \in T /\ \A x \in T : x <= Max(T)
<1> DEFINE D == {n - x : x \in T}
<1>1. D \in SUBSET Nat /\ D # {}
  <2>1. \A x \in T : x \in 0..n /\ n - x \in Nat
    OBVIOUS
  <2>2. QED
    BY <2>1
<1>2. PICK d \in D : \A y \in D : d <= y
  BY <1>1, LeastNat
<1>3. PICK m \in T : d = n - m
  BY <1>2
<1>4. \A x \in T : x <= m
  <2> SUFFICES ASSUME NEW x \in T PROVE x <= m
    OBVIOUS
  <2>1. x \in 0..n /\ m \in 0..n
    OBVIOUS
  <2>2. n - x \in D
    OBVIOUS
  <2>3. n - m <= n - x
    BY <1>2, <1>3, <2>2
  <2>4. QED
    BY <2>1, <2>3
<1>5. T \subseteq Int
  OBVIOUS
<1>6. QED
  BY <1>4, <1>5, MaxIs

-----------------------------------------------------------------------------
(* The ring.                                                                *)

\* The constants.
LEMMA Sizes ==
  /\ CMD_BUF_SIZE \in Nat /\ CMD_BUF_SIZE >= 2
  /\ HISTORY_SIZE \in Nat /\ HISTORY_SIZE > 0
  /\ NUL \notin Alphabet /\ Chars \subseteq Alphabet /\ Blank \in Alphabet
  /\ cmds \subseteq Strings
BY ShellLineAssumption

Slots == 0..HISTORY_SIZE - 1

LEMMA SlotInRing ==
  ASSUME NEW i \in Nat
  PROVE  Slot(i) \in Slots
BY Sizes, SMTT(30) DEF Slot, Slots

\* Two lines share a slot only if a whole round of the ring is between them.
LEMMA SlotOnce ==
  ASSUME NEW i \in Nat, NEW j \in Nat, i < j, j < i + HISTORY_SIZE
  PROVE  Slot(i) # Slot(j)
<1> DEFINE n == HISTORY_SIZE
           p == i \div n
           q == j \div n
<1>1. n \in Nat /\ n > 0
  BY Sizes
<1>2. p \in Int /\ q \in Int /\ i = n * p + (i % n) /\ j = n * q + (j % n)
  BY <1>1
<1>3. SUFFICES ASSUME i % n = j % n PROVE FALSE
  BY DEF Slot
<1>4. j - i = n * (q - p)
  <2>1. n * (q - p) = n * q - n * p
    BY <1>1, <1>2, SMTT(30)
  <2>2. i % n \in Int /\ n * p \in Int /\ n * q \in Int
    BY <1>1, <1>2
  <2>3. QED
    BY <1>2, <1>3, <2>1, <2>2
<1>5. CASE q - p <= 0
  <2>1. n * (q - p) <= 0
    BY <1>1, <1>2, <1>5, SMTT(30)
  <2>2. QED
    BY <2>1, <1>4, <1>1
<1>6. CASE q - p >= 1
  <2>1. n * (q - p) >= n
    BY <1>1, <1>2, <1>6, SMTT(30)
  <2>2. QED
    BY <2>1, <1>4, <1>1
<1>7. QED
  BY <1>2, <1>5, <1>6

\* The number of entries of a ring into which c lines were put.
Held(c) == IF c <= HISTORY_SIZE THEN c ELSE HISTORY_SIZE

\* The lines of ring h after c lines, the oldest first.
Ring(h, c) == [k \in 1..Held(c) |-> h[Slot(c - Held(c) + k - 1)]]

LEMMA EntriesIsRing ==
  ASSUME history_count \in Nat
  PROVE  Entries = Ring(history, history_count)
<1>1. Min({history_count, HISTORY_SIZE}) = Held(history_count)
  BY Sizes, MinOfTwo DEF Held
<1>2. QED
  BY <1>1 DEF Entries, Ring

LEMMA RingType ==
  ASSUME NEW h \in [Slots -> Strings], NEW c \in Nat
  PROVE  /\ Ring(h, c) \in Seq(Strings)
         /\ Len(Ring(h, c)) = Held(c)
         /\ Held(c) \in 0..HISTORY_SIZE /\ Held(c) <= c
         /\ \A k \in 1..Held(c) :
               c - Held(c) + k - 1 \in Nat /\ Ring(h, c)[k] = h[Slot(c - Held(c) + k - 1)]
<1>1. Held(c) \in 0..HISTORY_SIZE /\ Held(c) <= c
  BY Sizes DEF Held
<1>2. \A k \in 1..Held(c) : c - Held(c) + k - 1 \in Nat
  BY <1>1
<1>3. \A k \in 1..Held(c) : h[Slot(c - Held(c) + k - 1)] \in Strings
  BY <1>2, SlotInRing
<1>4. Ring(h, c) \in [1..Held(c) -> Strings]
  BY <1>3 DEF Ring
<1>5. Held(c) \in Nat
  BY <1>1, Sizes
<1>6. Ring(h, c) \in Seq(Strings) /\ Len(Ring(h, c)) = Held(c)
  BY <1>4, <1>5
<1>7. \A k \in 1..Held(c) : Ring(h, c)[k] = h[Slot(c - Held(c) + k - 1)]
  BY DEF Ring
<1>8. QED
  BY <1>1, <1>2, <1>6, <1>7

LEMMA LatestType ==
  ASSUME NEW s \in Seq(Strings)
  PROVE  /\ Latest(s) \in Seq(Strings)
         /\ Len(Latest(s)) = Held(Len(s))
         /\ \A k \in 1..Held(Len(s)) : Latest(s)[k] = s[Len(s) - Held(Len(s)) + k]
         /\ Len(s) <= HISTORY_SIZE => Latest(s) = s
<1> DEFINE n == Len(s)
           m == n - Held(n) + 1
<1>0. n \in Nat
  BY LenProperties
<1>1. n \in Nat /\ Held(n) \in 0..n /\ m \in 1..(n + 1)
  <2> HIDE DEF n
  <2> QED BY <1>0, Sizes DEF Held
<1>2. Latest(s) = SubSeq(s, m, n)
  <2>1. m = IF n > HISTORY_SIZE THEN n - HISTORY_SIZE + 1 ELSE 1
    <3> HIDE DEF n
    <3> QED BY <1>0, Sizes DEF Held
  <2>2. QED
    BY <2>1 DEF Latest
<1>3. \A i \in m..n : s[i] \in Strings
  BY <1>1
<1>4. /\ SubSeq(s, m, n) \in Seq(Strings)
      /\ Len(SubSeq(s, m, n)) = IF m <= n THEN n - m + 1 ELSE 0
      /\ \A i \in 1..n - m + 1 : SubSeq(s, m, n)[i] = s[m + i - 1]
  <2>1. m \in Int /\ n \in Int
    BY <1>1
  <2> HIDE DEF m, n
  <2>2. QED
    BY <1>3, <2>1, SubSeqProperties
<1>5. ASSUME n <= HISTORY_SIZE PROVE Latest(s) = s
  <2>1. m = 1
    BY <1>1, <1>5 DEF Held
  <2>2. QED
    BY <1>2, <2>1, SubSeqFull
<1>6. n - m + 1 = Held(n) /\ \A k \in 1..Held(n) : m + k - 1 = n - Held(n) + k
  <2> HIDE DEF n
  <2> QED BY <1>1
<1>7. Len(Latest(s)) = Held(n)
  <2>1. (IF m <= n THEN n - m + 1 ELSE 0) = Held(n)
    <3> HIDE DEF n
    <3> QED BY <1>1
  <2>2. QED
    BY <2>1, <1>2, <1>4
<1>8. ASSUME NEW k \in 1..Held(n) PROVE Latest(s)[k] = s[n - Held(n) + k]
  BY <1>2, <1>4, <1>6
<1>9. QED
  BY <1>2, <1>4, <1>5, <1>7, <1>8

\* history_push: the new line is the newest, and the oldest goes when the ring
\* is full.
LEMMA RingPush ==
  ASSUME NEW h \in [Slots -> Strings], NEW c \in Nat, NEW l \in Strings
  PROVE  Ring([h EXCEPT ![Slot(c)] = l], c + 1) = Latest(Append(Ring(h, c), l))
<1> DEFINE g == [h EXCEPT ![Slot(c)] = l]
           s == Append(Ring(h, c), l)
<1>1. g \in [Slots -> Strings] /\ Slot(c) \in Slots
  BY SlotInRing
<1>2. s \in Seq(Strings) /\ Len(s) = Held(c) + 1 /\ Held(c) \in Nat
  <2>1. Ring(h, c) \in Seq(Strings) /\ Len(Ring(h, c)) = Held(c) /\ Held(c) \in 0..HISTORY_SIZE
    BY RingType, Zenon
  <2>2. Held(c) \in Nat
    BY <2>1, Sizes
  <2>3. QED
    BY <2>1, <2>2, AppendProperties
<1>3. Held(c + 1) = Held(Len(s)) /\ Held(c + 1) \in Nat
  BY <1>2, Sizes DEF Held
<1>4. ASSUME NEW k \in 1..Held(c + 1)
      PROVE  Ring(g, c + 1)[k] = Latest(s)[k]
  <2> DEFINE i == c + 1 - Held(c + 1) + k - 1
  <2>1. Ring(g, c + 1)[k] = g[Slot(i)] /\ i \in Nat
    <3> DEFINE d == c + 1
    <3>1. d \in Nat /\ i = d - Held(d) + k - 1 /\ k \in 1..Held(d)
      BY <1>3
    <3> HIDE DEF g, i, d
    <3>2. i \in Nat /\ Ring(g, d)[k] = g[Slot(i)]
      BY <1>1, <3>1, RingType
    <3>3. QED
      BY <3>2 DEF d
  <2>2. Latest(s)[k] = s[Held(c) + 1 - Held(c + 1) + k]
    <3> HIDE DEF s
    <3>1. Latest(s)[k] = s[Len(s) - Held(Len(s)) + k]
      BY <1>2, <1>3, LatestType, Zenon
    <3>2. QED
      BY <1>2, <1>3, <3>1
  <2>3. CASE k = Held(c + 1)
    <3>1. i = c /\ g[Slot(i)] = l
      BY <2>3, <1>3, <1>1
    <3>2. Held(c) + 1 - Held(c + 1) + k = Held(c) + 1
      BY <2>3, <1>2, <1>3
    <3>3. s[Held(c) + 1] = l
      BY RingType, <1>2
    <3>4. QED
      BY <2>1, <2>2, <3>1, <3>2, <3>3
  <2>4. CASE k < Held(c + 1)
    <3>1. i < c /\ c < i + HISTORY_SIZE
      BY <2>4, <1>3, Sizes DEF Held
    <3>2. Slot(i) # Slot(c) /\ Slot(i) \in Slots
      BY <3>1, <2>1, SlotOnce, SlotInRing
    <3>3. g[Slot(i)] = h[Slot(i)]
      BY <3>2
    <3> DEFINE j == Held(c) + 1 - Held(c + 1) + k
    <3>4. j \in 1..Held(c) /\ c - Held(c) + j - 1 = i
      BY <2>4, <1>3, Sizes DEF Held
    <3>5. Ring(h, c)[j] = h[Slot(i)]
      <4> HIDE DEF j, i
      <4> QED BY <3>4, RingType
    <3>6. s[j] = Ring(h, c)[j]
      <4> HIDE DEF j
      <4> QED BY <3>4, RingType, <1>2
    <3>7. QED
      BY <2>1, <2>2, <3>3, <3>5, <3>6
  <2>5. QED
    BY <2>3, <2>4, <1>3
<1>5. Ring(g, c + 1) \in Seq(Strings) /\ Len(Ring(g, c + 1)) = Held(c + 1)
  <2>1. c + 1 \in Nat
    OBVIOUS
  <2> HIDE DEF g
  <2>2. QED
    BY <1>1, <2>1, RingType
<1>6. Latest(s) \in Seq(Strings) /\ Len(Latest(s)) = Held(c + 1)
  <2> HIDE DEF s
  <2> QED BY <1>2, <1>3, LatestType
<1>7. QED
  <2> HIDE DEF g, s
  <2>1. Ring(g, c + 1) = Latest(s)
    BY <1>4, <1>5, <1>6, SeqEqual
  <2>2. QED
    BY <2>1 DEF g, s

\* history_load: the ring holds the last lines of the file.
LEMMA RingLoaded ==
  ASSUME NEW ls \in Seq(Strings), Len(ls) <= 2 * HISTORY_SIZE
  PROVE  /\ Min({Len(ls), 2 * HISTORY_SIZE}) = Len(ls)
         /\ Loaded(ls) \in [Slots -> Strings]
         /\ Ring(Loaded(ls), Len(ls)) = Latest(ls)
<1> DEFINE n == Len(ls)
           ks(s) == {k \in 1..n : Slot(k - 1) = s}
<1>1. n \in Nat /\ Min({n, 2 * HISTORY_SIZE}) = n
  BY Sizes, MinOfTwo
<1>2. Loaded(ls) = [s \in Slots |-> IF ks(s) = {} THEN <<>> ELSE ls[Max(ks(s))]]
  BY <1>1 DEF Loaded, Slots
<1>3. <<>> \in Strings
  BY Sizes DEF Strings
<1>4. ASSUME NEW s \in Slots, ks(s) # {}
      PROVE  Max(ks(s)) \in 1..n
  <2>1. ks(s) \subseteq 0..n
    OBVIOUS
  <2> HIDE DEF ks
  <2>2. Max(ks(s)) \in ks(s)
    BY <2>1, <1>4, <1>1, MaxExists
  <2>3. QED
    BY <2>2 DEF ks
<1>5. Loaded(ls) \in [Slots -> Strings]
  BY <1>2, <1>3, <1>4
<1>6. ASSUME NEW k \in 1..Held(n)
      PROVE  Ring(Loaded(ls), n)[k] = Latest(ls)[k]
  <2> DEFINE i == n - Held(n) + k - 1
  <2>1. Ring(Loaded(ls), n)[k] = Loaded(ls)[Slot(i)] /\ i \in Nat
    BY <1>1, <1>5, RingType
  <2>2. Held(n) \in 0..HISTORY_SIZE /\ Held(n) <= n
    BY <1>1, Sizes DEF Held
  <2>3. Latest(ls)[k] = ls[i + 1]
    BY LatestType, <2>2, <1>1
  <2>4. i + 1 \in 1..n /\ n - 1 < i + HISTORY_SIZE
    BY <2>2, <1>1, Sizes
  <2>5. Slot(i) \in Slots
    BY <2>1, SlotInRing
  <2>6. i + 1 \in ks(Slot(i))
    <3> DEFINE x == i + 1
    <3>1. x \in 1..n /\ x - 1 = i
      BY <2>1, <2>4
    <3>2. Slot(x - 1) = Slot(i)
      BY <3>1
    <3> HIDE DEF x, i
    <3>3. x \in ks(Slot(i))
      BY <3>1, <3>2
    <3>4. QED
      BY <3>3 DEF x
  <2>7. ASSUME NEW m \in ks(Slot(i)) PROVE m <= i + 1
    <3>1. m \in 1..n /\ Slot(m - 1) = Slot(i)
      BY <2>7
    <3>2. SUFFICES ASSUME m - 1 > i PROVE FALSE
      BY <3>1, <2>1
    <3>3. m - 1 \in Nat /\ m - 1 < i + HISTORY_SIZE
      BY <3>1, <2>4, <2>1, Sizes, <1>1
    <3>4. QED
      BY <3>1, <3>2, <3>3, <2>1, SlotOnce
  <2>8. Max(ks(Slot(i))) = i + 1
    <3>1. ks(Slot(i)) \subseteq Int
      BY <1>1
    <3> HIDE DEF ks, i
    <3> QED BY <2>6, <2>7, <3>1, MaxIs
  <2>9. Loaded(ls)[Slot(i)] = ls[i + 1]
    BY <1>2, <2>5, <2>6, <2>8
  <2>10. QED
    BY <2>1, <2>3, <2>9
<1>7. Ring(Loaded(ls), n) \in Seq(Strings) /\ Len(Ring(Loaded(ls), n)) = Held(n)
  BY <1>1, <1>5, RingType
<1>8. Latest(ls) \in Seq(Strings) /\ Len(Latest(ls)) = Held(n)
  BY LatestType
<1>9. QED
  BY <1>1, <1>5, <1>6, <1>7, <1>8, SeqEqual

-----------------------------------------------------------------------------
(* The history file.                                                        *)

\* A line takes at most as many bytes as an entry of the ring.
LEMMA BytesBound ==
  ASSUME NEW ls \in Seq(Strings)
  PROVE  Bytes(ls) \in Nat /\ Bytes(ls) <= Len(ls) * CMD_BUF_SIZE
<1> DEFINE n == Len(ls)
           C == CMD_BUF_SIZE
           step == [x \in (1..n) \X Nat |-> x[2] + Len(ls[x[1]]) + 1]
           Body(v) == [k \in 0..n |-> IF k = 0 THEN 0 ELSE v[k - 1] + Len(ls[k]) + 1]
           W == CHOOSE w : w = Body(w)
<1>1. n \in Nat /\ C \in Nat
  BY Sizes, LenProperties
<1>2. Bytes(ls) = W[n]
  BY DEF Bytes
<1>3. \A k \in 1..n : Len(ls[k]) \in Nat /\ Len(ls[k]) + 1 <= C
  <2>1. \A k \in 1..n : ls[k] \in Strings
    BY ElementOfSeq
  <2>2. QED
    BY <2>1, Sizes DEF Strings
<1>4. step \in [(1..n) \X Nat -> Nat]
  BY <1>3
<1>5. PICK w : IsLoop(w, Nat, 0, n, step)
  <2> HIDE DEF step, n
  <2>1. 0 \in Nat
    OBVIOUS
  <2>2. QED
    BY <1>1, <1>4, <2>1, Iteration, Zenon
<1>6. w = Body(w)
  <2>1. w \in [0..n -> Nat] /\ w[0] = 0
    BY <1>5 DEF IsLoop
  <2>2. ASSUME NEW k \in 1..n
        PROVE  w[k] = w[k - 1] + Len(ls[k]) + 1
    <3>1. w[k - 1] \in Nat
      BY <1>1, <2>1
    <3>2. <<k, w[k - 1]>> \in (1..n) \X Nat
      BY <3>1
    <3>3. step[<<k, w[k - 1]>>] = w[k - 1] + Len(ls[k]) + 1
      BY <3>2
    <3>4. QED
      BY <3>3, <1>5 DEF IsLoop
  <2>3. QED
    BY <1>1, <2>1, <2>2
<1>7. W = Body(W)
  BY <1>6
<1> HIDE DEF W
<1>8. W[0] = 0 /\ \A k \in 1..n : W[k] = W[k - 1] + Len(ls[k]) + 1
  <2>1. 0 \in 0..n /\ \A k \in 1..n : k \in 0..n /\ k # 0
    BY <1>1
  <2>2. \A k \in 0..n : W[k] = IF k = 0 THEN 0 ELSE W[k - 1] + Len(ls[k]) + 1
    BY <1>7
  <2>3. QED
    BY <2>1, <2>2
<1> DEFINE T == {k \in 0..n : W[k] \in Nat /\ W[k] <= k * C}
<1>9. 0 \in T
  BY <1>1, <1>8
<1>10. ASSUME NEW k \in 0..(n - 1), k \in T
       PROVE  k + 1 \in T
  <2>1. k + 1 \in 1..n /\ k + 1 - 1 = k /\ k + 1 \in 0..n
    BY <1>1
  <2>2. W[k + 1] = W[k] + Len(ls[k + 1]) + 1
    BY <2>1, <1>8
  <2>3. (k + 1) * C = k * C + C /\ k * C \in Nat
    BY <1>1, SMTT(30)
  <2>4. Len(ls[k + 1]) \in Nat /\ Len(ls[k + 1]) + 1 <= C
    BY <1>3, <2>1
  <2>5. W[k] \in Nat /\ W[k] <= k * C
    BY <1>10
  <2>6. W[k + 1] \in Nat /\ W[k + 1] <= k * C + C
    <3> HIDE DEF C
    <3> QED BY <2>2, <2>3, <2>4, <2>5, <1>1
  <2>7. QED
    BY <2>1, <2>3, <2>6
<1> HIDE DEF T
<1>11. 0..n \subseteq T
  <2> HIDE DEF n
  <2> QED BY <1>1, <1>9, <1>10, SetInduction
<1>12. n \in T
  BY <1>1, <1>11
<1>13. QED
  BY <1>2, <1>12 DEF T

\* history_save: all lines are saved, or all but the newest.
LEMMA KeptIs ==
  ASSUME NEW ls \in Seq(Strings), Len(ls) <= HISTORY_SIZE
  PROVE  /\ Kept(ls) = IF Bytes(ls) < HISTORY_SIZE * CMD_BUF_SIZE THEN ls ELSE Front(ls)
         /\ Kept(ls) \in Seq(Strings) /\ Len(Kept(ls)) <= HISTORY_SIZE
<1> DEFINE n == Len(ls)
           all == HISTORY_SIZE * CMD_BUF_SIZE
           K == {k \in 1..n : Bytes(SubSeq(ls, 1, k)) < all}
           m == Max({0} \cup K)
<1>1. n \in Nat /\ HISTORY_SIZE \in Nat /\ CMD_BUF_SIZE \in Nat /\ CMD_BUF_SIZE >= 2
  BY Sizes, LenProperties
<1>2. Kept(ls) = SubSeq(ls, 1, m)
  BY DEF Kept
<1>3. {0} \cup K \subseteq Int
  OBVIOUS
<1>4. SubSeq(ls, 1, n) = ls
  BY SubSeqFull
<1>5. ASSUME NEW k \in 1..n, k < HISTORY_SIZE
      PROVE  k \in K
  <2>1. SubSeq(ls, 1, k) \in Seq(Strings) /\ Len(SubSeq(ls, 1, k)) = k
    BY <1>1
  <2>2. Bytes(SubSeq(ls, 1, k)) \in Nat /\ Bytes(SubSeq(ls, 1, k)) <= k * CMD_BUF_SIZE
    BY <2>1, BytesBound
  <2>3. k * CMD_BUF_SIZE < all
    BY <1>1, <1>5, SMTT(30)
  <2>4. k * CMD_BUF_SIZE \in Nat /\ all \in Nat
    BY <1>1, SMTT(30)
  <2>5. QED
    <3> HIDE DEF all
    <3> QED BY <2>2, <2>3, <2>4
<1>6. CASE Bytes(ls) < all
  <2>1. n \in {0} \cup K
    <3>1. Bytes(SubSeq(ls, 1, n)) < all
      BY <1>4, <1>6, Zenon
    <3>2. n = 0 \/ n \in 1..n
      BY <1>1
    <3> HIDE DEF n, all
    <3>3. QED
      BY <3>1, <3>2
  <2>2. \A x \in {0} \cup K : x <= n
    BY <1>1
  <2>3. m = n
    <3> HIDE DEF K, n
    <3> QED BY <1>3, <2>1, <2>2, MaxIs
  <2>4. QED
    BY <1>2, <1>4, <1>6, <2>3
<1>7. CASE ~ (Bytes(ls) < all)
  <2>1. Bytes(ls) \in Nat /\ Bytes(ls) <= n * CMD_BUF_SIZE
    BY BytesBound
  <2>2. n = HISTORY_SIZE
    <3>1. SUFFICES ASSUME n < HISTORY_SIZE PROVE FALSE
      BY <1>1
    <3>2. n * CMD_BUF_SIZE < all /\ n * CMD_BUF_SIZE \in Nat /\ all \in Nat
      BY <1>1, <3>1, SMTT(30)
    <3>3. QED
      <4> HIDE DEF all, n
      <4> QED BY <1>7, <2>1, <3>2
  <2>3. n - 1 \in {0} \cup K /\ n - 1 \in Nat
    BY <1>5, <1>1, <2>2, Sizes
  <2>4. n \notin K
    BY <1>4, <1>7
  <2>5. \A x \in {0} \cup K : x <= n - 1
    BY <1>1, <2>3, <2>4
  <2>6. m = n - 1
    <3> HIDE DEF K, n
    <3> QED BY <1>3, <2>3, <2>5, MaxIs
  <2>7. Kept(ls) = Front(ls)
    BY <1>2, <2>6 DEF Front
  <2>8. SubSeq(ls, 1, n - 1) \in Seq(Strings) /\ Len(SubSeq(ls, 1, n - 1)) = n - 1
    BY <2>3
  <2>9. Kept(ls) \in Seq(Strings) /\ Len(Kept(ls)) = n - 1
    BY <1>2, <2>6, <2>8, Zenon
  <2>10. Len(Kept(ls)) <= HISTORY_SIZE
    BY <1>1, <2>2, <2>9
  <2>11. QED
    BY <1>7, <2>7, <2>9, <2>10, Zenon
<1>8. QED
  BY <1>6, <1>7

-----------------------------------------------------------------------------
(* The line.                                                                *)

Buffers == [1..CMD_BUF_SIZE -> Alphabet \cup {NUL}]

\* The line, and what the buffer holds.
LineInv ==
    /\ cmd_buf \in Buffers
    /\ spliced \in BOOLEAN
    /\ LineKept

LEMMA BufferLen ==
  ASSUME NEW b \in Buffers
  PROVE  Len(b) = CMD_BUF_SIZE /\ b \in Seq(Alphabet \cup {NUL})
BY Sizes DEF Buffers

\* A line of the history, a word or nothing replaces the line.
LEMMA ReplaceKeeps ==
  ASSUME NEW s \in Strings, Replace(s)
  PROVE  LineInv'
<1>1. s \in Seq(Alphabet) /\ Len(s) \in 0..CMD_BUF_SIZE - 1
  BY Sizes DEF Strings
<1>2. \A i \in 1..Len(s) : s[i] \in Alphabet /\ s[i] # NUL
  BY <1>1, Sizes
<1>3. cmd_buf' = [i \in 1..CMD_BUF_SIZE |-> IF i <= Len(s) THEN s[i] ELSE NUL]
  BY DEF Replace, Filled
<1>4. cmd_buf' \in Buffers
  BY <1>1, <1>2, <1>3 DEF Buffers
<1>5. Len(cmd_buf') = CMD_BUF_SIZE
  BY <1>4, BufferLen
<1>6. cmd_len' = Len(s) /\ cursor_pos' = Len(s) /\ spliced' = FALSE
  BY DEF Replace
<1>7. \A i \in 1..CMD_BUF_SIZE : i <= Len(s) => cmd_buf'[i] # NUL
  BY <1>1, <1>2, <1>3
<1>8. \A i \in Len(s) + 1..CMD_BUF_SIZE : cmd_buf'[i] = NUL
  BY <1>1, <1>3
<1>9. cmd_buf'[CMD_BUF_SIZE] = NUL
  BY <1>1, <1>8, Sizes
<1>10. Len(s) \in 0..Len(s)
  BY <1>1
<1>11. LineKept'
  <2> DEFINE n == Len(s)
  <2>1. cmd_len' = n /\ cursor_pos' = n /\ n \in 0..CMD_BUF_SIZE - 1 /\ n \in 0..n
    BY <1>1, <1>6, <1>10
  <2> HIDE DEF n
  <2>2. QED
    BY <2>1, <1>5, <1>7, <1>8, <1>9 DEF LineKept, n
<1>12. QED
  BY <1>4, <1>6, <1>11 DEF LineInv

LEMMA EmptyString == <<>> \in Strings
BY Sizes DEF Strings

\* The string at cmd_buf fits an entry of the history; it is the line, unless
\* the line came from a search.
LEMMA TextIs ==
  ASSUME LineInv
  PROVE  /\ Text(cmd_buf) \in Strings
         /\ ~ spliced => Text(cmd_buf) = Line
<1> DEFINE C == CMD_BUF_SIZE
           I == {i \in 1..Len(cmd_buf) : cmd_buf[i] = NUL}
           m == Min(I)
<1>1. C \in Nat /\ C >= 2 /\ Len(cmd_buf) = C /\ cmd_buf \in Buffers
  BY Sizes, BufferLen DEF LineInv
<1>2. C \in I
  BY <1>1 DEF LineInv, LineKept
<1>3. I \in SUBSET Nat /\ I # {}
  BY <1>1, <1>2
<1>4. PICK x \in I : \A y \in I : x <= y
  <2> HIDE DEF I
  <2> QED BY <1>3, LeastNat
<1>5. m = x
  <2>1. \A z \in I : (\A y \in I : z =< y) => z = x
    BY <1>4, <1>1
  <2> HIDE DEF I
  <2>2. QED
    BY <1>4, <2>1 DEF Min
<1>6. Str(cmd_buf) = x
  BY <1>2, <1>5 DEF Str, SelectInSeq
<1>7. x \in 1..C /\ cmd_buf[x] = NUL
  BY <1>1, <1>4
<1>8. Text(cmd_buf) = SubSeq(cmd_buf, 1, x - 1)
  BY <1>6, <1>7 DEF Text
<1>9. \A i \in 1..(x - 1) : cmd_buf[i] \in Alphabet
  <2>1. ASSUME NEW i \in 1..(x - 1) PROVE i \in 1..C /\ i \notin I
    BY <1>1, <1>4, <1>7
  <2>2. QED
    BY <2>1, <1>1 DEF Buffers
<1>10. SubSeq(cmd_buf, 1, x - 1) \in Seq(Alphabet) /\ Len(SubSeq(cmd_buf, 1, x - 1)) = x - 1
  <2>1. 1 \in Int /\ x - 1 \in Int /\ x - 1 >= 0
    BY <1>7, <1>1
  <2>2. QED
    BY <1>9, <2>1, SubSeqProperties
<1>11. Text(cmd_buf) \in Strings
  BY <1>1, <1>7, <1>8, <1>10 DEF Strings
<1>12. ASSUME ~ spliced PROVE Text(cmd_buf) = Line
  <2>1. cmd_len \in 0..C - 1 /\ \A i \in 1..C : cmd_buf[i] = NUL <=> i > cmd_len
    BY <1>12, <1>1 DEF LineInv, LineKept
  <2>2. cmd_len + 1 \in I
    BY <1>1, <2>1
  <2>3. x = cmd_len + 1
    BY <1>4, <1>7, <2>1, <2>2
  <2>4. QED
    BY <1>8, <2>1, <2>3 DEF Line
<1>13. QED
  BY <1>11, <1>12

\* Left, Right, Home and End.
LEMMA MoveKeeps ==
  ASSUME LineInv, MoveCursor
  PROVE  LineInv'
<1>1. cmd_len \in Int /\ cursor_pos \in 0..cmd_len
  BY DEF LineInv, LineKept
<1>2. Max({0, cursor_pos - 1}) \in 0..cmd_len /\ Min({cmd_len, cursor_pos + 1}) \in 0..cmd_len
  BY <1>1, MaxOfTwo, MinOfTwo
<1>3. cursor_pos' \in 0..cmd_len
  BY <1>1, <1>2 DEF MoveCursor
<1>4. QED
  BY <1>3 DEF MoveCursor, LineInv, LineKept

\* A character goes: the ones behind it move down, and the string is ended.
LEMMA ClosedKeeps ==
  ASSUME LineInv, NEW p \in 0..cmd_len - 1, cmd_len >= 1,
         cmd_buf' = Closed(p), cmd_len' = cmd_len - 1, cursor_pos' \in 0..cmd_len - 1,
         spliced' = spliced
  PROVE  LineInv'
<1> DEFINE C == CMD_BUF_SIZE
<1>1. C \in Nat /\ cmd_len \in 1..C - 1 /\ cmd_buf \in Buffers
  BY Sizes DEF LineInv, LineKept
<1>2. \A i \in 1..C : cmd_buf'[i] = IF i = cmd_len THEN NUL
                                    ELSE IF p < i /\ i < cmd_len THEN cmd_buf[i + 1] ELSE cmd_buf[i]
  BY DEF Closed
<1>3. \A i \in 1..C : cmd_buf[i] \in Alphabet \cup {NUL}
  BY <1>1 DEF Buffers
<1>4. \A i \in 1..C : cmd_buf'[i] \in Alphabet \cup {NUL}
  BY <1>1, <1>2, <1>3
<1>5. cmd_buf' \in Buffers
  <2>1. cmd_buf' = [i \in 1..C |-> cmd_buf'[i]]
    BY DEF Closed
  <2>2. QED
    BY <1>4, <2>1 DEF Buffers
<1>6. Len(cmd_buf') = C
  BY <1>5, BufferLen
<1>7. \A i \in 1..C : i <= cmd_len - 1 => cmd_buf'[i] # NUL
  BY <1>1, <1>2 DEF LineInv, LineKept
<1>8. cmd_buf'[C] = NUL
  <2>1. cmd_buf[C] = NUL /\ C \in 1..C /\ C # cmd_len /\ ~ (C < cmd_len)
    BY <1>1 DEF LineInv, LineKept
  <2>2. QED
    BY <2>1, <1>2
<1>9. ASSUME ~ spliced, NEW i \in cmd_len..C PROVE cmd_buf'[i] = NUL
  <2>1. i = cmd_len \/ (i \in cmd_len + 1..C /\ ~ (i < cmd_len) /\ i # cmd_len)
    BY <1>1
  <2>2. i \in 1..C
    BY <1>1
  <2>3. QED
    BY <1>2, <1>9, <2>1, <2>2 DEF LineInv, LineKept
<1>10. cmd_len - 1 + 1 = cmd_len /\ cmd_len - 1 \in 0..C - 1
  BY <1>1
<1>11. QED
  BY <1>5, <1>6, <1>7, <1>8, <1>9, <1>10 DEF LineInv, LineKept

LEMMA DeleteKeeps ==
  ASSUME LineInv, Delete
  PROVE  LineInv'
<1>1. cmd_len \in Int /\ cursor_pos \in 0..cmd_len - 1 /\ cmd_len >= 1
  BY Sizes DEF LineInv, LineKept, Delete
<1>2. QED
  BY <1>1, ClosedKeeps DEF Delete

LEMMA BackspaceKeeps ==
  ASSUME LineInv, Backspace
  PROVE  LineInv'
<1>1. cmd_len \in Int /\ cursor_pos - 1 \in 0..cmd_len - 1 /\ cmd_len >= 1
  BY Sizes DEF LineInv, LineKept, Backspace
<1>2. QED
  BY <1>1, ClosedKeeps DEF Backspace

\* A character is typed: there is room for it and for the NUL.
LEMMA InsertKeeps ==
  ASSUME LineInv, NEW c \in Chars, Insert(c)
  PROVE  LineInv'
<1> DEFINE C == CMD_BUF_SIZE
           p == cursor_pos + 1
<1>1. /\ C \in Nat /\ cmd_len \in 0..C - 1 /\ cmd_len < C - 1 /\ cmd_buf \in Buffers
      /\ cursor_pos \in 0..cmd_len /\ c \in Alphabet /\ c # NUL
  BY Sizes DEF LineInv, LineKept, Insert, HasRoom
<1>2. cmd_buf' = [i \in 1..C |-> IF i = p THEN c
                                  ELSE IF p < i /\ i <= cmd_len + 1 THEN cmd_buf[i - 1]
                                  ELSE cmd_buf[i]]
  BY DEF Insert
<1>3. \A i \in 1..C : cmd_buf[i] \in Alphabet \cup {NUL}
  BY <1>1 DEF Buffers
<1>4. \A i \in 1..C : p < i => i - 1 \in 1..C
  BY <1>1
<1>5. cmd_buf' \in Buffers
  BY <1>1, <1>2, <1>3, <1>4 DEF Buffers
<1>6. Len(cmd_buf') = C
  BY <1>5, BufferLen
<1>7. \A i \in 1..C : i <= cmd_len => cmd_buf[i] # NUL
  BY DEF LineInv, LineKept
<1>8. \A i \in 1..C : i <= cmd_len + 1 => cmd_buf'[i] # NUL
  BY <1>1, <1>2, <1>4, <1>7
<1>9. cmd_buf'[C] = NUL
  <2>1. cmd_buf[C] = NUL /\ C \in 1..C /\ C # p /\ ~ (C <= cmd_len + 1)
    BY <1>1 DEF LineInv, LineKept
  <2>2. QED
    BY <2>1, <1>2
<1>10. ASSUME ~ spliced, NEW i \in cmd_len + 1 + 1..C PROVE cmd_buf'[i] = NUL
  <2>1. i \in 1..C /\ i # p /\ ~ (i <= cmd_len + 1) /\ i \in cmd_len + 1..C
    BY <1>1
  <2>2. cmd_buf[i] = NUL
    BY <1>10, <2>1 DEF LineInv, LineKept
  <2>3. QED
    BY <1>2, <2>1, <2>2
<1>11. cmd_len' = cmd_len + 1 /\ cursor_pos' = p /\ spliced' = spliced
  BY DEF Insert
<1>12. cmd_len + 1 \in 0..C - 1 /\ p \in 0..cmd_len + 1
  BY <1>1
<1>13. QED
  BY <1>5, <1>6, <1>8, <1>9, <1>10, <1>11, <1>12 DEF LineInv, LineKept

\* Tab: a word with a blank, or the string is ended where the line ends.
LEMMA TabKeeps ==
  ASSUME LineInv, tab_complete
  PROVE  LineInv'
<1> DEFINE words == {w \in cmds : IsPrefix(Line, w)}
           word == CHOOSE w \in words : TRUE
           s == IF Len(word) < CMD_BUF_SIZE - 1 THEN Append(word, Blank) ELSE word
<1>1. CASE Cardinality(words) = 1
  <2>1. Replace(s)
    BY <1>1 DEF tab_complete
  <2>2. words # {}
    BY <1>1, FS_EmptySet
  <2>3. word \in words
    BY <2>2
  <2>4. word \in Strings
    BY <2>3, Sizes
  <2> HIDE DEF word
  <2>5. s \in Strings
    BY <2>4, Sizes DEF Strings
  <2> HIDE DEF s
  <2>6. QED
    BY <2>1, <2>5, ReplaceKeeps
<1>2. CASE Cardinality(words) # 1
  <2>1. cmd_buf' = [cmd_buf EXCEPT ![cmd_len + 1] = NUL] /\ UNCHANGED <<cmd_len, cursor_pos, spliced>>
    BY <1>2 DEF tab_complete
  <2>2. cmd_buf \in Buffers /\ cmd_len + 1 \in 1..CMD_BUF_SIZE /\ cmd_len \in Int
    BY Sizes DEF LineInv, LineKept
  <2>3. cmd_buf' \in Buffers
    BY <2>1, <2>2 DEF Buffers
  <2>4. \A i \in 1..CMD_BUF_SIZE : cmd_buf'[i] = IF i = cmd_len + 1 THEN NUL ELSE cmd_buf[i]
    BY <2>1, <2>2 DEF Buffers
  <2>5. Len(cmd_buf') = CMD_BUF_SIZE
    BY <2>3, BufferLen
  <2>6. cmd_buf'[CMD_BUF_SIZE] = NUL
    BY <2>4, Sizes DEF LineInv, LineKept
  <2>7. \A i \in 1..CMD_BUF_SIZE : i <= cmd_len => cmd_buf'[i] # NUL
    BY <2>2, <2>4 DEF LineInv, LineKept
  <2>8. ~ spliced => \A i \in cmd_len + 1..CMD_BUF_SIZE : cmd_buf'[i] = NUL
    <3>1. \A i \in cmd_len + 1..CMD_BUF_SIZE : i \in 1..CMD_BUF_SIZE
      BY <2>2
    <3>2. QED
      BY <2>4, <3>1 DEF LineInv, LineKept
  <2>9. QED
    BY <2>1, <2>3, <2>5, <2>6, <2>7, <2>8 DEF LineInv, LineKept
<1>3. QED
  BY <1>1, <1>2

\* Enter in a search: the buffer still ends with NUL.
LEMMA AcceptKeeps ==
  ASSUME LineInv, NEW l \in Strings,
         cmd_buf' = Copied(cmd_buf, l), cmd_len' = Len(l), cursor_pos' = Len(l), spliced' = TRUE
  PROVE  LineInv'
<1> DEFINE C == CMD_BUF_SIZE
           n == Len(l)
<1>1. C \in Nat /\ C >= 2 /\ l \in Seq(Alphabet) /\ n \in 0..C - 1 /\ cmd_buf \in Buffers
  BY Sizes DEF Strings, LineInv
<1>2. \A i \in 1..n : l[i] \in Alphabet /\ l[i] # NUL
  BY <1>1, Sizes
<1>3. cmd_buf' = [i \in 1..C |-> IF i <= n THEN l[i] ELSE IF i = n + 1 THEN NUL ELSE cmd_buf[i]]
  BY DEF Copied
<1>4. \A i \in 1..C : cmd_buf[i] \in Alphabet \cup {NUL}
  BY <1>1 DEF Buffers
<1>5. cmd_buf' \in Buffers
  BY <1>1, <1>2, <1>3, <1>4 DEF Buffers
<1>6. Len(cmd_buf') = C
  BY <1>5, BufferLen
<1>7. \A i \in 1..C : i <= n => cmd_buf'[i] # NUL
  BY <1>1, <1>2, <1>3
<1>8. cmd_buf'[C] = NUL
  <2>1. cmd_buf[C] = NUL /\ C \in 1..C /\ ~ (C <= n)
    BY <1>1 DEF LineInv, LineKept
  <2>2. QED
    BY <2>1, <1>3
<1>9. n \in 0..n
  BY <1>1
<1>10. LineKept'
  <2>1. cmd_len' = n /\ cursor_pos' = n
    OBVIOUS
  <2> HIDE DEF n
  <2>2. QED
    BY <2>1, <1>1, <1>6, <1>7, <1>8, <1>9 DEF LineKept
<1>11. QED
  BY <1>5, <1>10 DEF LineInv

-----------------------------------------------------------------------------
(* The inductive invariant.                                                 *)

\* The ring and the file.
HistInv ==
    /\ history \in [Slots -> Strings]
    /\ history_count \in Nat
    /\ HistoryIsEntered
    /\ disk \in Seq(Strings) /\ Len(disk) <= 2 * HISTORY_SIZE

\* Where the last recall stopped.
RecallInv == history_idx \in Int /\ -1 <= history_idx /\ history_idx < history_count

IInv == LineInv /\ HistInv /\ RecallInv

\* The ring after a step.
LEMMA EntriesIsRingNext ==
  ASSUME history_count' \in Nat
  PROVE  Entries' = Ring(history', history_count')
<1>1. Min({history_count', HISTORY_SIZE}) = Held(history_count')
  BY Sizes, MinOfTwo DEF Held
<1>2. QED
  BY <1>1 DEF Entries, Ring

\* The shell as it was compiled, on any disk that a shell has saved to.
LEMMA InitIInv == Init => IInv
<1> SUFFICES ASSUME Init PROVE IInv
  OBVIOUS
<1>1. disk \in Seq(Strings) /\ Len(disk) <= 2 * HISTORY_SIZE
  <2>1. disk \in Seq(Strings \ {<<>>}) /\ Len(disk) <= 2 * HISTORY_SIZE
    BY ShellLineAssumption DEF Init
  <2>2. Strings \ {<<>>} \subseteq Strings
    OBVIOUS
  <2>3. QED
    BY <2>1, <2>2, SeqMonotonic
<1>2. history = Loaded(disk) /\ history_count = Len(disk) /\ recent = Latest(disk) /\ Len(disk) \in Nat
  BY <1>1, RingLoaded DEF Init
<1>3. HistInv
  BY <1>1, <1>2, RingLoaded, EntriesIsRing DEF HistInv, HistoryIsEntered
<1>4. RecallInv
  BY <1>2 DEF Init, RecallInv
<1>5. cmd_buf = [i \in 1..CMD_BUF_SIZE |-> NUL]
  BY Sizes DEF Init, Filled
<1>6. cmd_buf \in Buffers
  BY <1>5 DEF Buffers
<1>7. Len(cmd_buf) = CMD_BUF_SIZE
  BY <1>6, BufferLen
<1>8. LineInv
  <2>1. cmd_len = 0 /\ cursor_pos = 0 /\ spliced = FALSE
    BY DEF Init
  <2>2. 0 \in 0..CMD_BUF_SIZE - 1 /\ 0 \in 0..0 /\ CMD_BUF_SIZE \in 1..CMD_BUF_SIZE
    BY Sizes
  <2>3. \A i \in 1..CMD_BUF_SIZE : ~ (i <= 0) /\ cmd_buf[i] = NUL
    BY <1>5
  <2>4. \A i \in 0 + 1..CMD_BUF_SIZE : cmd_buf[i] = NUL
    BY <2>3
  <2>5. QED
    BY <1>6, <1>7, <2>1, <2>2, <2>3, <2>4 DEF LineInv, LineKept
<1>9. QED
  BY <1>3, <1>4, <1>8 DEF IInv

\* The shell starts on a disk with the lines ls.
LEMMA BootKeeps ==
  ASSUME NEW ls \in Seq(Strings), Len(ls) <= 2 * HISTORY_SIZE,
         shell_init(ls), recent' = Latest(ls), disk' = ls
  PROVE  IInv'
<1>1. history' = Loaded(ls) /\ history_count' = Len(ls) /\ history_idx' = -1 /\ Len(ls) \in Nat
  BY RingLoaded DEF shell_init
<1>2. HistInv'
  BY <1>1, RingLoaded, EntriesIsRingNext DEF HistInv, HistoryIsEntered
<1>3. RecallInv'
  BY <1>1 DEF RecallInv
<1>4. LineInv'
  BY EmptyString, ReplaceKeeps DEF shell_init
<1>5. QED
  BY <1>2, <1>3, <1>4 DEF IInv

\* A reboot, with the lines ls in the ring.
LEMMA RebootKeeps ==
  ASSUME IInv, NEW ls \in Seq(Strings), Len(ls) <= HISTORY_SIZE, cmd_reboot(ls)
  PROVE  IInv'
<1> DEFINE saved == IF Bytes(Latest(ls)) < HISTORY_SIZE * CMD_BUF_SIZE THEN Latest(ls) ELSE Front(Latest(ls))
<1>1. CASE disk' = Kept(ls) /\ shell_init(Kept(ls)) /\ recent' = saved
  <2>1. Latest(ls) = ls
    BY LatestType
  <2>2. Kept(ls) \in Seq(Strings) /\ Len(Kept(ls)) <= HISTORY_SIZE /\ Kept(ls) = saved
    BY <2>1, KeptIs
  <2>3. Latest(Kept(ls)) = Kept(ls) /\ Len(Kept(ls)) <= 2 * HISTORY_SIZE
    BY <2>2, LatestType, Sizes
  <2> HIDE DEF saved
  <2>4. QED
    BY <1>1, <2>2, <2>3, BootKeeps
<1>2. CASE \E d \in {disk, <<>>} : disk' = d /\ shell_init(d) /\ recent' = Latest(d)
  <2>1. PICK d \in {disk, <<>>} : disk' = d /\ shell_init(d) /\ recent' = Latest(d)
    BY <1>2
  <2>2. d \in Seq(Strings) /\ Len(d) <= 2 * HISTORY_SIZE
    <3>1. CASE d = disk
      BY <3>1 DEF IInv, HistInv
    <3>2. CASE d = <<>>
      BY <3>2, Sizes
    <3>3. QED
      BY <3>1, <3>2
  <2>3. QED
    BY <2>1, <2>2, BootKeeps
<1>3. QED
  BY <1>1, <1>2 DEF cmd_reboot

\* A step that leaves the ring and the file alone.
LEMMA HistStays ==
  ASSUME HistInv, UNCHANGED <<hist_vars, disk>>
  PROVE  HistInv'
BY DEF HistInv, HistoryIsEntered, Entries, hist_vars

LEMMA LineStays ==
  ASSUME LineInv, UNCHANGED line_vars
  PROVE  LineInv'
BY DEF LineInv, LineKept, line_vars

\* Where a recall goes: to a line that was entered.
LEMMA UpIndex ==
  ASSUME IInv, history_up
  PROVE  /\ history_idx' \in Nat /\ history_idx' < history_count
         /\ Replace(history[Slot(history_idx')])
<1>1. history_count \in Nat /\ history_count > 0 /\ history_idx \in Int
      /\ -1 <= history_idx /\ history_idx < history_count
  BY DEF IInv, HistInv, RecallInv, history_up
<1>2. Max({0, history_idx - 1}) = IF 0 >= history_idx - 1 THEN 0 ELSE history_idx - 1
  BY <1>1, MaxOfTwo
<1>3. history_idx' = IF history_idx = -1 THEN history_count - 1 ELSE Max({0, history_idx - 1})
  BY DEF history_up
<1>4. QED
  BY <1>1, <1>2, <1>3 DEF history_up

LEMMA RecallKeeps ==
  ASSUME IInv, history_up \/ history_down
  PROVE  IInv'
<1>1. \/ history_idx' = -1 /\ Replace(<<>>)
      \/ history_idx' \in Nat /\ history_idx' < history_count /\ Replace(history[Slot(history_idx')])
  <2>1. CASE history_up
    BY <2>1, UpIndex
  <2>2. CASE history_down
    <3>1. history_count \in Nat /\ history_idx \in Int /\ -1 <= history_idx /\ history_idx # -1
      BY <2>2 DEF IInv, HistInv, RecallInv, history_down
    <3>2. QED
      BY <2>2, <3>1 DEF history_down
  <2>3. QED
    BY <2>1, <2>2
<1>2. UNCHANGED <<hist_vars, disk>>
  BY DEF history_up, history_down, KeepHistory
<1>3. HistInv'
  BY <1>2, HistStays DEF IInv
<1>4. RecallInv'
  BY <1>1, <1>2 DEF IInv, HistInv, RecallInv, hist_vars
<1>5. LineInv'
  <2>1. CASE Replace(<<>>)
    BY <2>1, EmptyString, ReplaceKeeps
  <2>2. CASE history_idx' \in Nat /\ Replace(history[Slot(history_idx')])
    <3>1. Slot(history_idx') \in Slots
      BY <2>2, SlotInRing
    <3>2. history[Slot(history_idx')] \in Strings
      BY <3>1 DEF IInv, HistInv
    <3>3. QED
      BY <2>2, <3>2, ReplaceKeeps
  <2>3. QED
    BY <1>1, <2>1, <2>2
<1>6. QED
  BY <1>3, <1>4, <1>5 DEF IInv

\* Every other key at the prompt leaves the history and the place in it.
LEMMA KeyKeeps ==
  ASSUME IInv, LineInv', UNCHANGED <<hist_vars, disk, history_idx>>
  PROVE  IInv'
BY HistStays DEF IInv, RecallInv, hist_vars

LEMMA SearchKeeps ==
  ASSUME IInv, ctrl_r_search
  PROVE  IInv'
<1>1. UNCHANGED <<hist_vars, disk, history_idx>>
  BY DEF ctrl_r_search, SearchStart, SearchType, SearchRubOut, SearchAccept, SearchCancel
<1>2. CASE UNCHANGED line_vars
  BY <1>1, <1>2, LineStays, KeyKeeps DEF IInv
<1>3. CASE Replace(<<>>)
  BY <1>1, <1>3, EmptyString, ReplaceKeeps, KeyKeeps
<1>4. CASE SearchAccept /\ Matches # {}
  <2> DEFINE l == history[Slot(Max(Matches))]
  <2>1. cmd_buf' = Copied(cmd_buf, l) /\ cmd_len' = Len(l) /\ cursor_pos' = Len(l) /\ spliced' = TRUE
    BY <1>4 DEF SearchAccept
  <2>2. history_count \in Nat /\ Matches \subseteq 0..history_count - 1
    BY DEF IInv, HistInv, Matches
  <2>3. Matches \subseteq 0..history_count
    BY <2>2
  <2>4. Max(Matches) \in Matches
    BY <1>4, <2>2, <2>3, MaxExists
  <2>5. Slot(Max(Matches)) \in Slots
    <3>1. Max(Matches) \in 0..history_count
      BY <2>3, <2>4, Zenon
    <3>2. \A x \in 0..history_count : x \in Nat
      BY <2>2
    <3>3. Max(Matches) \in Nat
      BY <3>1, <3>2, Zenon
    <3>4. QED
      BY <3>3, SlotInRing
  <2>6. l \in Strings
    BY <2>5 DEF IInv, HistInv
  <2> HIDE DEF l
  <2>7. LineInv'
    BY <2>1, <2>6, AcceptKeeps DEF IInv
  <2>8. QED
    BY <1>1, <2>7, KeyKeeps
<1>5. QED
  BY <1>2, <1>3, <1>4 DEF ctrl_r_search, SearchStart, SearchType, SearchRubOut, SearchAccept, SearchCancel

\* Enter: history_push adds the line that was shown.
LEMMA EnterKeeps ==
  ASSUME IInv, Enter
  PROVE  IInv'
<1> DEFINE c == history_count
           t == Text(cmd_buf)
           shown == Latest(Append(recent, IF spliced THEN Text(cmd_buf) ELSE Line))
           kept == [k \in 1..Min({history_count + 1, HISTORY_SIZE}) |->
                      Pushed[Slot(history_count + 1 - Min({history_count + 1, HISTORY_SIZE}) + k - 1)]]
<1>1. c \in Nat /\ c + 1 \in Nat /\ history \in [Slots -> Strings] /\ Slot(c) \in Slots
  BY SlotInRing DEF IInv, HistInv
<1>2. t \in Strings /\ (IF spliced THEN Text(cmd_buf) ELSE Line) = t
  BY TextIs DEF IInv
<1>3. Pushed = [history EXCEPT ![Slot(c)] = t] /\ Pushed \in [Slots -> Strings]
  BY <1>1, <1>2 DEF Pushed
<1>4. recent = Ring(history, c)
  BY <1>1, EntriesIsRing DEF IInv, HistInv, HistoryIsEntered
<1>5. Ring(Pushed, c + 1) = shown
  <2>1. shown = Latest(Append(Ring(history, c), t))
    BY <1>2, <1>4
  <2>2. QED
    BY <1>1, <1>2, <1>3, <2>1, RingPush
<1>6. kept = Ring(Pushed, c + 1)
  <2>1. Min({c + 1, HISTORY_SIZE}) = Held(c + 1)
    BY <1>1, Sizes, MinOfTwo DEF Held
  <2>2. kept = [k \in 1..Held(c + 1) |-> Pushed[Slot(c + 1 - Held(c + 1) + k - 1)]]
    BY <2>1, Zenon
  <2> DEFINE m == Held(c + 1)
  <2>3. m \in Nat
    BY <1>1, Sizes DEF Held
  <2>4. \A k \in 1..m : c + 1 - m + k - 1 = (c + 1) - m + k - 1
    <3> HIDE DEF m
    <3> QED BY <1>1, <2>3
  <2>5. Ring(Pushed, c + 1) = [k \in 1..m |-> Pushed[Slot((c + 1) - m + k - 1)]]
    BY DEF Ring
  <2>6. \A k \in 1..m : Pushed[Slot(c + 1 - m + k - 1)] = Pushed[Slot((c + 1) - m + k - 1)]
    <3> HIDE DEF m
    <3> QED BY <2>4
  <2>7. QED
    <3> HIDE DEF m
    <3> QED BY <2>2, <2>5, <2>6 DEF m
<1> HIDE DEF kept, shown
<1>7. CASE cmd_len = 0
  <2>1. Replace(<<>>) /\ UNCHANGED <<hist_vars, disk, history_idx>>
    BY <1>7 DEF Enter
  <2>2. QED
    BY <2>1, EmptyString, ReplaceKeeps, KeyKeeps
<1>8. CASE /\ history' = Pushed /\ history_count' = history_count + 1 /\ history_idx' = -1
           /\ recent' = shown /\ Replace(<<>>) /\ UNCHANGED disk
  <2>1. HistInv'
    BY <1>1, <1>3, <1>5, <1>8, EntriesIsRingNext DEF IInv, HistInv, HistoryIsEntered
  <2>2. RecallInv'
    BY <1>1, <1>8 DEF RecallInv
  <2>3. LineInv'
    BY <1>8, EmptyString, ReplaceKeeps
  <2>4. QED
    BY <2>1, <2>2, <2>3 DEF IInv
<1>9. CASE cmd_reboot(kept)
  <2>1. kept \in Seq(Strings) /\ Len(kept) <= HISTORY_SIZE
    <3>1. Ring(Pushed, c + 1) \in Seq(Strings) /\ Len(Ring(Pushed, c + 1)) = Held(c + 1)
      <4> HIDE DEF c
      <4> QED BY <1>1, <1>3, RingType
    <3>2. Held(c + 1) <= HISTORY_SIZE
      BY <1>1, Sizes DEF Held
    <3>3. QED
      BY <1>6, <3>1, <3>2
  <2>2. QED
    BY <1>9, <2>1, RebootKeeps
<1>10. QED
  BY <1>7, <1>8, <1>9 DEF Enter, kept, shown

LEMMA ScriptKeeps ==
  ASSUME IInv, ScriptLine
  PROVE  IInv'
<1>1. CASE Replace(<<>>) /\ UNCHANGED <<hist_vars, history_idx, disk>>
  BY <1>1, EmptyString, ReplaceKeeps, KeyKeeps
<1>2. CASE cmd_reboot(Entries)
  <2>1. Entries = Ring(history, history_count) /\ history_count \in Nat /\ history \in [Slots -> Strings]
    BY EntriesIsRing DEF IInv, HistInv
  <2>2. Entries \in Seq(Strings) /\ Len(Entries) <= HISTORY_SIZE
    BY <2>1, RingType, Sizes
  <2>3. QED
    BY <1>2, <2>2, RebootKeeps
<1>3. QED
  BY <1>1, <1>2 DEF ScriptLine

\* Every step keeps the invariant.
LEMMA NextIInv == IInv /\ [Next]_vars => IInv'
<1> SUFFICES ASSUME IInv, [Next]_vars PROVE IInv'
  OBVIOUS
<1>1. CASE history_up \/ history_down
  BY <1>1, RecallKeeps
<1>2. CASE MoveCursor
  BY <1>2, MoveKeeps, KeyKeeps DEF IInv, MoveCursor, KeepHistory
<1>3. CASE Delete
  BY <1>3, DeleteKeeps, KeyKeeps DEF IInv, Delete, KeepHistory
<1>4. CASE Backspace
  BY <1>4, BackspaceKeeps, KeyKeeps DEF IInv, Backspace, KeepHistory
<1>5. ASSUME NEW c \in Chars, Insert(c) PROVE IInv'
  BY <1>5, InsertKeeps, KeyKeeps DEF IInv, Insert, KeepHistory
<1>6. CASE KillLine
  BY <1>6, EmptyString, ReplaceKeeps, KeyKeeps DEF KillLine, KeepHistory
<1>7. CASE tab_complete
  <2>1. UNCHANGED <<hist_vars, disk, history_idx>>
    BY <1>7 DEF tab_complete, KeepHistory
  <2>2. QED
    BY <1>7, <2>1, TabKeeps, KeyKeeps DEF IInv
<1>8. CASE ctrl_r_search
  BY <1>8, SearchKeeps
<1>9. CASE Enter
  BY <1>9, EnterKeeps
<1>10. CASE ScriptLine
  BY <1>10, ScriptKeeps
<1>11. CASE ScriptReturns
  BY <1>11, LineStays, KeyKeeps DEF IInv, ScriptReturns
<1>12. CASE PowerLoss
  BY <1>12, BootKeeps DEF IInv, HistInv, PowerLoss
<1>13. CASE UNCHANGED vars
  BY <1>13, LineStays, KeyKeeps DEF IInv, vars
<1>14. QED
  BY <1>1, <1>2, <1>3, <1>4, <1>5, <1>6, <1>7, <1>8, <1>9, <1>10, <1>11, <1>12, <1>13 DEF Next

-----------------------------------------------------------------------------
(* The theorems.                                                            *)

\* The inductive invariant holds throughout (shell.c:190-382, 1640-1815).
THEOREM Invariance == Spec => []IInv
<1>1. Init => IInv
  BY InitIInv
<1>2. IInv /\ [Next]_vars => IInv'
  BY NextIInv
<1>3. QED
  BY <1>1, <1>2, PTL DEF Spec

\* The line keeps to its buffer whatever keys, recalls, completions, searches
\* and scripts came before (shell.c:298-330, 1757-1815).
THEOREM LineStaysInBuffer == Spec => []LineKept
<1>1. IInv => LineKept
  BY DEF IInv, LineInv
<1>2. QED
  BY <1>1, Invariance, PTL

\* The ring holds the lines entered last, in their order, for any size of the
\* ring and any number of lines, also after reboots (shell.c:190-235, 298-306).
THEOREM HistoryHoldsEntered == Spec => []HistoryIsEntered
<1>1. IInv => HistoryIsEntered
  BY DEF IInv, HistInv
<1>2. QED
  BY <1>1, Invariance, PTL

\* What a recall shows.
LEMMA RecallIs ==
  ASSUME IInv, history_up \/ history_down, history_idx' # -1,
         history_idx' >= history_count - HISTORY_SIZE
  PROVE  SubSeq(cmd_buf', 1, cmd_len') = recent[history_idx' - history_count + Len(recent) + 1]
<1> DEFINE c == history_count
           i == history_idx'
           l == history[Slot(i)]
<1>1. c \in Nat /\ i \in Nat /\ i < c /\ Replace(l)
  <2>1. CASE history_up
    BY <2>1, UpIndex DEF IInv, HistInv
  <2>2. CASE history_down
    BY <2>2 DEF IInv, HistInv, RecallInv, history_down
  <2>3. QED
    BY <2>1, <2>2
<1>2. recent = Ring(history, c) /\ history \in [Slots -> Strings]
  BY <1>1, EntriesIsRing DEF IInv, HistInv, HistoryIsEntered
<1> DEFINE k == i - c + Held(c) + 1
<1>3. Held(c) \in Nat /\ k \in 1..Held(c) /\ c - Held(c) + k - 1 = i
  <2>1. i >= c - HISTORY_SIZE
    OBVIOUS
  <2> HIDE DEF i, c
  <2>2. CASE c <= HISTORY_SIZE
    BY <1>1, <2>1, <2>2, Sizes DEF Held
  <2>3. CASE c > HISTORY_SIZE
    BY <1>1, <2>1, <2>3, Sizes DEF Held
  <2>4. QED
    BY <1>1, <2>2, <2>3, Sizes
<1>4. Len(recent) = Held(c)
  BY <1>1, <1>2, RingType
<1>5. recent[k] = l
  <2> HIDE DEF k, i
  <2>1. Ring(history, c)[k] = history[Slot(c - Held(c) + k - 1)]
    BY <1>1, <1>2, <1>3, RingType
  <2>2. QED
    BY <1>2, <1>3, <2>1
<1>6. l \in Strings
  BY <1>1, <1>2, SlotInRing
<1>7. SubSeq(cmd_buf', 1, cmd_len') = l
  <2> HIDE DEF l
  <2>1. cmd_buf' = [x \in 1..CMD_BUF_SIZE |-> IF x <= Len(l) THEN l[x] ELSE NUL] /\ cmd_len' = Len(l)
    BY <1>1 DEF Replace, Filled
  <2>2. l \in Seq(Alphabet) /\ Len(l) \in 0..CMD_BUF_SIZE - 1
    BY <1>6, Sizes DEF Strings
  <2>3. \A x \in 1..Len(l) : cmd_buf'[x] = l[x] /\ l[x] \in Alphabet
    <3>1. \A x \in 1..Len(l) : x \in 1..CMD_BUF_SIZE /\ x <= Len(l) /\ l[x] \in Alphabet
      BY <2>2, Sizes
    <3>2. QED
      BY <2>1, <3>1
  <2> DEFINE s == SubSeq(cmd_buf', 1, Len(l))
  <2>4. s \in Seq(Alphabet) /\ Len(s) = Len(l) /\ \A x \in 1..Len(l) : s[x] = cmd_buf'[x]
    BY <2>2, <2>3, SubSeqProperties
  <2> HIDE DEF s
  <2>5. s = l
    BY <2>2, <2>3, <2>4, SeqEqual
  <2>6. QED
    BY <2>1, <2>5 DEF s
<1>8. QED
  BY <1>4, <1>5, <1>7

\* Up and Down show the lines in the order they were entered, as far back as
\* the ring goes, for any number of lines (shell.c:308-330).
THEOREM RecallsShowEntries == Spec => RecallShowsEntry
<1>1. IInv /\ [Next]_vars =>
        [(history_up \/ history_down) /\ history_idx' # -1 /\ history_idx' >= history_count - HISTORY_SIZE
         => SubSeq(cmd_buf', 1, cmd_len') = recent[history_idx' - history_count + Len(recent) + 1]]_vars
  BY RecallIs
<1>2. QED
  BY <1>1, Invariance, PTL DEF Spec, RecallShowsEntry

-----------------------------------------------------------------------------
(* The environment.                                                         *)

EnvSlot == [used : BOOLEAN, key : {Table!Stored(k) : k \in Keys} \cup {<<>>},
            val : {Table!Held(v) : v \in Values} \cup {NoValue}]

EnvState == [t : [Table!Slots -> EnvSlot], map : [Keys -> Values \cup {NoValue}]]

\* A key that nothing else is cut to is in at most one slot, and reads as it
\* should; slots in use have values.
EnvInv(r) ==
    /\ r \in EnvState
    /\ \A i \in Table!Slots : r.t[i].used => r.t[i].val # NoValue
    /\ \A k \in Table!OwnKeys :
          /\ \A i, j \in Table!Hits(r.t, k) : i = j
          /\ Table!env_get(r.t, k) = Table!Reads(r.map[k])

\* What is read of a value is not the null pointer.
LEMMA ValueReads ==
  /\ Table!Reads(NoValue) = NoValue
  /\ \A v \in Values : Table!Reads(v) = Table!Held(v) /\ Table!Held(v) # NoValue
  /\ \A v \in Values \cup {NoValue} : Table!Reads(v) = NoValue <=> v = NoValue
<1>1. ASSUME NEW v \in Values PROVE v # NoValue /\ Table!Held(v) # NoValue
  <2>1. v \in Seq(Alphabet) /\ NoValue \notin Seq(Alphabet) /\ ENV_VAL_MAX \in Nat \ {0}
    BY ShellEnvAssumption
  <2>2. CASE ~ (Len(v) < ENV_VAL_MAX)
    <3>1. SubSeq(v, 1, ENV_VAL_MAX - 1) \in Seq(Alphabet)
      BY <2>1, <2>2
    <3>2. QED
      BY <2>1, <2>2, <3>1 DEF Table!Held, Table!Cut
  <2>3. QED
    BY <2>1, <2>2 DEF Table!Held, Table!Cut
<1>2. \A v \in Values : Table!Reads(v) = Table!Held(v)
  BY <1>1 DEF Table!Reads
<1>3. Table!Reads(NoValue) = NoValue
  BY DEF Table!Reads
<1>4. QED
  BY <1>1, <1>2, <1>3

\* No other keys were used.
OwnOnly(r) ==
    /\ \A i \in Table!Slots : r.t[i].used => r.t[i].key \in Table!OwnKeys
    /\ \A k \in Keys \ Table!OwnKeys : r.map[k] = NoValue

\* The loops over the table stop at the first slot of those they look for.
LEMMA FirstIn ==
  ASSUME NEW S, S \subseteq Table!Slots, S # {}
  PROVE  Table!First(S) \in S
<1>1. S \in SUBSET Nat
  BY DEF Table!Slots
<1>2. \E x \in S : \A y \in S : x <= y
  BY <1>1, LeastNat
<1>3. QED
  BY <1>2, Zenon DEF Table!First

\* A key that nothing else is cut to is stored as it is, and nothing else is
\* stored as it.
LEMMA OwnStored ==
  ASSUME NEW k \in Table!OwnKeys
  PROVE  /\ k \in Keys /\ Table!Stored(k) = k
         /\ \A l \in Keys : Table!Stored(l) = k => l = k
<1>1. k \in Keys /\ {l \in Keys : Table!Stored(l) = k} = {k}
  BY DEF Table!OwnKeys
<1>2. \A l \in Keys : l \in {k} <=> Table!Stored(l) = k
  BY <1>1
<1>3. QED
  BY <1>1, <1>2

\* What env_get returns of a key that is in no slot, and in one.
LEMMA GetOf ==
  ASSUME NEW t, NEW k
  PROVE  /\ Table!Hits(t, k) = {} => Table!env_get(t, k) = NoValue
         /\ \A i \in Table!Hits(t, k) :
               (\A j \in Table!Hits(t, k) : j = i) => Table!env_get(t, k) = t[i].val
<1>1. Table!Hits(t, k) = {} => Table!env_get(t, k) = NoValue
  BY DEF Table!env_get
<1>2. ASSUME NEW i \in Table!Hits(t, k), \A j \in Table!Hits(t, k) : j = i
      PROVE  Table!env_get(t, k) = t[i].val
  <2>1. Table!Hits(t, k) \subseteq Table!Slots /\ Table!Hits(t, k) # {}
    BY DEF Table!Hits
  <2>2. Table!First(Table!Hits(t, k)) \in Table!Hits(t, k)
    BY <2>1, FirstIn
  <2>3. Table!First(Table!Hits(t, k)) = i
    BY <1>2, <2>2
  <2>4. QED
    BY <2>1, <2>3 DEF Table!env_get
<1>3. QED
  BY <1>1, <1>2

\* Two tables that have a key in the same slots, with the same values, give
\* the same value for it.
LEMMA SameGet ==
  ASSUME NEW t, NEW u, NEW k, Table!Hits(u, k) = Table!Hits(t, k),
         \A i \in Table!Hits(t, k) : u[i].val = t[i].val
  PROVE  Table!env_get(u, k) = Table!env_get(t, k)
<1>1. CASE Table!Hits(t, k) = {}
  BY <1>1 DEF Table!env_get
<1>2. CASE Table!Hits(t, k) # {}
  <2>1. Table!Hits(t, k) \subseteq Table!Slots
    BY DEF Table!Hits
  <2>2. Table!First(Table!Hits(t, k)) \in Table!Hits(t, k)
    BY <1>2, <2>1, FirstIn
  <2>3. QED
    BY <1>2, <2>2 DEF Table!env_get
<1>3. QED
  BY <1>1, <1>2

\* The environment at boot.
EnvBoot == [t |-> Table!Empty, map |-> [k \in Keys |-> NoValue]]

LEMMA BootIsMap == EnvInv(EnvBoot) /\ OwnOnly(EnvBoot)
<1> DEFINE t == Table!Empty
<1>1. \A i \in Table!Slots : t[i] = [used |-> FALSE, key |-> <<>>, val |-> NoValue]
  BY DEF Table!Empty
<1>2. EnvBoot \in EnvState
  <2>1. [used |-> FALSE, key |-> <<>>, val |-> NoValue] \in EnvSlot
    BY Zenon DEF EnvSlot
  <2>2. t \in [Table!Slots -> EnvSlot]
    BY <2>1 DEF Table!Empty
  <2>3. [k \in Keys |-> NoValue] \in [Keys -> Values \cup {NoValue}]
    OBVIOUS
  <2>4. QED
    BY <2>2, <2>3 DEF EnvBoot, EnvState
<1>3. EnvBoot.t = t /\ EnvBoot.map = [k \in Keys |-> NoValue]
  BY DEF EnvBoot
<1>4. \A i \in Table!Slots : ~ t[i].used
  BY <1>1
<1>5. \A k \in Table!OwnKeys : Table!Hits(t, k) = {} /\ k \in Keys
  BY <1>4, OwnStored DEF Table!Hits
<1>6. \A k \in Table!OwnKeys : Table!env_get(t, k) = NoValue
  BY <1>5, GetOf
<1> HIDE DEF t
<1>7. QED
  BY <1>2, <1>3, <1>4, <1>5, <1>6, ValueReads DEF EnvInv, OwnOnly

\* A slot's record is made of its fields.
LEMMA EnvSlotIs ==
  ASSUME NEW e \in EnvSlot
  PROVE  /\ e.used \in BOOLEAN /\ e.val \in {Table!Held(v) : v \in Values} \cup {NoValue}
         /\ e.key \in {Table!Stored(k) : k \in Keys} \cup {<<>>}
         /\ e = [used |-> e.used, key |-> e.key, val |-> e.val]
BY DEF EnvSlot

\* env_unset frees every slot that has the key.
LEMMA UnsetStep ==
  ASSUME NEW r, EnvInv(r), NEW k \in Keys
  PROVE  LET q == [t |-> Table!env_unset(r.t, k), map |-> [r.map EXCEPT ![k] = NoValue]]
         IN  EnvInv(q) /\ (OwnOnly(r) => OwnOnly(q))
<1> DEFINE t == r.t
           u == Table!env_unset(t, k)
           m == [r.map EXCEPT ![k] = NoValue]
           q == [t |-> u, map |-> m]
<1>1. t \in [Table!Slots -> EnvSlot] /\ r.map \in [Keys -> Values \cup {NoValue}]
  BY DEF EnvInv, EnvState
<1>2. ASSUME NEW i \in Table!Slots
      PROVE  /\ u[i] \in EnvSlot
             /\ u[i].used <=> t[i].used /\ t[i].key # k
             /\ u[i].key = t[i].key /\ u[i].val = t[i].val
  <2>1. t[i] \in EnvSlot
    BY <1>1
  <2>2. CASE i \in Table!Hits(t, k)
    <3>1. u[i] = [t[i] EXCEPT !.used = FALSE] /\ t[i].key = k
      BY <2>2 DEF Table!env_unset, Table!Hits
    <3>2. QED
      BY <2>1, <3>1 DEF EnvSlot
  <2>3. CASE i \notin Table!Hits(t, k)
    <3>1. u[i] = t[i] /\ ~ (t[i].used /\ t[i].key = k)
      BY <2>3 DEF Table!env_unset, Table!Hits
    <3>2. QED
      BY <2>1, <3>1
  <2>4. QED
    BY <2>2, <2>3
<1>3. u \in [Table!Slots -> EnvSlot]
  <2>1. u = [i \in Table!Slots |-> u[i]]
    BY DEF Table!env_unset
  <2> HIDE DEF u
  <2>2. QED
    BY <1>2, <2>1
<1>4. m \in [Keys -> Values \cup {NoValue}] /\ m[k] = NoValue /\ \A l \in Keys : l # k => m[l] = r.map[l]
  BY <1>1
<1> HIDE DEF u, m, t
<1>5. q \in EnvState /\ q.t = u /\ q.map = m
  BY <1>3, <1>4 DEF EnvState
<1>6. ASSUME NEW l \in Table!OwnKeys
      PROVE  (\A i, j \in Table!Hits(u, l) : i = j) /\ Table!env_get(u, l) = Table!Reads(m[l])
  <2>0. l \in Keys
    BY OwnStored
  <2>1. CASE l = k
    <3>1. Table!Hits(u, l) = {}
      BY <1>2, <2>1 DEF Table!Hits
    <3>2. QED
      BY <1>4, <2>1, <3>1, GetOf, ValueReads
  <2>2. CASE l # k
    <3>1. Table!Hits(u, l) = Table!Hits(t, l)
      BY <1>2, <2>2 DEF Table!Hits
    <3>2. \A i \in Table!Hits(t, l) : u[i].val = t[i].val
      BY <1>2 DEF Table!Hits
    <3>3. Table!env_get(u, l) = Table!env_get(t, l)
      BY <3>1, <3>2, SameGet
    <3>4. Table!env_get(t, l) = Table!Reads(r.map[l]) /\ \A i, j \in Table!Hits(t, l) : i = j
      BY DEF EnvInv, t
    <3>5. QED
      BY <1>4, <2>0, <2>2, <3>1, <3>3, <3>4
  <2>3. QED
    BY <2>1, <2>2
<1>7. \A i \in Table!Slots : u[i].used => u[i].val # NoValue
  BY <1>2 DEF EnvInv, t
<1> HIDE DEF q
<1>8. EnvInv(q)
  BY <1>5, <1>6, <1>7 DEF EnvInv
<1>9. ASSUME OwnOnly(r)
      PROVE  OwnOnly(q)
  <2>1. \A i \in Table!Slots : u[i].used => u[i].key \in Table!OwnKeys
    BY <1>2, <1>9 DEF OwnOnly, t
  <2>2. \A l \in Keys \ Table!OwnKeys : m[l] = NoValue
    BY <1>4, <1>9 DEF OwnOnly
  <2>3. QED
    BY <1>5, <2>1, <2>2 DEF OwnOnly
<1>10. QED
  BY <1>8, <1>9 DEF q, u, m, t

\* env_set of a key that is there changes its value.
LEMMA ResetStep ==
  ASSUME NEW r, EnvInv(r), NEW k \in Keys, NEW v \in Values, Table!Hits(r.t, k) # {}
  PROVE  LET q == [t |-> [r.t EXCEPT ![Table!First(Table!Hits(r.t, k))].val = Table!Held(v)],
                   map |-> [r.map EXCEPT ![k] = v]]
         IN  EnvInv(q) /\ (OwnOnly(r) => OwnOnly(q))
<1> DEFINE t == r.t
           f == Table!First(Table!Hits(t, k))
           w == Table!Held(v)
           u == [t EXCEPT ![f].val = w]
           m == [r.map EXCEPT ![k] = v]
           q == [t |-> u, map |-> m]
<1>1. t \in [Table!Slots -> EnvSlot] /\ r.map \in [Keys -> Values \cup {NoValue}]
  BY DEF EnvInv, EnvState
<1>f. f \in Table!Hits(t, k)
  <2>1. Table!Hits(t, k) \subseteq Table!Slots
    BY DEF Table!Hits
  <2>2. QED
    BY <2>1, FirstIn
<1>g. f \in Table!Slots /\ t[f].used /\ t[f].key = k
  BY <1>f DEF Table!Hits
<1>w. w \in {Table!Held(x) : x \in Values} /\ w = Table!Reads(v) /\ w # NoValue
  BY ValueReads
<1> HIDE DEF f, w
<1>2. ASSUME NEW i \in Table!Slots
      PROVE  /\ u[i] \in EnvSlot
             /\ u[i].used = t[i].used
             /\ u[i].key = t[i].key
             /\ u[i].val = IF i = f THEN w ELSE t[i].val
  <2>1. t[i] \in EnvSlot
    BY <1>1
  <2>2. CASE i = f
    <3>1. u[i] = [t[i] EXCEPT !.val = w]
      BY <1>1, <2>2
    <3>2. QED
      BY <2>1, <2>2, <3>1, <1>w DEF EnvSlot
  <2>3. CASE i # f
    <3>1. u[i] = t[i]
      BY <1>1, <2>3
    <3>2. QED
      BY <2>1, <2>3, <3>1
  <2>4. QED
    BY <2>2, <2>3
<1>3. u \in [Table!Slots -> EnvSlot]
  <2>1. u = [i \in Table!Slots |-> u[i]]
    BY <1>1
  <2> HIDE DEF u
  <2>2. QED
    BY <1>2, <2>1
<1>4. m \in [Keys -> Values \cup {NoValue}] /\ m[k] = v /\ \A l \in Keys : l # k => m[l] = r.map[l]
  BY <1>1
<1> HIDE DEF u, m, t
<1>5. q \in EnvState /\ q.t = u /\ q.map = m
  BY <1>3, <1>4 DEF EnvState
<1>6. ASSUME NEW l \in Table!OwnKeys
      PROVE  (\A i, j \in Table!Hits(u, l) : i = j) /\ Table!env_get(u, l) = Table!Reads(m[l])
  <2>0. l \in Keys
    BY OwnStored
  <2>1. Table!Hits(u, l) = Table!Hits(t, l)
    BY <1>2 DEF Table!Hits
  <2>2. Table!env_get(t, l) = Table!Reads(r.map[l]) /\ \A i, j \in Table!Hits(t, l) : i = j
    BY DEF EnvInv, t
  <2>3. CASE l = k
    <3>1. f \in Table!Hits(u, l) /\ \A j \in Table!Hits(u, l) : j = f
      BY <1>f, <2>1, <2>2, <2>3
    <3>2. Table!env_get(u, l) = u[f].val
      BY <3>1, GetOf
    <3>3. QED
      BY <1>2, <1>4, <1>g, <1>w, <2>1, <2>2, <2>3, <3>2
  <2>4. CASE l # k
    <3>1. \A i \in Table!Hits(t, l) : u[i].val = t[i].val
      BY <1>2, <1>g, <2>4 DEF Table!Hits
    <3>2. Table!env_get(u, l) = Table!env_get(t, l)
      BY <2>1, <3>1, SameGet
    <3>3. QED
      BY <1>4, <2>0, <2>1, <2>2, <2>4, <3>2
  <2>5. QED
    BY <2>3, <2>4
<1>7. \A i \in Table!Slots : u[i].used => u[i].val # NoValue
  BY <1>2, <1>w DEF EnvInv, t
<1> HIDE DEF q
<1>8. EnvInv(q)
  BY <1>5, <1>6, <1>7 DEF EnvInv
<1>9. ASSUME OwnOnly(r)
      PROVE  OwnOnly(q)
  <2>1. \A i \in Table!Slots : u[i].used => u[i].key \in Table!OwnKeys
    BY <1>2, <1>9 DEF OwnOnly, t
  <2>2. k \in Table!OwnKeys
    BY <1>g, <1>9 DEF OwnOnly, t
  <2>3. \A l \in Keys \ Table!OwnKeys : m[l] = NoValue
    BY <1>4, <1>9, <2>2 DEF OwnOnly
  <2>4. QED
    BY <1>5, <2>1, <2>3 DEF OwnOnly
<1>10. QED
  BY <1>8, <1>9 DEF q, u, m, t, f, w

\* env_set of a key that is not there takes a free slot.
LEMMA SetStep ==
  ASSUME NEW r, EnvInv(r), NEW k \in Keys, NEW v \in Values,
         Table!Hits(r.t, k) = {}, Table!Free(r.t) # {}
  PROVE  LET q == [t |-> [r.t EXCEPT ![Table!First(Table!Free(r.t))] =
                             [used |-> TRUE, key |-> Table!Stored(k), val |-> Table!Held(v)]],
                   map |-> [r.map EXCEPT ![k] = v]]
         IN  EnvInv(q) /\ (OwnOnly(r) /\ k \in Table!OwnKeys => OwnOnly(q))
<1> DEFINE t == r.t
           f == Table!First(Table!Free(t))
           w == Table!Held(v)
           e == [used |-> TRUE, key |-> Table!Stored(k), val |-> w]
           u == [t EXCEPT ![f] = e]
           m == [r.map EXCEPT ![k] = v]
           q == [t |-> u, map |-> m]
<1>1. t \in [Table!Slots -> EnvSlot] /\ r.map \in [Keys -> Values \cup {NoValue}]
  BY DEF EnvInv, EnvState
<1>f. f \in Table!Free(t)
  <2>1. Table!Free(t) \subseteq Table!Slots
    BY DEF Table!Free
  <2>2. QED
    BY <2>1, FirstIn
<1>g. f \in Table!Slots /\ ~ t[f].used
  BY <1>f DEF Table!Free
<1>w. w \in {Table!Held(x) : x \in Values} /\ w = Table!Reads(v) /\ w # NoValue
  BY ValueReads
<1> HIDE DEF w
<1>e. e \in EnvSlot /\ e.used /\ e.key = Table!Stored(k) /\ e.val = w
  BY <1>w DEF EnvSlot
<1> HIDE DEF f, e
<1>2. u[f] = e /\ \A i \in Table!Slots : i # f => u[i] = t[i]
  BY <1>1, <1>g
<1>3. u \in [Table!Slots -> EnvSlot]
  BY <1>1, <1>e
<1>4. m \in [Keys -> Values \cup {NoValue}] /\ m[k] = v /\ \A l \in Keys : l # k => m[l] = r.map[l]
  BY <1>1
<1> HIDE DEF u, m, t
<1>5. q \in EnvState /\ q.t = u /\ q.map = m
  BY <1>3, <1>4 DEF EnvState
<1>6. ASSUME NEW l \in Table!OwnKeys
      PROVE  (\A i, j \in Table!Hits(u, l) : i = j) /\ Table!env_get(u, l) = Table!Reads(m[l])
  <2>0. l \in Keys /\ Table!Stored(l) = l /\ (Table!Stored(k) = l => k = l)
    BY OwnStored
  <2>1. Table!env_get(t, l) = Table!Reads(r.map[l]) /\ \A i, j \in Table!Hits(t, l) : i = j
    BY DEF EnvInv, t
  <2>2. CASE l = k
    <3>1. Table!Hits(t, l) = {}
      BY <2>2 DEF t
    <3>2. Table!Hits(u, l) = {f}
      BY <1>2, <1>g, <1>e, <2>0, <2>2, <3>1 DEF Table!Hits
    <3>3. Table!env_get(u, l) = u[f].val
      BY <3>2, GetOf
    <3>4. QED
      BY <1>2, <1>e, <1>w, <1>4, <2>2, <3>2, <3>3
  <2>3. CASE l # k
    <3>1. Table!Hits(u, l) = Table!Hits(t, l)
      BY <1>2, <1>g, <1>e, <2>0, <2>3 DEF Table!Hits
    <3>2. \A i \in Table!Hits(t, l) : u[i].val = t[i].val
      BY <1>2, <1>g DEF Table!Hits
    <3>3. Table!env_get(u, l) = Table!env_get(t, l)
      BY <3>1, <3>2, SameGet
    <3>4. QED
      BY <1>4, <2>0, <2>1, <2>3, <3>1, <3>3
  <2>4. QED
    BY <2>2, <2>3
<1>7. \A i \in Table!Slots : u[i].used => u[i].val # NoValue
  BY <1>2, <1>e, <1>w DEF EnvInv, t
<1> HIDE DEF q
<1>8. EnvInv(q)
  BY <1>5, <1>6, <1>7 DEF EnvInv
<1>9. ASSUME OwnOnly(r), k \in Table!OwnKeys
      PROVE  OwnOnly(q)
  <2>1. Table!Stored(k) = k
    BY <1>9, OwnStored
  <2>2. \A i \in Table!Slots : u[i].used => u[i].key \in Table!OwnKeys
    BY <1>2, <1>e, <1>9, <2>1 DEF OwnOnly, t
  <2>3. \A l \in Keys \ Table!OwnKeys : m[l] = NoValue
    BY <1>4, <1>9 DEF OwnOnly
  <2>4. QED
    BY <1>5, <2>2, <2>3 DEF OwnOnly
<1>10. QED
  BY <1>8, <1>9 DEF q, u, m, t, f, e, w

\* Every call keeps the table a map.
LEMMA CallStep ==
  ASSUME NEW r, EnvInv(r), NEW c \in Table!Calls
  PROVE  /\ EnvInv(Table!Called(r, c))
         /\ OwnOnly(r) /\ c.key \in Table!OwnKeys => OwnOnly(Table!Called(r, c))
<1> DEFINE k == c.key
           v == c.val
<1>1. k \in Keys /\ v \in Values \cup {NoValue}
  BY DEF Table!Calls
<1>2. CASE v = NoValue
  BY <1>1, <1>2, UnsetStep DEF Table!Called
<1>3. CASE v # NoValue
  <2>1. v \in Values
    BY <1>1, <1>3
  <2>2. CASE Table!Hits(r.t, k) # {}
    <3>1. Table!Accepted(r.t, k)
      BY <2>2 DEF Table!Accepted
    <3>2. Table!Called(r, c) = [t |-> [r.t EXCEPT ![Table!First(Table!Hits(r.t, k))].val = Table!Held(v)],
                                map |-> [r.map EXCEPT ![k] = v]]
      BY <1>3, <2>2, <3>1 DEF Table!Called, Table!env_set
    <3> DEFINE q == [t |-> [r.t EXCEPT ![Table!First(Table!Hits(r.t, k))].val = Table!Held(v)],
                     map |-> [r.map EXCEPT ![k] = v]]
    <3> HIDE DEF k, v
    <3>3. EnvInv(q) /\ (OwnOnly(r) => OwnOnly(q))
      BY <1>1, <2>1, <2>2, ResetStep
    <3>4. Table!Called(r, c) = q
      BY <3>2
    <3> HIDE DEF q
    <3>5. QED
      BY <3>3, <3>4 DEF k
  <2>3. CASE Table!Hits(r.t, k) = {} /\ Table!Free(r.t) # {}
    <3>1. Table!Accepted(r.t, k)
      BY <2>3 DEF Table!Accepted
    <3>2. Table!Called(r, c) = [t |-> [r.t EXCEPT ![Table!First(Table!Free(r.t))] =
                                          [used |-> TRUE, key |-> Table!Stored(k), val |-> Table!Held(v)]],
                                map |-> [r.map EXCEPT ![k] = v]]
      BY <1>3, <2>3, <3>1 DEF Table!Called, Table!env_set
    <3> DEFINE q == [t |-> [r.t EXCEPT ![Table!First(Table!Free(r.t))] =
                               [used |-> TRUE, key |-> Table!Stored(k), val |-> Table!Held(v)]],
                     map |-> [r.map EXCEPT ![k] = v]]
    <3> HIDE DEF k, v
    <3>3. EnvInv(q) /\ (OwnOnly(r) /\ k \in Table!OwnKeys => OwnOnly(q))
      BY <1>1, <2>1, <2>3, SetStep
    <3>4. Table!Called(r, c) = q
      BY <3>2
    <3> HIDE DEF q
    <3>5. QED
      BY <3>3, <3>4 DEF k
  <2>4. CASE Table!Hits(r.t, k) = {} /\ Table!Free(r.t) = {}
    <3>1. ~ Table!Accepted(r.t, k)
      BY <2>4 DEF Table!Accepted
    <3>2. Table!Called(r, c) = [t |-> r.t, map |-> r.map]
      BY <1>3, <2>4, <3>1 DEF Table!Called, Table!env_set
    <3>3. r = [t |-> r.t, map |-> r.map]
      BY DEF EnvInv, EnvState
    <3>4. QED
      BY <3>2, <3>3
  <2>5. QED
    BY <2>2, <2>3, <2>4
<1>4. QED
  BY <1>2, <1>3

\* A slot in use is the slot of a key with a value, and the other way round:
\* the table is full when as many keys have values as there are slots.
LEMMA FullTable ==
  ASSUME NEW r, EnvInv(r), OwnOnly(r)
  PROVE  Table!Free(r.t) = {} <=> Cardinality({k \in Keys : r.map[k] # NoValue}) = ENV_MAX_VARS
<1> DEFINE t == r.t
           U == {i \in Table!Slots : t[i].used}
           K == {k \in Keys : r.map[k] # NoValue}
           f == [i \in U |-> t[i].key]
<1>1. \A i \in U : t[i].key \in Table!OwnKeys /\ i \in Table!Hits(t, t[i].key) /\ t[i].val # NoValue
  BY DEF OwnOnly, EnvInv, Table!Hits
<1>2. ASSUME NEW i \in U
      PROVE  f[i] \in K /\ \A j \in U : f[j] = f[i] => j = i
  <2>1. t[i].key \in Table!OwnKeys /\ t[i].key \in Keys
    BY <1>1, OwnStored
  <2>2. /\ \A j, l \in Table!Hits(t, t[i].key) : j = l
        /\ Table!env_get(t, t[i].key) = Table!Reads(r.map[t[i].key])
    BY <2>1 DEF EnvInv
  <2>3. Table!env_get(t, t[i].key) = t[i].val
    BY <1>1, <2>2, GetOf
  <2>4. r.map[t[i].key] # NoValue
    BY <1>1, <2>2, <2>3, ValueReads
  <2>5. ASSUME NEW j \in U, t[j].key = t[i].key PROVE j = i
    <3>1. j \in Table!Hits(t, t[i].key) /\ i \in Table!Hits(t, t[i].key)
      BY <1>1, <2>5
    <3>2. QED
      BY <2>2, <3>1
  <2>6. QED
    BY <2>1, <2>4, <2>5
<1>3. ASSUME NEW k \in K
      PROVE  \E i \in U : f[i] = k
  <2>1. k \in Table!OwnKeys
    BY DEF OwnOnly
  <2>2. Table!env_get(t, k) # NoValue
    <3>1. Table!env_get(t, k) = Table!Reads(r.map[k]) /\ r.map[k] # NoValue
      BY <2>1 DEF EnvInv
    <3>2. r.map[k] \in Values \cup {NoValue}
      BY DEF EnvInv, EnvState
    <3>3. QED
      BY <3>1, <3>2, ValueReads
  <2>3. Table!Hits(t, k) # {}
    BY <2>2, GetOf
  <2>4. QED
    BY <2>3 DEF Table!Hits
<1>4. f \in Bijection(U, K)
  <2>1. f \in [U -> K]
    BY <1>2
  <2>2. f \in Injection(U, K)
    BY <2>1, <1>2 DEF Injection, IsInjective
  <2>3. f \in Surjection(U, K)
    BY <2>1, <1>3 DEF Surjection
  <2>4. QED
    BY <2>2, <2>3 DEF Bijection
<1> HIDE DEF f
<1>5. IsFiniteSet(Table!Slots) /\ Cardinality(Table!Slots) = ENV_MAX_VARS
  <2>1. ENV_MAX_VARS \in Nat
    BY ShellEnvAssumption
  <2>2. IsFiniteSet(1..ENV_MAX_VARS)
        /\ Cardinality(1..ENV_MAX_VARS) = IF 1 > ENV_MAX_VARS THEN 0 ELSE ENV_MAX_VARS - 1 + 1
    BY <2>1, FS_Interval
  <2>3. QED
    BY <2>1, <2>2 DEF Table!Slots
<1>6. U \in SUBSET Table!Slots
  OBVIOUS
<1> HIDE DEF U, K
<1>7. IsFiniteSet(U) /\ (Cardinality(Table!Slots) = Cardinality(U) => Table!Slots = U)
  BY <1>5, <1>6, FS_Subset
<1>8. Cardinality(K) = Cardinality(U)
  <2>1. ExistsBijection(U, K)
    BY <1>4 DEF ExistsBijection
  <2>2. QED
    BY <1>7, <2>1, FS_Bijection
<1>9. Table!Free(t) = {} <=> U = Table!Slots
  BY DEF U, Table!Free
<1>10. Table!Free(t) = {} <=> Cardinality(K) = ENV_MAX_VARS
  BY <1>5, <1>7, <1>8, <1>9
<1>11. QED
  BY <1>10 DEF K, t

\* After any sequence of calls the table is the map that it should be.
LEMMA CallsKeepMap ==
  ASSUME NEW calls \in Seq(Table!Calls)
  PROVE  Table!IsMap(calls)
<1> DEFINE n == Len(calls)
           S == {r \in EnvState : EnvInv(r)}
           step == [x \in (1..n) \X S |-> Table!Called(x[2], calls[x[1]])]
           Body(v) == [k \in 0..n |-> IF k = 0 THEN EnvBoot ELSE Table!Called(v[k - 1], calls[k])]
           W == CHOOSE w : w = Body(w)
<1>1. n \in Nat
  BY LenProperties
<1>2. Table!After(calls) = W[n]
  BY DEF Table!After, EnvBoot
<1>3. \A k \in 1..n : calls[k] \in Table!Calls
  BY ElementOfSeq
<1>s. \A r \in S : EnvInv(r)
  OBVIOUS
<1>4. \A r \in S, k \in 1..n : Table!Called(r, calls[k]) \in S
  <2> SUFFICES ASSUME NEW r \in S, NEW k \in 1..n
               PROVE  Table!Called(r, calls[k]) \in S
    OBVIOUS
  <2>1. EnvInv(Table!Called(r, calls[k]))
    BY <1>3, CallStep
  <2>2. QED
    BY <2>1 DEF EnvInv
<1>b. EnvBoot \in S
  BY BootIsMap DEF EnvInv
<1> HIDE DEF S
<1>5. step \in [(1..n) \X S -> S]
  BY <1>4
<1>6. PICK w : IsLoop(w, S, EnvBoot, n, step)
  <2> HIDE DEF step, n
  <2>1. QED
    BY <1>1, <1>5, <1>b, Iteration, Zenon
<1>7. w = Body(w)
  <2>1. w \in [0..n -> S] /\ w[0] = EnvBoot
    BY <1>6 DEF IsLoop
  <2>2. ASSUME NEW k \in 1..n
        PROVE  w[k] = Table!Called(w[k - 1], calls[k])
    <3>1. w[k - 1] \in S
      BY <1>1, <2>1
    <3>2. <<k, w[k - 1]>> \in (1..n) \X S
      BY <3>1
    <3>3. step[<<k, w[k - 1]>>] = Table!Called(w[k - 1], calls[k])
      BY <3>2
    <3>4. QED
      BY <3>3, <1>6 DEF IsLoop
  <2>3. QED
    BY <1>1, <2>1, <2>2
<1>8. W = Body(W)
  BY <1>7
<1> HIDE DEF W
<1>9. W[0] = EnvBoot /\ \A k \in 1..n : W[k] = Table!Called(W[k - 1], calls[k])
  <2>1. 0 \in 0..n /\ \A k \in 1..n : k \in 0..n /\ k # 0
    BY <1>1
  <2>2. \A k \in 0..n : W[k] = IF k = 0 THEN EnvBoot ELSE Table!Called(W[k - 1], calls[k])
    BY <1>8
  <2>3. QED
    BY <2>1, <2>2
<1> DEFINE Own(k) == \A i \in 1..k : calls[i].key \in Table!OwnKeys
           T == {k \in 0..n : EnvInv(W[k]) /\ (Own(k) => OwnOnly(W[k]))}
<1>10. 0 \in T
  BY <1>1, <1>9, BootIsMap
<1>11. ASSUME NEW k \in 0..(n - 1), k \in T
       PROVE  k + 1 \in T
  <2>1. k + 1 \in 1..n /\ k + 1 - 1 = k /\ k + 1 \in 0..n
    BY <1>1
  <2>2. W[k + 1] = Table!Called(W[k], calls[k + 1])
    BY <2>1, <1>9
  <2>3. EnvInv(W[k]) /\ (Own(k) => OwnOnly(W[k]))
    BY <1>11
  <2>4. /\ EnvInv(W[k + 1])
        /\ OwnOnly(W[k]) /\ calls[k + 1].key \in Table!OwnKeys => OwnOnly(W[k + 1])
    BY <1>3, <2>1, <2>2, <2>3, CallStep
  <2>5. Own(k + 1) => Own(k) /\ calls[k + 1].key \in Table!OwnKeys
    BY <2>1
  <2>6. QED
    BY <2>1, <2>3, <2>4, <2>5
<1>12. 0..n \subseteq T
  <2> HIDE DEF n, T
  <2> QED BY <1>1, <1>10, <1>11, SetInduction
<1>13. EnvInv(W[n]) /\ (Own(n) => OwnOnly(W[n]))
  BY <1>1, <1>12
<1> DEFINE r == W[n]
<1>14. \A k \in Table!OwnKeys : Table!env_get(r.t, k) = Table!Reads(r.map[k])
  BY <1>13 DEF EnvInv
<1>15. {calls[i].key : i \in 1..n} \subseteq Table!OwnKeys => OwnOnly(r)
  BY <1>13
<1>16. {calls[i].key : i \in 1..n} \subseteq Table!OwnKeys =>
         (Table!Free(r.t) = {} <=> Cardinality({k \in Keys : r.map[k] # NoValue}) = ENV_MAX_VARS)
  BY <1>13, <1>15, FullTable
<1>17. Table!After(calls) = r
  BY <1>2
<1> HIDE DEF r
<1>18. \A s : Table!Cardinality(s) = Cardinality(s)
  BY DEF Table!Cardinality, Cardinality
<1>19. QED
  BY <1>14, <1>16, <1>17, <1>18, Zenon DEF Table!IsMap

\* The environment is a map, for a table, keys and values of any size and every
\* sequence of export and unset: a key that fits, and that no longer key is cut
\* to, reads as the part of the value it was last set to that fits the array, and
\* a call is refused only when every slot belongs to a key with a value
\* (env.c:34-71).
THEOREM EnvironmentStaysMap == Spec => []EnvironmentIsMap
<1>1. EnvironmentIsMap
  BY CallsKeepMap, ShellEnvAssumption DEF EnvironmentIsMap, CallsOK
<1>2. QED
  BY <1>1, PTL
=============================================================================
