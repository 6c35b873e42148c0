----------------------------- MODULE Editor_proofs -----------------------------
(***************************************************************************)
(* Proofs about modules Editor and TextTools, for every size of the        *)
(* buffer, of the screen, of a file and of the commands' arrays, and every *)
(* set of characters, queries, patterns and files.                         *)
(***************************************************************************)
EXTENDS TextTools, TLAPS, WellFoundedInduction, SequenceTheorems, FiniteSetTheorems

-----------------------------------------------------------------------------
(* Least elements and loops.                                                *)

\* A set of numbers has a least one.
LEMMA LeastNat ==
  ASSUME NEW T \in SUBSET Nat, T # {}
  PROVE  \E x \in T : \A y \in T : x <= y
<1>1. PICK x \in T : \A y \in T : <<y, x>> \notin OpToRel(<, Nat)
  BY NatLessThanWellFounded, WFMin, Zenon
<1>2. ASSUME NEW y \in T PROVE ~ (y < x)
  <2>1. y \in Nat /\ x \in Nat
    OBVIOUS
  <2>2. QED
    BY <1>1, <2>1 DEF OpToRel
<1>3. QED
  BY <1>2

\* Induction, for the set of the numbers that have a property: what holds
\* before a loop and after every round of it holds after all of them.
LEMMA SetInduction ==
  ASSUME NEW n \in Nat, NEW T, 0 \in T,
         \A k \in 0..(n - 1) : k \in T => k + 1 \in T
  PROVE  0..n \subseteq T
<1> DEFINE Rest == {k \in 0..n : k \notin T}
<1>1. SUFFICES ASSUME Rest # {}
               PROVE  FALSE
  OBVIOUS
<1>2. Rest \in SUBSET Nat
  OBVIOUS
<1>3. PICK m \in Rest : \A k \in Rest : m <= k
  BY <1>1, <1>2, LeastNat
<1>4. m \in 0..n /\ m \notin T /\ m # 0
  BY <1>3
<1>5. m - 1 \in 0..(n - 1) /\ m - 1 \in 0..n /\ m - 1 + 1 = m
  BY <1>4
<1>6. m - 1 \notin Rest
  BY <1>3, <1>4, <1>5
<1>7. QED
  BY <1>4, <1>5, <1>6

\* The values after each of n rounds of a loop that starts with a and turns x
\* into step[k, x] in round k.
IsLoop(f, S, a, n, step) ==
    f \in [0..n -> S] /\ f[0] = a /\ \A k \in 1..n : f[k] = step[<<k, f[k - 1]>>]

\* Such a loop has a value after each round.
LEMMA Iteration ==
  ASSUME NEW S, NEW a \in S, NEW n \in Nat, NEW step \in [(1..n) \X S -> S]
  PROVE  \E f : IsLoop(f, S, a, n, step)
<1> DEFINE Loop(f, m) == f[0] = a /\ \A k \in 1..m : f[k] = step[<<k, f[k - 1]>>]
           T == {m \in 0..n : \E f \in [0..m -> S] : Loop(f, m)}
<1>1. 0 \in T
  <2> DEFINE f == [k \in 0..0 |-> a]
  <2>1. f \in [0..0 -> S] /\ Loop(f, 0)
    OBVIOUS
  <2> HIDE DEF f
  <2>2. QED
    BY <2>1
<1>2. ASSUME NEW m \in 0..(n - 1), m \in T
      PROVE  m + 1 \in T
  <2>1. PICK f \in [0..m -> S] : Loop(f, m)
    BY <1>2
  <2> DEFINE g == [k \in 0..(m + 1) |-> IF k = m + 1 THEN step[<<m + 1, f[m]>>] ELSE f[k]]
  <2>2. m + 1 \in 1..n /\ f[m] \in S
    OBVIOUS
  <2>3. <<m + 1, f[m]>> \in (1..n) \X S
    BY <2>2
  <2>4. step[<<m + 1, f[m]>>] \in S
    BY <2>3
  <2>5. g \in [0..(m + 1) -> S]
    BY <2>4
  <2>6. g[0] = a
    BY <2>1
  <2>7. ASSUME NEW k \in 1..(m + 1)
        PROVE  g[k] = step[<<k, g[k - 1]>>]
    <3>1. CASE k = m + 1
      <4>1. k \in 0..(m + 1) /\ k - 1 = m /\ m \in 0..(m + 1) /\ m # m + 1
        BY <3>1
      <4>2. g[k] = step[<<k, f[m]>>] /\ g[k - 1] = f[m]
        BY <4>1, <3>1
      <4>3. QED
        BY <4>2
    <3>2. CASE k # m + 1
      <4>1. k \in 1..m /\ k - 1 \in 0..(m + 1) /\ k - 1 # m + 1 /\ k \in 0..(m + 1)
        BY <3>2
      <4>2. g[k] = f[k] /\ g[k - 1] = f[k - 1]
        BY <4>1, <3>2
      <4>3. f[k] = step[<<k, f[k - 1]>>]
        BY <4>1, <2>1
      <4>4. QED
        BY <4>2, <4>3
    <3>3. QED
      BY <3>1, <3>2
  <2> HIDE DEF g
  <2>8. Loop(g, m + 1)
    BY <2>6, <2>7
  <2>9. m + 1 \in 0..n
    OBVIOUS
  <2>10. QED
    BY <2>5, <2>8, <2>9
<1>3. 0..n \subseteq T
  <2> HIDE DEF T
  <2>1. QED
    BY <1>1, <1>2, SetInduction
<1>4. n \in T
  BY <1>3
<1>5. PICK f \in [0..n -> S] : Loop(f, n)
  BY <1>4
<1>6. IsLoop(f, S, a, n, step)
  BY <1>5 DEF IsLoop
<1>7. QED
  BY <1>6

-----------------------------------------------------------------------------
(* The lines of a file.                                                     *)

\* The constants.
LEMMA EditorSizes ==
  /\ ED_MAX_LINES \in Nat /\ ED_MAX_LINES > 0
  /\ ED_LINE_MAX \in Nat /\ ED_LINE_MAX > 0
  /\ ED_ROWS \in Nat /\ ED_ROWS > 0
  /\ Capacity \in Nat
  /\ Break \in Byte /\ Chars \subseteq Byte \ {Break}
BY EditorAssumption

\* The characters of a line, and the lines.
Char == Byte \ {Break}
Row == {l \in Seq(Char) : Len(l) <= ED_LINE_MAX}

\* The k-th of a set of numbers.
LEMMA KthExists ==
  ASSUME NEW n \in Nat, NEW S \in SUBSET (1..n), IsFiniteSet(S), NEW k \in 1..Cardinality(S)
  PROVE  \E b \in S : Cardinality({a \in S : a <= b}) = k
<1> DEFINE B(m) == {a \in S : a <= m}
           T == {m \in 0..n : Cardinality(B(m)) >= k}
<1>1. \A m : IsFiniteSet(B(m)) /\ Cardinality(B(m)) \in Nat
  <2> SUFFICES ASSUME NEW m PROVE IsFiniteSet(B(m)) /\ Cardinality(B(m)) \in Nat
    OBVIOUS
  <2>1. B(m) \in SUBSET S
    OBVIOUS
  <2> HIDE DEF B
  <2>2. IsFiniteSet(B(m))
    BY <2>1, FS_Subset
  <2>3. QED
    BY <2>2, FS_CardinalityType
<1>0. \A a \in S : a \in Int /\ 1 <= a /\ a <= n
  OBVIOUS
<1>2. B(n) = S
  BY <1>0
<1>3. B(0) = {}
  <2>1. \A a \in S : ~ (a <= 0)
    BY <1>0
  <2>2. QED
    BY <2>1
<1>4. Cardinality(S) \in Nat
  BY FS_CardinalityType
<1>5. n \in T /\ T \in SUBSET Nat
  <2>1. Cardinality(B(n)) >= k
    BY <1>2, <1>4
  <2> HIDE DEF B
  <2>2. QED
    BY <2>1
<1>6. PICK m \in T : \A y \in T : m <= y
  <2> HIDE DEF T
  <2> QED BY <1>5, LeastNat
<1>7. m \in 0..n /\ Cardinality(B(m)) >= k
  BY <1>6
<1>8. m # 0
  <2>1. Cardinality(B(0)) = 0
    BY <1>3, FS_EmptySet
  <2> HIDE DEF B
  <2>2. QED
    BY <2>1, <1>7
<1>9. m - 1 \in 0..n /\ m - 1 \notin T
  <2>1. m - 1 \in 0..n /\ ~ (m <= m - 1)
    BY <1>7, <1>8
  <2> HIDE DEF T
  <2>2. QED
    BY <2>1, <1>6
<1>10. Cardinality(B(m - 1)) < k
  <2>1. Cardinality(B(m - 1)) \in Nat
    BY <1>1
  <2> HIDE DEF B
  <2>2. QED
    BY <2>1, <1>9
<1>11. m \in S
  <2>1. SUFFICES ASSUME m \notin S PROVE FALSE
    OBVIOUS
  <2>2. B(m) = B(m - 1)
    <3>1. \A a \in S : a <= m <=> a <= m - 1
      BY <1>0, <1>7, <2>1
    <3>2. QED
      BY <3>1
  <2>3. QED
    <3> HIDE DEF B
    <3> QED BY <2>2, <1>1, <1>7, <1>10
<1>12. B(m) = B(m - 1) \cup {m} /\ m \notin B(m - 1)
  <2>1. \A a \in S : a <= m <=> (a <= m - 1 \/ a = m)
    BY <1>0, <1>7, <1>11
  <2>2. ~ (m <= m - 1) /\ m <= m
    BY <1>7
  <2>3. QED
    BY <2>1, <2>2, <1>11
<1>13. Cardinality(B(m)) = Cardinality(B(m - 1)) + 1
  <2>1. IsFiniteSet(B(m - 1))
    BY <1>1
  <2> HIDE DEF B
  <2>2. QED
    BY <1>12, <2>1, FS_AddElement
<1>14. Cardinality(B(m)) = k
  <2>1. Cardinality(B(m - 1)) \in Nat
    BY <1>1
  <2> HIDE DEF B
  <2>2. QED
    BY <2>1, <1>7, <1>10, <1>13
<1>15. QED
  BY <1>11, <1>14

\* The breaks of a file can be counted.
LEMMA BreaksFinite ==
  ASSUME NEW f \in Seq(Byte)
  PROVE  /\ Breaks(f) \subseteq 1..Len(f) /\ Len(f) \in Nat
         /\ IsFiniteSet(Breaks(f)) /\ Cardinality(Breaks(f)) \in Nat
         /\ Breaks(f) # {} => Cardinality(Breaks(f)) > 0
<1>1. Breaks(f) \subseteq 1..Len(f) /\ Len(f) \in Nat
  BY LenProperties DEF Breaks
<1>2. IsFiniteSet(1..Len(f))
  BY <1>1, FS_Interval
<1>3. IsFiniteSet(Breaks(f))
  BY <1>1, <1>2, FS_Subset
<1>4. Cardinality(Breaks(f)) \in Nat
  BY <1>3, FS_CardinalityType
<1>5. QED
  BY <1>1, <1>3, <1>4, FS_EmptySet

LEMMA KthBreakIs ==
  ASSUME NEW f \in Seq(Byte), NEW k \in 1..Cardinality(Breaks(f))
  PROVE  /\ KthBreak(f, k) \in Breaks(f)
         /\ Cardinality({a \in Breaks(f) : a <= KthBreak(f, k)}) = k
<1>1. \E b \in Breaks(f) : Cardinality({a \in Breaks(f) : a <= b}) = k
  <2>1. Breaks(f) \in SUBSET (1..Len(f)) /\ Len(f) \in Nat /\ IsFiniteSet(Breaks(f))
    BY BreaksFinite
  <2>2. QED
    BY <2>1, KthExists, Zenon
<1>2. QED
  BY <1>1, Zenon DEF KthBreak

\* A break is known by the number of breaks up to it.
LEMMA RankOnce ==
  ASSUME NEW f \in Seq(Byte), NEW b \in Breaks(f), NEW c \in Breaks(f), b < c
  PROVE  Cardinality({a \in Breaks(f) : a <= b}) < Cardinality({a \in Breaks(f) : a <= c})
<1> DEFINE B == {a \in Breaks(f) : a <= b}
           C == {a \in Breaks(f) : a <= c}
<1>1. Breaks(f) \subseteq Nat
  BY BreaksFinite
<1>2. B \in SUBSET C /\ C \in SUBSET Breaks(f) /\ c \in C /\ c \notin B
  BY <1>1
<1>3. IsFiniteSet(C)
  BY <1>2, BreaksFinite, FS_Subset
<1>4. IsFiniteSet(B) /\ Cardinality(B) <= Cardinality(C) /\ Cardinality(B) # Cardinality(C)
  <2>1. B # C
    BY <1>2
  <2> HIDE DEF B, C
  <2>2. QED
    BY <1>2, <1>3, <2>1, FS_Subset
<1>5. Cardinality(B) \in Nat /\ Cardinality(C) \in Nat
  BY <1>3, <1>4, FS_CardinalityType
<1>6. QED
  BY <1>4, <1>5

\* Between two breaks that follow each other there is none.
LEMMA LineBetween ==
  ASSUME NEW f \in Seq(Byte), NEW k \in 1..Cardinality(Breaks(f))
  PROVE  LET start == IF k = 1 THEN 1 ELSE KthBreak(f, k - 1) + 1
         IN  /\ start \in 1..KthBreak(f, k)
             /\ \A i \in start..(KthBreak(f, k) - 1) : f[i] \in Char
<1> DEFINE b == KthBreak(f, k)
           start == IF k = 1 THEN 1 ELSE KthBreak(f, k - 1) + 1
<1>1. b \in Breaks(f) /\ Breaks(f) \subseteq 1..Len(f) /\ Len(f) \in Nat
  BY KthBreakIs, BreaksFinite
<1>2. b \in 1..Len(f)
  BY <1>1, Zenon
<1>3. \A i \in 1..Len(f) : f[i] \in Byte
  BY ElementOfSeq
<1>4. \A i \in 1..Len(f) : i \notin Breaks(f) => f[i] \in Char
  BY <1>3 DEF Breaks, Char
<1> HIDE DEF b
<1>5. Cardinality({a \in Breaks(f) : a <= b}) = k
  BY KthBreakIs DEF b
<1>6. CASE k = 1
  <2>1. ASSUME NEW i \in 1..(b - 1) PROVE i \notin Breaks(f)
    <3>1. SUFFICES ASSUME i \in Breaks(f) PROVE FALSE
      OBVIOUS
    <3>2. Cardinality({a \in Breaks(f) : a <= i}) < 1
      BY <1>1, <1>2, <1>5, <1>6, <3>1, RankOnce
    <3>3. {a \in Breaks(f) : a <= i} \in SUBSET Breaks(f) /\ i \in {a \in Breaks(f) : a <= i}
      BY <3>1, <1>2
    <3>4. IsFiniteSet({a \in Breaks(f) : a <= i})
      BY <3>3, BreaksFinite, FS_Subset
    <3> DEFINE A == {a \in Breaks(f) : a <= i}
    <3> HIDE DEF A
    <3>5. Cardinality(A) \in Nat /\ Cardinality(A) < 1 /\ IsFiniteSet(A) /\ i \in A
      BY <3>2, <3>3, <3>4, FS_CardinalityType DEF A
    <3>6. Cardinality(A) = 0
      BY <3>5
    <3>7. QED
      BY <3>5, <3>6, FS_EmptySet
  <2>2. QED
    BY <1>2, <1>4, <1>6, <2>1 DEF b
<1>7. CASE k # 1
  <2> DEFINE p == KthBreak(f, k - 1)
  <2>1. k - 1 \in 1..Cardinality(Breaks(f))
    BY <1>7, BreaksFinite
  <2>2. p \in Breaks(f) /\ Cardinality({a \in Breaks(f) : a <= p}) = k - 1
    BY <2>1, KthBreakIs
  <2>3. p \in 1..Len(f)
    BY <1>1, <2>2, Zenon
  <2> HIDE DEF p
  <2>4. p < b
    <3>1. SUFFICES ASSUME ~ (p < b) PROVE FALSE
      OBVIOUS
    <3>2. CASE p = b
      BY <3>2, <1>5, <2>2
    <3>3. CASE b < p
      <4>1. k < k - 1
        BY <3>3, <1>1, <1>5, <2>2, RankOnce
      <4>2. QED
        BY <4>1
    <3>4. QED
      BY <3>1, <3>2, <3>3, <1>2, <2>3
  <2>5. ASSUME NEW i \in (p + 1)..(b - 1) PROVE i \notin Breaks(f)
    <3>1. SUFFICES ASSUME i \in Breaks(f) PROVE FALSE
      OBVIOUS
    <3>2. p < i /\ i < b
      BY <1>2, <2>3
    <3>3. k - 1 < Cardinality({a \in Breaks(f) : a <= i})
      BY <2>2, <3>1, <3>2, RankOnce
    <3>4. Cardinality({a \in Breaks(f) : a <= i}) < k
      BY <1>1, <1>5, <3>1, <3>2, RankOnce
    <3>5. {a \in Breaks(f) : a <= i} \in SUBSET Breaks(f)
      OBVIOUS
    <3>6. IsFiniteSet({a \in Breaks(f) : a <= i})
      BY <3>5, BreaksFinite, FS_Subset
    <3>7. Cardinality({a \in Breaks(f) : a <= i}) \in Nat
      BY <3>6, FS_CardinalityType
    <3>8. QED
      BY <3>3, <3>4, <3>7
  <2>6. start = p + 1
    BY <1>7 DEF p
  <2>7. \A i \in (p + 1)..(b - 1) : i \in 1..Len(f)
    BY <1>2, <2>3
  <2>8. p + 1 \in 1..b
    BY <1>2, <2>3, <2>4
  <2>9. QED
    BY <1>4, <2>5, <2>6, <2>7, <2>8 DEF b
<1>8. QED
  BY <1>6, <1>7

\* load_file makes lines that fit the buffer of every file.
LEMMA LoadedType ==
  ASSUME NEW f, f \in {ABSENT, NOBUF} \/ f \in Seq(Byte)
  PROVE  /\ Loaded(f) \in Seq(Row)
         /\ Len(Loaded(f)) \in 1..ED_MAX_LINES
<1>1. CASE ~ HasText(f) \/ Breaks(f) = {}
  <2>1. Loaded(f) = << <<>> >>
    BY <1>1 DEF Loaded
  <2>2. <<>> \in Row
    BY EditorSizes DEF Row
  <2>3. QED
    BY <2>1, <2>2, EditorSizes
<1>2. CASE HasText(f) /\ Breaks(f) # {}
  <2> DEFINE c == Cardinality(Breaks(f))
             n == Least(ED_MAX_LINES, c)
  <2>0. f \in Seq(Byte) /\ c \in Nat \ {0}
    BY <1>2, BreaksFinite DEF HasText
  <2>1. f \in Seq(Byte) /\ n \in 1..ED_MAX_LINES /\ n <= c /\ c \in Nat
    <3> HIDE DEF c
    <3> QED BY <2>0, EditorSizes DEF Least
  <2>2. ASSUME NEW k \in 1..n PROVE LoadedLine(f, k) \in Row
    <3> DEFINE start == IF k = 1 THEN 1 ELSE KthBreak(f, k - 1) + 1
               end == KthBreak(f, k) - 1
               line == SubSeq(f, start, end)
    <3>1. start \in 1..KthBreak(f, k) /\ \A i \in start..end : f[i] \in Char
      BY <2>1, LineBetween
    <3>2. KthBreak(f, k) \in Int
      <4>1. k \in 1..c
        <5> HIDE DEF c, n
        <5> QED BY <2>1
      <4>2. KthBreak(f, k) \in Breaks(f)
        BY <2>1, <4>1, KthBreakIs
      <4>3. KthBreak(f, k) \in 1..Len(f) /\ Len(f) \in Nat
        BY <2>1, <4>2, BreaksFinite
      <4>4. QED
        BY <4>3
    <3>3. start \in Int /\ end \in Int
      BY <3>1, <3>2
    <3>4. LoadedLine(f, k) = SubSeq(line, 1, Least(ED_LINE_MAX, Len(line)))
      BY DEF LoadedLine
    <3> HIDE DEF start, end
    <3>5. line \in Seq(Char)
      BY <3>1, <3>3, SubSeqProperties
    <3> HIDE DEF line
    <3>6. SubSeq(line, 1, Least(ED_LINE_MAX, Len(line))) \in Row
      BY <3>5, EditorSizes DEF Row, Least
    <3>7. QED
      BY <3>4, <3>6
  <2>3. Loaded(f) = [k \in 1..n |-> LoadedLine(f, k)]
    BY <1>2 DEF Loaded
  <2>4. Loaded(f) \in [1..n -> Row]
    BY <2>2, <2>3
  <2>5. QED
    <3> HIDE DEF n
    <3> QED BY <2>1, <2>4, EditorSizes
<1>3. QED
  BY <1>1, <1>2

-----------------------------------------------------------------------------
(* The text of a buffer.                                                    *)

Texts == Seq(Byte)

\* The text after each of the lines of ls.
Grows(g, ls) ==
    /\ g \in [0..Len(ls) -> Texts]
    /\ g[0] = <<>>
    /\ \A k \in 1..Len(ls) : g[k] = g[k - 1] \o Append(ls[k], Break)

LEMMA GrowsOnce ==
  ASSUME NEW ls \in Seq(Texts), NEW ms \in Seq(Texts), NEW g, NEW h, Grows(g, ls), Grows(h, ms),
         NEW m \in Nat, m <= Len(ls), m <= Len(ms), \A k \in 1..m : ls[k] = ms[k]
  PROVE  \A k \in 0..m : g[k] = h[k]
<1> DEFINE T == {k \in 0..m : g[k] = h[k]}
<1>1. 0 \in T
  BY DEF Grows
<1>2. ASSUME NEW k \in 0..(m - 1), k \in T
      PROVE  k + 1 \in T
  <2>1. k + 1 \in 1..Len(ls) /\ k + 1 \in 1..Len(ms) /\ k + 1 - 1 = k /\ k + 1 \in 1..m /\ k + 1 \in 0..m
    BY LenProperties
  <2> DEFINE d == k + 1
  <2>2. d \in 1..Len(ls) /\ d \in 1..Len(ms) /\ d - 1 = k /\ d \in 1..m /\ d \in 0..m
    BY <2>1
  <2> HIDE DEF d
  <2>3. g[d] = g[d - 1] \o Append(ls[d], Break) /\ h[d] = h[d - 1] \o Append(ms[d], Break)
    BY <2>2 DEF Grows
  <2>4. g[d] = h[d]
    BY <2>2, <2>3, <1>2
  <2>5. QED
    BY <2>2, <2>4 DEF d
<1>3. 0..m \subseteq T
  <2> HIDE DEF T
  <2> QED BY <1>1, <1>2, SetInduction
<1>4. QED
  BY <1>3

LEMMA ImageGrows ==
  ASSUME NEW ls \in Seq(Texts)
  PROVE  \E g : Grows(g, ls) /\ Image(ls) = g[Len(ls)]
<1> DEFINE n == Len(ls)
           ss == [k \in 1..n |-> Append(ls[k], Break)]
           step == [x \in (1..n) \X Texts |-> x[2] \o Append(ls[x[1]], Break)]
           Body(f) == [i \in 1..Len(ss) |-> IF i = 1 THEN ss[i] ELSE f[i - 1] \o ss[i]]
           F == CHOOSE f : f = Body(f)
<1>1. n \in Nat /\ \A k \in 1..n : ls[k] \in Texts
  BY LenProperties, ElementOfSeq
<1>2. \A k \in 1..n : Append(ls[k], Break) \in Texts
  BY <1>1, EditorSizes, AppendProperties DEF Texts
<1>3. ss \in [1..n -> Texts]
  BY <1>2
<1>4. Len(ss) = n
  BY <1>1, <1>3
<1>5. step \in [(1..n) \X Texts -> Texts]
  BY <1>2, ConcatProperties DEF Texts
<1>6. PICK g : IsLoop(g, Texts, <<>>, n, step)
  <2> HIDE DEF step, n
  <2>1. <<>> \in Texts
    BY DEF Texts
  <2>2. QED
    BY <1>1, <1>5, <2>1, Iteration, Zenon
<1>7. g \in [0..n -> Texts] /\ g[0] = <<>>
  BY <1>6 DEF IsLoop
<1>8. ASSUME NEW k \in 1..n
      PROVE  g[k] = g[k - 1] \o Append(ls[k], Break)
  <2>1. k - 1 \in 0..n
    BY <1>1
  <2>2. <<k, g[k - 1]>> \in (1..n) \X Texts
    BY <2>1, <1>7
  <2>3. step[<<k, g[k - 1]>>] = g[k - 1] \o Append(ls[k], Break)
    BY <2>2
  <2>4. QED
    BY <2>3, <1>6 DEF IsLoop
<1>9. Grows(g, ls)
  BY <1>7, <1>8 DEF Grows
<1>10. CASE n = 0
  <2>1. ss = <<>>
    BY <1>10, <1>3
  <2>2. Image(ls) = <<>>
    BY <2>1 DEF Image, FlattenSeq
  <2>3. QED
    BY <2>2, <1>7, <1>9, <1>10
<1>11. CASE n # 0
  <2> DEFINE h == [k \in 1..n |-> g[k]]
  <2>1. h = Body(h)
    <3>1. ASSUME NEW i \in 1..n
          PROVE  g[i] = IF i = 1 THEN ss[i] ELSE h[i - 1] \o ss[i]
      <4>1. ss[i] = Append(ls[i], Break) /\ g[i] = g[i - 1] \o ss[i] /\ ss[i] \in Texts
        BY <1>2, <1>8
      <4>2. CASE i = 1
        <5>1. g[i - 1] = <<>>
          BY <4>2, <1>7
        <5>2. QED
          BY <4>1, <4>2, <5>1, ConcatEmptySeq DEF Texts
      <4>3. CASE i # 1
        <5>1. i - 1 \in 1..n
          BY <4>3, <1>1
        <5>2. h[i - 1] = g[i - 1]
          BY <5>1
        <5>3. QED
          BY <4>1, <4>3, <5>2
      <4>4. QED
        BY <4>2, <4>3
    <3>2. QED
      BY <3>1, <1>4
  <2>2. F = Body(F)
    <3> HIDE DEF h, ss
    <3> QED BY <2>1
  <2>3. Image(ls) = F[Len(ss)]
    BY <1>4, <1>11 DEF Image, FlattenSeq
  <2> HIDE DEF F, h
  <2>4. \A i \in 1..n : F[i] = IF i = 1 THEN ss[i] ELSE F[i - 1] \o ss[i]
    <3> HIDE DEF ss
    <3> QED BY <2>2, <1>4
  <2> DEFINE T == {k \in 0..n : k = 0 \/ F[k] = g[k]}
  <2>5. 0 \in T
    BY <1>1
  <2>6. ASSUME NEW k \in 0..(n - 1), k \in T
        PROVE  k + 1 \in T
    <3> DEFINE d == k + 1
    <3>1. d \in 1..n /\ d \in 0..n /\ d - 1 = k
      BY <1>1
    <3> HIDE DEF d
    <3>2. ss[d] = Append(ls[d], Break) /\ g[d] = g[d - 1] \o ss[d] /\ ss[d] \in Texts
      BY <1>2, <1>8, <3>1
    <3>3. CASE k = 0
      <4>1. d = 1 /\ g[d - 1] = <<>>
        BY <3>1, <3>3, <1>7 DEF d
      <4>2. F[d] = ss[d]
        BY <2>4, <3>1, <4>1
      <4>3. g[d] = ss[d]
        BY <3>2, <4>1, ConcatEmptySeq DEF Texts
      <4>4. QED
        BY <3>1, <4>2, <4>3 DEF d
    <3>4. CASE k # 0
      <4>1. d # 1
        BY <3>4 DEF d
      <4>2. F[d] = F[d - 1] \o ss[d]
        BY <2>4, <3>1, <4>1
      <4>3. F[d - 1] = g[d - 1]
        BY <2>6, <3>1, <3>4
      <4>4. QED
        BY <3>1, <3>2, <4>2, <4>3 DEF d
    <3>5. QED
      BY <3>3, <3>4
  <2>7. 0..n \subseteq T
    <3> HIDE DEF T
    <3> QED BY <1>1, <2>5, <2>6, SetInduction
  <2>8. F[n] = g[n]
    <3>1. n \in 0..n
      BY <1>1
    <3>2. QED
      BY <2>7, <3>1, <1>11
  <2>9. QED
    BY <1>4, <1>9, <2>3, <2>8
<1>12. QED
  BY <1>10, <1>11

LEMMA Associates ==
  ASSUME NEW a \in Texts, NEW b \in Texts, NEW c \in Texts
  PROVE  (a \o b) \o c = a \o (b \o c)
BY ConcatAssociative DEF Texts

Chained(a, b, c) == (a \o b) \o c = a \o (b \o c)

LEMMA Chain ==
  ASSUME NEW a \in Texts, NEW b \in Texts, NEW c \in Texts
  PROVE  Chained(a, b, c)
BY Associates DEF Chained

LEMMA TextConcat ==
  /\ \A a, b, c \in Texts : (a \o b) \o c = a \o (b \o c)
  /\ \A a, b \in Texts : a \o b \in Texts /\ Len(a \o b) = Len(a) + Len(b)
  /\ \A a \in Texts : a \o <<>> = a /\ <<>> \o a = a /\ Len(a) \in Nat
<1>1. ASSUME NEW a \in Texts, NEW b \in Texts, NEW c \in Texts
      PROVE  (a \o b) \o c = a \o (b \o c)
  BY Associates, ZenonT(40)
<1>2. ASSUME NEW a \in Texts, NEW b \in Texts
      PROVE  a \o b \in Texts /\ Len(a \o b) = Len(a) + Len(b)
  BY ConcatProperties DEF Texts
<1>3. ASSUME NEW a \in Texts
      PROVE  a \o <<>> = a /\ <<>> \o a = a /\ Len(a) \in Nat
  BY ConcatEmptySeq, LenProperties DEF Texts
<1>4. QED
  BY <1>1, <1>2, <1>3, Zenon

\* The text of no line, and of one line more.
LEMMA ImageAppend ==
  /\ Image(<<>>) = <<>>
  /\ \A ls \in Seq(Texts) : Image(ls) \in Texts
  /\ \A ls \in Seq(Texts), l \in Texts : Image(Append(ls, l)) = Image(ls) \o Append(l, Break)
<1>1. Image(<<>>) = <<>>
  <2>1. <<>> \in Seq(Texts)
    OBVIOUS
  <2>2. PICK g : Grows(g, <<>>) /\ Image(<<>>) = g[Len(<<>>)]
    BY <2>1, ImageGrows, Zenon
  <2>3. QED
    BY <2>2 DEF Grows
<1>2. ASSUME NEW ls \in Seq(Texts)
      PROVE  Image(ls) \in Texts
  <2>1. PICK g : Grows(g, ls) /\ Image(ls) = g[Len(ls)]
    BY ImageGrows
  <2>2. Len(ls) \in 0..Len(ls)
    BY LenProperties
  <2>3. QED
    BY <2>1, <2>2 DEF Grows
<1>3. ASSUME NEW ls \in Seq(Texts), NEW l \in Texts
      PROVE  Image(Append(ls, l)) = Image(ls) \o Append(l, Break)
  <2> DEFINE ms == Append(ls, l)
             n == Len(ls)
  <2>1. /\ ms \in Seq(Texts) /\ n \in Nat /\ Len(ms) = n + 1
        /\ \A k \in 1..n : ls[k] = ms[k]
        /\ ms[n + 1] = l
    BY AppendProperties, LenProperties
  <2>2. PICK g : Grows(g, ls) /\ Image(ls) = g[n]
    BY ImageGrows
  <2> HIDE DEF ms
  <2>3. PICK h : Grows(h, ms) /\ Image(ms) = h[Len(ms)]
    BY <2>1, ImageGrows
  <2>4. g[n] = h[n]
    <3> HIDE DEF n
    <3>1. n <= Len(ls) /\ n <= Len(ms) /\ n \in 0..n
      BY <2>1 DEF n
    <3>2. QED
      BY <2>1, <2>2, <2>3, <3>1, GrowsOnce
  <2>5. h[n + 1] = h[n] \o Append(l, Break)
    <3> DEFINE d == n + 1
    <3>1. d \in 1..Len(ms) /\ d - 1 = n /\ ms[d] = l
      BY <2>1
    <3> HIDE DEF d
    <3>2. h[d] = h[d - 1] \o Append(ms[d], Break)
      BY <2>3, <3>1 DEF Grows
    <3>3. QED
      BY <3>1, <3>2 DEF d
  <2>6. QED
    BY <2>1, <2>2, <2>3, <2>4, <2>5 DEF ms
<1>4. QED
  BY <1>1, <1>2, <1>3

\* The first lines of a buffer, one by one.
LEMMA PrefixGrows ==
  ASSUME NEW S, NEW s \in Seq(S), NEW k \in 0..(Len(s) - 1)
  PROVE  SubSeq(s, 1, k + 1) = Append(SubSeq(s, 1, k), s[k + 1])
OBVIOUS

\* The text of two buffers, one behind the other.
LEMMA ImageConcat ==
  ASSUME NEW A \in Seq(Texts), NEW B \in Seq(Texts)
  PROVE  Image(A \o B) = Image(A) \o Image(B)
<1> DEFINE P(k) == SubSeq(B, 1, k)
           n == Len(B)
           T == {k \in 0..n : Image(A \o P(k)) = Image(A) \o Image(P(k))}
<1>1. n \in Nat /\ \A k \in 0..n : P(k) \in Seq(Texts)
  BY LenProperties
<1>2. 0 \in T
  <2>1. P(0) = <<>>
    OBVIOUS
  <2>2. A \o P(0) = A
    BY <2>1, ConcatEmptySeq
  <2>3. Image(A) \o <<>> = Image(A)
    BY ImageAppend, ConcatEmptySeq DEF Texts
  <2> HIDE DEF P
  <2>4. Image(A \o P(0)) = Image(A) \o Image(P(0))
    BY <2>1, <2>2, <2>3, ImageAppend
  <2>5. QED
    BY <1>1, <2>4
<1>3. ASSUME NEW k \in 0..(n - 1), k \in T
      PROVE  k + 1 \in T
  <2> DEFINE l == B[k + 1]
             p == P(k)
             t == Append(l, Break)
  <2>1. k \in 0..n /\ k + 1 \in 0..n /\ k + 1 \in 1..Len(B)
    BY <1>1
  <2>2. l \in Texts
    BY <2>1, ElementOfSeq
  <2>3. t \in Texts
    BY <2>2, EditorSizes, AppendProperties DEF Texts
  <2>4. p \in Seq(Texts) /\ P(k + 1) = Append(p, l)
    BY <1>1, <2>1, PrefixGrows
  <2>5. Image(A \o p) = Image(A) \o Image(p)
    BY <1>3
  <2> HIDE DEF l, t, p, P
  <2>6. A \o p \in Seq(Texts) /\ A \o Append(p, l) = Append(A \o p, l)
    BY <2>2, <2>4
  <2>7. Image(Append(p, l)) = Image(p) \o t /\ Image(Append(A \o p, l)) = Image(A \o p) \o t
    BY <2>2, <2>4, <2>6, ImageAppend DEF t
  <2>8. Image(A) \in Texts /\ Image(p) \in Texts
    BY <2>4, ImageAppend
  <2>9. (Image(A) \o Image(p)) \o t = Image(A) \o (Image(p) \o t)
    BY <2>3, <2>8, TextConcat, ZenonT(40)
  <2>10. Image(A \o P(k + 1)) = Image(A) \o Image(P(k + 1))
    BY <2>4, <2>5, <2>6, <2>7, <2>9
  <2>11. QED
    BY <2>1, <2>10
<1>4. 0..n \subseteq T
  <2> HIDE DEF T
  <2> QED BY <1>1, <1>2, <1>3, SetInduction
<1>5. n \in T
  BY <1>1, <1>4
<1>6. P(n) = B
  BY SubSeqFull
<1>7. QED
  <2> HIDE DEF P
  <2> QED BY <1>5, <1>6

\* The text of one line.
LEMMA ImageOne ==
  ASSUME NEW l \in Texts
  PROVE  Image(<<l>>) = Append(l, Break) /\ Append(l, Break) \in Texts
<1>1. <<l>> = Append(<<>>, l) /\ <<>> \in Seq(Texts)
  OBVIOUS
<1>2. Append(l, Break) \in Texts
  BY EditorSizes, AppendProperties DEF Texts
<1>3. Image(<<l>>) = <<>> \o Append(l, Break)
  BY <1>1, ImageAppend
<1>4. QED
  BY <1>2, <1>3, ConcatEmptySeq DEF Texts

-----------------------------------------------------------------------------
(* The cursor.                                                              *)

\* Lines are texts.
LEMMA RowsAreTexts ==
  /\ Row \subseteq Texts
  /\ \A ls \in Seq(Row) : ls \in Seq(Texts)
<1>1. ASSUME NEW l \in Row PROVE l \in Texts
  <2>1. l \in Seq(Char) /\ Char \subseteq Byte
    BY DEF Row, Char
  <2>2. QED
    BY <2>1, SeqMonotonic DEF Texts
<1>2. QED
  BY <1>1, SeqMonotonic

\* A place in a buffer.
Place(ls, x, y) ==
    /\ ls \in Seq(Row) /\ Len(ls) \in 1..ED_MAX_LINES
    /\ y \in 0..(Len(ls) - 1)
    /\ x \in 0..Len(ls[y + 1])

Visible == cy - scroll_y \in 0..(ED_ROWS - 1)

FileIs == file \in {ABSENT, NOBUF} \/ (file \in Texts /\ Len(file) <= Capacity)

CursorInv ==
    /\ lines \in Seq(Row)
    /\ Editing => Place(lines, cx, cy)
    /\ scroll_y \in Nat
    /\ modified \in BOOLEAN
    /\ mode \in {"shell", "edit", "overrun", "ask", "crashed"}
    /\ search_query \in Texts
    /\ FileIs
    /\ mode = "edit" => Visible
    /\ mode = "overrun" => ~ modified
    /\ mode \in {"overrun", "crashed"} => Overruns(file) \/ LastLineAt > Capacity

\* The buffer of the editor while it is open.
Placed == CursorInv /\ Place(lines, cx, cy)

\* The line at a place.
LEMMA PlaceLine ==
  ASSUME NEW ls, NEW x, NEW y, Place(ls, x, y)
  PROVE  /\ Len(ls) \in Nat /\ y \in Nat /\ x \in Nat
         /\ y + 1 \in 1..Len(ls)
         /\ ls[y + 1] \in Row /\ ls[y + 1] \in Seq(Char)
         /\ Len(ls[y + 1]) \in Nat /\ Len(ls[y + 1]) <= ED_LINE_MAX
         /\ \A k \in 1..Len(ls) : ls[k] \in Row /\ ls[k] \in Seq(Char) /\ Len(ls[k]) \in Nat
<1>1. ls \in Seq(Row) /\ Len(ls) \in Nat /\ y \in Nat /\ y + 1 \in 1..Len(ls)
  BY EditorSizes DEF Place
<1>2. \A k \in 1..Len(ls) : ls[k] \in Row
  BY <1>1, ElementOfSeq
<1>3. \A l \in Row : l \in Seq(Char) /\ Len(l) \in Nat /\ Len(l) <= ED_LINE_MAX
  BY LenProperties DEF Row
<1>4. x \in Nat
  BY <1>1, <1>2, <1>3 DEF Place
<1>5. QED
  BY <1>1, <1>2, <1>3, <1>4, Zenon

LEMMA ScrollArithmetic ==
  ASSUME NEW s \in Nat, NEW y \in Nat, NEW r \in Nat, r > 0, NEW z,
         z = IF y < s THEN y ELSE IF y >= s + r THEN y - r + 1 ELSE s
  PROVE  z \in Nat /\ y - z \in 0..(r - 1)
<1>1. CASE y < s
  <2>1. z = y
    BY <1>1
  <2>2. QED
    BY <2>1
<1>2. CASE ~ (y < s) /\ y >= s + r
  <2>1. z = y - r + 1
    BY <1>2
  <2>2. QED
    BY <1>2, <2>1
<1>3. CASE ~ (y < s) /\ ~ (y >= s + r)
  <2>1. z = s
    BY <1>3
  <2>2. QED
    BY <1>3, <2>1
<1>4. QED
  BY <1>1, <1>2, <1>3

\* adjust_scroll brings the line of the cursor onto the screen.
LEMMA ScrollShows ==
  ASSUME scroll_y \in Nat, cy' \in Nat, adjust_scroll
  PROVE  scroll_y' \in Nat /\ Visible'
<1>1. scroll_y' = IF cy' < scroll_y THEN cy'
                  ELSE IF cy' >= scroll_y + ED_ROWS THEN cy' - ED_ROWS + 1
                  ELSE scroll_y
  BY DEF adjust_scroll
<1>2. ED_ROWS \in Nat /\ ED_ROWS > 0
  BY EditorSizes
<1>3. scroll_y' \in Nat /\ cy' - scroll_y' \in 0..(ED_ROWS - 1)
  BY <1>1, <1>2, ScrollArithmetic, Zenon
<1>4. QED
  BY <1>3 DEF Visible

LEMMA MoveKeeps ==
  ASSUME Placed, NEW x, NEW y, Place(lines, x, y), MoveTo(x, y)
  PROVE  CursorInv'
<1>1. cx' = x /\ cy' = y /\ adjust_scroll /\ lines' = lines /\ modified' = modified
      /\ search_query' = search_query /\ file' = file /\ mode = "edit" /\ mode' = mode
  BY DEF MoveTo
<1>2. y \in Nat
  BY PlaceLine
<1>3. scroll_y' \in Nat /\ Visible'
  BY <1>1, <1>2, ScrollShows DEF Placed, CursorInv
<1>4. Place(lines', cx', cy')
  BY <1>1
<1>5. QED
  BY <1>1, <1>3, <1>4 DEF Placed, CursorInv, FileIs, Place

LEMMA EditKeeps ==
  ASSUME Placed, NEW ls, NEW x, NEW y, Place(ls, x, y), Edit(ls, x, y)
  PROVE  CursorInv'
<1>1. cx' = x /\ cy' = y /\ adjust_scroll /\ lines' = ls /\ modified' = TRUE
      /\ search_query' = search_query /\ file' = file /\ mode = "edit" /\ mode' = mode
  BY DEF Edit
<1>2. y \in Nat
  BY PlaceLine
<1>3. scroll_y' \in Nat /\ Visible'
  BY <1>1, <1>2, ScrollShows DEF Placed, CursorInv
<1>4. Place(lines', cx', cy')
  BY <1>1
<1>5. QED
  BY <1>1, <1>3, <1>4 DEF Placed, CursorInv, FileIs, Place

\* Of several places one is the first.
LEMMA FirstIs ==
  ASSUME NEW S \in SUBSET (Nat \X Nat), S # {}
  PROVE  First(S) \in S /\ \A b \in S : Precedes(First(S), b)
<1> DEFINE L == {a[1] : a \in S}
<1>1. L \in SUBSET Nat /\ L # {}
  OBVIOUS
<1>2. PICK l \in L : \A y \in L : l <= y
  <2> HIDE DEF L
  <2> QED BY <1>1, LeastNat
<1> DEFINE C == {a[2] : a \in {a \in S : a[1] = l}}
<1>3. C \in SUBSET Nat /\ C # {}
  BY <1>2
<1>4. PICK c \in C : \A y \in C : c <= y
  <2> HIDE DEF C
  <2> QED BY <1>3, LeastNat
<1>5. PICK a \in S : a[1] = l /\ a[2] = c
  BY <1>4
<1>6. ASSUME NEW b \in S PROVE Precedes(a, b)
  <2>1. b[1] \in Nat /\ l \in Nat /\ l <= b[1]
    BY <1>1, <1>2
  <2>2. b[1] = l => c <= b[2]
    BY <1>4
  <2>3. QED
    BY <1>5, <2>1, <2>2 DEF Precedes
<1>7. \E d \in S : \A b \in S : Precedes(d, b)
  BY <1>6
<1>8. QED
  BY <1>7, Zenon DEF First

\* What the search finds is a place in the buffer.
LEMMA FindPlace ==
  ASSUME Placed, NEW q \in Texts, Found(q)
  PROVE  /\ ed_find(q) \in Ahead(q) \cup Wrapped(q)
         /\ Place(lines, ed_find(q)[2], ed_find(q)[1])
<1> DEFINE S == IF Ahead(q) # {} THEN Ahead(q) ELSE Wrapped(q)
<1>1. Len(lines) \in Nat /\ lines \in Seq(Row) /\ Len(q) \in Nat
  BY PlaceLine, LenProperties DEF Placed, Place, Texts
<1>2. S \subseteq Ahead(q) \cup Wrapped(q) /\ S # {}
  BY DEF Found
<1>3. S \subseteq Occurrences(q)
  BY DEF Ahead, Wrapped
<1>4. Occurrences(q) \subseteq Nat \X Nat
  BY <1>1, EditorSizes DEF Occurrences, num_lines
<1>5. First(S) \in S
  <2>1. S \in SUBSET (Nat \X Nat)
    BY <1>3, <1>4
  <2> HIDE DEF S
  <2>2. QED
    BY <1>2, <2>1, FirstIs
<1>6. ed_find(q) = First(S)
  BY DEF ed_find
<1> HIDE DEF S
<1> DEFINE o == ed_find(q)
<1>7. o \in Occurrences(q) /\ o \in Ahead(q) \cup Wrapped(q)
  BY <1>2, <1>3, <1>5, <1>6
<1> HIDE DEF o
<1>8. /\ o[1] \in 0..(Len(lines) - 1) /\ o[2] \in 0..ED_LINE_MAX
      /\ o[2] + Len(q) <= Len(lines[o[1] + 1])
  BY <1>7 DEF Occurrences, num_lines, line_len
<1>9. Len(lines[o[1] + 1]) \in Nat
  <2> DEFINE d == o[1] + 1
  <2>1. d \in 1..Len(lines)
    BY <1>1, <1>8
  <2> HIDE DEF d
  <2>2. Len(lines[d]) \in Nat
    BY <2>1, PlaceLine DEF Placed
  <2>3. QED
    BY <2>2 DEF d
<1>10. o[2] \in 0..Len(lines[o[1] + 1])
  BY <1>1, <1>8, <1>9, EditorSizes
<1>11. QED
  BY <1>7, <1>8, <1>10 DEF Placed, Place, o

-----------------------------------------------------------------------------
(* The buffers that the keys make.                                          *)

\* Three parts in a row.
LEMMA ThreeParts ==
  ASSUME NEW S, NEW A \in Seq(S), NEW e \in S, NEW B \in Seq(S)
  PROVE  /\ (A \o <<e>>) \o B \in Seq(S) /\ Len((A \o <<e>>) \o B) = Len(A) + 1 + Len(B)
         /\ \A i \in 1..Len(A) : ((A \o <<e>>) \o B)[i] = A[i]
         /\ ((A \o <<e>>) \o B)[Len(A) + 1] = e
         /\ \A i \in 1..Len(B) : ((A \o <<e>>) \o B)[Len(A) + 1 + i] = B[i]
<1> DEFINE u == A \o <<e>>
<1>1. u \in Seq(S) /\ Len(u) = Len(A) + 1 /\ (\A i \in 1..Len(A) : u[i] = A[i]) /\ u[Len(A) + 1] = e
  OBVIOUS
<1>2. Len(A) \in Nat /\ Len(B) \in Nat
  BY LenProperties
<1> HIDE DEF u
<1>3. u \o B \in Seq(S) /\ Len(u \o B) = Len(u) + Len(B)
  BY <1>1, ConcatProperties
<1>4. \A i \in 1..Len(A) : (u \o B)[i] = A[i]
  BY <1>1, <1>2, ConcatProperties
<1>5. (u \o B)[Len(A) + 1] = e
  BY <1>1, <1>2, ConcatProperties
<1>6. \A i \in 1..Len(B) : (u \o B)[Len(A) + 1 + i] = B[i]
  BY <1>1, <1>2, ConcatProperties
<1>7. QED
  BY <1>1, <1>3, <1>4, <1>5, <1>6 DEF u

\* A sequence of three parts is known by them.
LEMMA PartsEqual ==
  ASSUME NEW S, NEW A \in Seq(S), NEW e \in S, NEW B \in Seq(S), NEW s \in Seq(S),
         Len(s) = Len(A) + 1 + Len(B), \A i \in 1..Len(A) : s[i] = A[i],
         s[Len(A) + 1] = e, \A i \in 1..Len(B) : s[Len(A) + 1 + i] = B[i]
  PROVE  s = (A \o <<e>>) \o B
<1> DEFINE t == (A \o <<e>>) \o B
           a == Len(A)
           b == Len(B)
<1>1. /\ t \in Seq(S) /\ Len(t) = a + 1 + b
      /\ \A i \in 1..a : t[i] = A[i]
      /\ t[a + 1] = e
      /\ \A i \in 1..b : t[a + 1 + i] = B[i]
  BY ThreeParts
<1>2. a \in Nat /\ b \in Nat
  BY LenProperties
<1>3. /\ Len(s) = a + 1 + b
      /\ \A i \in 1..a : s[i] = A[i]
      /\ s[a + 1] = e
      /\ \A i \in 1..b : s[a + 1 + i] = B[i]
  OBVIOUS
<1> HIDE DEF t, a, b
<1>4. ASSUME NEW i \in 1..Len(s) PROVE s[i] = t[i]
  <2>1. CASE i <= a
    BY <1>1, <1>2, <1>3, <2>1
  <2>2. CASE i = a + 1
    BY <1>1, <1>3, <2>2
  <2>3. CASE i > a + 1
    <3> DEFINE j == i - (a + 1)
    <3>1. j \in 1..b /\ a + 1 + j = i
      BY <1>2, <1>3, <2>3
    <3> HIDE DEF j
    <3>2. s[a + 1 + j] = B[j] /\ t[a + 1 + j] = B[j]
      BY <1>1, <1>3, <3>1
    <3>3. QED
      BY <3>1, <3>2
  <2>4. QED
    BY <1>2, <2>1, <2>2, <2>3
<1>5. s = t
  BY <1>1, <1>3, <1>4, SeqEqual
<1>6. QED
  BY <1>5 DEF t

\* What is before element k and what is behind it, and another in its place.
Pre(s, k) == SubSeq(s, 1, k - 1)
Post(s, k) == SubSeq(s, k + 1, Len(s))
Put(s, k, e) == [s EXCEPT ![k] = e]

\* A buffer with line k replaced, split in two, merged with the next, removed.
Shape(S, s, k, e) ==
    /\ Pre(s, k) \in Seq(S) /\ Post(s, k) \in Seq(S)
    /\ Len(Pre(s, k)) = k - 1 /\ Len(Post(s, k)) = Len(s) - k
    /\ s = (Pre(s, k) \o <<s[k]>>) \o Post(s, k)
    /\ Put(s, k, e) = (Pre(s, k) \o <<e>>) \o Post(s, k)
    /\ RemoveAt(s, k) = Pre(s, k) \o Post(s, k)
    /\ \A f \in S : InsertAt(Put(s, k, e), k + 1, f) = ((Pre(s, k) \o <<e>>) \o <<f>>) \o Post(s, k)
    /\ k < Len(s) => RemoveAt(Put(s, k, e), k + 1) = (Pre(s, k) \o <<e>>) \o SubSeq(s, k + 2, Len(s))

LEMMA Shapes ==
  ASSUME NEW S, NEW s \in Seq(S), NEW k \in 1..Len(s), NEW e \in S
  PROVE  Shape(S, s, k, e)
<1> USE DEF Pre, Post, Put
<1> DEFINE n == Len(s)
           A == Pre(s, k)
           B == Post(s, k)
           t == Put(s, k, e)
<1>1. n \in Nat /\ k \in Nat /\ k <= n /\ k >= 1 /\ s[k] \in S
  BY LenProperties, ElementOfSeq
<1>2. A \in Seq(S) /\ B \in Seq(S) /\ Len(A) = k - 1 /\ Len(B) = n - k
      /\ (\A i \in 1..(k - 1) : A[i] = s[i]) /\ (\A i \in 1..(n - k) : B[i] = s[k + i])
  OBVIOUS
<1>3. t \in Seq(S) /\ Len(t) = n /\ \A j \in 1..n : t[j] = IF j = k THEN e ELSE s[j]
  BY ExceptSeq
<1>4. s = (A \o <<s[k]>>) \o B
  <2> HIDE DEF A, B, n, t
  <2>0. Len(A) + 1 = k /\ Len(B) = n - k /\ Len(s) = n
    BY <1>1, <1>2 DEF n
  <2>1. /\ Len(s) = Len(A) + 1 + Len(B)
        /\ \A i \in 1..Len(A) : s[i] = A[i]
        /\ s[Len(A) + 1] = s[k]
        /\ \A i \in 1..Len(B) : s[Len(A) + 1 + i] = B[i]
    <3>1. Len(s) = Len(A) + 1 + Len(B) /\ s[Len(A) + 1] = s[k]
      BY <1>1, <2>0
    <3>2. ASSUME NEW i \in 1..Len(A) PROVE s[i] = A[i]
      BY <1>1, <1>2, <2>0
    <3>3. ASSUME NEW i \in 1..Len(B) PROVE s[Len(A) + 1 + i] = B[i]
      <4>1. i \in 1..(n - k) /\ k + i \in 1..n /\ k + i # k
        BY <1>1, <2>0
      <4>2. QED
        BY <1>2, <2>0, <4>1
    <3>4. QED
      BY <3>1, <3>2, <3>3
  <2>2. QED
    BY <1>1, <1>2, <2>1, PartsEqual
<1>5. t = (A \o <<e>>) \o B
  <2> HIDE DEF A, B, n, t
  <2>0. Len(A) + 1 = k /\ Len(B) = n - k /\ Len(t) = n
    BY <1>1, <1>2, <1>3
  <2>1. /\ Len(t) = Len(A) + 1 + Len(B)
        /\ \A i \in 1..Len(A) : t[i] = A[i]
        /\ t[Len(A) + 1] = e
        /\ \A i \in 1..Len(B) : t[Len(A) + 1 + i] = B[i]
    <3>1. Len(t) = Len(A) + 1 + Len(B) /\ t[Len(A) + 1] = e
      BY <1>1, <1>3, <2>0
    <3>2. ASSUME NEW i \in 1..Len(A) PROVE t[i] = A[i]
      <4>1. i \in 1..(k - 1) /\ i \in 1..n /\ i # k
        BY <1>1, <1>2
      <4>2. QED
        BY <1>2, <1>3, <4>1
    <3>3. ASSUME NEW i \in 1..Len(B) PROVE t[Len(A) + 1 + i] = B[i]
      <4>1. i \in 1..(n - k) /\ k + i \in 1..n /\ k + i # k
        BY <1>1, <2>0
      <4>2. QED
        BY <1>2, <1>3, <2>0, <4>1
    <3>4. QED
      BY <3>1, <3>2, <3>3
  <2>2. QED
    BY <1>2, <1>3, <2>1, PartsEqual
<1>6. RemoveAt(s, k) = A \o B
  BY DEF RemoveAt
<1>7. SubSeq(t, 1, k) = A \o <<e>>
  <2> HIDE DEF A, B, n, t
  <2>1. /\ SubSeq(t, 1, k) \in Seq(S) /\ Len(SubSeq(t, 1, k)) = k
        /\ \A i \in 1..k : SubSeq(t, 1, k)[i] = t[i]
    BY <1>1, <1>3
  <2>2. A \o <<e>> \in Seq(S) /\ Len(A \o <<e>>) = k
    BY <1>1, <1>2
  <2>3. ASSUME NEW i \in 1..k PROVE (A \o <<e>>)[i] = t[i]
    <3>1. CASE i = k
      <4>1. t[i] = e /\ (A \o <<e>>)[Len(A) + 1] = e
        BY <1>1, <1>2, <1>3, <3>1
      <4>2. QED
        BY <1>1, <1>2, <3>1, <4>1
    <3>2. CASE i # k
      <4>1. i \in 1..(k - 1) /\ i \in 1..Len(A) /\ i \in 1..n
        BY <1>1, <1>2, <3>2
      <4>2. (A \o <<e>>)[i] = A[i]
        BY <1>2, <4>1
      <4>3. QED
        BY <1>2, <1>3, <3>2, <4>1, <4>2
    <3>3. QED
      BY <3>1, <3>2
  <2>4. QED
    BY <2>1, <2>2, <2>3, SeqEqual
<1>8. SubSeq(t, k + 1, n) = B
  <2> HIDE DEF A, B, n, t
  <2>1. /\ SubSeq(t, k + 1, n) \in Seq(S) /\ Len(SubSeq(t, k + 1, n)) = n - k
        /\ \A i \in 1..(n - k) : SubSeq(t, k + 1, n)[i] = t[k + i]
    BY <1>1, <1>3
  <2>2. ASSUME NEW i \in 1..(n - k) PROVE B[i] = t[k + i]
    <3>1. k + i \in 1..n /\ k + i # k
      BY <1>1
    <3>2. QED
      BY <1>2, <1>3, <3>1
  <2> DEFINE q == SubSeq(t, k + 1, n)
  <2>3. q \in Seq(S) /\ Len(q) = n - k /\ \A i \in 1..(n - k) : q[i] = t[k + i]
    BY <2>1
  <2> HIDE DEF q
  <2>4. q \in Seq(S) /\ B \in Seq(S) /\ Len(q) = Len(B) /\ \A i \in 1..Len(q) : q[i] = B[i]
    BY <1>2, <2>2, <2>3
  <2>5. q = B
    BY <2>4, SeqEqual
  <2>6. QED
    BY <2>5 DEF q
<1>9. ASSUME NEW f \in S
      PROVE  InsertAt(t, k + 1, f) = ((A \o <<e>>) \o <<f>>) \o B
  <2>1. InsertAt(t, k + 1, f) = (SubSeq(t, 1, (k + 1) - 1) \o <<f>>) \o SubSeq(t, k + 1, Len(t))
    BY DEF InsertAt
  <2>2. (k + 1) - 1 = k
    BY <1>1
  <2> HIDE DEF A, B, n, t
  <2>3. QED
    BY <2>1, <2>2, <1>3, <1>7, <1>8
<1>10. ASSUME k < n
       PROVE  RemoveAt(t, k + 1) = (A \o <<e>>) \o SubSeq(s, k + 2, n)
  <2>1. RemoveAt(t, k + 1) = SubSeq(t, 1, (k + 1) - 1) \o SubSeq(t, (k + 1) + 1, Len(t))
    BY DEF RemoveAt
  <2>2. (k + 1) - 1 = k /\ (k + 1) + 1 = k + 2
    BY <1>1
  <2> HIDE DEF A, B, n, t
  <2>3. SubSeq(t, k + 2, n) = SubSeq(s, k + 2, n)
    <3>1. /\ SubSeq(t, k + 2, n) \in Seq(S) /\ Len(SubSeq(t, k + 2, n)) = n - k - 1
          /\ \A i \in 1..(n - k - 1) : SubSeq(t, k + 2, n)[i] = t[k + 1 + i]
      BY <1>1, <1>3, <1>10
    <3>2. /\ SubSeq(s, k + 2, n) \in Seq(S) /\ Len(SubSeq(s, k + 2, n)) = n - k - 1
          /\ \A i \in 1..(n - k - 1) : SubSeq(s, k + 2, n)[i] = s[k + 1 + i]
      BY <1>1, <1>10 DEF n
    <3>3. \A i \in 1..(n - k - 1) : t[k + 1 + i] = s[k + 1 + i]
      BY <1>1, <1>3, <1>10
    <3>4. QED
      BY <3>1, <3>2, <3>3, SeqEqual
  <2>4. QED
    BY <2>1, <2>2, <2>3, <1>3, <1>7
<1>11. QED
  BY <1>2, <1>4, <1>5, <1>6, <1>9, <1>10 DEF Shape

\* A buffer of the lines A, the line l and the lines B, with the cursor in l.
LEMMA PlaceIn ==
  ASSUME NEW A \in Seq(Row), NEW l \in Row, NEW B \in Seq(Row), NEW x \in 0..Len(l),
         Len(A) + Len(B) < ED_MAX_LINES
  PROVE  /\ Place((A \o <<l>>) \o B, x, Len(A))
         /\ ((A \o <<l>>) \o B)[Len(A) + 1] = l
<1> DEFINE ls == (A \o <<l>>) \o B
<1>1. ls \in Seq(Row) /\ Len(ls) = Len(A) + 1 + Len(B) /\ ls[Len(A) + 1] = l
  OBVIOUS
<1>2. Len(A) \in Nat /\ Len(B) \in Nat
  BY LenProperties
<1> HIDE DEF ls
<1>3. Place(ls, x, Len(A))
  BY <1>1, <1>2, EditorSizes DEF Place
<1>4. QED
  BY <1>1, <1>3 DEF ls

\* The parts of a line to the left and to the right of the cursor.
LEMMA Halves ==
  ASSUME NEW l \in Row, cx \in 0..Len(l)
  PROVE  /\ Left(l) \in Seq(Char) /\ Right(l) \in Seq(Char)
         /\ Len(Left(l)) = cx /\ Len(Right(l)) = Len(l) - cx
         /\ Left(l) \in Row /\ Right(l) \in Row
         /\ l = Left(l) \o Right(l)
<1>1. l \in Seq(Char) /\ Len(l) \in Nat /\ Len(l) <= ED_LINE_MAX
  BY LenProperties DEF Row
<1>2. /\ SubSeq(l, 1, cx) \in Seq(Char) /\ SubSeq(l, cx + 1, Len(l)) \in Seq(Char)
      /\ Len(SubSeq(l, 1, cx)) = cx /\ Len(SubSeq(l, cx + 1, Len(l))) = Len(l) - cx
  BY <1>1
<1>3. SubSeq(l, 1, cx) \o SubSeq(l, cx + 1, Len(l)) = l
  <2>1. 1 \in 1..(Len(l) + 1) /\ cx \in (1 - 1)..Len(l) /\ Len(l) \in cx..Len(l)
    BY <1>1
  <2>2. SubSeq(l, 1, cx) \o SubSeq(l, cx + 1, Len(l)) = SubSeq(l, 1, Len(l))
    BY <1>1, <2>1, ConcatAdjacentSubSeq
  <2>3. QED
    BY <1>1, <2>2, SubSeqFull
<1> DEFINE a == SubSeq(l, 1, cx)
           b == SubSeq(l, cx + 1, Len(l))
<1>4. Left(l) = a /\ Right(l) = b
  BY DEF Left, Right
<1>5. a \in Row /\ b \in Row
  <2> HIDE DEF a, b
  <2>1. a \in Seq(Char) /\ b \in Seq(Char) /\ Len(a) <= ED_LINE_MAX /\ Len(b) <= ED_LINE_MAX
    BY <1>1, <1>2, EditorSizes DEF a, b
  <2>2. QED
    BY <2>1 DEF Row
<1>6. QED
  BY <1>2, <1>3, <1>4, <1>5

\* The lines above line k and the lines below it.
Above(k) == SubSeq(lines, 1, k)
Below(k) == SubSeq(lines, k + 2, Len(lines))

\* The buffer around the cursor.
LEMMA Around ==
  ASSUME Placed
  PROVE  /\ Above(cy) \in Seq(Row) /\ Below(cy) \in Seq(Row)
         /\ Len(Above(cy)) = cy /\ Len(Below(cy)) = Len(lines) - cy - 1
         /\ Current \in Row /\ Current \in Seq(Char) /\ cx \in 0..Len(Current)
         /\ Len(Current) \in Nat
         /\ lines = (Above(cy) \o <<Current>>) \o Below(cy)
         /\ Len(lines) \in 1..ED_MAX_LINES /\ Len(lines) \in Nat /\ cy \in Nat
         /\ RemoveAt(lines, cy + 1) = Above(cy) \o Below(cy)
         /\ \A e \in Row :
              /\ [lines EXCEPT ![cy + 1] = e] = (Above(cy) \o <<e>>) \o Below(cy)
              /\ \A f \in Row :
                    InsertAt([lines EXCEPT ![cy + 1] = e], cy + 2, f)
                      = ((Above(cy) \o <<e>>) \o <<f>>) \o Below(cy)
<1> DEFINE k == cy + 1
<1>1. /\ k \in 1..Len(lines) /\ lines \in Seq(Row) /\ k - 1 = cy /\ k + 1 = cy + 2
      /\ Len(lines) \in Nat /\ cy \in Nat /\ Len(lines) \in 1..ED_MAX_LINES
      /\ lines[k] \in Row /\ lines[k] \in Seq(Char) /\ cx \in 0..Len(lines[k])
      /\ Len(lines[k]) \in Nat
  BY PlaceLine DEF Placed, Place
<1> HIDE DEF k
<1>3. Above(cy) = Pre(lines, k) /\ Below(cy) = Post(lines, k)
  BY <1>1 DEF Above, Below, Pre, Post
<1>4. Current = lines[k]
  BY DEF Current, k
<1> DEFINE A == Above(cy)
           B == Below(cy)
<1>5. ASSUME NEW e \in Row
      PROVE  /\ A \in Seq(Row) /\ B \in Seq(Row)
             /\ Len(A) = k - 1 /\ Len(B) = Len(lines) - k
             /\ lines = (A \o <<lines[k]>>) \o B
             /\ [lines EXCEPT ![k] = e] = (A \o <<e>>) \o B
             /\ RemoveAt(lines, k) = A \o B
             /\ \A f \in Row : InsertAt([lines EXCEPT ![k] = e], k + 1, f) = ((A \o <<e>>) \o <<f>>) \o B
  <2>1. A = Pre(lines, k) /\ B = Post(lines, k)
    BY <1>3
  <2> HIDE DEF A, B
  <2>2. Put(lines, k, e) = [lines EXCEPT ![k] = e]
    BY DEF Put
  <2>3. /\ A \in Seq(Row) /\ B \in Seq(Row)
        /\ Len(A) = k - 1 /\ Len(B) = Len(lines) - k
        /\ lines = (A \o <<lines[k]>>) \o B
        /\ Put(lines, k, e) = (A \o <<e>>) \o B
        /\ RemoveAt(lines, k) = A \o B
        /\ \A f \in Row : InsertAt(Put(lines, k, e), k + 1, f) = ((A \o <<e>>) \o <<f>>) \o B
    <3>1. Shape(Row, lines, k, e)
      BY <1>1, Shapes
    <3>2. QED
      BY <2>1, <3>1, Zenon DEF Shape
  <2>4. QED
    BY <2>2, <2>3, Zenon
<1> HIDE DEF A, B
<1>6. Len(A) = cy /\ Len(B) = Len(lines) - cy - 1
  <2>1. Len(A) = k - 1 /\ Len(B) = Len(lines) - k
    BY <1>1, <1>5, Zenon
  <2>2. QED
    BY <1>1, <2>1
<1>7. QED
  BY <1>1, <1>4, <1>5, <1>6 DEF A, B, k

\* The buffer after a character is typed.
LEMMA TypePlace ==
  ASSUME Placed, NEW c \in Chars, line_len(cy) < ED_LINE_MAX
  PROVE  /\ Inserted(c) \in Row /\ Len(Inserted(c)) = Len(Current) + 1
         /\ Place([lines EXCEPT ![cy + 1] = Inserted(c)], cx + 1, cy)
<1> DEFINE A == Above(cy)
           B == Below(cy)
           a == Left(Current)
           b == Right(Current)
<1>1. /\ A \in Seq(Row) /\ B \in Seq(Row) /\ Len(A) = cy /\ Len(B) = Len(lines) - cy - 1
      /\ Current \in Row /\ cx \in 0..Len(Current) /\ Len(Current) \in Nat
      /\ Len(lines) \in 1..ED_MAX_LINES /\ cy \in Nat
      /\ \A e \in Row : [lines EXCEPT ![cy + 1] = e] = (A \o <<e>>) \o B
  BY Around
<1>2. a \in Seq(Char) /\ b \in Seq(Char) /\ Len(a) = cx /\ Len(b) = Len(Current) - cx
  BY <1>1, Halves
<1>3. c \in Char
  BY EditorSizes DEF Char
<1>4. Inserted(c) = (a \o <<c>>) \o b
  BY DEF Inserted
<1>5. Len(Current) < ED_LINE_MAX
  BY DEF line_len, Current
<1> HIDE DEF A, B, a, b
<1>6. Inserted(c) \in Seq(Char) /\ Len(Inserted(c)) = Len(Current) + 1
  <2>1. (a \o <<c>>) \o b \in Seq(Char) /\ Len((a \o <<c>>) \o b) = Len(a) + 1 + Len(b)
    BY <1>2, <1>3, ThreeParts
  <2>2. Len(a) + 1 + Len(b) = Len(Current) + 1
    BY <1>1, <1>2
  <2>3. QED
    BY <1>4, <2>1, <2>2
<1>7. Inserted(c) \in Row
  BY <1>1, <1>5, <1>6, EditorSizes DEF Row
<1>8. cx + 1 \in 0..Len(Inserted(c)) /\ Len(A) + Len(B) < ED_MAX_LINES
  BY <1>1, <1>6, EditorSizes
<1>9. Place((A \o <<Inserted(c)>>) \o B, cx + 1, Len(A))
  <2> DEFINE d == cx + 1
             e == Inserted(c)
  <2> HIDE DEF d, e
  <2>1. d \in 0..Len(e) /\ e \in Row
    BY <1>7, <1>8 DEF d, e
  <2>2. Place((A \o <<e>>) \o B, d, Len(A))
    BY <1>1, <1>8, <2>1, PlaceIn
  <2>3. QED
    BY <2>2 DEF d, e
<1>10. QED
  BY <1>1, <1>6, <1>7, <1>9

\* The buffer after the character on the left is taken.
LEMMA RubPlace ==
  ASSUME Placed, cx > 0
  PROVE  LET e == SubSeq(Current, 1, cx - 1) \o Right(Current)
         IN  /\ e \in Row
             /\ [lines EXCEPT ![cy + 1] = SubSeq(@, 1, cx - 1) \o Right(@)] = (Above(cy) \o <<e>>) \o Below(cy)
             /\ Place((Above(cy) \o <<e>>) \o Below(cy), cx - 1, cy)
<1> DEFINE A == Above(cy)
           B == Below(cy)
           a == SubSeq(Current, 1, cx - 1)
           b == Right(Current)
           e == a \o b
           d == cx - 1
<1>1. /\ A \in Seq(Row) /\ B \in Seq(Row) /\ Len(A) = cy /\ Len(B) = Len(lines) - cy - 1
      /\ Current \in Row /\ cx \in 0..Len(Current) /\ Len(Current) \in Nat /\ Current \in Seq(Char)
      /\ Len(lines) \in 1..ED_MAX_LINES /\ cy \in Nat
      /\ \A r \in Row : [lines EXCEPT ![cy + 1] = r] = (A \o <<r>>) \o B
  BY Around
<1>2. b \in Seq(Char) /\ Len(b) = Len(Current) - cx
  BY <1>1, Halves
<1>3. a \in Seq(Char) /\ Len(a) = cx - 1
  BY <1>1
<1>4. [lines EXCEPT ![cy + 1] = SubSeq(@, 1, cx - 1) \o Right(@)] = [lines EXCEPT ![cy + 1] = e]
  BY DEF Current
<1> HIDE DEF A, B, a, b
<1>5. e \in Seq(Char) /\ Len(e) = Len(Current) - 1
  <2>1. a \o b \in Seq(Char) /\ Len(a \o b) = Len(a) + Len(b)
    BY <1>2, <1>3, ConcatProperties, Zenon
  <2>2. Len(a) + Len(b) = Len(Current) - 1
    BY <1>1, <1>2, <1>3
  <2>3. QED
    BY <2>1, <2>2
<1>6. Len(Current) <= ED_LINE_MAX
  BY <1>1 DEF Row
<1>7. e \in Row
  <2> HIDE DEF e
  <2> QED BY <1>1, <1>5, <1>6, EditorSizes DEF Row
<1>8. d \in 0..Len(e) /\ Len(A) + Len(B) < ED_MAX_LINES
  BY <1>1, <1>5, EditorSizes
<1> HIDE DEF e, d
<1>9. Place((A \o <<e>>) \o B, d, Len(A))
  BY <1>1, <1>7, <1>8, PlaceIn
<1>10. [lines EXCEPT ![cy + 1] = e] = (A \o <<e>>) \o B
  BY <1>1, <1>7
<1>11. QED
  BY <1>1, <1>4, <1>7, <1>9, <1>10 DEF A, B, a, b, e, d

\* The buffer after a line is broken.
LEMMA BreakPlace ==
  ASSUME Placed, num_lines < ED_MAX_LINES
  PROVE  LET ls == InsertAt([lines EXCEPT ![cy + 1] = Left(@)], cy + 2, Right(Current))
         IN  /\ ls = ((Above(cy) \o <<Left(Current)>>) \o <<Right(Current)>>) \o Below(cy)
             /\ Place(ls, 0, cy + 1)
<1> DEFINE A == Above(cy)
           B == Below(cy)
           a == Left(Current)
           b == Right(Current)
<1>1. /\ A \in Seq(Row) /\ B \in Seq(Row) /\ Len(A) = cy /\ Len(B) = Len(lines) - cy - 1
      /\ Current \in Row /\ cx \in 0..Len(Current) /\ Len(Current) \in Nat
      /\ Len(lines) \in 1..ED_MAX_LINES /\ cy \in Nat
      /\ \A e \in Row : \A f \in Row :
                    InsertAt([lines EXCEPT ![cy + 1] = e], cy + 2, f) = ((A \o <<e>>) \o <<f>>) \o B
  BY Around
<1>2. a \in Row /\ b \in Row /\ Len(b) \in Nat
  BY <1>1, Halves
<1>3. InsertAt([lines EXCEPT ![cy + 1] = Left(@)], cy + 2, Right(Current))
        = InsertAt([lines EXCEPT ![cy + 1] = a], cy + 2, b)
  BY DEF Current
<1>4. Len(lines) < ED_MAX_LINES
  BY DEF num_lines
<1> HIDE DEF A, B, a, b
<1> DEFINE C == A \o <<a>>
<1>5. C \in Seq(Row) /\ Len(C) = cy + 1
  BY <1>1, <1>2
<1> HIDE DEF C
<1>6. 0 \in 0..Len(b) /\ Len(C) + Len(B) < ED_MAX_LINES
  BY <1>1, <1>2, <1>4, <1>5, EditorSizes
<1>7. Place((C \o <<b>>) \o B, 0, Len(C))
  BY <1>1, <1>2, <1>5, <1>6, PlaceIn
<1>8. InsertAt([lines EXCEPT ![cy + 1] = a], cy + 2, b) = (C \o <<b>>) \o B
  BY <1>1, <1>2 DEF C
<1>9. QED
  BY <1>3, <1>5, <1>7, <1>8 DEF A, B, a, b, C

\* The buffer after two lines are merged.
LEMMA MergePlace ==
  ASSUME Placed, cx = 0, cy > 0, line_len(cy - 1) + line_len(cy) <= ED_LINE_MAX
  PROVE  LET p == lines[cy]
             ls == RemoveAt([lines EXCEPT ![cy] = @ \o Current], cy + 1)
         IN  /\ p \in Row /\ p \o Current \in Row
             /\ ls = (Above(cy - 1) \o <<p \o Current>>) \o Below(cy)
             /\ Above(cy) = Above(cy - 1) \o <<p>> /\ Above(cy - 1) \in Seq(Row)
             /\ Len(Above(cy - 1)) = cy - 1
             /\ line_len(cy - 1) = Len(p)
             /\ Place(ls, line_len(cy - 1), cy - 1)
<1> DEFINE p == lines[cy]
           e == p \o Current
           A == Above(cy - 1)
           B == Below(cy)
<1>1. /\ Current \in Row /\ Len(Current) \in Nat /\ B \in Seq(Row) /\ Len(B) = Len(lines) - cy - 1
      /\ Len(lines) \in 1..ED_MAX_LINES /\ cy \in Nat
  BY Around
<1>2. /\ cy \in 1..Len(lines) /\ lines \in Seq(Row) /\ cy < Len(lines)
      /\ p \in Row /\ Len(p) \in Nat
  BY PlaceLine DEF Placed, Place
<1>3. line_len(cy - 1) = Len(p) /\ line_len(cy) = Len(Current)
  <2>1. (cy - 1) + 1 = cy
    BY <1>1
  <2>2. QED
    BY <2>1 DEF line_len, Current
<1>4. p \in Seq(Char) /\ Current \in Seq(Char)
  BY <1>1, <1>2 DEF Row
<1>5. e \in Row
  <2>1. e \in Seq(Char) /\ Len(e) = Len(p) + Len(Current)
    BY <1>4, ConcatProperties
  <2>2. Len(e) <= ED_LINE_MAX
    BY <1>3, <2>1
  <2> HIDE DEF e
  <2>3. QED
    BY <2>1, <2>2 DEF Row
<1>6. RemoveAt([lines EXCEPT ![cy] = @ \o Current], cy + 1) = RemoveAt([lines EXCEPT ![cy] = e], cy + 1)
  OBVIOUS
<1> HIDE DEF e
<1>7. /\ SubSeq(lines, 1, cy - 1) \in Seq(Row) /\ Len(SubSeq(lines, 1, cy - 1)) = cy - 1
      /\ RemoveAt([lines EXCEPT ![cy] = e], cy + 1)
           = (SubSeq(lines, 1, cy - 1) \o <<e>>) \o SubSeq(lines, cy + 2, Len(lines))
  <2>1. Pre(lines, cy) = SubSeq(lines, 1, cy - 1) /\ Put(lines, cy, e) = [lines EXCEPT ![cy] = e]
    BY DEF Pre, Put
  <2>2. /\ Pre(lines, cy) \in Seq(Row) /\ Len(Pre(lines, cy)) = cy - 1
        /\ RemoveAt(Put(lines, cy, e), cy + 1) = (Pre(lines, cy) \o <<e>>) \o SubSeq(lines, cy + 2, Len(lines))
    <3>1. Shape(Row, lines, cy, e)
      BY <1>2, <1>5, Shapes
    <3>2. QED
      BY <1>2, <3>1, Zenon DEF Shape
  <2>3. QED
    BY <2>1, <2>2, Zenon
<1>8. A \in Seq(Row) /\ Len(A) = cy - 1 /\ RemoveAt([lines EXCEPT ![cy] = e], cy + 1) = (A \o <<e>>) \o B
  BY <1>7 DEF Above, Below
<1>9. Above(cy) = A \o <<p>>
  <2> DEFINE d == cy - 1
  <2>1. d \in 0..(Len(lines) - 1) /\ d + 1 = cy
    BY <1>1, <1>2
  <2> HIDE DEF d, p
  <2>2. SubSeq(lines, 1, d + 1) = Append(SubSeq(lines, 1, d), lines[d + 1])
    BY <1>2, <2>1, PrefixGrows
  <2>3. SubSeq(lines, 1, cy) = Append(SubSeq(lines, 1, cy - 1), p)
    BY <2>1, <2>2 DEF d, p
  <2>4. Above(cy) = Append(A, p)
    BY <2>3 DEF Above
  <2>5. Append(A, p) = A \o <<p>>
    <3> HIDE DEF A
    <3> QED BY <1>2, <1>8, AppendIsConcat
  <2>6. QED
    BY <2>4, <2>5
<1>10. Len(p) \in 0..Len(e) /\ Len(A) + Len(B) < ED_MAX_LINES
  <2>1. Len(e) = Len(p) + Len(Current)
    BY <1>4, ConcatProperties DEF e
  <2> HIDE DEF A, B, p
  <2>2. QED
    BY <2>1, <1>1, <1>2, <1>8, EditorSizes
<1>11. Place((A \o <<e>>) \o B, Len(p), Len(A))
  <2> DEFINE d == Len(p)
  <2> HIDE DEF A, B, p, d
  <2>1. d \in 0..Len(e)
    BY <1>10 DEF d
  <2>2. Place((A \o <<e>>) \o B, d, Len(A))
    BY <1>1, <1>5, <1>8, <1>10, <2>1, PlaceIn
  <2>3. QED
    BY <2>2 DEF d
<1>12. QED
  <2> HIDE DEF A, B, p
  <2> QED BY <1>2, <1>3, <1>5, <1>6, <1>8, <1>9, <1>11 DEF A, B, p, e

\* An empty buffer.
LEMMA EmptyPlace == <<>> \in Row /\ Place(<< <<>> >>, 0, 0) /\ << <<>> >> \in Seq(Row)
<1>1. <<>> \in Row
  BY EditorSizes DEF Row
<1>2. QED
  BY <1>1, EditorSizes DEF Place

\* A column that is clamped is in its line.
LEMMA ClampPlace ==
  ASSUME NEW ls \in Seq(Row), Len(ls) \in 1..ED_MAX_LINES, NEW x \in Nat, NEW y \in 0..(Len(ls) - 1)
  PROVE  Place(ls, Clamp(ls, x, y), y)
<1> DEFINE k == y + 1
<1>1. k \in 1..Len(ls)
  BY EditorSizes
<1> HIDE DEF k
<1>2. ls[k] \in Row
  BY <1>1, ElementOfSeq
<1>3. Len(ls[k]) \in Nat
  BY <1>2, LenProperties DEF Row
<1>4. Clamp(ls, x, y) \in 0..Len(ls[k])
  BY <1>3 DEF Clamp, Least, k
<1>5. QED
  BY <1>4 DEF Place, k

\* The buffer after a line is deleted.
LEMMA DeletePlace ==
  ASSUME Placed, num_lines # 1
  PROVE  LET ls == RemoveAt(lines, cy + 1)
             y  == IF cy >= Len(ls) THEN Len(ls) - 1 ELSE cy
         IN  /\ ls = Above(cy) \o Below(cy) /\ Len(ls) = Len(lines) - 1
             /\ ls \in Seq(Row) /\ Len(ls) \in 1..ED_MAX_LINES
             /\ y \in 0..(Len(ls) - 1)
             /\ Place(ls, Clamp(ls, cx, y), y)
<1> DEFINE A == Above(cy)
           B == Below(cy)
           ls == A \o B
           y == IF cy >= Len(ls) THEN Len(ls) - 1 ELSE cy
<1>1. /\ A \in Seq(Row) /\ B \in Seq(Row) /\ Len(A) = cy /\ Len(B) = Len(lines) - cy - 1
      /\ Len(lines) \in 1..ED_MAX_LINES /\ cy \in Nat /\ Len(lines) \in Nat
      /\ RemoveAt(lines, cy + 1) = ls
  BY Around
<1>2. Len(lines) # 1 /\ cx \in Nat /\ cy <= Len(lines) - 1
  BY PlaceLine DEF num_lines, Placed, Place
<1> HIDE DEF A, B
<1>3. ls \in Seq(Row) /\ Len(ls) = Len(A) + Len(B)
  BY <1>1, ConcatProperties
<1> HIDE DEF ls
<1>4. Len(ls) = Len(lines) - 1 /\ Len(ls) \in 1..ED_MAX_LINES
  BY <1>1, <1>2, <1>3, EditorSizes
<1>5. y \in 0..(Len(ls) - 1)
  BY <1>1, <1>2, <1>4
<1> HIDE DEF y
<1>6. Place(ls, Clamp(ls, cx, y), y)
  BY <1>2, <1>3, <1>4, <1>5, ClampPlace
<1>7. QED
  BY <1>1, <1>3, <1>4, <1>5, <1>6 DEF ls, y, A, B

-----------------------------------------------------------------------------
(* The cursor stays in the text and on the screen.                          *)

LEMMA InitCursor ==
  ASSUME Init PROVE CursorInv
<1>1. Place(lines, cx, cy) /\ lines \in Seq(Row)
  BY EmptyPlace DEF Init
<1>2. FileIs
  BY EditorAssumption DEF Init, FileIs, Texts
<1>3. <<>> \in Texts
  BY DEF Texts
<1>4. QED
  BY <1>1, <1>2, <1>3 DEF Init, CursorInv

LEMMA SavedIs ==
  ASSUME CursorInv
  PROVE  SavedAs \in Texts /\ Len(SavedAs) <= Capacity
<1>1. Image(lines) \in Texts
  BY RowsAreTexts, ImageAppend DEF CursorInv
<1> DEFINE m == Image(lines)
<1>2. SavedAs = SubSeq(m, 1, Least(Capacity, Len(m)))
  BY DEF SavedAs
<1> HIDE DEF m
<1>3. m \in Seq(Byte)
  BY <1>1 DEF Texts, m
<1>4. QED
  BY <1>2, <1>3, EditorSizes DEF Texts, Least

\* save_file keeps the file within its capacity, and leaves the editor as it was
\* or the memory behind the file written to.
LEMMA SaveFile ==
  ASSUME CursorInv, NEW m \in {"edit", "shell"}, save_file(m)
  PROVE  /\ FileIs' /\ modified' \in BOOLEAN
         /\ mode' = m \/ (mode' = "crashed" /\ LastLineAt > Capacity)
<1>1. FileIs /\ modified \in BOOLEAN
  BY DEF CursorInv
<1>2. CASE UNCHANGED <<file, modified>>
  BY <1>1, <1>2 DEF FileIs, save_file
<1>3. CASE modified' = FALSE /\ (file' = NOBUF \/ file' = ABSENT) /\ mode' = m
  BY <1>3 DEF FileIs
<1>4. CASE modified' = FALSE /\ file' = SavedAs /\ mode' = m
  BY <1>4, SavedIs DEF FileIs
<1>5. QED
  BY <1>2, <1>3, <1>4 DEF save_file

LEMMA MovesKeep ==
  ASSUME Placed, KeyUp \/ KeyDown \/ KeyLeft \/ KeyRight \/ KeyHome \/ KeyEnd
  PROVE  CursorInv'
<1>1. /\ lines \in Seq(Row) /\ Len(lines) \in 1..ED_MAX_LINES /\ Len(lines) \in Nat
      /\ cy \in 0..(Len(lines) - 1) /\ cx \in 0..Len(lines[cy + 1]) /\ cx \in Nat
      /\ Len(lines[cy + 1]) \in Nat
  BY PlaceLine DEF Placed, Place
<1>2. CASE KeyUp
  <2> DEFINE y == cy - 1
  <2>1. y \in 0..(Len(lines) - 1) /\ MoveTo(Clamp(lines, cx, y), y)
    BY <1>1, <1>2 DEF KeyUp
  <2> HIDE DEF y
  <2>2. QED
    BY <1>1, <2>1, ClampPlace, MoveKeeps
<1>3. CASE KeyDown
  <2> DEFINE y == cy + 1
  <2>1. y \in 0..(Len(lines) - 1) /\ MoveTo(Clamp(lines, cx, y), y)
    BY <1>1, <1>3 DEF KeyDown, num_lines
  <2> HIDE DEF y
  <2>2. QED
    BY <1>1, <2>1, ClampPlace, MoveKeeps
<1>4. CASE KeyLeft
  <2>1. CASE cx > 0 /\ MoveTo(cx - 1, cy)
    <3>1. cx - 1 \in 0..Len(lines[cy + 1])
      BY <1>1, <2>1
    <3>2. Place(lines, cx - 1, cy)
      BY <1>1, <3>1 DEF Place
    <3>3. QED
      BY <2>1, <3>2, MoveKeeps
  <2>2. CASE cy > 0 /\ MoveTo(line_len(cy - 1), cy - 1)
    <3> DEFINE y == cy - 1
    <3>1. y \in 0..(Len(lines) - 1) /\ y + 1 \in 1..Len(lines) /\ MoveTo(line_len(y), y)
      BY <1>1, <2>2
    <3> HIDE DEF y
    <3>2. line_len(y) \in 0..Len(lines[y + 1])
      <4>1. Len(lines[y + 1]) \in Nat
        BY <3>1, PlaceLine DEF Placed
      <4>2. QED
        BY <4>1 DEF line_len
    <3>3. Place(lines, line_len(y), y)
      BY <1>1, <3>1, <3>2 DEF Place
    <3>4. QED
      BY <3>1, <3>3, MoveKeeps
  <2>3. QED
    BY <1>4, <2>1, <2>2 DEF KeyLeft
<1>5. CASE KeyRight
  <2>1. CASE cx < line_len(cy) /\ MoveTo(cx + 1, cy)
    <3>1. cx + 1 \in 0..Len(lines[cy + 1])
      BY <1>1, <2>1 DEF line_len
    <3>2. Place(lines, cx + 1, cy)
      BY <1>1, <3>1 DEF Place
    <3>3. QED
      BY <2>1, <3>2, MoveKeeps
  <2>2. CASE cy < num_lines - 1 /\ MoveTo(0, cy + 1)
    <3> DEFINE y == cy + 1
    <3>1. y \in 0..(Len(lines) - 1) /\ y + 1 \in 1..Len(lines) /\ MoveTo(0, y)
      BY <1>1, <2>2 DEF num_lines
    <3> HIDE DEF y
    <3>2. 0 \in 0..Len(lines[y + 1])
      <4>1. Len(lines[y + 1]) \in Nat
        BY <3>1, PlaceLine DEF Placed
      <4>2. QED
        BY <4>1
    <3>3. Place(lines, 0, y)
      BY <1>1, <3>1, <3>2 DEF Place
    <3>4. QED
      BY <3>1, <3>3, MoveKeeps
  <2>3. QED
    BY <1>5, <2>1, <2>2 DEF KeyRight
<1>6. CASE KeyHome
  <2>1. Place(lines, 0, cy)
    BY <1>1 DEF Place
  <2>2. QED
    BY <1>6, <2>1, MoveKeeps DEF KeyHome
<1>7. CASE KeyEnd
  <2>1. Place(lines, line_len(cy), cy)
    BY <1>1 DEF Place, line_len
  <2>2. QED
    BY <1>7, <2>1, MoveKeeps DEF KeyEnd
<1>8. QED
  BY <1>2, <1>3, <1>4, <1>5, <1>6, <1>7

LEMMA EditsKeep ==
  ASSUME Placed, (\E c \in Chars : buf_insert_char(c)) \/ buf_delete_char \/ buf_newline \/ buf_delete_line
  PROVE  CursorInv'
<1>1. ASSUME NEW c \in Chars, buf_insert_char(c)
      PROVE  CursorInv'
  BY <1>1, TypePlace, EditKeeps DEF buf_insert_char
<1>2. CASE RubOut
  <2> DEFINE ls == [lines EXCEPT ![cy + 1] = SubSeq(@, 1, cx - 1) \o Right(@)]
  <2>1. cx > 0 /\ Edit(ls, cx - 1, cy)
    BY <1>2 DEF RubOut
  <2>2. Place(ls, cx - 1, cy)
    BY <2>1, RubPlace
  <2> HIDE DEF ls
  <2>3. QED
    BY <2>1, <2>2, EditKeeps
<1>3. CASE MergeLines
  <2>1. CASE line_len(cy - 1) + line_len(cy) <= ED_LINE_MAX
    <3> DEFINE ls == RemoveAt([lines EXCEPT ![cy] = @ \o Current], cy + 1)
    <3>1. cx = 0 /\ cy > 0 /\ Edit(ls, line_len(cy - 1), cy - 1)
      BY <1>3, <2>1 DEF MergeLines
    <3>2. Place(ls, line_len(cy - 1), cy - 1)
      BY <2>1, <3>1, MergePlace
    <3> HIDE DEF ls
    <3>3. QED
      BY <3>1, <3>2, EditKeeps
  <2>2. CASE ~ (line_len(cy - 1) + line_len(cy) <= ED_LINE_MAX)
    <3>1. Edit(lines, cx, cy)
      BY <1>3, <2>2 DEF MergeLines
    <3>2. Place(lines, cx, cy)
      BY DEF Placed
    <3>3. QED
      BY <3>1, <3>2, EditKeeps
  <2>3. QED
    BY <2>1, <2>2
<1>4. CASE buf_newline
  <2> DEFINE ls == InsertAt([lines EXCEPT ![cy + 1] = Left(@)], cy + 2, Right(Current))
  <2>1. num_lines < ED_MAX_LINES /\ Edit(ls, 0, cy + 1)
    BY <1>4 DEF buf_newline
  <2>2. Place(ls, 0, cy + 1)
    BY <2>1, BreakPlace
  <2> HIDE DEF ls
  <2>3. QED
    BY <2>1, <2>2, EditKeeps
<1>5. CASE buf_delete_line
  <2>1. CASE num_lines = 1
    <3>1. Edit(<< <<>> >>, 0, cy)
      BY <1>5, <2>1 DEF buf_delete_line
    <3>2. cy = 0
      BY <2>1 DEF Placed, Place, num_lines
    <3>3. QED
      BY <3>1, <3>2, EmptyPlace, EditKeeps
  <2>2. CASE num_lines # 1
    <3> DEFINE ls == RemoveAt(lines, cy + 1)
               y  == IF cy >= Len(ls) THEN Len(ls) - 1 ELSE cy
    <3>1. Edit(ls, Clamp(ls, cx, y), y)
      BY <1>5, <2>2 DEF buf_delete_line
    <3>2. Place(ls, Clamp(ls, cx, y), y)
      BY <2>2, DeletePlace
    <3> HIDE DEF ls, y
    <3>3. QED
      BY <3>1, <3>2, EditKeeps
  <2>3. QED
    BY <2>1, <2>2
<1>6. QED
  BY <1>1, <1>2, <1>3, <1>4, <1>5 DEF buf_delete_char

LEMMA NextCursor ==
  ASSUME CursorInv, [Next]_vars
  PROVE  CursorInv'
<1>1. CASE UNCHANGED vars
  BY <1>1 DEF vars, CursorInv, Editing, FileIs, Place, Visible, LastLineAt
<1>2. CASE ShellCommand
  <2>1. FileIs'
    BY <1>2, EditorAssumption DEF ShellCommand, FileIs, Texts
  <2>2. QED
    BY <1>2, <2>1 DEF ShellCommand, CursorInv, Editing
<1>3. CASE editor_open
  <2>1. cx' = 0 /\ cy' = 0 /\ scroll_y' = 0 /\ modified' = FALSE /\ search_query' = search_query /\ file' = file
    BY <1>3 DEF editor_open
  <2>2. Visible'
    BY <2>1, EditorSizes DEF Visible
  <2> DEFINE ls == Loaded(file)
  <2>3. ls \in Seq(Row) /\ Len(ls) \in 1..ED_MAX_LINES
    <3>1. file \in {ABSENT, NOBUF} \/ file \in Seq(Byte)
      BY DEF CursorInv, FileIs, Texts
    <3>2. QED
      BY <3>1, LoadedType
  <2> HIDE DEF ls
  <2>4. CASE Overruns(file)
    <3>1. lines' = Append(ls, <<>>) /\ mode' = "overrun"
      BY <1>3, <2>4 DEF editor_open, ls
    <3>2. lines' \in Seq(Row)
      BY <2>3, <3>1, EmptyPlace, AppendProperties
    <3>3. Overruns(file')
      BY <2>1, <2>4
    <3>4. QED
      BY <2>1, <3>1, <3>2, <3>3 DEF CursorInv, Editing, FileIs
  <2>5. CASE ~ Overruns(file)
    <3>1. lines' = ls /\ mode' = "edit"
      BY <1>3, <2>5 DEF editor_open, ls
    <3>2. Len(ls[1]) \in Nat
      <4>1. 1 \in 1..Len(ls)
        BY <2>3, EditorSizes
      <4>2. QED
        BY <2>3, <4>1, ElementOfSeq, LenProperties DEF Row
    <3>3. Place(ls, 0, 0)
      BY <2>3, <3>2, EditorSizes DEF Place
    <3>4. Place(lines', cx', cy')
      BY <2>1, <3>1, <3>3
    <3>5. QED
      BY <2>1, <2>2, <2>3, <3>1, <3>4 DEF CursorInv, FileIs
  <2>6. QED
    BY <2>4, <2>5
<1>4. CASE KeyUp \/ KeyDown \/ KeyLeft \/ KeyRight \/ KeyHome \/ KeyEnd
  <2>1. mode = "edit"
    BY <1>4 DEF KeyUp, KeyDown, KeyLeft, KeyRight, KeyHome, KeyEnd, MoveTo
  <2>2. QED
    BY <1>4, <2>1, MovesKeep DEF Placed, CursorInv, Editing
<1>5. CASE (\E c \in Chars : buf_insert_char(c)) \/ buf_delete_char \/ buf_newline \/ buf_delete_line
  <2>1. mode = "edit"
    BY <1>5 DEF buf_insert_char, buf_delete_char, RubOut, MergeLines, buf_newline, buf_delete_line, Edit
  <2>2. QED
    BY <1>5, <2>1, EditsKeep DEF Placed, CursorInv, Editing
<1>6. ASSUME NEW q \in Queries, ed_search_prompt(q)
      PROVE  CursorInv'
  <2>0. Placed
    BY <1>6 DEF ed_search_prompt, Placed, CursorInv, Editing
  <2>1. q \in Texts
    BY EditorAssumption DEF Texts
  <2>2. CASE Found(q)
    <3>1. /\ mode = "edit" /\ search_query' = q /\ cy' = ed_find(q)[1] /\ cx' = ed_find(q)[2] /\ adjust_scroll
          /\ lines' = lines /\ modified' = modified /\ file' = file /\ mode' = mode
      BY <1>6, <2>2 DEF ed_search_prompt
    <3>2. Place(lines, ed_find(q)[2], ed_find(q)[1])
      BY <2>0, <2>1, <2>2, FindPlace
    <3>3. Place(lines', cx', cy')
      BY <3>1, <3>2
    <3>4. cy' \in Nat
      BY <3>3, PlaceLine
    <3>5. scroll_y' \in Nat /\ Visible'
      BY <3>1, <3>4, ScrollShows DEF CursorInv
    <3>6. QED
      BY <2>1, <3>1, <3>3, <3>5 DEF CursorInv, FileIs, Place
  <2>3. CASE ~ Found(q)
    BY <1>6, <2>1, <2>3 DEF ed_search_prompt, CursorInv, Editing, FileIs, Place, Visible
  <2>4. QED
    BY <2>2, <2>3
<1>7. CASE FindNext
  <2>0. Placed
    BY <1>7 DEF FindNext, MoveTo, Placed, CursorInv, Editing
  <2>1. search_query \in Texts /\ Found(search_query)
    BY <1>7 DEF FindNext, CursorInv
  <2>2. Place(lines, ed_find(search_query)[2], ed_find(search_query)[1])
    BY <2>0, <2>1, FindPlace
  <2>3. QED
    BY <1>7, <2>0, <2>2, MoveKeeps DEF FindNext
<1>8. CASE Save \/ (Answer /\ save_file("shell"))
  <2>1. /\ Editing /\ UNCHANGED <<lines, cx, cy, scroll_y, search_query>>
        /\ (mode = "edit" /\ save_file("edit")) \/ save_file("shell")
    BY <1>8 DEF Save, Answer, Editing
  <2>2. /\ FileIs' /\ modified' \in BOOLEAN
        /\ \/ mode = "edit" /\ mode' = "edit"
           \/ mode' = "shell"
           \/ mode' = "crashed" /\ LastLineAt > Capacity
    BY <2>1, SaveFile
  <2>3. QED
    BY <2>1, <2>2 DEF CursorInv, Editing, Place, Visible, LastLineAt
<1>9. CASE Quit \/ (Answer /\ mode' = "shell" /\ UNCHANGED <<file, modified>>)
  BY <1>9 DEF Quit, Answer, CursorInv, Editing, FileIs, Place
<1>10. CASE KeyBeyond
  BY <1>10 DEF KeyBeyond, CursorInv, Editing, FileIs, LastLineAt
<1>11. CASE Reset
  <2>1. FileIs'
    BY <1>11, EditorAssumption DEF Reset, FileIs, Texts
  <2>2. <<>> \in Texts
    BY DEF Texts
  <2>3. lines' \in Seq(Row)
    BY <1>11, EmptyPlace DEF Reset
  <2>4. QED
    BY <1>11, <2>1, <2>2, <2>3 DEF Reset, CursorInv, Editing
<1>12. QED
  BY <1>1, <1>2, <1>3, <1>4, <1>5, <1>6, <1>7, <1>8, <1>9, <1>10, <1>11 DEF Next, Answer

LEMMA CursorIs ==
  ASSUME CursorInv PROVE CursorVisible
<1>1. HasText(file) => Len(file) <= Capacity
  BY DEF CursorInv, FileIs, HasText
<1>2. CASE Editing
  <2>1. \A k \in 1..Len(lines) : lines[k] \in Row /\ Len(lines[k]) <= ED_LINE_MAX
    BY <1>2, PlaceLine DEF CursorInv, Row
  <2>2. QED
    BY <1>1, <1>2, <2>1 DEF CursorInv, CursorVisible, Place, Visible, num_lines, line_len
<1>3. CASE ~ Editing
  BY <1>1, <1>3 DEF CursorInv, CursorVisible, Editing
<1>4. QED
  BY <1>2, <1>3

\* Whatever keys are pressed, the buffer keeps to its arrays, the cursor is in
\* the text and its line on the screen, until a file with as many breaks as the
\* buffer has lines is opened (editor.c:306-313) or a last line is saved behind the
\* end of a file (editor.c:359-366): the arrays are left in no other way
\* (editor.c:100-190, 476-482, 508-527).
THEOREM CursorStaysVisible == Spec => []CursorVisible
<1>1. Init => CursorInv
  BY InitCursor
<1>2. CursorInv /\ [Next]_vars => CursorInv'
  BY NextCursor
<1>3. CursorInv => CursorVisible
  BY CursorIs
<1>4. QED
  BY <1>1, <1>2, <1>3, PTL DEF Spec

-----------------------------------------------------------------------------
(* What is saved is what is loaded.                                         *)

\* Where the line k ends in the text.
End(g, k) == Len(g[k])

LEMMA Ends ==
  ASSUME NEW ls \in Seq(Row), NEW g, Grows(g, ls)
  PROVE  /\ End(g, 0) = 0
         /\ \A k \in 0..Len(ls) : End(g, k) \in Nat
         /\ \A k \in 1..Len(ls) :
              /\ ls[k] \in Row /\ ls[k] \in Seq(Char) /\ Len(ls[k]) \in Nat /\ Len(ls[k]) <= ED_LINE_MAX
              /\ Append(ls[k], Break) \in Texts /\ Len(Append(ls[k], Break)) = Len(ls[k]) + 1
              /\ g[k - 1] \in Texts /\ g[k] = g[k - 1] \o Append(ls[k], Break)
              /\ End(g, k) = End(g, k - 1) + Len(ls[k]) + 1
<1>1. g \in [0..Len(ls) -> Texts] /\ g[0] = <<>>
  BY DEF Grows
<1>2. \A k \in 0..Len(ls) : End(g, k) \in Nat
  BY <1>1, LenProperties DEF End, Texts
<1>3. ASSUME NEW k \in 1..Len(ls)
      PROVE  /\ ls[k] \in Row /\ ls[k] \in Seq(Char) /\ Len(ls[k]) \in Nat /\ Len(ls[k]) <= ED_LINE_MAX
             /\ Append(ls[k], Break) \in Texts /\ Len(Append(ls[k], Break)) = Len(ls[k]) + 1
             /\ g[k - 1] \in Texts /\ g[k] = g[k - 1] \o Append(ls[k], Break)
             /\ End(g, k) = End(g, k - 1) + Len(ls[k]) + 1
  <2>1. ls[k] \in Row
    BY ElementOfSeq
  <2>2. ls[k] \in Seq(Char) /\ Len(ls[k]) \in Nat /\ Len(ls[k]) <= ED_LINE_MAX /\ ls[k] \in Texts
    BY <2>1, RowsAreTexts, LenProperties DEF Row
  <2>3. Append(ls[k], Break) \in Texts /\ Len(Append(ls[k], Break)) = Len(ls[k]) + 1
    BY <2>2, EditorSizes, AppendProperties DEF Texts
  <2>4. k - 1 \in 0..Len(ls)
    BY LenProperties
  <2>5. g[k - 1] \in Texts /\ g[k] = g[k - 1] \o Append(ls[k], Break)
    BY <1>1, <2>4 DEF Grows
  <2> DEFINE a == g[k - 1]
             b == Append(ls[k], Break)
  <2> HIDE DEF a, b
  <2>6. Len(a \o b) = Len(a) + Len(b) /\ Len(a) \in Nat
    BY <2>3, <2>5, TextConcat DEF a, b
  <2>7. End(g, k) = End(g, k - 1) + Len(ls[k]) + 1
    <3>1. End(g, k) = Len(a) + Len(b) /\ End(g, k - 1) = Len(a) /\ Len(b) = Len(ls[k]) + 1
      BY <2>3, <2>5, <2>6 DEF End, a, b
    <3>2. QED
      BY <2>2, <2>6, <3>1
  <2>8. QED
    BY <2>1, <2>2, <2>3, <2>5, <2>7
<1>4. End(g, 0) = 0
  BY <1>1 DEF End
<1>5. QED
  BY <1>2, <1>3, <1>4

\* The places of the breaks and of the lines in the text of the first k lines.
Layout(ls, g, k) ==
    /\ \A j \in 1..k : End(g, j) <= End(g, k) /\ g[k][End(g, j)] = Break
    /\ \A j \in 0..(k - 1) : End(g, j) < End(g, k)
    /\ \A j \in 1..k : \A p \in 1..Len(ls[j]) : g[k][End(g, j - 1) + p] = ls[j][p]
    /\ \A i \in 1..End(g, k) : g[k][i] = Break => \E j \in 1..k : i = End(g, j)

LEMMA LayoutGrows ==
  ASSUME NEW ls \in Seq(Row), NEW g, Grows(g, ls), NEW k \in 0..(Len(ls) - 1), Layout(ls, g, k)
  PROVE  Layout(ls, g, k + 1)
<1> DEFINE d == k + 1
           a == g[k]
           l == ls[d]
           b == Append(l, Break)
           h == g[d]
           e == End(g, k)
           z == End(g, d)
<1>1. Len(ls) \in Nat
  BY LenProperties
<1>2. k \in Nat /\ d \in 1..Len(ls) /\ d - 1 = k /\ d = k + 1 /\ k \in 0..Len(ls)
  BY <1>1
<1> HIDE DEF d
<1>3. /\ l \in Row /\ l \in Seq(Char) /\ Len(l) \in Nat
      /\ b \in Texts /\ Len(b) = Len(l) + 1 /\ a \in Texts /\ h = a \o b
      /\ z = e + Len(l) + 1 /\ e \in Nat
  BY <1>2, Ends
<1>4. e = Len(a) /\ a \in Seq(Byte) /\ b \in Seq(Byte)
  BY <1>3 DEF End, Texts
<1>5. (\A p \in 1..Len(l) : b[p] = l[p]) /\ b[Len(l) + 1] = Break
  BY <1>3, AppendProperties, EditorSizes
<1>6. \A p \in 1..Len(l) : l[p] # Break
  BY <1>3, ElementOfSeq DEF Char
<1>7. \A j \in 0..k : End(g, j) \in Nat
  <2>1. \A j \in 0..k : j \in 0..Len(ls)
    BY <1>1, <1>2
  <2>2. QED
    BY <2>1, Ends, Zenon
<1>8. \A j \in 1..k : End(g, j - 1) \in Nat /\ End(g, j) = End(g, j - 1) + Len(ls[j]) + 1 /\ Len(ls[j]) \in Nat
  <2>1. \A j \in 1..k : j \in 1..Len(ls) /\ j - 1 \in 0..k
    BY <1>1, <1>2
  <2>2. QED
    BY <1>7, <2>1, Ends
<1> HIDE DEF a, b, l, h, e, z
<1>9. ASSUME NEW i \in 1..e PROVE h[i] = a[i]
  BY <1>3, <1>4, ConcatProperties
<1>10. ASSUME NEW p \in 1..(Len(l) + 1) PROVE h[e + p] = b[p]
  <2>1. e + p \in 1..(Len(a) + Len(b)) /\ ~ (e + p <= Len(a)) /\ (e + p) - Len(a) = p
    BY <1>3, <1>4
  <2>2. \A i \in 1..(Len(a) + Len(b)) : (a \o b)[i] = IF i <= Len(a) THEN a[i] ELSE b[i - Len(a)]
    BY <1>4, ConcatProperties
  <2> DEFINE i == e + p
  <2>3. i \in 1..(Len(a) + Len(b)) /\ ~ (i <= Len(a)) /\ i - Len(a) = p
    BY <2>1, Zenon
  <2> HIDE DEF i
  <2>4. (a \o b)[i] = b[i - Len(a)]
    BY <2>2, <2>3
  <2>5. (a \o b)[i] = b[p]
    BY <2>3, <2>4, Zenon
  <2>6. QED
    BY <1>3, <2>5, Zenon DEF i
<1>11. \A j \in 1..k : End(g, j) \in 1..e /\ a[End(g, j)] = Break
  <2> SUFFICES ASSUME NEW j \in 1..k PROVE End(g, j) \in 1..e /\ a[End(g, j)] = Break
    OBVIOUS
  <2>1. End(g, j) <= e /\ a[End(g, j)] = Break
    BY DEF Layout, a, e
  <2> DEFINE x == End(g, j - 1)
             y == End(g, j)
             w == Len(ls[j])
  <2>4. x \in Nat /\ y = x + w + 1 /\ w \in Nat
    BY <1>8
  <2> HIDE DEF x, y, w
  <2>5. y \in Nat /\ y > 0
    BY <2>4
  <2>2. End(g, j) \in Nat /\ End(g, j) > 0
    BY <2>5 DEF y
  <2>3. QED
    BY <1>3, <2>1, <2>2
<1>12. ASSUME NEW j \in 1..d
       PROVE  End(g, j) <= z /\ h[End(g, j)] = Break
  <2>1. CASE j \in 1..k
    <3> DEFINE y == End(g, j)
    <3>1. y \in 1..e /\ a[y] = Break
      BY <1>11, <2>1
    <3> HIDE DEF y
    <3>4. h[y] = a[y]
      BY <1>9, <3>1
    <3>5. y <= z
      <4>1. y <= e /\ y \in Int
        BY <1>3, <3>1
      <4>2. QED
        BY <1>3, <4>1
    <3>2. y <= z /\ h[y] = Break
      BY <3>1, <3>4, <3>5
    <3>3. QED
      BY <3>2 DEF y
  <2>2. CASE j = d
    <3> DEFINE p == Len(l) + 1
    <3>0. p \in 1..(Len(l) + 1) /\ b[p] = Break /\ z = e + p
      BY <1>3, <1>5
    <3> HIDE DEF p
    <3>1. h[e + p] = Break /\ z = e + p
      BY <1>10, <3>0
    <3>2. z \in Nat
      BY <1>3
    <3>3. End(g, j) = z
      BY <2>2 DEF z
    <3>4. QED
      BY <3>1, <3>2, <3>3
  <2>3. QED
    BY <1>2, <2>1, <2>2
<1>13. ASSUME NEW j \in 0..(d - 1)
       PROVE  End(g, j) < z
  <2>1. e < z
    BY <1>3
  <2>2. CASE j = k
    BY <2>1, <2>2 DEF e
  <2>3. CASE j # k
    <3>1. j \in 0..(k - 1) /\ j \in 0..k
      BY <1>2, <2>3
    <3>2. End(g, j) < e
      BY <3>1 DEF Layout, e
    <3>3. End(g, j) \in Nat /\ z \in Nat
      BY <1>3, <1>7, <3>1
    <3>4. QED
      BY <1>3, <2>1, <3>2, <3>3
  <2>4. QED
    BY <2>2, <2>3
<1>14. ASSUME NEW j \in 1..d, NEW p \in 1..Len(ls[j])
       PROVE  h[End(g, j - 1) + p] = ls[j][p]
  <2>1. CASE j \in 1..k
    <3> DEFINE i == End(g, j - 1) + p
    <3>1. i \in 1..e
      <4> DEFINE x == End(g, j - 1)
                 y == End(g, j)
                 w == Len(ls[j])
      <4>1. x \in Nat /\ y = x + w + 1 /\ w \in Nat /\ y \in 1..e /\ p \in 1..w
        BY <1>8, <1>11, <2>1
      <4> HIDE DEF x, y, w
      <4>2. x + p \in 1..e
        BY <1>3, <4>1
      <4>3. QED
        BY <4>2 DEF x
    <3> HIDE DEF i
    <3>2. a[i] = ls[j][p]
      BY <2>1 DEF Layout, a, i
    <3>3. QED
      BY <1>9, <3>1, <3>2 DEF i
  <2>2. CASE j = d
    <3>1. p \in 1..Len(l) /\ p \in 1..(Len(l) + 1) /\ End(g, j - 1) = e /\ ls[j] = l
      BY <1>2, <1>3, <2>2 DEF l, e
    <3>2. QED
      BY <1>5, <1>10, <3>1
  <2>3. QED
    BY <1>2, <2>1, <2>2
<1>15. ASSUME NEW i \in 1..z, h[i] = Break
       PROVE  \E j \in 1..d : i = End(g, j)
  <2>1. CASE i <= e
    <3>1. i \in 1..e
      BY <1>3, <2>1
    <3>2. a[i] = Break
      BY <1>9, <1>15, <3>1
    <3>3. PICK j \in 1..k : i = End(g, j)
      BY <3>1, <3>2 DEF Layout, a, e
    <3>4. j \in 1..d
      BY <1>2
    <3>5. QED
      BY <3>3, <3>4
  <2>2. CASE i > e
    <3> DEFINE p == i - e
    <3>1. p \in 1..(Len(l) + 1) /\ e + p = i
      BY <1>3, <2>2
    <3> HIDE DEF p
    <3>2. b[p] = Break
      BY <1>10, <1>15, <3>1
    <3>3. p = Len(l) + 1
      <4>1. CASE p \in 1..Len(l)
        BY <1>5, <1>6, <3>2, <4>1
      <4>2. CASE p \notin 1..Len(l)
        BY <1>3, <3>1, <4>2
      <4>3. QED
        BY <4>1, <4>2
    <3>4. i = z
      BY <1>3, <3>1, <3>3
    <3>5. d \in 1..d
      BY <1>2
    <3>6. QED
      BY <3>4, <3>5 DEF z
  <2>3. QED
    BY <1>3, <2>1, <2>2
<1>16. Layout(ls, g, d)
  BY <1>12, <1>13, <1>14, <1>15 DEF Layout, h, z
<1>17. QED
  BY <1>16 DEF d

LEMMA LayoutOf ==
  ASSUME NEW ls \in Seq(Row), NEW g, Grows(g, ls)
  PROVE  \A k \in 0..Len(ls) : Layout(ls, g, k)
<1> DEFINE T == {k \in 0..Len(ls) : Layout(ls, g, k)}
<1>1. Len(ls) \in Nat
  BY LenProperties
<1>2. 0 \in T
  <2>1. End(g, 0) = 0
    BY Ends
  <2>2. Layout(ls, g, 0)
    BY <2>1 DEF Layout
  <2>3. QED
    BY <1>1, <2>2
<1>3. ASSUME NEW k \in 0..(Len(ls) - 1), k \in T PROVE k + 1 \in T
  <2>1. Layout(ls, g, k + 1)
    BY <1>3, LayoutGrows
  <2>2. QED
    BY <1>1, <2>1
<1>4. 0..Len(ls) \subseteq T
  <2> HIDE DEF T
  <2> QED BY <1>1, <1>2, <1>3, SetInduction
<1>5. QED
  BY <1>4

\* The breaks of a text are the ends of its lines, and they are counted by them.
Counted(g, n, m) ==
    /\ m \in Texts /\ Len(m) = End(g, n)
    /\ Breaks(m) = {End(g, j) : j \in 1..n}
    /\ \A k \in 0..n : Cardinality({End(g, j) : j \in 1..k}) = k
    /\ \A k \in 1..n : {a \in Breaks(m) : a <= End(g, k)} = {End(g, j) : j \in 1..k}

LEMMA BreaksOf ==
  ASSUME NEW ls \in Seq(Row), NEW g, Grows(g, ls), NEW m, m = g[Len(ls)]
  PROVE  Counted(g, Len(ls), m)
<1> DEFINE n == Len(ls)
           W(k) == {End(g, j) : j \in 1..k}
<1>1. n \in Nat /\ n \in 0..n
  BY LenProperties
<1>2. m \in Texts /\ Len(m) = End(g, n)
  BY <1>1 DEF Grows, End
<1>3. Layout(ls, g, n)
  BY <1>1, LayoutOf
<1>4. \A j \in 1..n : End(g, j) \in Nat /\ End(g, j) > 0
  <2> SUFFICES ASSUME NEW j \in 1..n PROVE End(g, j) \in Nat /\ End(g, j) > 0
    OBVIOUS
  <2>1. j - 1 \in 0..n
    BY <1>1
  <2> DEFINE x == End(g, j - 1)
             y == End(g, j)
             w == Len(ls[j])
  <2>2. x \in Nat /\ y = x + w + 1 /\ w \in Nat
    BY <2>1, Ends
  <2> HIDE DEF x, y, w
  <2>3. y \in Nat /\ y > 0
    BY <2>2
  <2>4. QED
    BY <2>3 DEF y
<1>5. \A j \in 1..n : End(g, j) <= Len(m) /\ m[End(g, j)] = Break
  BY <1>2, <1>3 DEF Layout
<1>6. \A i \in 1..Len(m) : m[i] = Break => \E j \in 1..n : i = End(g, j)
  BY <1>2, <1>3 DEF Layout
<1>7. Len(m) \in Nat
  BY <1>2, LenProperties DEF Texts
<1> HIDE DEF n
<1>8. Breaks(m) = W(n)
  <2>1. ASSUME NEW i \in Breaks(m) PROVE i \in W(n)
    BY <1>6 DEF Breaks
  <2>2. ASSUME NEW j \in 1..n PROVE End(g, j) \in Breaks(m)
    <3> DEFINE y == End(g, j)
    <3>1. y \in Nat /\ y > 0 /\ y <= Len(m) /\ m[y] = Break
      BY <1>4, <1>5
    <3> HIDE DEF y
    <3>2. y \in 1..Len(m)
      BY <1>7, <3>1
    <3>3. y \in Breaks(m)
      BY <3>1, <3>2 DEF Breaks
    <3>4. QED
      BY <3>3 DEF y
  <2>3. QED
    BY <2>1, <2>2
<1>9. \A k \in 0..n : \A j \in 0..(k - 1) : End(g, j) < End(g, k)
  BY LayoutOf DEF Layout, n
<1>10. \A i \in 1..n, j \in 1..n : i < j => End(g, i) < End(g, j)
  <2> SUFFICES ASSUME NEW i \in 1..n, NEW j \in 1..n, i < j PROVE End(g, i) < End(g, j)
    OBVIOUS
  <2>1. j \in 0..n /\ i \in 0..(j - 1)
    BY <1>1
  <2>2. QED
    BY <1>9, <2>1
<1>11. \A k \in 0..n : IsFiniteSet(W(k)) /\ Cardinality(W(k)) = k
  <2> DEFINE T == {k \in 0..n : IsFiniteSet(W(k)) /\ Cardinality(W(k)) = k}
  <2>1. 0 \in T
    <3>1. W(0) = {}
      OBVIOUS
    <3> HIDE DEF W
    <3>2. IsFiniteSet(W(0)) /\ Cardinality(W(0)) = 0
      BY <3>1, FS_EmptySet
    <3>3. 0 \in 0..n
      BY <1>1
    <3>4. QED
      BY <3>2, <3>3
  <2>2. ASSUME NEW k \in 0..(n - 1), k \in T PROVE k + 1 \in T
    <3> DEFINE y == End(g, k + 1)
    <3>1. k + 1 \in 1..n /\ k + 1 \in 0..n /\ k + 1 \in 1..(k + 1)
      BY <1>1
    <3>2. W(k + 1) = W(k) \cup {y}
      <4>1. 1..(k + 1) = (1..k) \cup {k + 1}
        BY <1>1
      <4>2. QED
        BY <4>1
    <3>3. y \notin W(k)
      <4> SUFFICES ASSUME NEW j \in 1..k, y = End(g, j) PROVE FALSE
        OBVIOUS
      <4>1. j \in 1..n /\ j < k + 1
        BY <1>1
      <4>2. End(g, j) < y
        BY <1>10, <3>1, <4>1
      <4>3. End(g, j) \in Nat
        BY <1>4, <4>1
      <4>4. QED
        BY <4>2, <4>3
    <3>4. IsFiniteSet(W(k)) /\ Cardinality(W(k)) = k
      BY <2>2
    <3> HIDE DEF W, y
    <3>5. IsFiniteSet(W(k + 1)) /\ Cardinality(W(k + 1)) = k + 1
      BY <3>2, <3>3, <3>4, FS_AddElement
    <3>6. QED
      BY <3>1, <3>5
  <2>3. 0..n \subseteq T
    <3> HIDE DEF T
    <3> QED BY <1>1, <2>1, <2>2, SetInduction
  <2>4. QED
    BY <2>3
<1>12. ASSUME NEW k \in 1..n
       PROVE  {a \in Breaks(m) : a <= End(g, k)} = W(k)
  <2>1. ASSUME NEW j \in 1..n PROVE End(g, j) <= End(g, k) <=> j <= k
    <3>1. CASE j < k
      BY <1>4, <1>10, <3>1
    <3>2. CASE j = k
      BY <1>4, <3>2
    <3>3. CASE k < j
      <4>1. End(g, k) < End(g, j) /\ End(g, k) \in Nat /\ End(g, j) \in Nat
        BY <1>4, <1>10, <3>3
      <4> DEFINE x == End(g, k)
                 y == End(g, j)
      <4> HIDE DEF x, y
      <4>2. x < y /\ x \in Nat /\ y \in Nat
        BY <4>1 DEF x, y
      <4>3. ~ (y <= x)
        BY <4>2
      <4>4. QED
        BY <3>3, <4>3 DEF x, y
    <3>4. QED
      BY <1>1, <3>1, <3>2, <3>3
  <2>2. \A j \in 1..n : j <= k <=> j \in 1..k
    BY <1>1
  <2>3. \A j \in 1..k : j \in 1..n
    BY <1>1
  <2>4. {a \in W(n) : a <= End(g, k)} \subseteq W(k)
    BY <2>1, <2>2
  <2>5. W(k) \subseteq {a \in W(n) : a <= End(g, k)}
    BY <2>1, <2>2, <2>3
  <2> HIDE DEF W
  <2>6. QED
    BY <1>8, <2>4, <2>5
<1>13. QED
  BY <1>2, <1>8, <1>11, <1>12 DEF n, Counted

\* The lines that load_file makes of the text of a buffer are the buffer's.
LEMMA RoundTrip ==
  ASSUME NEW ls \in Seq(Row), Len(ls) \in 1..ED_MAX_LINES
  PROVE  Loaded(Image(ls)) = ls
<1> DEFINE n == Len(ls)
           m == Image(ls)
<1>1. n \in Nat /\ n \in 0..n /\ n > 0 /\ n \in 1..n /\ Least(ED_MAX_LINES, n) = n
  BY LenProperties, EditorSizes DEF Least
<1>2. PICK g : Grows(g, ls) /\ m = g[n]
  BY RowsAreTexts, ImageGrows
<1> HIDE DEF m
<1>3. /\ m \in Texts /\ Len(m) = End(g, n)
      /\ Breaks(m) = {End(g, j) : j \in 1..n}
      /\ \A k \in 0..n : Cardinality({End(g, j) : j \in 1..k}) = k
      /\ \A k \in 1..n : {a \in Breaks(m) : a <= End(g, k)} = {End(g, j) : j \in 1..k}
  <2>1. Counted(g, n, m)
    BY <1>2, BreaksOf
  <2>2. QED
    BY <2>1, Zenon DEF Counted
<1>4. Cardinality(Breaks(m)) = n /\ m \in Seq(Byte) /\ HasText(m) /\ Breaks(m) # {}
  BY <1>1, <1>3, EditorAssumption DEF Texts, HasText
<1>5. ASSUME NEW k \in 1..n
      PROVE  KthBreak(m, k) = End(g, k)
  <2> DEFINE b == KthBreak(m, k)
             c == End(g, k)
  <2>1. b \in Breaks(m) /\ Cardinality({a \in Breaks(m) : a <= b}) = k
    BY <1>4, KthBreakIs
  <2>2. c \in Breaks(m)
    BY <1>3
  <2>3. Cardinality({a \in Breaks(m) : a <= c}) = k
    <3>1. k \in 0..n
      BY <1>1
    <3>2. QED
      BY <1>3, <3>1
  <2> HIDE DEF b, c
  <2>4. b \in Nat /\ c \in Nat
    <3>1. Breaks(m) \subseteq Nat
      BY <1>4, BreaksFinite
    <3>2. QED
      BY <2>1, <2>2, <3>1
  <2>5. ~ (b < c)
    <3> SUFFICES ASSUME b < c PROVE FALSE
      OBVIOUS
    <3>1. k < k
      BY <1>4, <2>1, <2>2, <2>3, RankOnce
    <3>2. QED
      BY <3>1
  <2>6. ~ (c < b)
    <3> SUFFICES ASSUME c < b PROVE FALSE
      OBVIOUS
    <3>1. k < k
      BY <1>4, <2>1, <2>2, <2>3, RankOnce
    <3>2. QED
      BY <3>1
  <2>7. b = c
    BY <2>4, <2>5, <2>6
  <2>8. QED
    BY <2>7 DEF b, c
<1>6. ASSUME NEW k \in 1..n
      PROVE  LoadedLine(m, k) = ls[k]
  <2> DEFINE x == End(g, k - 1)
             y == End(g, k)
             l == ls[k]
             start == IF k = 1 THEN 1 ELSE KthBreak(m, k - 1) + 1
             line == SubSeq(m, start, KthBreak(m, k) - 1)
  <2>1. LoadedLine(m, k) = SubSeq(line, 1, Least(ED_LINE_MAX, Len(line)))
    BY DEF LoadedLine
  <2>2. start = x + 1
    <3>1. CASE k = 1
      <4>1. k - 1 = 0
        BY <3>1
      <4>2. x = 0
        BY <1>2, <4>1, Ends
      <4> HIDE DEF x
      <4>3. QED
        BY <3>1, <4>2
    <3>2. CASE k # 1
      <4> DEFINE p == k - 1
      <4>1. p \in 1..n
        BY <1>1, <3>2
      <4> HIDE DEF p
      <4>2. KthBreak(m, p) = End(g, p)
        BY <1>5, <4>1
      <4>3. KthBreak(m, k - 1) = x
        BY <4>2 DEF p
      <4>4. QED
        BY <3>2, <4>3
    <3>3. QED
      BY <3>1, <3>2
  <2>3. KthBreak(m, k) = y
    BY <1>5
  <2>4. /\ l \in Seq(Char) /\ Len(l) \in Nat /\ Len(l) <= ED_LINE_MAX
        /\ y = x + Len(l) + 1
    BY <1>2, Ends
  <2>5. x \in Nat
    <3>1. k - 1 \in 0..n
      BY <1>1
    <3>2. QED
      BY <1>2, <3>1, Ends
  <2>6. y <= Len(m) /\ \A p \in 1..Len(l) : m[x + p] = l[p]
    <3>1. Layout(ls, g, n)
      BY <1>1, <1>2, LayoutOf
    <3>2. QED
      BY <1>2, <1>3, <3>1 DEF Layout
  <2>7. line = SubSeq(m, x + 1, y - 1)
    BY <2>2, <2>3
  <2> HIDE DEF x, y, l, line
  <2>8. y - 1 = x + Len(l)
    BY <2>4, <2>5
  <2>9. /\ SubSeq(m, x + 1, x + Len(l)) \in Seq(Byte)
        /\ Len(SubSeq(m, x + 1, x + Len(l))) = Len(l)
        /\ \A p \in 1..Len(l) : SubSeq(m, x + 1, x + Len(l))[p] = m[x + p]
    <3> DEFINE u == x + 1
               v == x + Len(l)
    <3>1. u \in Int /\ v \in Int /\ v - u + 1 = Len(l) /\ u <= v + 1
      BY <2>4, <2>5
    <3>2. \A i \in u..v : m[i] \in Byte
      <4>1. \A i \in u..v : i \in 1..Len(m)
        <5>1. Len(m) \in Nat /\ v <= Len(m)
          BY <1>4, <2>4, <2>5, <2>6, LenProperties
        <5>2. QED
          BY <2>5, <3>1, <5>1
      <4>2. QED
        BY <1>4, <4>1, ElementOfSeq
    <3>3. \A p \in 1..Len(l) : u + p - 1 = x + p
      BY <2>4, <2>5
    <3> HIDE DEF u, v
    <3>4. /\ SubSeq(m, u, v) \in Seq(Byte)
          /\ Len(SubSeq(m, u, v)) = IF u <= v THEN v - u + 1 ELSE 0
          /\ \A i \in 1..(v - u + 1) : SubSeq(m, u, v)[i] = m[u + i - 1]
      BY <3>1, <3>2, SubSeqProperties
    <3>5. Len(SubSeq(m, u, v)) = Len(l)
      BY <2>4, <3>1, <3>4
    <3>6. \A p \in 1..Len(l) : SubSeq(m, u, v)[p] = m[x + p]
      BY <3>1, <3>3, <3>4
    <3>7. QED
      BY <3>4, <3>5, <3>6 DEF u, v
  <2>10. line \in Seq(Byte) /\ Len(line) = Len(l) /\ \A p \in 1..Len(l) : line[p] = l[p]
    BY <2>6, <2>7, <2>8, <2>9
  <2>11. line = l
    <3>1. l \in Seq(Byte)
      BY <2>4, SeqMonotonic DEF Char
    <3>2. QED
      BY <2>10, <3>1, SeqEqual
  <2>12. Least(ED_LINE_MAX, Len(l)) = Len(l)
    BY <2>4, EditorSizes DEF Least
  <2>13. SubSeq(l, 1, Len(l)) = l
    BY <2>4, SubSeqFull
  <2>14. QED
    BY <2>1, <2>11, <2>12, <2>13 DEF l
<1>7. Loaded(m) = [k \in 1..n |-> LoadedLine(m, k)]
  BY <1>1, <1>4 DEF Loaded
<1>8. Loaded(m) = [k \in 1..n |-> ls[k]]
  BY <1>6, <1>7
<1>9. ls = [k \in 1..n |-> ls[k]]
  BY LenProperties
<1>10. QED
  BY <1>8, <1>9 DEF m

SavedInv == CursorInv /\ UnmodifiedIsSaved

LEMMA SaveKeeps ==
  ASSUME SavedInv, NEW m \in {"edit", "shell"}, save_file(m), lines' = lines,
         Editing, mode = "edit" \/ m # "edit"
  PROVE  UnmodifiedIsSaved'
<1>1. CASE file = ABSENT /\ mode' = m /\ UNCHANGED <<file, modified>>
  BY <1>1 DEF SavedInv, UnmodifiedIsSaved
<1>2. CASE file' = SavedAs /\ modified' = FALSE /\ mode' = m /\ Editing
  <2> SUFFICES ASSUME ~ (Len(Image(lines)) > Capacity)
               PROVE  Loaded(file') = lines
    BY DEF UnmodifiedIsSaved
  <2> DEFINE t == Image(lines)
  <2>1. t \in Texts
    BY RowsAreTexts, ImageAppend DEF SavedInv, CursorInv
  <2>2. lines \in Seq(Row) /\ Len(lines) \in 1..ED_MAX_LINES
    BY <1>2 DEF SavedInv, CursorInv, Place
  <2>3. SavedAs = SubSeq(t, 1, Least(Capacity, Len(t)))
    BY DEF SavedAs
  <2>4. Len(t) <= Capacity
    BY <2>1, EditorSizes, LenProperties DEF Texts
  <2> HIDE DEF t
  <2>5. Least(Capacity, Len(t)) = Len(t)
    BY <2>1, <2>4, EditorSizes, LenProperties DEF Least, Texts
  <2>6. SavedAs = t
    BY <2>1, <2>3, <2>5, SubSeqFull DEF Texts
  <2>7. QED
    BY <1>2, <2>2, <2>6, RoundTrip DEF t
<1>3. CASE mode' = "crashed"
  BY <1>3 DEF UnmodifiedIsSaved
<1>4. CASE file' \in {ABSENT, NOBUF}
  BY <1>4 DEF UnmodifiedIsSaved, HasText
<1>5. QED
  BY <1>1, <1>2, <1>3, <1>4 DEF save_file

LEMMA NextSaved ==
  ASSUME SavedInv, [Next]_vars
  PROVE  SavedInv'
<1>1. CursorInv'
  BY NextCursor DEF SavedInv
<1>2. UnmodifiedIsSaved'
  <2>1. CASE UNCHANGED <<lines, modified, file, mode>>
    BY <2>1 DEF SavedInv, UnmodifiedIsSaved
  <2>2. CASE mode' # "edit" \/ modified'
    BY <2>2 DEF UnmodifiedIsSaved
  <2>3. CASE editor_open
    BY <2>3 DEF editor_open, UnmodifiedIsSaved
  <2>4. CASE Save
    BY <2>4, SaveKeeps DEF Save, Editing
  <2>5. CASE Answer
    <3>1. CASE save_file("shell")
      <4>1. lines' = lines
        BY <2>5 DEF Answer
      <4>0. Editing
        BY <2>5 DEF Answer, Editing
      <4>2. "shell" \in {"edit", "shell"} /\ "shell" # "edit"
        OBVIOUS
      <4>3. QED
        BY <3>1, <4>0, <4>1, <4>2, SaveKeeps
    <3>2. CASE mode' = "shell"
      BY <3>2, <2>2
    <3>3. QED
      BY <2>5, <3>1, <3>2 DEF Answer
  <2>6. CASE ShellCommand \/ Quit \/ KeyBeyond \/ Reset
    BY <2>6, <2>2 DEF ShellCommand, Quit, KeyBeyond, Reset
  <2>7. CASE KeyUp \/ KeyDown \/ KeyLeft \/ KeyRight \/ KeyHome \/ KeyEnd \/ FindNext
    BY <2>1, <2>7 DEF KeyUp, KeyDown, KeyLeft, KeyRight, KeyHome, KeyEnd, FindNext, MoveTo
  <2>8. CASE \E q \in Queries : ed_search_prompt(q)
    BY <2>1, <2>8 DEF ed_search_prompt
  <2>9. ASSUME NEW ls, NEW x, NEW y, Edit(ls, x, y) PROVE UnmodifiedIsSaved'
    BY <2>2, <2>9 DEF Edit
  <2>10. CASE (\E c \in Chars : buf_insert_char(c)) \/ buf_newline
    BY <2>9, <2>10 DEF buf_insert_char, buf_newline
  <2>11. CASE buf_delete_char
    BY <2>9, <2>11 DEF buf_delete_char, RubOut, MergeLines
  <2>12. CASE buf_delete_line
    BY <2>9, <2>12 DEF buf_delete_line
  <2>13. CASE UNCHANGED vars
    BY <2>1, <2>13 DEF vars
  <2>14. QED
    BY <2>3, <2>4, <2>5, <2>6, <2>7, <2>8, <2>10, <2>11, <2>12, <2>13 DEF Next
<1>3. QED
  BY <1>1, <1>2 DEF SavedInv

\* A buffer that is not marked as modified is in the file: what save_file writes,
\* load_file reads, unless the text is larger than a file, the node has no buffer
\* or the directory had no place for it (editor.c:284-316, 357-371).
THEOREM UnmodifiedStaysSaved == Spec => []UnmodifiedIsSaved
<1>1. Init => SavedInv
  <2> SUFFICES ASSUME Init PROVE SavedInv
    OBVIOUS
  <2>1. CursorInv
    BY InitCursor
  <2>2. QED
    BY <2>1 DEF Init, SavedInv, UnmodifiedIsSaved
<1>2. SavedInv /\ [Next]_vars => SavedInv'
  BY NextSaved
<1>3. SavedInv => UnmodifiedIsSaved
  BY DEF SavedInv
<1>4. QED
  BY <1>1, <1>2, <1>3, PTL DEF Spec

-----------------------------------------------------------------------------
(* The editor is a text with a cursor.                                      *)

\* A text without its last character.
Cut(s) == SubSeq(s, 1, Len(s) - 1)

\* The text of a buffer, and where column x of line y is in it.
FlatOf(ls) == Cut(Image(ls))
PosOf(ls, x, y) == Len(Image(SubSeq(ls, 1, y))) + x

\* What follows a line in the text, when the lines B follow it in the buffer.
Rest(B) == Cut(<<Break>> \o Image(B))

\* The parts of a text.
LEMMA PartsOf ==
  ASSUME NEW p \in Texts, NEW q \in Texts
  PROVE  /\ SubSeq(p \o q, 1, Len(p)) = p
         /\ SubSeq(p \o q, Len(p) + 1, Len(p \o q)) = q
         /\ Len(p \o q) = Len(p) + Len(q) /\ p \o q \in Texts
<1> DEFINE t == p \o q
           a == Len(p)
           b == Len(q)
<1>1. /\ p \in Seq(Byte) /\ q \in Seq(Byte) /\ a \in Nat /\ b \in Nat
      /\ t \in Seq(Byte) /\ Len(t) = a + b
      /\ \A i \in 1..(a + b) : t[i] = IF i <= a THEN p[i] ELSE q[i - a]
  BY ConcatProperties, LenProperties DEF Texts
<1>2. \A i \in 1..a : t[i] = p[i]
  <2> HIDE DEF t, a, b
  <2> QED BY <1>1
<1>3. \A i \in 1..b : t[a + i] = q[i]
  <2> HIDE DEF t, a, b
  <2> SUFFICES ASSUME NEW i \in 1..b PROVE t[a + i] = q[i]
    OBVIOUS
  <2>1. a + i \in 1..(a + b) /\ ~ (a + i <= a) /\ (a + i) - a = i
    BY <1>1
  <2>2. QED
    BY <1>1, <2>1
<1>4. SubSeq(t, 1, a) = p
  <2>1. /\ SubSeq(t, 1, a) \in Seq(Byte) /\ Len(SubSeq(t, 1, a)) = a
        /\ \A i \in 1..a : SubSeq(t, 1, a)[i] = t[i]
    <3> HIDE DEF t, a, b
    <3> QED BY <1>1
  <2>2. QED
    BY <1>1, <1>2, <2>1, SeqEqual
<1>5. SubSeq(t, a + 1, a + b) = q
  <2>1. /\ SubSeq(t, a + 1, a + b) \in Seq(Byte) /\ Len(SubSeq(t, a + 1, a + b)) = b
        /\ \A i \in 1..b : SubSeq(t, a + 1, a + b)[i] = t[a + i]
    <3> HIDE DEF t, a, b
    <3> QED BY <1>1
  <2>2. QED
    BY <1>1, <1>3, <2>1, SeqEqual
<1>6. QED
  BY <1>1, <1>4, <1>5 DEF Texts

\* One character.
LEMMA OneText ==
  ASSUME NEW e \in Byte
  PROVE  <<e>> \in Texts /\ Len(<<e>>) = 1 /\ <<e>>[1] = e
BY DEF Texts

LEMMA CutLast ==
  ASSUME NEW p \in Texts, NEW e \in Byte
  PROVE  Cut(p \o <<e>>) = p
<1> DEFINE t == p \o <<e>>
<1>1. SubSeq(t, 1, Len(p)) = p /\ Len(t) = Len(p) + 1
  BY OneText, PartsOf
<1>2. Len(p) \in Nat
  BY LenProperties DEF Texts
<1> HIDE DEF t
<1>3. Len(t) - 1 = Len(p)
  BY <1>1, <1>2
<1>4. Cut(t) = p
  BY <1>1, <1>3 DEF Cut
<1>5. QED
  BY <1>4 DEF t

LEMMA CutConcat ==
  ASSUME NEW p \in Texts, NEW q \in Texts, Len(q) > 0
  PROVE  Cut(p \o q) = p \o Cut(q) /\ Cut(q) \in Texts /\ Len(Cut(q)) = Len(q) - 1
<1> DEFINE r == Cut(q)
           e == q[Len(q)]
<1>1. q \in Seq(Byte) /\ Len(q) \in Nat /\ Len(q) \in 1..Len(q) /\ e \in Byte
  BY LenProperties, ElementOfSeq DEF Texts
<1>2. r \in Seq(Byte) /\ Len(r) = Len(q) - 1
  <2> DEFINE k == Len(q) - 1
  <2>1. k \in Nat /\ k <= Len(q)
    BY <1>1
  <2>2. r = SubSeq(q, 1, k)
    BY DEF Cut
  <2> HIDE DEF k
  <2>3. SubSeq(q, 1, k) \in Seq(Byte) /\ Len(SubSeq(q, 1, k)) = k
    BY <1>1, <2>1
  <2>4. QED
    BY <2>2, <2>3 DEF k
<1>3. q = r \o <<e>>
  <2> DEFINE k == Len(q) - 1
  <2>1. k \in 0..(Len(q) - 1) /\ k + 1 = Len(q)
    BY <1>1
  <2>2. SubSeq(q, 1, k + 1) = Append(SubSeq(q, 1, k), q[k + 1])
    <3> HIDE DEF k
    <3> QED BY <1>1, <2>1, PrefixGrows
  <2>3. SubSeq(q, 1, Len(q)) = Append(r, e)
    BY <2>1, <2>2 DEF Cut
  <2> HIDE DEF r, e
  <2>4. Append(r, e) = r \o <<e>>
    BY <1>1, <1>2, AppendIsConcat
  <2>5. QED
    BY <1>1, <2>3, <2>4, SubSeqFull
<1> HIDE DEF r, e
<1>4. r \in Texts
  BY <1>2 DEF Texts
<1>5. p \o q = (p \o r) \o <<e>>
  <2>1. <<e>> \in Texts
    BY <1>1, OneText
  <2>2. (p \o r) \o <<e>> = p \o (r \o <<e>>)
    BY <1>4, <2>1, TextConcat, ZenonT(40)
  <2>3. QED
    BY <1>3, <2>2
<1>6. Cut((p \o r) \o <<e>>) = p \o r
  BY <1>1, <1>4, TextConcat, CutLast
<1>7. QED
  BY <1>2, <1>4, <1>5, <1>6 DEF r

LEMMA RestType ==
  ASSUME NEW B \in Seq(Row)
  PROVE  /\ Rest(B) \in Texts /\ Len(Rest(B)) = Len(Image(B)) /\ Image(B) \in Texts
         /\ B = <<>> => Rest(B) = <<>> /\ Image(B) = <<>>
<1>1. Image(B) \in Texts /\ <<Break>> \in Texts /\ Len(<<Break>>) = 1
  BY RowsAreTexts, ImageAppend, EditorSizes, OneText
<1> DEFINE q == <<Break>> \o Image(B)
<1>2. q \in Texts /\ Len(q) = 1 + Len(Image(B)) /\ Len(Image(B)) \in Nat
  BY <1>1, TextConcat
<1> HIDE DEF q
<1>3. <<>> \in Texts /\ Len(q) > 0
  BY <1>2 DEF Texts
<1>4. Cut(q) \in Texts /\ Len(Cut(q)) = Len(q) - 1
  BY <1>2, <1>3, CutConcat
<1>5. Rest(B) = Cut(q)
  BY DEF Rest, q
<1>6. Len(Rest(B)) = Len(Image(B))
  BY <1>2, <1>4, <1>5
<1>7. ASSUME B = <<>> PROVE Image(B) = <<>> /\ Rest(B) = <<>>
  <2>1. Image(B) = <<>>
    BY <1>7, ImageAppend
  <2>2. Rest(B) \in Seq(Byte) /\ Len(Rest(B)) = 0
    BY <1>4, <1>5, <1>6, <2>1 DEF Texts
  <2>3. QED
    BY <2>1, <2>2, EmptySeq
<1>8. QED
  BY <1>1, <1>4, <1>5, <1>6, <1>7

\* The text around a line.
LineIn(A, l, B, x) ==
    /\ FlatOf((A \o <<l>>) \o B) = Image(A) \o (l \o Rest(B))
    /\ PosOf((A \o <<l>>) \o B, x, Len(A)) = Len(Image(A)) + x
    /\ Image(A) \in Texts /\ l \in Texts /\ Rest(B) \in Texts

LEMMA FlatAt ==
  ASSUME NEW A \in Seq(Row), NEW l \in Row, NEW B \in Seq(Row), NEW x
  PROVE  LineIn(A, l, B, x)
<1> DEFINE C == A \o <<l>>
           ls == C \o B
           a == Image(A)
           b == Image(B)
           N == <<Break>>
<1>1. /\ A \in Seq(Texts) /\ B \in Seq(Texts) /\ l \in Texts /\ <<l>> \in Seq(Texts)
      /\ a \in Texts /\ b \in Texts /\ N \in Texts /\ Len(N) = 1
  BY RowsAreTexts, ImageAppend, EditorSizes, OneText
<1>2. C \in Seq(Texts) /\ Image(C) = a \o Append(l, Break)
  <2>1. C \in Seq(Texts) /\ Image(C) = Image(A) \o Image(<<l>>)
    BY <1>1, ImageConcat, ConcatProperties
  <2>2. QED
    BY <1>1, <2>1, ImageOne
<1>3. Append(l, Break) = l \o N
  BY <1>1, EditorSizes, AppendIsConcat DEF Texts
<1>4. Image(ls) = Image(C) \o b
  BY <1>1, <1>2, ImageConcat
<1>5. SubSeq(ls, 1, Len(A)) = A
  <2>1. A \in Seq(Row) /\ <<l>> \o B \in Seq(Row) /\ ls = A \o (<<l>> \o B)
    BY ConcatAssociative
  <2>2. SubSeq(A \o (<<l>> \o B), 1, Len(A)) = A
    OBVIOUS
  <2>3. QED
    BY <2>1, <2>2
<1> HIDE DEF C, ls, a, b, N
<1>6. /\ N \o b \in Texts /\ Len(N \o b) = 1 + Len(b) /\ Len(b) \in Nat
      /\ l \o N \in Texts /\ l \o (N \o b) \in Texts /\ Len(l) \in Nat
      /\ Len(l \o (N \o b)) = Len(l) + Len(N \o b)
  <2>1. N \o b \in Texts /\ Len(N \o b) = Len(N) + Len(b) /\ Len(b) \in Nat /\ l \o N \in Texts /\ Len(l) \in Nat
    BY <1>1, TextConcat, ZenonT(40)
  <2>2. l \o (N \o b) \in Texts /\ Len(l \o (N \o b)) = Len(l) + Len(N \o b)
    BY <1>1, <2>1, TextConcat, ZenonT(40)
  <2>3. QED
    BY <1>1, <2>1, <2>2
<1>7. (a \o (l \o N)) \o b = a \o ((l \o N) \o b) /\ (l \o N) \o b = l \o (N \o b)
  <2>1. (a \o (l \o N)) \o b = a \o ((l \o N) \o b)
    BY <1>1, <1>6, Associates, ZenonT(40)
  <2>2. (l \o N) \o b = l \o (N \o b)
    BY <1>1, Associates, ZenonT(40)
  <2>3. QED
    BY <2>1, <2>2
<1>8. Image(ls) = a \o (l \o (N \o b))
  BY <1>2, <1>3, <1>4, <1>7
<1>9. Cut(l \o (N \o b)) = l \o Cut(N \o b)
  <2>1. Len(N \o b) > 0
    BY <1>6
  <2>2. QED
    BY <1>1, <1>6, <2>1, CutConcat
<1>10. Cut(a \o (l \o (N \o b))) = a \o Cut(l \o (N \o b))
  <2>1. Len(l \o (N \o b)) > 0
    BY <1>6
  <2>2. QED
    BY <1>1, <1>6, <2>1, CutConcat
<1>11. Rest(B) = Cut(N \o b) /\ Rest(B) \in Texts
  BY RestType DEF Rest, N, b
<1>12. FlatOf(ls) = a \o (l \o Rest(B))
  BY <1>8, <1>9, <1>10, <1>11 DEF FlatOf
<1>13. PosOf(ls, x, Len(A)) = Len(a) + x
  BY <1>5 DEF PosOf, a
<1>14. QED
  BY <1>1, <1>11, <1>12, <1>13 DEF C, ls, a, b, N, LineIn

\* A place in a buffer is a place in its text.
LEMMA PosInText ==
  ASSUME NEW ls, NEW x, NEW y, Place(ls, x, y)
  PROVE  PosOf(ls, x, y) \in 0..Len(FlatOf(ls))
<1> DEFINE k == y + 1
           l == ls[k]
           A == Pre(ls, k)
           B == Post(ls, k)
<1>1. /\ ls \in Seq(Row) /\ k \in 1..Len(ls) /\ l \in Row /\ x \in 0..Len(l) /\ k - 1 = y /\ Len(l) \in Nat
  BY PlaceLine DEF Place
<1> HIDE DEF k, l
<1>2. Shape(Row, ls, k, l)
  BY <1>1, Shapes
<1>3. A \in Seq(Row) /\ B \in Seq(Row) /\ Len(A) = y /\ ls = (A \o <<l>>) \o B
  BY <1>1, <1>2 DEF Shape, l
<1> HIDE DEF A, B
<1> DEFINE a == Image(A)
           r == Rest(B)
<1>4. FlatOf(ls) = a \o (l \o r) /\ PosOf(ls, x, y) = Len(a) + x /\ a \in Texts /\ l \in Texts /\ r \in Texts
  <2>1. LineIn(A, l, B, x)
    BY <1>1, <1>3, FlatAt
  <2>2. QED
    BY <1>3, <2>1, Zenon DEF LineIn
<1> HIDE DEF a, r
<1>5. Len(l \o r) = Len(l) + Len(r) /\ l \o r \in Texts /\ Len(r) \in Nat /\ Len(a) \in Nat
  BY <1>4, TextConcat, ZenonT(40)
<1>6. Len(a \o (l \o r)) = Len(a) + Len(l \o r)
  BY <1>4, <1>5, TextConcat, ZenonT(40)
<1>7. QED
  BY <1>1, <1>4, <1>5, <1>6

\* The parts of a text can be grouped in another way.
Regrouped(p, a, b, r) == p \o ((a \o b) \o r) = (p \o a) \o (b \o r)

LEMMA Regroup ==
  ASSUME NEW p \in Texts, NEW a \in Texts, NEW b \in Texts, NEW r \in Texts
  PROVE  Regrouped(p, a, b, r)
<1>1. p \o a \in Texts /\ b \o r \in Texts
  BY TextConcat
<1>2. (a \o b) \o r = a \o (b \o r)
  BY Associates, ZenonT(40)
<1>3. (p \o a) \o (b \o r) = p \o (a \o (b \o r))
  BY <1>1, Associates, ZenonT(40)
<1>4. QED
  BY <1>2, <1>3 DEF Regrouped

\* The text before the cursor and behind it.
Ahd == Image(Above(cy)) \o Left(Current)
Bhd == Right(Current) \o Rest(Below(cy))

LEMMA ViewNow ==
  ASSUME Placed
  PROVE  /\ Ahd \in Texts /\ Bhd \in Texts
         /\ FlatOf(lines) = Ahd \o Bhd
         /\ PosOf(lines, cx, cy) = Len(Ahd)
         /\ Image(Above(cy)) \in Texts /\ Left(Current) \in Texts /\ Right(Current) \in Texts
         /\ Rest(Below(cy)) \in Texts
<1> DEFINE A == Above(cy)
           B == Below(cy)
           l == Current
           a == Left(l)
           b == Right(l)
           p == Image(A)
           r == Rest(B)
<1>1. /\ A \in Seq(Row) /\ B \in Seq(Row) /\ Len(A) = cy /\ l \in Row /\ cx \in 0..Len(l)
      /\ lines = (A \o <<l>>) \o B
  BY Around
<1>2. a \in Row /\ b \in Row /\ Len(a) = cx /\ l = a \o b
  BY <1>1, Halves
<1>3. a \in Texts /\ b \in Texts
  BY <1>2, RowsAreTexts
<1> HIDE DEF A, B, l, a, b
<1>4. /\ FlatOf(lines) = p \o (l \o r) /\ PosOf(lines, cx, cy) = Len(p) + cx
      /\ p \in Texts /\ l \in Texts /\ r \in Texts
  <2>1. LineIn(A, l, B, cx)
    BY <1>1, FlatAt
  <2>2. QED
    BY <1>1, <2>1, Zenon DEF LineIn
<1> HIDE DEF p, r
<1>5. p \o ((a \o b) \o r) = (p \o a) \o (b \o r)
  <2>1. p \in Texts /\ a \in Texts /\ b \in Texts /\ r \in Texts
    BY <1>3, <1>4
  <2>2. QED
    <3>1. Regrouped(p, a, b, r)
      BY <2>1, Regroup
    <3>2. QED
      BY <3>1 DEF Regrouped
<1>6. p \o a \in Texts /\ b \o r \in Texts /\ Len(p \o a) = Len(p) + Len(a)
  BY <1>3, <1>4, TextConcat, ZenonT(40)
<1>7. Ahd = p \o a /\ Bhd = b \o r
  BY DEF Ahd, Bhd, A, B, l, a, b, p, r
<1>8. QED
  BY <1>2, <1>3, <1>4, <1>5, <1>6, <1>7 DEF A, B, l, a, b, p, r

\* What the text and the cursor are while the editor is open.
LEMMA FlatIs ==
  /\ Editing => Flat = FlatOf(lines) /\ Pos = PosOf(lines, cx, cy)
  /\ ~ Editing => Flat = <<>> /\ Pos = 0
  /\ Editing' => Flat' = FlatOf(lines') /\ Pos' = PosOf(lines', cx', cy')
  /\ ~ Editing' => Flat' = <<>> /\ Pos' = 0
BY DEF Flat, Pos, FlatOf, PosOf, Cut

\* A character is typed.
LEMMA Inserts ==
  ASSUME NEW p \in Texts, NEW q \in Texts, NEW c \in Chars \cup {Break}, Editing, Editing',
         Flat = p \o q, Pos = Len(p), Flat' = (p \o <<c>>) \o q, Pos' = Len(p) + 1
  PROVE  Text!Next
<1>1. SubSeq(Flat, 1, Pos) = p /\ SubSeq(Flat, Pos + 1, Len(Flat)) = q
  BY PartsOf
<1>2. Text!Type(c)
  BY <1>1 DEF Text!Type, Text!Before, Text!Behind, Editing
<1>3. QED
  BY <1>2 DEF Text!Next

\* A character is taken.
LEMMA Removes ==
  ASSUME NEW p \in Texts, NEW q \in Texts, NEW c \in Byte, Editing, Editing',
         Flat = (p \o <<c>>) \o q, Pos = Len(p) + 1, Flat' = p \o q, Pos' = Len(p)
  PROVE  Text!Next
<1> DEFINE t == p \o <<c>>
<1>1. <<c>> \in Texts /\ Len(<<c>>) = 1
  BY OneText
<1>2. t \in Texts /\ Len(t) = Len(p) + 1 /\ Len(p) \in Nat /\ <<c>> \o q \in Texts
  BY <1>1, TextConcat
<1>3. SubSeq(t \o q, Len(t) + 1, Len(t \o q)) = q
  BY <1>2, PartsOf
<1>4. t \o q = p \o (<<c>> \o q)
  BY <1>1, Associates, ZenonT(40)
<1>5. SubSeq(p \o (<<c>> \o q), 1, Len(p)) = p
  BY <1>2, PartsOf
<1> HIDE DEF t
<1>6. Flat = t \o q /\ Pos = Len(t) /\ Pos - 1 = Len(p) /\ Pos > 0
  BY <1>2 DEF t
<1>7. SubSeq(Flat, 1, Pos - 1) = p /\ SubSeq(Flat, Pos + 1, Len(Flat)) = q
  BY <1>3, <1>4, <1>5, <1>6
<1>8. Text!Rubout
  BY <1>6, <1>7 DEF Text!Rubout, Text!Before, Text!Behind, Editing
<1>9. QED
  BY <1>8 DEF Text!Next

LEMMA Moves ==
  ASSUME Editing, Editing', Flat' = Flat, Pos' \in 0..Len(Flat)
  PROVE  Text!Next
<1>1. Text!Move
  BY DEF Text!Move, Editing
<1>2. QED
  BY <1>1 DEF Text!Next

\* An edit replaces the text.
LEMMA EditStep ==
  ASSUME NEW ls, NEW x, NEW y, Edit(ls, x, y)
  PROVE  /\ Editing /\ Editing'
         /\ Flat = FlatOf(lines) /\ Pos = PosOf(lines, cx, cy)
         /\ Flat' = FlatOf(ls) /\ Pos' = PosOf(ls, x, y)
<1>1. mode = "edit" /\ mode' = mode /\ lines' = ls /\ cx' = x /\ cy' = y
  BY DEF Edit
<1>2. Editing /\ Editing'
  BY <1>1 DEF Editing
<1>3. QED
  BY <1>1, <1>2, FlatIs

\* Where the cursor is, counted from the start of its line.
LEMMA PosNow ==
  ASSUME Placed
  PROVE  Len(Ahd) = Len(Image(Above(cy))) + cx /\ Len(Image(Above(cy))) \in Nat /\ cx \in Nat
<1>1. /\ Image(Above(cy)) \in Texts /\ Left(Current) \in Texts
  BY ViewNow
<1>2. Len(Left(Current)) = cx
  BY Around, Halves
<1>3. cx \in Nat
  BY PlaceLine DEF Placed
<1> DEFINE p == Image(Above(cy))
           a == Left(Current)
<1> HIDE DEF p, a
<1>4. Len(p \o a) = Len(p) + Len(a) /\ Len(p) \in Nat
  BY <1>1, TextConcat DEF p, a
<1>5. QED
  BY <1>2, <1>3, <1>4 DEF p, a, Ahd

LEMMA TypeStep ==
  ASSUME Placed, NEW c \in Chars, buf_insert_char(c)
  PROVE  Text!Next
<1> DEFINE A == Above(cy)
           B == Below(cy)
           a == Left(Current)
           b == Right(Current)
           e == Inserted(c)
           p == Image(A)
           r == Rest(B)
           ls == [lines EXCEPT ![cy + 1] = e]
<1>1. line_len(cy) < ED_LINE_MAX /\ Edit(ls, cx + 1, cy)
  BY DEF buf_insert_char
<1>2. /\ A \in Seq(Row) /\ B \in Seq(Row) /\ Len(A) = cy
      /\ \A f \in Row : [lines EXCEPT ![cy + 1] = f] = (A \o <<f>>) \o B
  BY Around
<1>3. e \in Row
  BY <1>1, TypePlace
<1>4. ls = (A \o <<e>>) \o B
  BY <1>2, <1>3
<1>5. LineIn(A, e, B, cx + 1)
  BY <1>2, <1>3, FlatAt
<1>6. /\ Editing /\ Editing' /\ Flat = FlatOf(lines) /\ Pos = PosOf(lines, cx, cy)
      /\ Flat' = FlatOf(ls) /\ Pos' = PosOf(ls, cx + 1, cy)
  BY <1>1, EditStep
<1>7. /\ Ahd \in Texts /\ Bhd \in Texts /\ FlatOf(lines) = Ahd \o Bhd /\ PosOf(lines, cx, cy) = Len(Ahd)
      /\ p \in Texts /\ a \in Texts /\ b \in Texts /\ r \in Texts
  BY ViewNow
<1>8. Ahd = p \o a /\ Bhd = b \o r /\ e = (a \o <<c>>) \o b
  BY DEF Ahd, Bhd, Inserted
<1>9. Len(Ahd) = Len(p) + cx /\ Len(p) \in Nat /\ cx \in Nat
  BY PosNow
<1> HIDE DEF A, B, a, b, e, p, r, ls
<1>10. FlatOf(ls) = p \o (e \o r) /\ PosOf(ls, cx + 1, cy) = Len(p) + (cx + 1)
  BY <1>2, <1>4, <1>5, Zenon DEF LineIn, p, r
<1>11. c \in Byte /\ <<c>> \in Texts
  BY EditorSizes, OneText
<1>12. p \o (e \o r) = ((p \o a) \o <<c>>) \o (b \o r)
  <2> DEFINE f == a \o <<c>>
  <2>1. f \in Texts
    BY <1>7, <1>11, TextConcat, ZenonT(40)
  <2>2. p \o f = (p \o a) \o <<c>>
    BY <1>7, <1>11, Associates, ZenonT(40)
  <2> HIDE DEF f
  <2>3. Regrouped(p, f, b, r)
    BY <1>7, <2>1, Regroup
  <2>4. QED
    BY <1>8, <2>2, <2>3 DEF Regrouped, f
<1>13. Flat' = (Ahd \o <<c>>) \o Bhd /\ Pos' = Len(Ahd) + 1
  <2>1. Flat' = (Ahd \o <<c>>) \o Bhd
    BY <1>6, <1>8, <1>10, <1>12, Zenon
  <2>2. Pos' = Len(p) + (cx + 1)
    BY <1>6, <1>10, Zenon
  <2>3. QED
    BY <1>9, <2>1, <2>2
<1>14. c \in Chars \cup {Break}
  OBVIOUS
<1>15. QED
  BY <1>6, <1>7, <1>13, <1>14, Inserts

LEMMA BreakStep ==
  ASSUME Placed, buf_newline
  PROVE  Text!Next
<1> DEFINE A == Above(cy)
           B == Below(cy)
           a == Left(Current)
           b == Right(Current)
           p == Image(A)
           r == Rest(B)
           C == A \o <<a>>
           N == <<Break>>
           ls == InsertAt([lines EXCEPT ![cy + 1] = Left(@)], cy + 2, Right(Current))
<1>1. num_lines < ED_MAX_LINES /\ Edit(ls, 0, cy + 1)
  BY DEF buf_newline
<1>2. ls = (C \o <<b>>) \o B
  BY <1>1, BreakPlace
<1>3. /\ A \in Seq(Row) /\ B \in Seq(Row) /\ Len(A) = cy /\ Current \in Row /\ cx \in 0..Len(Current)
      /\ cy \in Nat
  BY Around
<1>4. a \in Row /\ b \in Row
  BY <1>3, Halves
<1>5. /\ Editing /\ Editing' /\ Flat = FlatOf(lines) /\ Pos = PosOf(lines, cx, cy)
      /\ Flat' = FlatOf(ls) /\ Pos' = PosOf(ls, 0, cy + 1)
  BY <1>1, EditStep
<1>6. /\ Ahd \in Texts /\ Bhd \in Texts /\ FlatOf(lines) = Ahd \o Bhd /\ PosOf(lines, cx, cy) = Len(Ahd)
      /\ p \in Texts /\ a \in Texts /\ b \in Texts /\ r \in Texts
  BY ViewNow
<1>7. Ahd = p \o a /\ Bhd = b \o r
  BY DEF Ahd, Bhd
<1> HIDE DEF A, B, a, b, ls
<1>8. C \in Seq(Row) /\ Len(C) = cy + 1 /\ A \in Seq(Texts) /\ <<a>> \in Seq(Texts)
  BY <1>3, <1>4, <1>6, RowsAreTexts
<1>9. N \in Texts /\ Len(N) = 1
  BY EditorSizes, OneText
<1>10. Image(C) = (p \o a) \o N
  <2>1. Image(C) = p \o Image(<<a>>)
    BY <1>8, ImageConcat
  <2>2. Image(<<a>>) = Append(a, Break)
    BY <1>6, ImageOne
  <2>3. Append(a, Break) = a \o N
    BY <1>6, EditorSizes, AppendIsConcat DEF Texts
  <2>4. (p \o a) \o N = p \o (a \o N)
    BY <1>6, <1>9, Associates, ZenonT(40)
  <2>5. QED
    BY <2>1, <2>2, <2>3, <2>4
<1> HIDE DEF C, p, r, N
<1>11. LineIn(C, b, B, 0)
  BY <1>3, <1>4, <1>8, FlatAt
<1>12. FlatOf(ls) = Image(C) \o (b \o r) /\ PosOf(ls, 0, cy + 1) = Len(Image(C)) + 0
  BY <1>2, <1>8, <1>11, Zenon DEF LineIn, r
<1>13. Len(Ahd \o N) = Len(Ahd) + 1 /\ Len(Ahd) \in Nat
  <2>1. Len(Ahd \o N) = Len(Ahd) + Len(N) /\ Len(Ahd) \in Nat
    BY <1>6, <1>9, TextConcat, ZenonT(40)
  <2>2. QED
    BY <1>9, <2>1
<1>14. Flat' = (Ahd \o N) \o Bhd /\ Pos' = Len(Ahd) + 1
  BY <1>5, <1>7, <1>10, <1>12, <1>13
<1>15. Break \in Chars \cup {Break}
  OBVIOUS
<1>16. QED
  BY <1>5, <1>6, <1>14, <1>15, Inserts DEF N

LEMMA RubStep ==
  ASSUME Placed, RubOut
  PROVE  Text!Next
<1> DEFINE A == Above(cy)
           B == Below(cy)
           l == Current
           a == Left(l)
           b == Right(l)
           p == Image(A)
           r == Rest(B)
           d == SubSeq(l, 1, cx - 1)
           z == l[cx]
           e == d \o b
           ls == [lines EXCEPT ![cy + 1] = SubSeq(@, 1, cx - 1) \o Right(@)]
<1>1. cx > 0 /\ Edit(ls, cx - 1, cy)
  BY DEF RubOut
<1>2. e \in Row /\ ls = (A \o <<e>>) \o B
  BY <1>1, RubPlace
<1>3. /\ A \in Seq(Row) /\ B \in Seq(Row) /\ Len(A) = cy /\ l \in Row /\ cx \in 0..Len(l)
      /\ l \in Seq(Char) /\ Len(l) \in Nat
  BY Around
<1>4. /\ Editing /\ Editing' /\ Flat = FlatOf(lines) /\ Pos = PosOf(lines, cx, cy)
      /\ Flat' = FlatOf(ls) /\ Pos' = PosOf(ls, cx - 1, cy)
  BY <1>1, EditStep
<1>5. /\ Ahd \in Texts /\ Bhd \in Texts /\ FlatOf(lines) = Ahd \o Bhd /\ PosOf(lines, cx, cy) = Len(Ahd)
      /\ p \in Texts /\ a \in Texts /\ b \in Texts /\ r \in Texts
  BY ViewNow
<1>6. Ahd = p \o a /\ Bhd = b \o r
  BY DEF Ahd, Bhd
<1>7. Len(Ahd) = Len(p) + cx /\ Len(p) \in Nat /\ cx \in Nat
  BY PosNow
<1>8. d \in Seq(Char) /\ Len(d) = cx - 1 /\ z \in Char
  BY <1>1, <1>3
<1>9. a = d \o <<z>>
  <2> DEFINE k == cx - 1
  <2>1. k \in 0..(Len(l) - 1) /\ k + 1 = cx
    BY <1>1, <1>3
  <2> HIDE DEF k, l
  <2>2. SubSeq(l, 1, k + 1) = Append(SubSeq(l, 1, k), l[k + 1])
    BY <1>3, <2>1, PrefixGrows
  <2>3. a = Append(d, z)
    BY <2>1, <2>2 DEF Left, k
  <2> HIDE DEF a, d, z
  <2>4. Append(d, z) = d \o <<z>>
    BY <1>8, AppendIsConcat
  <2>5. QED
    BY <2>3, <2>4
<1>10. d \in Texts /\ z \in Byte /\ <<z>> \in Texts /\ Len(<<z>>) = 1
  <2>1. d \in Seq(Byte) /\ z \in Byte
    BY <1>8, SeqMonotonic DEF Char
  <2>2. QED
    BY <2>1, OneText DEF Texts
<1> DEFINE q == p \o d
<1>11. q \in Texts /\ Len(q) = Len(p) + Len(d)
  BY <1>5, <1>10, TextConcat, ZenonT(40)
<1>12. Ahd = q \o <<z>>
  <2> HIDE DEF p, d, z
  <2>1. p \in Texts /\ d \in Texts /\ <<z>> \in Texts
    BY <1>5, <1>10
  <2>2. Chained(p, d, <<z>>)
    BY <2>1, Chain, Zenon
  <2>3. (p \o d) \o <<z>> = p \o (d \o <<z>>)
    BY <2>2 DEF Chained
  <2>4. QED
    BY <1>6, <1>9, <2>3, Zenon
<1>13. LineIn(A, e, B, cx - 1)
  BY <1>2, <1>3, FlatAt
<1>14. Regrouped(p, d, b, r)
  BY <1>5, <1>10, Regroup
<1>15. FlatOf(ls) = p \o (e \o r) /\ PosOf(ls, cx - 1, cy) = Len(p) + (cx - 1)
  <2> HIDE DEF A, B, e, ls
  <2> QED BY <1>2, <1>3, <1>13, Zenon DEF LineIn
<1>16. FlatOf(ls) = q \o Bhd
  BY <1>6, <1>14, <1>15 DEF Regrouped
<1> HIDE DEF A, B, l, a, b, e, p, r, ls, d, z, q
<1>17. Pos' = Len(q) /\ Len(Ahd) = Len(q) + 1
  BY <1>4, <1>7, <1>8, <1>11, <1>15
<1>18. Flat = (q \o <<z>>) \o Bhd /\ Pos = Len(q) + 1 /\ Flat' = q \o Bhd
  BY <1>4, <1>5, <1>12, <1>16, <1>17
<1>19. QED
  BY <1>4, <1>5, <1>10, <1>11, <1>17, <1>18, Removes

LEMMA MergeStep ==
  ASSUME Placed, MergeLines
  PROVE  Text!Next \/ UNCHANGED <<Editing, Flat, Pos>>
<1>1. CASE line_len(cy - 1) + line_len(cy) <= ED_LINE_MAX
  <2> DEFINE A == Above(cy - 1)
             B == Below(cy)
             l == Current
             h == lines[cy]
             e == h \o l
             w == Image(A)
             r == Rest(B)
             N == <<Break>>
             ls == RemoveAt([lines EXCEPT ![cy] = @ \o Current], cy + 1)
  <2>1. cx = 0 /\ cy > 0 /\ Edit(ls, line_len(cy - 1), cy - 1)
    BY <1>1 DEF MergeLines
  <2>2. /\ h \in Row /\ e \in Row /\ ls = (A \o <<e>>) \o B
        /\ Above(cy) = A \o <<h>> /\ A \in Seq(Row) /\ Len(A) = cy - 1 /\ line_len(cy - 1) = Len(h)
    BY <1>1, <2>1, MergePlace
  <2>3. B \in Seq(Row) /\ l \in Row /\ lines = (Above(cy) \o <<l>>) \o B /\ Above(cy) \in Seq(Row) /\ Len(Above(cy)) = cy
    BY Around
  <2>4. /\ Editing /\ Editing' /\ Flat = FlatOf(lines) /\ Pos = PosOf(lines, cx, cy)
        /\ Flat' = FlatOf(ls) /\ Pos' = PosOf(ls, line_len(cy - 1), cy - 1)
    BY <2>1, EditStep
  <2> HIDE DEF A, B, l, h, e, ls
  <2>5. LineIn(A, e, B, Len(h)) /\ LineIn(Above(cy), l, B, 0)
    BY <2>2, <2>3, FlatAt
  <2>6. /\ FlatOf(ls) = w \o (e \o r) /\ PosOf(ls, line_len(cy - 1), cy - 1) = Len(w) + Len(h)
        /\ w \in Texts /\ r \in Texts
    BY <2>2, <2>5, Zenon DEF LineIn
  <2>7. FlatOf(lines) = Image(Above(cy)) \o (l \o r) /\ PosOf(lines, cx, cy) = Len(Image(Above(cy))) + 0
    BY <2>1, <2>3, <2>5, Zenon DEF LineIn
  <2>8. h \in Texts /\ l \in Texts /\ A \in Seq(Texts) /\ <<h>> \in Seq(Texts)
    BY <2>2, <2>3, RowsAreTexts
  <2>9. N \in Texts /\ Len(N) = 1
    BY EditorSizes, OneText
  <2> DEFINE q == w \o h
  <2>10. Image(Above(cy)) = q \o N
    <3>1. Image(A \o <<h>>) = w \o Image(<<h>>)
      BY <2>8, ImageConcat
    <3>2. Image(<<h>>) = Append(h, Break)
      BY <2>8, ImageOne
    <3>3. Append(h, Break) = h \o N
      BY <2>8, EditorSizes, AppendIsConcat DEF Texts
    <3>4. (w \o h) \o N = w \o (h \o N)
      BY <2>6, <2>8, <2>9, Associates, ZenonT(40)
    <3>5. QED
      BY <2>2, <3>1, <3>2, <3>3, <3>4
  <2>11. q \in Texts /\ Len(q) = Len(w) + Len(h) /\ l \o r \in Texts /\ Len(q) \in Nat
    <3>1. q \in Texts /\ Len(q) = Len(w) + Len(h) /\ l \o r \in Texts
      BY <2>6, <2>8, TextConcat, ZenonT(40)
    <3>2. Len(q) \in Nat
      BY <3>1, TextConcat
    <3>3. QED
      BY <3>1, <3>2
  <2>12. Regrouped(w, h, l, r)
    BY <2>6, <2>8, Regroup
  <2>13. FlatOf(ls) = q \o (l \o r)
    BY <2>6, <2>12 DEF Regrouped, e
  <2> HIDE DEF w, r, q
  <2>14. Len(q \o N) = Len(q) + 1
    BY <2>9, <2>11, TextConcat
  <2>15. /\ Flat = (q \o N) \o (l \o r) /\ Flat' = q \o (l \o r)
    BY <2>4, <2>7, <2>10, <2>13, Zenon
  <2>16. Pos = Len(q) + 1 /\ Pos' = Len(q)
    BY <2>4, <2>6, <2>7, <2>10, <2>11, <2>14
  <2>17. Break \in Byte
    BY EditorSizes
  <2>18. Text!Next
    BY <2>4, <2>11, <2>15, <2>16, <2>17, Removes DEF N
  <2>19. QED
    BY <2>18
<1>2. CASE ~ (line_len(cy - 1) + line_len(cy) <= ED_LINE_MAX)
  <2>1. Edit(lines, cx, cy)
    BY <1>2 DEF MergeLines
  <2>2. Editing' = Editing
    BY <2>1 DEF Edit, Editing
  <2>3. QED
    BY <2>1, <2>2, EditStep
<1>3. QED
  BY <1>1, <1>2

\* A line and one of the breaks around it are taken out of the text.
Deletion(p, l, r) ==
    /\ p \in Texts /\ l \in Texts /\ r \in Texts
    /\ \A i \in 1..Len(l) : l[i] # Break
    /\ p = <<>> \/ \E v \in Texts : p = v \o <<Break>>
    /\ r = <<>> \/ \E u \in Texts : r = <<Break>> \o u
    /\ Editing /\ Editing' /\ Flat = p \o (l \o r)
    /\ Pos \in Len(p)..(Len(p) + Len(l)) /\ Pos' \in 0..Len(Flat')
    /\ \A u \in Texts : r = <<Break>> \o u => Flat' = p \o u
    /\ r = <<>> /\ p = <<>> => Flat' = <<>>
    /\ \A v \in Texts : r = <<>> /\ p = v \o <<Break>> => Flat' = v

LEMMA Deletes ==
  ASSUME NEW p, NEW l, NEW r, Deletion(p, l, r)
  PROVE  Text!Next
<1> SUFFICES ASSUME p \in Texts, l \in Texts, r \in Texts,
                    \A i \in 1..Len(l) : l[i] # Break,
                    p = <<>> \/ \E v \in Texts : p = v \o <<Break>>,
                    r = <<>> \/ \E u \in Texts : r = <<Break>> \o u,
                    Editing, Editing', Flat = p \o (l \o r),
                    Pos \in Len(p)..(Len(p) + Len(l)), Pos' \in 0..Len(Flat'),
                    \A u \in Texts : r = <<Break>> \o u => Flat' = p \o u,
                    r = <<>> /\ p = <<>> => Flat' = <<>>,
                    \A v \in Texts : r = <<>> /\ p = v \o <<Break>> => Flat' = v
             PROVE  Text!Next
  BY Zenon DEF Deletion
<1> DEFINE N == <<Break>>
           from == Len(p)
           to == Len(p) + Len(l)
           t == Flat
<1>1. /\ Len(p) \in Nat /\ Len(l) \in Nat /\ Len(r) \in Nat /\ N \in Texts /\ Len(N) = 1
      /\ p \o l \in Texts /\ Len(p \o l) = Len(p) + Len(l) /\ l \o r \in Texts /\ Len(l \o r) = Len(l) + Len(r)
      /\ <<>> \in Texts
  <2>1. <<>> \in Texts
    BY DEF Texts
  <2>2. QED
    BY <2>1, TextConcat, EditorSizes, OneText
<1>2. t = (p \o l) \o r
  BY Associates, ZenonT(40)
<1>3. Len(t) = Len(p) + Len(l) + Len(r)
  BY <1>1, <1>2, TextConcat
<1>4. /\ \A i \in 1..Len(p) : t[i] = p[i]
      /\ \A i \in 1..Len(l) : t[Len(p) + i] = l[i]
      /\ \A i \in 1..Len(r) : t[Len(p) + Len(l) + i] = r[i]
  <2> DEFINE w == p \o l
  <2>1. w \in Seq(Byte) /\ r \in Seq(Byte) /\ p \in Seq(Byte) /\ l \in Seq(Byte) /\ Len(w) = Len(p) + Len(l)
    BY <1>1 DEF Texts
  <2>2. \A i \in 1..(Len(p) + Len(l)) : w[i] = IF i <= Len(p) THEN p[i] ELSE l[i - Len(p)]
    BY <2>1, ConcatProperties
  <2> HIDE DEF w
  <2>3. \A i \in 1..(Len(w) + Len(r)) : (w \o r)[i] = IF i <= Len(w) THEN w[i] ELSE r[i - Len(w)]
    BY <2>1, ConcatProperties
  <2>4. t = w \o r
    BY <1>2 DEF w
  <2> HIDE DEF t
  <2>5. ASSUME NEW i \in 1..Len(p) PROVE t[i] = p[i]
    <3>1. i \in 1..(Len(p) + Len(l)) /\ i <= Len(p) /\ i \in 1..(Len(w) + Len(r)) /\ i <= Len(w)
      BY <1>1, <2>1
    <3>2. QED
      BY <2>2, <2>3, <2>4, <3>1
  <2>6. ASSUME NEW i \in 1..Len(l) PROVE t[Len(p) + i] = l[i]
    <3> DEFINE j == Len(p) + i
    <3>1. j \in 1..(Len(p) + Len(l)) /\ ~ (j <= Len(p)) /\ j \in 1..(Len(w) + Len(r)) /\ j <= Len(w) /\ j - Len(p) = i
      <4> DEFINE x == Len(p)
                 y == Len(l)
                 z == Len(r)
      <4> HIDE DEF x, y, z
      <4>1. x \in Nat /\ y \in Nat /\ z \in Nat /\ i \in 1..y /\ Len(w) = x + y
        BY <1>1, <2>1 DEF x, y, z
      <4>2. x + i \in 1..(x + y) /\ ~ (x + i <= x) /\ x + i \in 1..((x + y) + z) /\ x + i <= x + y /\ (x + i) - x = i
        BY <4>1
      <4>3. QED
        BY <4>1, <4>2 DEF x, y, z
    <3> HIDE DEF j
    <3>2. t[j] = l[i]
      BY <2>2, <2>3, <2>4, <3>1
    <3>3. QED
      BY <3>2 DEF j
  <2>7. ASSUME NEW i \in 1..Len(r) PROVE t[Len(p) + Len(l) + i] = r[i]
    <3> DEFINE j == Len(p) + Len(l) + i
    <3>1. j \in 1..(Len(w) + Len(r)) /\ ~ (j <= Len(w)) /\ j - Len(w) = i
      BY <1>1, <2>1, SMTT(30)
    <3> HIDE DEF j
    <3>2. t[j] = r[i]
      BY <2>3, <2>4, <3>1
    <3>3. QED
      BY <3>2 DEF j
  <2>8. QED
    BY <2>5, <2>6, <2>7
<1>5. from \in 0..Pos /\ to \in Pos..Len(t) /\ Pos \in Nat
  BY <1>1, <1>3
<1>6. \A k \in (from + 1)..to : t[k] # Break
  <2> SUFFICES ASSUME NEW k \in (from + 1)..to PROVE t[k] # Break
    OBVIOUS
  <2> DEFINE i == k - Len(p)
  <2>1. i \in 1..Len(l) /\ Len(p) + i = k
    <3> DEFINE x == Len(p)
               y == Len(l)
    <3> HIDE DEF x, y
    <3>1. x \in Nat /\ y \in Nat /\ k \in (x + 1)..(x + y)
      BY <1>1 DEF x, y
    <3>2. k - x \in 1..y /\ x + (k - x) = k
      BY <3>1
    <3>3. QED
      BY <3>2 DEF x, y
  <2> HIDE DEF i
  <2>2. t[Len(p) + i] = l[i] /\ l[i] # Break
    BY <1>4, <2>1
  <2>3. QED
    BY <2>1, <2>2
<1>7. from = 0 \/ t[from] = Break
  <2>1. CASE p = <<>>
    BY <2>1
  <2>2. ASSUME NEW v \in Texts, p = v \o N PROVE t[from] = Break
    <3>1. Len(p) = Len(v) + 1 /\ Len(v) \in Nat
      BY <1>1, <2>2, TextConcat
    <3>2. p[Len(v) + 1] = Break
      BY <2>2 DEF Texts
    <3>3. QED
      BY <1>4, <3>1, <3>2
  <2>3. QED
    BY <2>1, <2>2
<1>8. to = Len(t) \/ t[to + 1] = Break
  <2>1. CASE r = <<>>
    BY <1>1, <1>3, <2>1
  <2>2. ASSUME NEW u \in Texts, r = N \o u PROVE t[to + 1] = Break
    <3>1. Len(r) = 1 + Len(u) /\ Len(u) \in Nat
      BY <1>1, <2>2, TextConcat
    <3>2. r[1] = Break
      BY <2>2 DEF Texts
    <3>3. 1 \in 1..Len(r)
      BY <3>1
    <3> HIDE DEF t
    <3>4. QED
      BY <1>4, <3>2, <3>3
  <2>3. QED
    BY <2>1, <2>2
<1>9. Flat' = IF to < Len(t) THEN SubSeq(t, 1, from) \o SubSeq(t, to + 1 + 1, Len(t))
              ELSE SubSeq(t, 1, IF from = 0 THEN 0 ELSE from - 1)
  <2>1. ASSUME NEW u \in Texts, r = N \o u
        PROVE  to < Len(t) /\ Flat' = SubSeq(t, 1, from) \o SubSeq(t, to + 1 + 1, Len(t))
    <3>1. Len(r) = 1 + Len(u) /\ Len(u) \in Nat
      BY <1>1, <2>1, TextConcat
    <3>2. to < Len(t)
      BY <1>1, <1>3, <3>1
    <3>3. SubSeq(t, 1, from) = p
      BY <1>1, PartsOf
    <3> DEFINE w == (p \o l) \o N
    <3>4. w \in Texts /\ Len(w) = to + 1
      <4>1. w \in Texts /\ Len(w) = Len(p \o l) + Len(N)
        BY <1>1, TextConcat, ZenonT(40)
      <4>2. QED
        BY <1>1, <4>1
    <3>5. t = w \o u
      <4>1. ((p \o l) \o N) \o u = (p \o l) \o (N \o u)
        <5> DEFINE k == p \o l
        <5>1. k \in Texts /\ N \in Texts /\ u \in Texts
          BY <1>1
        <5> HIDE DEF k, N
        <5>2. Chained(k, N, u)
          BY <5>1, Chain
        <5>3. QED
          BY <5>2, Zenon DEF k, Chained
      <4>2. QED
        BY <1>2, <2>1, <4>1
    <3> HIDE DEF w
    <3>6. SubSeq(w \o u, Len(w) + 1, Len(w \o u)) = u
      BY <2>1, <3>4, PartsOf
    <3>7. SubSeq(t, to + 1 + 1, Len(t)) = u
      BY <3>4, <3>5, <3>6
    <3>8. Flat' = p \o u
      BY <2>1
    <3>9. QED
      BY <3>2, <3>3, <3>7, <3>8
  <2>2. ASSUME r = <<>>, p = <<>>
        PROVE  ~ (to < Len(t)) /\ from = 0 /\ Flat' = SubSeq(t, 1, 0)
    BY <1>1, <1>3, <2>2
  <2>3. ASSUME r = <<>>, NEW v \in Texts, p = v \o N
        PROVE  ~ (to < Len(t)) /\ from # 0 /\ Flat' = SubSeq(t, 1, from - 1)
    <3>1. Len(p) = Len(v) + 1 /\ Len(v) \in Nat /\ N \o (l \o r) \in Texts
      BY <1>1, <2>3, TextConcat
    <3>2. (v \o N) \o (l \o r) = v \o (N \o (l \o r))
      BY <1>1, Associates, ZenonT(40)
    <3>3. SubSeq(v \o (N \o (l \o r)), 1, Len(v)) = v
      BY <3>1, PartsOf
    <3>4. from - 1 = Len(v) /\ from # 0
      BY <3>1
    <3>5. SubSeq(t, 1, from - 1) = v
      BY <2>3, <3>2, <3>3, <3>4
    <3>6. Flat' = v
      BY <2>3
    <3>7. ~ (to < Len(t))
      BY <1>1, <1>3, <2>3
    <3>8. QED
      BY <3>4, <3>5, <3>6, <3>7
  <2> HIDE DEF from, to, t, N
  <2>4. QED
    BY <2>1, <2>2, <2>3 DEF N
<1>10. Text!DeleteLine
  BY <1>5, <1>6, <1>7, <1>8, <1>9 DEF Text!DeleteLine, Text!Before, Text!Behind, Editing
<1>11. QED
  BY <1>10 DEF Text!Next

\* The text of some lines ends in a break, and what follows a line begins with one.
LEMMA ImageEnds ==
  ASSUME NEW A \in Seq(Row)
  PROVE  /\ A = <<>> => Image(A) = <<>>
         /\ A # <<>> => \E v \in Texts : Image(A) = v \o <<Break>>
<1>1. ASSUME A # <<>> PROVE \E v \in Texts : Image(A) = v \o <<Break>>
  <2>1. PICK C \in Seq(Row), l \in Row : A = Append(C, l)
    BY <1>1, SequenceEmptyOrAppend
  <2>2. C \in Seq(Texts) /\ l \in Texts
    BY RowsAreTexts
  <2> DEFINE w == Image(C)
             N == <<Break>>
  <2>3. w \in Texts /\ Image(A) = w \o Append(l, Break)
    BY <2>1, <2>2, ImageAppend
  <2>4. N \in Texts /\ Append(l, Break) = l \o N
    BY <2>2, EditorSizes, OneText, AppendIsConcat DEF Texts
  <2> HIDE DEF w, N
  <2>5. Chained(w, l, N)
    BY <2>2, <2>3, <2>4, Chain
  <2>6. w \o l \in Texts
    BY <2>2, <2>3, TextConcat
  <2>7. Image(A) = (w \o l) \o N
    BY <2>3, <2>4, <2>5 DEF Chained
  <2>8. QED
    BY <2>6, <2>7 DEF N
<1>2. QED
  BY <1>1, ImageAppend

LEMMA RestStarts ==
  ASSUME NEW B \in Seq(Row)
  PROVE  /\ B = <<>> => Rest(B) = <<>>
         /\ B # <<>> => /\ Cut(Image(B)) \in Texts /\ Len(Image(B)) > 0
                         /\ Rest(B) = <<Break>> \o Cut(Image(B))
<1>1. ASSUME B # <<>>
      PROVE  /\ Cut(Image(B)) \in Texts /\ Len(Image(B)) > 0
             /\ Rest(B) = <<Break>> \o Cut(Image(B))
  <2>1. PICK v \in Texts : Image(B) = v \o <<Break>>
    BY <1>1, ImageEnds
  <2>2. <<Break>> \in Texts /\ Len(<<Break>>) = 1 /\ Image(B) \in Texts
    BY EditorSizes, OneText, RestType
  <2>3. Len(Image(B)) > 0
    <3>1. Len(v \o <<Break>>) = Len(v) + Len(<<Break>>) /\ Len(v) \in Nat
      BY <2>2, TextConcat, ZenonT(40)
    <3>2. QED
      BY <2>1, <2>2, <3>1
  <2>4. QED
    BY <2>2, <2>3, CutConcat DEF Rest
<1>2. QED
  BY <1>1, RestType

LEMMA DeleteStep ==
  ASSUME Placed, buf_delete_line
  PROVE  Text!Next
<1> DEFINE A == Above(cy)
           B == Below(cy)
           l == Current
           p == Image(A)
           b == Image(B)
           r == Rest(B)
           N == <<Break>>
<1>1. /\ A \in Seq(Row) /\ B \in Seq(Row) /\ Len(A) = cy /\ Len(B) = Len(lines) - cy - 1
      /\ l \in Row /\ cx \in 0..Len(l) /\ l \in Seq(Char) /\ Len(l) \in Nat
      /\ lines = (A \o <<l>>) \o B /\ Len(lines) \in Nat /\ cy \in Nat
  BY Around
<1> HIDE DEF A, B, l
<1>2. LineIn(A, l, B, cx)
  BY <1>1, FlatAt
<1>3. /\ FlatOf(lines) = p \o (l \o r) /\ PosOf(lines, cx, cy) = Len(p) + cx
      /\ p \in Texts /\ l \in Texts /\ r \in Texts
  BY <1>1, <1>2, Zenon DEF LineIn
<1>4. b \in Texts /\ N \in Texts /\ Len(N) = 1 /\ Len(p) \in Nat
  BY <1>1, <1>3, RestType, EditorSizes, OneText, TextConcat
<1>5. \A i \in 1..Len(l) : l[i] # Break
  BY <1>1, ElementOfSeq DEF Char
<1>6. (A = <<>> => p = <<>>) /\ (A # <<>> => \E v \in Texts : p = v \o N)
  BY <1>1, ImageEnds
<1>7. (B = <<>> => r = <<>>) /\ (B # <<>> => Cut(b) \in Texts /\ Len(b) > 0 /\ r = N \o Cut(b))
  BY <1>1, RestStarts
<1>8. ASSUME NEW u \in Texts PROVE N \o u # <<>> /\ u \o N # <<>>
  <2>1. Len(N \o u) = Len(N) + Len(u) /\ Len(u \o N) = Len(u) + Len(N) /\ Len(u) \in Nat
    BY <1>4, <1>8, TextConcat, ZenonT(40)
  <2> HIDE DEF N
  <2>2. QED
    BY <1>4, <2>1
<1> HIDE DEF p, b, r, N
<1>9. PICK ls, x, y : Edit(ls, x, y) /\ Place(ls, x, y)
                      /\ (num_lines = 1 => ls = << <<>> >>)
                      /\ (num_lines # 1 => ls = A \o B)
  <2>1. CASE num_lines = 1
    <3>1. Edit(<< <<>> >>, 0, cy)
      BY <2>1 DEF buf_delete_line
    <3>2. cy = 0
      BY <2>1 DEF Placed, Place, num_lines
    <3>3. QED
      BY <2>1, <3>1, <3>2, EmptyPlace
  <2>2. CASE num_lines # 1
    <3> DEFINE ls == RemoveAt(lines, cy + 1)
               y  == IF cy >= Len(ls) THEN Len(ls) - 1 ELSE cy
    <3>1. Edit(ls, Clamp(ls, cx, y), y)
      BY <2>2 DEF buf_delete_line
    <3>2. Place(ls, Clamp(ls, cx, y), y) /\ ls = A \o B
      BY <2>2, DeletePlace DEF A, B
    <3> HIDE DEF ls, y
    <3>3. QED
      BY <2>2, <3>1, <3>2
  <2>3. QED
    BY <2>1, <2>2
<1>10. /\ Editing /\ Editing' /\ Flat = FlatOf(lines) /\ Pos = PosOf(lines, cx, cy)
       /\ Flat' = FlatOf(ls) /\ Pos' = PosOf(ls, x, y)
  BY <1>9, EditStep
<1>11. Pos' \in 0..Len(Flat')
  BY <1>9, <1>10, PosInText
<1>12. Pos \in Len(p)..(Len(p) + Len(l)) /\ Flat = p \o (l \o r)
  <2>1. Pos = Len(p) + cx
    BY <1>3, <1>10
  <2>2. QED
    BY <1>1, <1>3, <1>4, <1>10, <2>1
<1>13. num_lines = 1 => A = <<>> /\ B = <<>>
  <2> SUFFICES ASSUME Len(lines) = 1 PROVE A = <<>> /\ B = <<>>
    BY DEF num_lines
  <2>1. Len(A) = 0 /\ Len(B) = 0
    <3>1. Len(A) \in Nat /\ Len(B) \in Nat
      BY <1>1, LenProperties
    <3>2. QED
      BY <1>1, <3>1
  <2>2. QED
    BY <1>1, <2>1, EmptySeq
<1>14. num_lines # 1 => A # <<>> \/ B # <<>>
  <2> SUFFICES ASSUME A = <<>>, B = <<>> PROVE Len(lines) = 1
    BY DEF num_lines
  <2>1. QED
    BY <1>1
<1>15. num_lines # 1 => Flat' = Cut(p \o b)
  <2> SUFFICES ASSUME num_lines # 1 PROVE Flat' = Cut(p \o b)
    OBVIOUS
  <2>1. Image(A \o B) = p \o b
    BY <1>1, RowsAreTexts, ImageConcat DEF p, b
  <2>2. QED
    BY <1>9, <1>10, <2>1 DEF FlatOf
<1>16. ASSUME NEW u \in Texts, r = N \o u PROVE Flat' = p \o u
  <2>1. B # <<>>
    BY <1>7, <1>8, <1>16
  <2>2. num_lines # 1
    BY <1>13, <2>1
  <2>3. Cut(p \o b) = p \o Cut(b)
    BY <1>3, <1>4, <1>7, <2>1, CutConcat
  <2>4. u = Cut(b)
    <3>1. SubSeq(N \o u, Len(N) + 1, Len(N \o u)) = u
      BY <1>4, <1>16, PartsOf
    <3>2. SubSeq(N \o Cut(b), Len(N) + 1, Len(N \o Cut(b))) = Cut(b)
      BY <1>4, <1>7, <2>1, PartsOf
    <3>3. N \o u = N \o Cut(b)
      BY <1>7, <1>16, <2>1
    <3>4. QED
      BY <3>1, <3>2, <3>3
  <2>5. QED
    BY <1>15, <2>2, <2>3, <2>4
<1>17. ASSUME r = <<>> PROVE B = <<>>
  <2> SUFFICES ASSUME B # <<>> PROVE FALSE
    OBVIOUS
  <2>1. Cut(b) \in Texts /\ r = N \o Cut(b)
    BY <1>7
  <2>2. QED
    BY <1>8, <1>17, <2>1
<1>18. ASSUME r = <<>>, p = <<>> PROVE Flat' = <<>>
  <2>1. A = <<>> /\ B = <<>>
    <3>1. A = <<>>
      <4> SUFFICES ASSUME A # <<>> PROVE FALSE
        OBVIOUS
      <4>1. PICK v \in Texts : p = v \o N
        BY <1>6
      <4>2. QED
        BY <1>8, <1>18, <4>1
    <3>2. QED
      BY <1>17, <1>18, <3>1
  <2>2. ls = << <<>> >>
    BY <1>9, <1>14, <2>1
  <2>3. <<>> \in Texts
    BY DEF Texts
  <2>4. Image(<< <<>> >>) = <<>> \o N
    <3>1. Image(<< <<>> >>) = Append(<<>>, Break)
      BY <2>3, ImageOne
    <3>2. Append(<<>>, Break) = <<>> \o N
      BY DEF N
    <3>3. QED
      BY <3>1, <3>2
  <2>5. Cut(<<>> \o N) = <<>>
    BY <2>3, EditorSizes, CutLast DEF N
  <2>6. QED
    BY <1>10, <2>2, <2>4, <2>5 DEF FlatOf
<1>19. ASSUME NEW v \in Texts, r = <<>>, p = v \o N PROVE Flat' = v
  <2>1. B = <<>> /\ A # <<>>
    BY <1>6, <1>8, <1>17, <1>19
  <2>2. num_lines # 1
    BY <1>13, <2>1
  <2>3. b = <<>>
    BY <1>1, <2>1, RestType DEF b
  <2>4. p \o b = p
    BY <1>3, <2>3, TextConcat
  <2>5. Cut(p) = v
    BY <1>19, EditorSizes, CutLast DEF N
  <2>6. QED
    BY <1>15, <2>2, <2>4, <2>5
<1>20. p = <<>> \/ \E v \in Texts : p = v \o N
  BY <1>6
<1>21. r = <<>> \/ \E u \in Texts : r = N \o u
  BY <1>7
<1>22. QED
  <2>1. Deletion(p, l, r)
    BY <1>3, <1>5, <1>10, <1>11, <1>12, <1>16, <1>18, <1>19, <1>20, <1>21 DEF N, Deletion
  <2>2. QED
    BY <2>1, Deletes

\* The cursor moves in the text.
LEMMA MoveStep ==
  ASSUME CursorInv', mode = "edit", mode' = mode, lines' = lines
  PROVE  Text!Next
<1>1. Editing /\ Editing'
  BY DEF Editing
<1>2. Flat = FlatOf(lines) /\ Flat' = FlatOf(lines) /\ Pos' = PosOf(lines, cx', cy')
  BY <1>1, FlatIs
<1>3. Place(lines, cx', cy')
  BY <1>1 DEF CursorInv
<1>4. PosOf(lines, cx', cy') \in 0..Len(FlatOf(lines))
  BY <1>3, PosInText
<1>5. QED
  BY <1>1, <1>2, <1>4, Moves

\* The editor is left.
LEMMA CloseStep ==
  ASSUME Editing, ~ Editing'
  PROVE  Text!Next
<1>1. Flat' = <<>> /\ Pos' = 0
  BY FlatIs
<1>2. Text!Close
  BY <1>1 DEF Text!Close, Editing
<1>3. QED
  BY <1>2 DEF Text!Next

\* Nothing of the text or the cursor changes.
LEMMA StillStep ==
  ASSUME (~ Editing /\ ~ Editing') \/ (Editing /\ Editing' /\ lines' = lines /\ cx' = cx /\ cy' = cy)
  PROVE  UNCHANGED <<Editing, Flat, Pos>>
<1>1. Editing' = Editing
  BY DEF Editing
<1>2. QED
  BY <1>1, FlatIs

\* What save_file leaves: the editor as it was, or closed.
LEMMA SaveStep ==
  ASSUME NEW m \in {"edit", "shell"}, save_file(m), lines' = lines, cx' = cx, cy' = cy, Editing
  PROVE  Text!Next \/ UNCHANGED <<Editing, Flat, Pos>>
<1>1. mode' \in {"edit", "shell", "crashed"}
  BY DEF save_file
<1>2. CASE Editing'
  BY <1>2, StillStep
<1>3. CASE ~ Editing'
  BY <1>3, CloseStep
<1>4. QED
  BY <1>2, <1>3

LEMMA StartPos ==
  ASSUME NEW ls PROVE PosOf(ls, 0, 0) = 0
<1>1. SubSeq(ls, 1, 0) = <<>>
  BY SubSeqEmpty
<1>2. Image(SubSeq(ls, 1, 0)) = <<>>
  BY <1>1, ImageAppend, Zenon
<1>3. QED
  BY <1>2 DEF PosOf

\* Every step of the editor is a step of the text, or none.
LEMMA StepRefines ==
  ASSUME CursorInv, [Next]_vars
  PROVE  Text!Next \/ UNCHANGED <<Editing, Flat, Pos>>
<1>1. CursorInv /\ CursorInv'
  BY NextCursor
<1>2. CASE UNCHANGED vars
  <2>1. Editing' = Editing /\ lines' = lines /\ cx' = cx /\ cy' = cy
    BY <1>2 DEF vars, Editing
  <2>2. QED
    BY <2>1, StillStep
<1>3. CASE ShellCommand \/ KeyBeyond \/ Reset
  <2>1. ~ Editing /\ ~ Editing'
    BY <1>3 DEF ShellCommand, KeyBeyond, Reset, Editing
  <2>2. QED
    BY <2>1, StillStep
<1>4. CASE editor_open
  <2>1. ~ Editing
    BY <1>4 DEF editor_open, Editing
  <2>2. CASE ~ Editing'
    BY <2>1, <2>2, StillStep
  <2>3. CASE Editing'
    <3>1. cx' = 0 /\ cy' = 0
      BY <1>4 DEF editor_open
    <3>2. Pos' = PosOf(lines', 0, 0)
      BY <2>3, <3>1, FlatIs
    <3>4. PosOf(lines', 0, 0) = 0
      BY StartPos
    <3>5. Text!Open
      BY <2>1, <2>3, <3>2, <3>4 DEF Text!Open, Editing
    <3>6. QED
      BY <3>5 DEF Text!Next
  <2>4. QED
    BY <2>2, <2>3
<1>5. CASE KeyUp \/ KeyDown \/ KeyLeft \/ KeyRight \/ KeyHome \/ KeyEnd \/ FindNext
  <2>1. mode = "edit" /\ mode' = mode /\ lines' = lines
    BY <1>5 DEF KeyUp, KeyDown, KeyLeft, KeyRight, KeyHome, KeyEnd, FindNext, MoveTo
  <2>2. QED
    BY <1>1, <2>1, MoveStep
<1>6. CASE \E q \in Queries : ed_search_prompt(q)
  <2>1. mode = "edit" /\ mode' = mode /\ lines' = lines
    BY <1>6 DEF ed_search_prompt
  <2>2. QED
    BY <1>1, <2>1, MoveStep
<1>7. ASSUME NEW c \in Chars, buf_insert_char(c) PROVE Text!Next
  <2>1. Placed
    BY <1>1, <1>7 DEF buf_insert_char, Edit, Placed, CursorInv, Editing
  <2>2. QED
    BY <1>7, <2>1, TypeStep
<1>8. CASE buf_delete_char
  <2>1. Placed
    BY <1>1, <1>8 DEF buf_delete_char, RubOut, MergeLines, Edit, Placed, CursorInv, Editing
  <2>2. QED
    BY <1>8, <2>1, RubStep, MergeStep DEF buf_delete_char
<1>9. CASE buf_newline
  <2>1. Placed
    BY <1>1, <1>9 DEF buf_newline, Edit, Placed, CursorInv, Editing
  <2>2. QED
    BY <1>9, <2>1, BreakStep
<1>10. CASE buf_delete_line
  <2>1. Placed
    BY <1>1, <1>10 DEF buf_delete_line, Edit, Placed, CursorInv, Editing
  <2>2. QED
    BY <1>10, <2>1, DeleteStep
<1>11. CASE Save
  <2>1. save_file("edit") /\ lines' = lines /\ cx' = cx /\ cy' = cy /\ Editing /\ "edit" \in {"edit", "shell"}
    BY <1>11 DEF Save, Editing
  <2>2. QED
    BY <2>1, SaveStep
<1>12. CASE Quit
  <2>1. /\ mode \in {"edit", "overrun"} /\ mode' = IF modified THEN "ask" ELSE "shell"
        /\ lines' = lines /\ cx' = cx /\ cy' = cy /\ modified \in BOOLEAN
    BY <1>1, <1>12 DEF Quit, CursorInv
  <2>2. CASE mode = "edit"
    <3>1. Editing
      BY <2>2 DEF Editing
    <3>2. CASE Editing'
      BY <2>1, <3>1, <3>2, StillStep
    <3>3. CASE ~ Editing'
      BY <3>1, <3>3, CloseStep
    <3>4. QED
      BY <3>2, <3>3
  <2>3. CASE mode = "overrun"
    <3>1. ~ modified
      BY <2>3 DEF CursorInv
    <3>2. ~ Editing /\ ~ Editing'
      BY <2>1, <2>3, <3>1 DEF Editing
    <3>3. QED
      BY <3>2, StillStep
  <2>4. QED
    BY <2>1, <2>2, <2>3
<1>13. CASE Answer
  <2>1. Editing /\ lines' = lines /\ cx' = cx /\ cy' = cy
    BY <1>13 DEF Answer, Editing
  <2>2. CASE save_file("shell")
    <3>1. "shell" \in {"edit", "shell"}
      OBVIOUS
    <3>2. QED
      BY <2>1, <2>2, <3>1, SaveStep
  <2>3. CASE mode' = "shell"
    <3>1. ~ Editing'
      BY <2>3 DEF Editing
    <3>2. QED
      BY <2>1, <3>1, CloseStep
  <2>4. QED
    BY <1>13, <2>2, <2>3 DEF Answer
<1>14. QED
  BY <1>2, <1>3, <1>4, <1>5, <1>6, <1>7, <1>8, <1>9, <1>10, <1>11, <1>12, <1>13 DEF Next

\* Splitting, merging and shifting lines loses, repeats or moves no character:
\* the lines and the cursor implement a text with a cursor (editor.c:100-190).
THEOREM EditorIsTextBuffer == Spec => IsTextBuffer
<1>1. Init => CursorInv
  BY InitCursor
<1>2. CursorInv /\ [Next]_vars => CursorInv'
  BY NextCursor
<1>3. Init => Text!Init
  <2> SUFFICES ASSUME Init PROVE Text!Init
    OBVIOUS
  <2>1. Editing = FALSE
    BY DEF Init, Editing
  <2>2. Flat = <<>> /\ Pos = 0
    BY <2>1, FlatIs
  <2>3. QED
    BY <2>1, <2>2 DEF Text!Init
<1>4. CursorInv /\ [Next]_vars => [Text!Next]_<<Editing, Flat, Pos>>
  BY StepRefines
<1>5. QED
  BY <1>1, <1>2, <1>3, <1>4, PTL DEF Spec, IsTextBuffer, Text!Spec

-----------------------------------------------------------------------------
(* The text commands: elements at given places.                             *)

\* The greatest element of a set of numbers, where one is known.
LEMMA MaxIs ==
  ASSUME NEW T, T \subseteq Int, NEW m \in T, \A x \in T : x <= m
  PROVE  Max(T) = m
<1>1. m \in T /\ \A y \in T : m >= y
  OBVIOUS
<1>2. \A x \in T : (\A y \in T : x >= y) => x = m
  OBVIOUS
<1>3. QED
  BY <1>1, <1>2 DEF Max

\* A set of numbers with a bound has a greatest one.
LEMMA MaxExists ==
  ASSUME NEW n \in Nat, NEW T, T \subseteq 0..n, T # {}
  PROVE  Max(T) \in T /\ \A x \in T : x <= Max(T)
<1> DEFINE D == {n - x : x \in T}
<1>1. D \in SUBSET Nat /\ D # {}
  <2>1. \A x \in T : x \in 0..n /\ n - x \in Nat
    OBVIOUS
  <2>2. QED
    BY <2>1
<1>2. PICK d \in D : \A y \in D : d <= y
  BY <1>1, LeastNat
<1>3. PICK m \in T : d = n - m
  BY <1>2
<1>4. \A x \in T : x <= m
  <2> SUFFICES ASSUME NEW x \in T PROVE x <= m
    OBVIOUS
  <2>1. x \in 0..n /\ m \in 0..n
    OBVIOUS
  <2>2. n - x \in D
    OBVIOUS
  <2>3. n - m <= n - x
    BY <1>2, <1>3, <2>2
  <2>4. QED
    BY <2>1, <2>3
<1>5. T \subseteq Int
  OBVIOUS
<1>6. QED
  BY <1>4, <1>5, MaxIs

\* The number of the elements of S up to i.
Rank(S, i) == Cardinality({j \in S : j <= i})

LEMMA PlacesFinite ==
  ASSUME NEW n \in Nat, NEW S \in SUBSET (1..n)
  PROVE  IsFiniteSet(S) /\ Cardinality(S) \in Nat
<1>1. IsFiniteSet(1..n)
  BY FS_Interval
<1>2. IsFiniteSet(S)
  BY <1>1, FS_Subset
<1>3. QED
  BY <1>2, FS_CardinalityType

LEMMA RankType ==
  ASSUME NEW n \in Nat, NEW S \in SUBSET (1..n), NEW i \in Int
  PROVE  /\ IsFiniteSet(S) /\ Cardinality(S) \in Nat
         /\ IsFiniteSet({j \in S : j <= i}) /\ Rank(S, i) \in Nat /\ Rank(S, i) <= Cardinality(S)
<1>1. IsFiniteSet(S)
  BY PlacesFinite
<1> DEFINE B == {j \in S : j <= i}
<1>2. B \in SUBSET S
  OBVIOUS
<1> HIDE DEF B
<1>3. IsFiniteSet(B) /\ Cardinality(B) <= Cardinality(S)
  BY <1>1, <1>2, FS_Subset
<1>4. Cardinality(B) \in Nat /\ Cardinality(S) \in Nat
  BY <1>1, <1>3, FS_CardinalityType
<1>5. QED
  BY <1>1, <1>3, <1>4 DEF Rank, B

\* A later element has a greater rank.
LEMMA RankGrows ==
  ASSUME NEW n \in Nat, NEW S \in SUBSET (1..n), NEW b \in S, NEW c \in S, b < c
  PROVE  Rank(S, b) < Rank(S, c)
<1> DEFINE B == {a \in S : a <= b}
           C == {a \in S : a <= c}
<1>0. S \subseteq Nat /\ b \in Int /\ c \in Int
  OBVIOUS
<1>1. B \in SUBSET C /\ c \in C /\ c \notin B
  <2>1. c <= c /\ ~ (c <= b) /\ \A a \in S : a <= b => a <= c
    BY <1>0
  <2>2. QED
    BY <2>1
<1>2. IsFiniteSet(C)
  BY <1>0, RankType
<1>3. B # C
  BY <1>1
<1> HIDE DEF B, C
<1>4. IsFiniteSet(B) /\ Cardinality(B) <= Cardinality(C) /\ Cardinality(B) # Cardinality(C)
  BY <1>1, <1>2, <1>3, FS_Subset
<1>5. Cardinality(B) \in Nat /\ Cardinality(C) \in Nat
  BY <1>2, <1>4, FS_CardinalityType
<1>6. Cardinality(B) < Cardinality(C)
  BY <1>4, <1>5
<1>7. QED
  BY <1>6 DEF Rank, B, C

\* The k-th element has rank k.
LEMMA NthIs ==
  ASSUME NEW n \in Nat, NEW S \in SUBSET (1..n), NEW k \in 1..Cardinality(S)
  PROVE  Nth(S, k) \in S /\ Rank(S, Nth(S, k)) = k
<1>1. IsFiniteSet(S)
  BY PlacesFinite
<1>2. \E b \in S : Cardinality({a \in S : a <= b}) = k
  BY <1>1, KthExists, Zenon
<1>3. QED
  BY <1>2, Zenon DEF Nth, Rank

\* An element is known by its rank.
LEMMA NthOf ==
  ASSUME NEW n \in Nat, NEW S \in SUBSET (1..n), NEW k \in 1..Cardinality(S),
         NEW i \in S, Rank(S, i) = k
  PROVE  Nth(S, k) = i
<1> DEFINE b == Nth(S, k)
<1>1. b \in S /\ Rank(S, b) = k
  BY NthIs
<1> HIDE DEF b
<1>2. b \in Int /\ i \in Int /\ k \in Int
  <2>1. Cardinality(S) \in Nat
    BY PlacesFinite
  <2>2. \A j \in S : j \in Int
    OBVIOUS
  <2>3. QED
    BY <1>1, <2>1, <2>2
<1>3. ~ (b < i) /\ ~ (i < b)
  <2>1. b < i => Rank(S, b) < Rank(S, i)
    BY <1>1, RankGrows
  <2>2. i < b => Rank(S, i) < Rank(S, b)
    BY <1>1, RankGrows
  <2>3. QED
    BY <1>1, <1>2, <2>1, <2>2
<1>4. QED
  BY <1>2, <1>3 DEF b

\* One place more, behind the others.
LEMMA NthGrows ==
  ASSUME NEW n \in Nat, NEW S \in SUBSET (1..n)
  PROVE  LET U == S \cup {n + 1}
         IN  /\ U \in SUBSET (1..(n + 1)) /\ Cardinality(U) = Cardinality(S) + 1 /\ Cardinality(S) \in Nat
             /\ Nth(U, Cardinality(S) + 1) = n + 1
             /\ \A k \in 1..Cardinality(S) : Nth(U, k) = Nth(S, k)
<1> DEFINE U == S \cup {n + 1}
           c == Cardinality(S)
<1>0. n + 1 \in Nat /\ n + 1 \notin S
  OBVIOUS
<1>1. U \in SUBSET (1..(n + 1)) /\ n + 1 \in U
  OBVIOUS
<1>2. Cardinality(U) = c + 1 /\ c \in Nat
  <2>1. IsFiniteSet(S) /\ c \in Nat
    BY PlacesFinite
  <2>2. QED
    BY <1>0, <2>1, FS_AddElement
<1>3. Rank(U, n + 1) = c + 1
  <2>1. \A j \in U : j <= n + 1
    BY <1>1
  <2> HIDE DEF U
  <2>3. {j \in U : j <= n + 1} = U
    BY <2>1
  <2>2. QED
    BY <1>2, <2>3, Zenon DEF Rank
<1>4. \A i \in S : Rank(U, i) = Rank(S, i)
  <2> SUFFICES ASSUME NEW i \in S PROVE Rank(U, i) = Rank(S, i)
    OBVIOUS
  <2>1. {j \in U : j <= i} = {j \in S : j <= i}
    <3>1. i \in 1..n
      OBVIOUS
    <3>2. ~ (n + 1 <= i)
      BY <3>1
    <3>3. QED
      BY <3>2
  <2>2. QED
    BY <2>1, Zenon DEF Rank
<1> HIDE DEF U
<1>5. Nth(U, c + 1) = n + 1
  <2>1. c + 1 \in 1..Cardinality(U)
    BY <1>2
  <2>2. QED
    BY <1>0, <1>1, <1>3, <2>1, NthOf
<1>6. ASSUME NEW k \in 1..c PROVE Nth(U, k) = Nth(S, k)
  <2>1. Nth(S, k) \in S /\ Rank(S, Nth(S, k)) = k
    BY NthIs
  <2>2. k \in 1..Cardinality(U)
    BY <1>2
  <2>3. Nth(S, k) \in U /\ Rank(U, Nth(S, k)) = k
    BY <1>4, <2>1 DEF U
  <2>4. QED
    BY <1>0, <1>1, <2>2, <2>3, NthOf
<1>7. QED
  BY <1>1, <1>2, <1>5, <1>6 DEF U

\* The first n elements of s.
Elements(s, n, V) == \A i \in 1..n : s[i] \in V

\* What Chosen is.
LEMMA ChosenType ==
  ASSUME NEW V, NEW s, NEW n \in Nat, Elements(s, n, V), NEW S \in SUBSET (1..n)
  PROVE  Chosen(s, S) \in Seq(V) /\ Len(Chosen(s, S)) = Cardinality(S) /\ Cardinality(S) \in Nat
<1>1. Cardinality(S) \in Nat
  BY PlacesFinite
<1>2. \A k \in 1..Cardinality(S) : s[Nth(S, k)] \in V
  <2> SUFFICES ASSUME NEW k \in 1..Cardinality(S) PROVE s[Nth(S, k)] \in V
    OBVIOUS
  <2>1. Nth(S, k) \in S
    BY NthIs
  <2>2. QED
    BY <2>1 DEF Elements
<1>3. QED
  BY <1>1, <1>2 DEF Chosen

\* Chosen of nothing.
LEMMA ChosenNone ==
  ASSUME NEW s PROVE Chosen(s, {}) = <<>> /\ Cardinality({}) = 0
<1>1. Cardinality({}) = 0
  BY FS_EmptySet
<1>2. QED
  BY <1>1 DEF Chosen

\* One place more: one element more.
LEMMA ChosenGrows ==
  ASSUME NEW V, NEW s, NEW n \in Nat, Elements(s, n + 1, V), NEW S \in SUBSET (1..n)
  PROVE  Chosen(s, S \cup {n + 1}) = Append(Chosen(s, S), s[n + 1])
<1> DEFINE U == S \cup {n + 1}
           c == Cardinality(S)
           p == Chosen(s, S)
           q == Chosen(s, U)
<1>0. n + 1 \in Nat /\ Elements(s, n, V)
  BY DEF Elements
<1>1. /\ U \in SUBSET (1..(n + 1)) /\ Cardinality(U) = c + 1 /\ c \in Nat
      /\ Nth(U, c + 1) = n + 1 /\ \A k \in 1..c : Nth(U, k) = Nth(S, k)
  BY NthGrows
<1> DEFINE m == n + 1
<1>m. m \in Nat /\ U \in SUBSET (1..m) /\ Elements(s, m, V)
  BY <1>1
<1> HIDE DEF U, m
<1>2. p \in Seq(V) /\ Len(p) = c
  BY <1>0, ChosenType
<1>3. q \in Seq(V) /\ Len(q) = c + 1
  <2>1. q \in Seq(V) /\ Len(q) = Cardinality(U)
    BY <1>m, ChosenType
  <2>2. QED
    BY <1>1, <2>1
<1>4. \A k \in 1..c : p[k] = s[Nth(S, k)]
  BY DEF Chosen
<1>5. \A k \in 1..(c + 1) : q[k] = s[Nth(U, k)]
  BY <1>1 DEF Chosen
<1> HIDE DEF c, p, q
<1>6. \A k \in 1..c : q[k] = p[k]
  BY <1>1, <1>4, <1>5
<1>7. q[c + 1] = s[n + 1]
  BY <1>1, <1>5
<1>8. s[n + 1] \in V
  BY <1>0 DEF Elements
<1>9. Append(p, s[n + 1]) \in Seq(V) /\ Len(Append(p, s[n + 1])) = c + 1
  BY <1>2, <1>8, AppendProperties
<1>10. \A k \in 1..(c + 1) : Append(p, s[n + 1])[k] = q[k]
  <2> SUFFICES ASSUME NEW k \in 1..(c + 1) PROVE Append(p, s[n + 1])[k] = q[k]
    OBVIOUS
  <2>1. CASE k = c + 1
    BY <1>1, <1>2, <1>7, <1>8, <2>1, AppendProperties
  <2>2. CASE k # c + 1
    <3>1. k \in 1..c
      BY <1>1, <2>2
    <3>2. QED
      BY <1>2, <1>6, <1>8, <3>1, AppendProperties
  <2>3. QED
    BY <2>1, <2>2
<1> DEFINE a == Append(p, s[n + 1])
<1>11. a \in Seq(V) /\ Len(a) = Len(q) /\ \A k \in 1..Len(a) : a[k] = q[k]
  BY <1>3, <1>9, <1>10
<1> HIDE DEF a
<1>12. a = q
  BY <1>3, <1>11, SeqEqual
<1>13. QED
  BY <1>12 DEF a, p, q, U

-----------------------------------------------------------------------------
(* The text commands: the lines of a text.                                  *)

\* A part of a sequence that takes in one element more.
LEMMA PartGrows ==
  ASSUME NEW V, NEW s \in Seq(V), NEW l \in Nat, NEW m \in Nat, l <= m, m < Len(s)
  PROVE  SubSeq(s, l + 1, m + 1) = Append(SubSeq(s, l + 1, m), s[m + 1])
<1> DEFINE p == SubSeq(s, l + 1, m)
           q == SubSeq(s, l + 1, m + 1)
           e == s[m + 1]
<1>0. Len(s) \in Nat
  BY LenProperties
<1>1. \A i \in 1..Len(s) : s[i] \in V
  BY ElementOfSeq
<1>2. e \in V
  BY <1>0, <1>1
<1>3. p \in Seq(V) /\ Len(p) = m - l /\ \A i \in 1..(m - l) : p[i] = s[l + i]
  BY <1>0, <1>1
<1>4. q \in Seq(V) /\ Len(q) = m + 1 - l /\ \A i \in 1..(m + 1 - l) : q[i] = s[l + i]
  BY <1>0, <1>1
<1> HIDE DEF p, q, e
<1> DEFINE r == Append(p, e)
<1>5. /\ r \in Seq(V) /\ Len(r) = m - l + 1
      /\ r[m - l + 1] = e /\ \A i \in 1..(m - l) : r[i] = p[i]
  BY <1>2, <1>3, AppendProperties
<1> HIDE DEF r
<1>6. \A i \in 1..Len(q) : q[i] = r[i]
  <2> SUFFICES ASSUME NEW i \in 1..Len(q) PROVE q[i] = r[i]
    OBVIOUS
  <2>0. i \in 1..(m + 1 - l) /\ q[i] = s[l + i]
    BY <1>4
  <2>1. CASE i = m - l + 1
    <3>1. l + i = m + 1
      BY <2>1
    <3>2. QED
      BY <2>0, <2>1, <3>1, <1>5 DEF e
  <2>2. CASE i # m - l + 1
    <3>1. i \in 1..(m - l)
      BY <2>0, <2>2
    <3>2. QED
      BY <2>0, <3>1, <1>3, <1>5
  <2>3. QED
    BY <2>1, <2>2
<1>7. Len(q) = Len(r)
  BY <1>4, <1>5
<1>8. q = r
  BY <1>4, <1>5, <1>6, <1>7, SeqEqual
<1>9. QED
  BY <1>8 DEF p, q, r, e

\* The break before a place.
LEMMA BeforeIs ==
  ASSUME NEW f \in Seq(Byte), NEW n \in 0..Len(f)
  PROVE  LET l == Before(f, n + 1)
         IN  /\ l \in 0..n /\ (l = 0 \/ l \in Breaks(f))
             /\ \A b \in Breaks(f) : b <= n => b <= l
<1> DEFINE T == {0} \cup {b \in Breaks(f) : b < n + 1}
<1>0. Breaks(f) \subseteq 1..Len(f) /\ Len(f) \in Nat
  BY BreaksFinite
<1>1. n \in Nat /\ \A b \in Breaks(f) : b \in Nat /\ (b < n + 1 <=> b <= n)
  BY <1>0
<1>2. T \subseteq 0..n /\ T # {}
  BY <1>1
<1>3. \A b \in Breaks(f) : b <= n => b \in T
  BY <1>1
<1>4. \A x \in T : x = 0 \/ x \in Breaks(f)
  OBVIOUS
<1>5. Before(f, n + 1) = Max(T)
  BY DEF Before
<1> HIDE DEF T
<1>6. Max(T) \in T /\ \A x \in T : x <= Max(T)
  BY <1>1, <1>2, MaxExists
<1>7. QED
  BY <1>2, <1>3, <1>4, <1>5, <1>6

\* It is the only such place.
LEMMA BeforeOnce ==
  ASSUME NEW f \in Seq(Byte), NEW n \in 0..Len(f), NEW l \in 0..n,
         l = 0 \/ l \in Breaks(f), \A b \in Breaks(f) : b <= n => b <= l
  PROVE  Before(f, n + 1) = l
<1> DEFINE m == Before(f, n + 1)
<1>1. m \in 0..n /\ (m = 0 \/ m \in Breaks(f)) /\ \A b \in Breaks(f) : b <= n => b <= m
  BY BeforeIs
<1> HIDE DEF m
<1>2. m <= l /\ l <= m
  BY <1>1
<1>3. QED
  BY <1>1, <1>2 DEF m

\* The next character is a break or not.
LEMMA BeforeNext ==
  ASSUME NEW f \in Seq(Byte), NEW n \in 0..(Len(f) - 1)
  PROVE  /\ f[n + 1] = Break => Before(f, n + 2) = n + 1
         /\ f[n + 1] # Break => Before(f, n + 2) = Before(f, n + 1)
<1> DEFINE l == Before(f, n + 1)
           m == n + 1
<1>0. Len(f) \in Nat /\ Breaks(f) \subseteq 1..Len(f)
  BY BreaksFinite
<1>1. n \in 0..Len(f) /\ m \in 0..Len(f) /\ m \in 1..Len(f) /\ m + 1 = n + 2 /\ n \in Nat
  BY <1>0
<1>2. l \in 0..n /\ (l = 0 \/ l \in Breaks(f)) /\ \A b \in Breaks(f) : b <= n => b <= l
  BY <1>1, BeforeIs
<1>3. m \in Breaks(f) <=> f[n + 1] = Break
  BY <1>1 DEF Breaks
<1>4. l \in 0..m /\ m \in 0..m /\ \A b \in Breaks(f) : b \in Nat /\ (b <= m => b <= n \/ b = m)
  BY <1>0, <1>1, <1>2
<1> HIDE DEF l, m
<1>5. ASSUME f[n + 1] = Break PROVE Before(f, m + 1) = m
  <2>1. m \in Breaks(f) /\ \A b \in Breaks(f) : b <= m => b <= m
    BY <1>3, <1>5
  <2>2. QED
    BY <1>1, <1>4, <2>1, BeforeOnce
<1>6. ASSUME f[n + 1] # Break PROVE Before(f, m + 1) = l
  <2>1. \A b \in Breaks(f) : b <= m => b <= l
    BY <1>2, <1>3, <1>4, <1>6
  <2>2. QED
    BY <1>1, <1>2, <1>4, <2>1, BeforeOnce
<1>7. QED
  BY <1>1, <1>5, <1>6 DEF l, m

\* A line that was read so far, and its length.
LEMMA LineLen ==
  ASSUME NEW f \in Seq(Byte), NEW n \in 0..Len(f), NEW size \in Nat
  PROVE  LET l == Before(f, n + 1)
         IN  /\ LineTo(f, n + 1, size) = SubSeq(f, l + 1, Least(n, l + size))
             /\ LineTo(f, n + 1, size) \in Seq(Byte)
             /\ Len(LineTo(f, n + 1, size)) = Least(n, l + size) - l
             /\ Least(n, l + size) \in l..n
<1> DEFINE l == Before(f, n + 1)
           m == Least(n, l + size)
<1>0. Len(f) \in Nat
  BY LenProperties
<1>1. l \in 0..n
  BY BeforeIs
<1>2. LineTo(f, n + 1, size) = SubSeq(f, l + 1, m)
  <2>1. (n + 1) - 1 = n
    BY <1>0
  <2>2. QED
    BY <2>1 DEF LineTo
<1> HIDE DEF l
<1>3. m \in l..n
  BY <1>0, <1>1 DEF Least
<1> HIDE DEF m
<1>4. l \in Nat /\ m \in Nat /\ m <= Len(f) /\ l <= m
  BY <1>0, <1>1, <1>3
<1>5. SubSeq(f, l + 1, m) \in Seq(Byte) /\ Len(SubSeq(f, l + 1, m)) = m - l
  <2>1. \A i \in 1..Len(f) : f[i] \in Byte
    BY ElementOfSeq
  <2>2. QED
    BY <1>0, <1>4, <2>1
<1>6. QED
  BY <1>2, <1>3, <1>5 DEF l, m

\* A character more: it ends the line, or belongs to it if there is room.
LEMMA LineNext ==
  ASSUME NEW f \in Seq(Byte), NEW n \in 0..(Len(f) - 1), NEW size \in Nat
  PROVE  LET r == LineTo(f, n + 1, size)
         IN  LineTo(f, n + 2, size) = IF f[n + 1] = Break THEN <<>>
                                      ELSE IF Len(r) < size THEN Append(r, f[n + 1]) ELSE r
<1> DEFINE r == LineTo(f, n + 1, size)
           q == LineTo(f, n + 2, size)
           l == Before(f, n + 1)
           k == Before(f, n + 2)
           m == Least(n, l + size)
<1>0. Len(f) \in Nat
  BY LenProperties
<1>1. n \in 0..Len(f) /\ n + 1 \in 0..Len(f) /\ (n + 1) + 1 = n + 2 /\ n \in Nat
  BY <1>0
<1>2. r = SubSeq(f, l + 1, m) /\ Len(r) = m - l /\ m \in l..n
  BY <1>1, LineLen
<1>3. q = SubSeq(f, k + 1, Least(n + 1, k + size))
  <2> DEFINE j == n + 1
  <2> HIDE DEF j
  <2>1. LineTo(f, j + 1, size) = SubSeq(f, Before(f, j + 1) + 1, Least(j, Before(f, j + 1) + size))
    BY <1>1, LineLen DEF j
  <2>2. j + 1 = n + 2
    BY <1>1 DEF j
  <2>3. QED
    BY <2>1, <2>2 DEF j
<1>4. l \in 0..n
  BY <1>1, BeforeIs
<1>5. (f[n + 1] = Break => k = n + 1) /\ (f[n + 1] # Break => k = l)
  BY BeforeNext
<1> HIDE DEF r, q, l, k
<1>6. CASE f[n + 1] = Break
  <2>1. k = n + 1 /\ Least(n + 1, k + size) = n + 1
    BY <1>1, <1>5, <1>6 DEF Least
  <2>2. q = SubSeq(f, (n + 1) + 1, n + 1)
    BY <1>3, <2>1, Zenon
  <2>3. SubSeq(f, (n + 1) + 1, n + 1) = <<>>
    BY <1>1
  <2>4. QED
    BY <1>6, <2>2, <2>3 DEF r, q
<1>7. CASE f[n + 1] # Break /\ n < l + size
  <2>1. m = n /\ Len(r) < size /\ Least(n + 1, l + size) = n + 1
    BY <1>1, <1>2, <1>4, <1>7 DEF Least
  <2>2. q = SubSeq(f, l + 1, n + 1)
    BY <1>3, <1>5, <1>7, <2>1
  <2>3. r = SubSeq(f, l + 1, n)
    BY <1>2, <2>1
  <2>4. SubSeq(f, l + 1, n + 1) = Append(SubSeq(f, l + 1, n), f[n + 1])
    <3>1. l \in Nat /\ l <= n /\ n < Len(f)
      BY <1>0, <1>1, <1>4
    <3>2. QED
      BY <1>1, <3>1, PartGrows
  <2>5. q = Append(r, f[n + 1])
    BY <2>2, <2>3, <2>4, Zenon
  <2>6. QED
    BY <1>7, <2>1, <2>5 DEF r, q
<1>8. CASE f[n + 1] # Break /\ ~ (n < l + size)
  <2>1. m = l + size /\ ~ (Len(r) < size) /\ Least(n + 1, l + size) = l + size
    BY <1>1, <1>2, <1>4, <1>8 DEF Least
  <2>2. q = r
    BY <1>2, <1>3, <1>5, <1>8, <2>1
  <2>3. QED
    BY <1>8, <2>1, <2>2 DEF r, q
<1>9. QED
  BY <1>6, <1>7, <1>8

\* The breaks among the first n characters.
BreaksTo(f, n) == {b \in Breaks(f) : b <= n}

LEMMA BreaksNext ==
  ASSUME NEW f \in Seq(Byte), NEW n \in 0..(Len(f) - 1)
  PROVE  /\ BreaksTo(f, n) \in SUBSET (1..n) /\ n \in Nat /\ n + 1 \in 1..Len(f) /\ Len(f) \in Nat
         /\ f[n + 1] = Break => BreaksTo(f, n + 1) = BreaksTo(f, n) \cup {n + 1}
         /\ f[n + 1] # Break => BreaksTo(f, n + 1) = BreaksTo(f, n)
<1>0. Len(f) \in Nat /\ Breaks(f) \subseteq 1..Len(f)
  BY BreaksFinite
<1>1. n \in Nat /\ n + 1 \in 1..Len(f)
  BY <1>0
<1>2. \A b \in Breaks(f) : b \in Nat /\ b >= 1 /\ (b <= n + 1 <=> b <= n \/ b = n + 1)
  BY <1>0, <1>1
<1>3. n + 1 \in Breaks(f) <=> f[n + 1] = Break
  BY <1>1 DEF Breaks
<1>4. QED
  BY <1>0, <1>1, <1>2, <1>3 DEF BreaksTo

LEMMA BreaksAll ==
  ASSUME NEW f \in Seq(Byte)
  PROVE  BreaksTo(f, 0) = {} /\ BreaksTo(f, Len(f)) = Breaks(f)
<1>1. Breaks(f) \subseteq 1..Len(f) /\ Len(f) \in Nat
  BY BreaksFinite
<1>2. \A b \in Breaks(f) : ~ (b <= 0) /\ b <= Len(f)
  BY <1>1
<1>3. QED
  BY <1>2 DEF BreaksTo

\* The line that ends at each place.
LinesAt(f, size) == [e \in 1..Len(f) |-> LineTo(f, e, size)]

LEMMA LinesAtType ==
  ASSUME NEW f \in Seq(Byte), NEW size \in Nat
  PROVE  Elements(LinesAt(f, size), Len(f), Seq(Byte))
<1> SUFFICES ASSUME NEW e \in 1..Len(f) PROVE LinesAt(f, size)[e] \in Seq(Byte)
  BY DEF Elements
<1> DEFINE n == e - 1
<1>1. n \in 0..Len(f) /\ n + 1 = e
  BY LenProperties
<1>2. LinesAt(f, size)[e] = LineTo(f, e, size)
  BY DEF LinesAt
<1> HIDE DEF n
<1>3. LineTo(f, n + 1, size) \in Seq(Byte)
  BY <1>1, LineLen
<1>4. QED
  BY <1>1, <1>2, <1>3

\* The lines that have ended before n characters are read.
LinesTo(f, n, size) == Chosen(LinesAt(f, size), BreaksTo(f, n))

LEMMA LinesNext ==
  ASSUME NEW f \in Seq(Byte), NEW n \in 0..(Len(f) - 1), NEW size \in Nat
  PROVE  /\ f[n + 1] = Break => LinesTo(f, n + 1, size) = Append(LinesTo(f, n, size), LineTo(f, n + 1, size))
         /\ f[n + 1] # Break => LinesTo(f, n + 1, size) = LinesTo(f, n, size)
         /\ LinesTo(f, n, size) \in Seq(Seq(Byte))
         /\ Len(LinesTo(f, n, size)) = Cardinality(BreaksTo(f, n)) /\ Cardinality(BreaksTo(f, n)) \in Nat
<1> DEFINE s == LinesAt(f, size)
           B == BreaksTo(f, n)
<1>1. B \in SUBSET (1..n) /\ n \in Nat /\ n + 1 \in 1..Len(f) /\ Len(f) \in Nat
  BY BreaksNext
<1>2. Elements(s, n + 1, Seq(Byte)) /\ Elements(s, n, Seq(Byte))
  BY <1>1, LinesAtType DEF Elements
<1>3. s[n + 1] = LineTo(f, n + 1, size)
  BY <1>1 DEF LinesAt
<1> HIDE DEF s, B
<1>4. Chosen(s, B \cup {n + 1}) = Append(Chosen(s, B), s[n + 1])
  BY <1>1, <1>2, ChosenGrows
<1>5. Chosen(s, B) \in Seq(Seq(Byte)) /\ Len(Chosen(s, B)) = Cardinality(B) /\ Cardinality(B) \in Nat
  BY <1>1, <1>2, ChosenType
<1>6. (f[n + 1] = Break => BreaksTo(f, n + 1) = B \cup {n + 1}) /\ (f[n + 1] # Break => BreaksTo(f, n + 1) = B)
  BY BreaksNext DEF B
<1>7. LinesTo(f, n, size) = Chosen(s, B) /\ LinesTo(f, n + 1, size) = Chosen(s, BreaksTo(f, n + 1))
  BY DEF LinesTo, s, B
<1>8. QED
  BY <1>3, <1>4, <1>5, <1>6, <1>7 DEF B

LEMMA LinesAll ==
  ASSUME NEW f \in Seq(Byte), NEW size \in Nat
  PROVE  /\ LinesTo(f, 0, size) = <<>> /\ LinesTo(f, Len(f), size) = LinesOf(f, size)
         /\ LinesOf(f, size) \in Seq(Seq(Byte))
         /\ LineTo(f, 1, size) = <<>>
         /\ LineTo(f, Len(f) + 1, size) \in Seq(Byte)
<1>0. Len(f) \in Nat /\ Breaks(f) \in SUBSET (1..Len(f))
  BY BreaksFinite
<1>1. LinesTo(f, 0, size) = <<>>
  BY BreaksAll, ChosenNone DEF LinesTo
<1>2. LinesTo(f, Len(f), size) = LinesOf(f, size)
  BY BreaksAll DEF LinesTo, LinesOf, LinesAt
<1>3. LinesOf(f, size) \in Seq(Seq(Byte))
  <2>1. Elements(LinesAt(f, size), Len(f), Seq(Byte))
    BY LinesAtType
  <2>2. LinesOf(f, size) = Chosen(LinesAt(f, size), Breaks(f))
    BY DEF LinesOf, LinesAt
  <2>3. QED
    BY <1>0, <2>1, <2>2, ChosenType
<1>4. LineTo(f, 1, size) = <<>>
  <2> DEFINE z == 0
  <2>1. z \in 0..Len(f) /\ z + 1 = 1 /\ z \in Nat
    BY <1>0
  <2> HIDE DEF z
  <2>2. LineTo(f, z + 1, size) \in Seq(Byte) /\ Before(f, z + 1) \in 0..z
    BY <2>1, LineLen, BeforeIs
  <2>3. Len(LineTo(f, z + 1, size)) = Least(z, Before(f, z + 1) + size) - Before(f, z + 1)
    BY <2>1, LineLen
  <2>4. Len(LineTo(f, z + 1, size)) = 0
    BY <2>1, <2>2, <2>3 DEF Least, z
  <2>5. QED
    BY <2>1, <2>2, <2>4, EmptySeq
<1>5. LineTo(f, Len(f) + 1, size) \in Seq(Byte)
  <2>1. Len(f) \in 0..Len(f)
    BY <1>0
  <2>2. QED
    BY <2>1, LineLen
<1>6. QED
  BY <1>1, <1>2, <1>3, <1>4, <1>5

\* In a text that has ended nothing follows the last break.
LEMMA LastLine ==
  ASSUME NEW f \in Seq(Byte), NEW size \in Nat, Ended(f)
  PROVE  /\ LineTo(f, Len(f) + 1, size) = <<>>
         /\ AllLines(f, size) = LinesOf(f, size)
<1>0. Len(f) \in Nat
  BY LenProperties
<1>1. LineTo(f, Len(f) + 1, size) = <<>>
  <2>1. CASE f = <<>>
    <3>1. Len(f) + 1 = 1
      BY <2>1
    <3>2. QED
      BY <3>1, LinesAll
  <2>2. CASE f # <<>>
    <3> DEFINE n == Len(f) - 1
               m == Len(f)
               l == Before(f, m + 1)
               line == LineTo(f, m + 1, size)
    <3>1. Len(f) # 0
      BY <2>2, EmptySeq
    <3>2. n \in 0..(Len(f) - 1) /\ n + 1 = Len(f) /\ n + 2 = m + 1 /\ m \in 0..Len(f) /\ m \in Nat
      BY <1>0, <3>1
    <3>3. f[n + 1] = Break
      BY <2>2, <3>2 DEF Ended
    <3>4. l = m
      BY <3>2, <3>3, BeforeNext
    <3>5. line \in Seq(Byte) /\ Len(line) = Least(m, l + size) - l
      BY <3>2, LineLen
    <3> HIDE DEF m, l, line
    <3>6. Len(line) = 0
      BY <3>2, <3>4, <3>5 DEF Least
    <3>7. QED
      BY <3>5, <3>6, EmptySeq DEF line, m
  <2>3. QED
    BY <2>1, <2>2
<1>2. QED
  BY <1>1 DEF AllLines

LEMMA ToolSizes ==
  /\ LINE_BUF - 1 \in Nat /\ GREP_BUF - 2 \in Nat /\ SORT_LINES \in Nat
  /\ RING \in Nat /\ RING > 0 /\ Count \in 0..RING
BY TextToolsAssumption

LEMMA ToolTexts ==
  /\ Byte \subseteq Int /\ Stale \in Seq(Byte)
  /\ \A p \in Patterns : p \in Seq(Byte) \ {<<>>}
BY TextToolsAssumption

\* What head, tail, sort and uniq have after n characters.
ReadTo(f, n) == [ended |-> LinesTo(f, n, LINE_BUF - 1), line |-> LineTo(f, n + 1, LINE_BUF - 1)]

LEMMA OtherLine ==
  ASSUME NEW e, NEW l, NEW x
  PROVE  [[ended |-> e, line |-> l] EXCEPT !.line = x] = [ended |-> e, line |-> x]
OBVIOUS

LEMMA ReadNext ==
  ASSUME NEW f \in Seq(Byte), NEW n \in 0..(Len(f) - 1)
  PROVE  Take(ReadTo(f, n), f[n + 1]) = ReadTo(f, n + 1)
<1> DEFINE size == LINE_BUF - 1
           e == LinesTo(f, n, size)
           l == LineTo(f, n + 1, size)
           c == f[n + 1]
<1>0. size \in Nat
  BY ToolSizes
<1>1. (n + 1) + 1 = n + 2
  OBVIOUS
<1>2. /\ c = Break => LinesTo(f, n + 1, size) = Append(e, l)
      /\ c # Break => LinesTo(f, n + 1, size) = e
  <2> HIDE DEF size
  <2> QED BY <1>0, LinesNext
<1>3. LineTo(f, n + 2, size) = IF c = Break THEN <<>> ELSE IF Len(l) < size THEN Append(l, c) ELSE l
  <2> HIDE DEF size
  <2> QED BY <1>0, LineNext
<1>4. ReadTo(f, n) = [ended |-> e, line |-> l]
      /\ ReadTo(f, n + 1) = [ended |-> LinesTo(f, n + 1, size), line |-> LineTo(f, n + 2, size)]
  BY <1>1, Zenon DEF ReadTo
<1> HIDE DEF e, l, c
<1>5. Take([ended |-> e, line |-> l], c) =
        IF c = Break THEN [ended |-> Append(e, l), line |-> <<>>]
        ELSE IF Len(l) < size THEN [ended |-> e, line |-> Append(l, c)] ELSE [ended |-> e, line |-> l]
  <2> DEFINE r == [ended |-> e, line |-> l]
  <2>1. r.ended = e /\ r.line = l
    OBVIOUS
  <2>2. [r EXCEPT !.line = Append(l, c)] = [ended |-> e, line |-> Append(l, c)]
    BY OtherLine
  <2>3. Take(r, c) = IF c = Break THEN [ended |-> Append(r.ended, r.line), line |-> <<>>]
                     ELSE IF Len(r.line) < size THEN [r EXCEPT !.line = Append(r.line, c)] ELSE r
    BY DEF Take
  <2>4. Take(r, c) = IF c = Break THEN [ended |-> Append(e, l), line |-> <<>>]
                     ELSE IF Len(l) < size THEN [r EXCEPT !.line = Append(l, c)] ELSE r
    <3> HIDE DEF r
    <3> QED BY <2>1, <2>3
  <2>5. QED
    BY <2>2, <2>4, Zenon
<1>6. CASE c = Break
  BY <1>2, <1>3, <1>4, <1>5, <1>6 DEF c
<1>7. CASE c # Break
  BY <1>2, <1>3, <1>4, <1>5, <1>7 DEF c
<1>8. QED
  BY <1>6, <1>7

\* What they have at the end.
LEMMA ReadIs ==
  ASSUME NEW f \in Seq(Byte)
  PROVE  Read(f) = [ended |-> LinesOf(f, LINE_BUF - 1), line |-> LineTo(f, Len(f) + 1, LINE_BUF - 1)]
<1> DEFINE n == Len(f)
           a == [ended |-> <<>>, line |-> <<>>]
           Body(v) == [k \in 0..n |-> IF k = 0 THEN a ELSE Take(v[k - 1], f[k])]
           W == CHOOSE w : w = Body(w)
           G == [k \in 0..n |-> ReadTo(f, k)]
<1>0. n \in Nat
  BY LenProperties
<1>1. Read(f) = W[n]
  BY DEF Read
<1>2. ReadTo(f, 0) = a
  <2>1. 0 + 1 = 1
    OBVIOUS
  <2>2. LINE_BUF - 1 \in Nat
    BY ToolSizes
  <2>3. QED
    BY <2>1, <2>2, LinesAll DEF ReadTo
<1>3. \A k \in 1..n : Take(ReadTo(f, k - 1), f[k]) = ReadTo(f, k)
  <2> SUFFICES ASSUME NEW k \in 1..n PROVE Take(ReadTo(f, k - 1), f[k]) = ReadTo(f, k)
    OBVIOUS
  <2> DEFINE j == k - 1
  <2>1. j \in 0..(Len(f) - 1) /\ j + 1 = k
    BY <1>0
  <2> HIDE DEF j
  <2>2. Take(ReadTo(f, j), f[j + 1]) = ReadTo(f, j + 1)
    BY <2>1, ReadNext
  <2>3. QED
    BY <2>1, <2>2 DEF j
<1> HIDE DEF a
<1>4. G = Body(G)
  <2>1. \A k \in 1..n : k - 1 \in 0..n
    BY <1>0
  <2>2. \A k \in 0..n : k # 0 => k \in 1..n
    BY <1>0
  <2>3. \A k \in 0..n : ReadTo(f, k) = IF k = 0 THEN a ELSE Take(G[k - 1], f[k])
    BY <1>2, <1>3, <2>1, <2>2
  <2>4. QED
    BY <2>3
<1>5. W = Body(W)
  BY <1>4
<1> HIDE DEF W
<1>6. W[0] = a /\ \A k \in 1..n : W[k] = Take(W[k - 1], f[k])
  <2>1. 0 \in 0..n /\ \A k \in 1..n : k \in 0..n /\ k # 0
    BY <1>0
  <2>2. \A k \in 0..n : W[k] = IF k = 0 THEN a ELSE Take(W[k - 1], f[k])
    BY <1>5
  <2>3. QED
    BY <2>1, <2>2
<1> DEFINE T == {k \in 0..n : W[k] = ReadTo(f, k)}
<1>7. 0 \in T
  BY <1>0, <1>2, <1>6
<1>8. ASSUME NEW k \in 0..(n - 1), k \in T PROVE k + 1 \in T
  <2>1. k + 1 \in 1..n /\ (k + 1) - 1 = k /\ k + 1 \in 0..n
    BY <1>0
  <2>2. W[k + 1] = Take(W[k], f[k + 1])
    BY <1>6, <2>1
  <2>3. Take(ReadTo(f, k), f[k + 1]) = ReadTo(f, k + 1)
    BY <1>3, <2>1
  <2>4. QED
    BY <1>8, <2>1, <2>2, <2>3
<1>9. 0..n \subseteq T
  <2> HIDE DEF n, T
  <2> QED BY <1>0, <1>7, <1>8, SetInduction
<1>10. W[n] = ReadTo(f, n)
  BY <1>0, <1>9
<1>11. LinesTo(f, n, LINE_BUF - 1) = LinesOf(f, LINE_BUF - 1)
  BY ToolSizes, LinesAll
<1>12. QED
  BY <1>1, <1>10, <1>11 DEF ReadTo

-----------------------------------------------------------------------------
(* The text commands: tail.                                                 *)

\* Two lines share a slot only if a whole round of the ring is between them.
LEMMA SlotOnce ==
  ASSUME NEW i \in Nat, NEW j \in Nat, i < j, j < i + RING
  PROVE  i % RING # j % RING /\ i % RING \in 0..(RING - 1) /\ j % RING \in 0..(RING - 1)
<1> DEFINE n == RING
           p == i \div n
           q == j \div n
<1>1. n \in Nat /\ n > 0
  BY ToolSizes
<1> HIDE DEF n
<1>2. p \in Int /\ q \in Int /\ i = n * p + (i % n) /\ j = n * q + (j % n)
  BY <1>1
<1>3. i % n \in 0..(n - 1) /\ j % n \in 0..(n - 1)
  BY <1>1
<1>4. SUFFICES ASSUME i % n = j % n PROVE FALSE
  BY <1>3 DEF n
<1> HIDE DEF p, q
<1>5. j - i = n * (q - p)
  <2>1. n * (q - p) = n * q - n * p
    BY <1>1, <1>2, SMTT(30)
  <2>2. i % n \in Int /\ n * p \in Int /\ n * q \in Int
    BY <1>1, <1>2, <1>3
  <2>3. QED
    BY <1>2, <1>4, <2>1, <2>2
<1>6. CASE q - p <= 0
  <2>1. n * (q - p) <= 0
    BY <1>1, <1>2, <1>6, SMTT(30)
  <2>2. QED
    BY <2>1, <1>5, <1>1
<1>7. CASE q - p >= 1
  <2>1. n * (q - p) >= n
    BY <1>1, <1>2, <1>7, SMTT(30)
  <2>2. QED
    BY <2>1, <1>5, <1>1 DEF n
<1>8. QED
  BY <1>2, <1>6, <1>7

\* A line that is not as long as the array is kept as it is.
LEMMA KeptIs ==
  ASSUME NEW l \in Seq(Byte)
  PROVE  Kept(l) \in Seq(Byte) /\ (Len(l) < LINE_BUF - 1 => Kept(l) = l)
BY ToolTexts, ConcatProperties DEF Kept

\* The ring has the last lines.
LEMMA RingHas ==
  ASSUME NEW ls \in Seq(Seq(Byte))
  PROVE  \A i \in 1..Len(ls) : Len(ls) - i < RING => Ring(ls)[(i - 1) % RING] = Kept(ls[i])
<1> DEFINE n == Len(ls)
           S == [0..(RING - 1) -> Seq(Byte)]
           a == [i \in 0..(RING - 1) |-> <<>>]
           Turned(r, k) == [r EXCEPT ![(k - 1) % RING] = Kept(ls[k])]
           step == [x \in (1..n) \X S |-> Turned(x[2], x[1])]
           Body(v) == [k \in 0..n |-> IF k = 0 THEN a ELSE Turned(v[k - 1], k)]
           W == CHOOSE w : w = Body(w)
<1>0. n \in Nat /\ RING \in Nat /\ RING > 0
  BY LenProperties, ToolSizes
<1>1. Ring(ls) = W[n]
  BY DEF Ring
<1>2. \A k \in 1..n : Kept(ls[k]) \in Seq(Byte)
  BY KeptIs, ElementOfSeq
<1>3. a \in S
  BY EmptySeq
<1>4. \A r \in S, k \in 1..n : Turned(r, k) \in S
  BY <1>0, <1>2
<1> HIDE DEF S, a, Turned, n
<1>5. step \in [(1..n) \X S -> S]
  BY <1>4
<1>6. PICK w : IsLoop(w, S, a, n, step)
  <2> HIDE DEF step
  <2>1. QED
    BY <1>0, <1>3, <1>5, Iteration, Zenon
<1>7. w = Body(w)
  <2>1. w \in [0..n -> S] /\ w[0] = a
    BY <1>6 DEF IsLoop
  <2>2. ASSUME NEW k \in 1..n
        PROVE  w[k] = Turned(w[k - 1], k)
    <3>1. w[k - 1] \in S
      BY <1>0, <2>1
    <3>2. <<k, w[k - 1]>> \in (1..n) \X S
      BY <3>1
    <3>3. step[<<k, w[k - 1]>>] = Turned(w[k - 1], k)
      BY <3>2
    <3>4. QED
      BY <3>3, <1>6 DEF IsLoop
  <2>3. QED
    BY <1>0, <2>1, <2>2
<1>8. W = Body(W)
  BY <1>7
<1> HIDE DEF W
<1>9. W[0] = a /\ \A k \in 1..n : W[k] = Turned(W[k - 1], k)
  <2>1. 0 \in 0..n /\ \A k \in 1..n : k \in 0..n /\ k # 0
    BY <1>0
  <2>2. \A k \in 0..n : W[k] = IF k = 0 THEN a ELSE Turned(W[k - 1], k)
    BY <1>8
  <2>3. QED
    BY <2>1, <2>2
<1> DEFINE Has(r, k) == \A i \in 1..k : k - i < RING => r[(i - 1) % RING] = Kept(ls[i])
           T == {k \in 0..n : W[k] \in S /\ Has(W[k], k)}
<1>10. 0 \in T
  BY <1>0, <1>3, <1>9
<1>11. ASSUME NEW k \in 0..(n - 1), k \in T PROVE k + 1 \in T
  <2> DEFINE r == W[k]
             q == W[k + 1]
             z == k % RING
  <2>1. k + 1 \in 1..n /\ (k + 1) - 1 = k /\ k + 1 \in 0..n /\ k \in Nat
    BY <1>0
  <2>2. r \in S /\ Has(r, k)
    BY <1>11
  <2>3. q = Turned(r, k + 1)
    BY <1>9, <2>1
  <2>4. q \in S
    BY <1>4, <2>1, <2>2, <2>3
  <2>5. z \in 0..(RING - 1)
    BY <1>0, <2>1
  <2>6. q = [r EXCEPT ![z] = Kept(ls[k + 1])]
    BY <2>1, <2>3, Zenon DEF Turned
  <2>7. DOMAIN r = 0..(RING - 1)
    BY <2>2 DEF S
  <2> HIDE DEF r, q, z
  <2>8. ASSUME NEW i \in 1..(k + 1), (k + 1) - i < RING PROVE q[(i - 1) % RING] = Kept(ls[i])
    <3>1. CASE i = k + 1
      <4>1. (i - 1) % RING = z
        BY <2>1, <3>1 DEF z
      <4>2. q[z] = Kept(ls[k + 1])
        BY <2>5, <2>6, <2>7
      <4>3. QED
        BY <3>1, <4>1, <4>2
    <3>2. CASE i # k + 1
      <4> DEFINE j == i - 1
      <4>1. j \in Nat /\ j < k /\ k < j + RING /\ i \in 1..k /\ k - i < RING
        BY <1>0, <2>1, <2>8, <3>2
      <4> HIDE DEF j
      <4>2. j % RING # z /\ j % RING \in 0..(RING - 1)
        BY <2>1, <4>1, SlotOnce DEF z
      <4>3. r[j % RING] = Kept(ls[i])
        BY <2>2, <4>1 DEF j
      <4>4. q[j % RING] = r[j % RING]
        BY <2>6, <2>7, <4>2
      <4>5. QED
        BY <4>3, <4>4 DEF j
    <3>3. QED
      BY <3>1, <3>2
  <2>9. Has(q, k + 1)
    BY <2>8
  <2>10. QED
    BY <2>1, <2>4, <2>9 DEF q
<1>12. 0..n \subseteq T
  <2> HIDE DEF T
  <2> QED BY <1>0, <1>10, <1>11, SetInduction
<1>13. Has(W[n], n)
  BY <1>0, <1>12
<1>14. QED
  BY <1>1, <1>13 DEF n

\* head and tail.
LEMMA HeadAndTail ==
  ASSUME NEW f \in Seq(Byte), NEW count \in 0..RING
  PROVE  LET ls == LinesOf(f, LINE_BUF - 1)
         IN  /\ cmd_head(f, count) = SubSeq(ls, 1, Least(count, Len(ls)))
             /\ Short(ls) => cmd_tail(f, count) = SubSeq(ls, Len(ls) - Least(count, Len(ls)) + 1, Len(ls))
<1> DEFINE ls == LinesOf(f, LINE_BUF - 1)
           n == Len(ls)
           m == Least(count, n)
           start == n - m
<1>0. ls \in Seq(Seq(Byte)) /\ n \in Nat
  BY ToolSizes, LinesAll
<1>1. Read(f).ended = ls
  BY ReadIs
<1>2. cmd_head(f, count) = SubSeq(ls, 1, m)
  BY <1>1, Zenon DEF cmd_head
<1>s. SUFFICES ASSUME Short(ls) PROVE cmd_tail(f, count) = SubSeq(ls, start + 1, n)
  BY <1>2
<1>3. cmd_tail(f, count) = [k \in 1..(n - start) |-> Ring(ls)[(start + (k - 1)) % RING]]
  BY <1>1, Zenon DEF cmd_tail
<1> HIDE DEF ls
<1>4. \A i \in 1..n : n - i < RING => Ring(ls)[(i - 1) % RING] = ls[i]
  <2>1. \A i \in 1..n : n - i < RING => Ring(ls)[(i - 1) % RING] = Kept(ls[i])
    BY <1>0, RingHas
  <2>2. \A i \in 1..n : ls[i] \in Seq(Byte) /\ Len(ls[i]) < LINE_BUF - 1
    BY <1>0, <1>s, ElementOfSeq DEF Short
  <2>3. \A i \in 1..n : Kept(ls[i]) = ls[i]
    BY <2>2, KeptIs
  <2>4. QED
    BY <2>1, <2>3
<1>r. RING \in Nat
  BY ToolSizes
<1>5. m \in 0..n /\ m <= RING
  BY <1>0, <1>r DEF Least
<1> HIDE DEF n, m
<1>6. start \in 0..n /\ n - start = m
  BY <1>0, <1>5
<1>7. \A k \in 1..m : Ring(ls)[(start + (k - 1)) % RING] = ls[start + k]
  <2> SUFFICES ASSUME NEW k \in 1..m PROVE Ring(ls)[(start + (k - 1)) % RING] = ls[start + k]
    OBVIOUS
  <2> DEFINE i == start + k
  <2>1. i \in 1..n /\ n - i < RING /\ start + (k - 1) = i - 1
    BY <1>0, <1>5, <1>r
  <2> HIDE DEF i, start
  <2>2. QED
    BY <1>4, <2>1 DEF i
<1>8. SubSeq(ls, start + 1, n) = [k \in 1..m |-> ls[start + k]]
  <2> DEFINE q == SubSeq(ls, start + 1, n)
  <2>1. n = Len(ls) /\ \A k \in 1..n : ls[k] \in Seq(Byte)
    BY <1>0, ElementOfSeq DEF n
  <2> HIDE DEF start
  <2>2. q \in Seq(Seq(Byte)) /\ Len(q) = m /\ \A k \in 1..m : q[k] = ls[start + k]
    BY <1>0, <1>5, <1>6, <2>1
  <2> HIDE DEF q
  <2>3. q = [k \in 1..Len(q) |-> q[k]]
    BY <2>2, LenProperties
  <2>4. QED
    BY <2>2, <2>3 DEF q
<1> HIDE DEF start
<1>9. cmd_tail(f, count) = [k \in 1..m |-> ls[start + k]]
  BY <1>3, <1>6, <1>7
<1>10. cmd_tail(f, count) = SubSeq(ls, start + 1, n)
  BY <1>8, <1>9
<1>11. QED
  BY <1>10

-----------------------------------------------------------------------------
(* The text commands: uniq.                                                 *)

\* The places where a line differs from the one before.
NewTo(ls, n) == {i \in 1..n : i = 1 \/ ls[i] # ls[i - 1]}

\* What uniq has printed after n lines.
UniqTo(ls, n) == Chosen(ls, NewTo(ls, n))

LEMMA NewNext ==
  ASSUME NEW ls, NEW n \in Nat
  PROVE  /\ NewTo(ls, n) \in SUBSET (1..n)
         /\ n = 0 \/ ls[n + 1] # ls[n] => NewTo(ls, n + 1) = NewTo(ls, n) \cup {n + 1}
         /\ n # 0 /\ ls[n + 1] = ls[n] => NewTo(ls, n + 1) = NewTo(ls, n)
<1>1. \A i \in 1..(n + 1) : i \in 1..n \/ i = n + 1
  OBVIOUS
<1>2. 1..n \subseteq 1..(n + 1) /\ n + 1 \in 1..(n + 1) /\ (n + 1 = 1 <=> n = 0) /\ (n + 1) - 1 = n
  OBVIOUS
<1>3. n + 1 \in NewTo(ls, n + 1) <=> n = 0 \/ ls[n + 1] # ls[n]
  BY <1>2 DEF NewTo
<1>4. \A i \in 1..n : i \in NewTo(ls, n + 1) <=> i \in NewTo(ls, n)
  BY <1>2 DEF NewTo
<1>5. NewTo(ls, n) \subseteq 1..n /\ NewTo(ls, n + 1) \subseteq 1..(n + 1)
  BY DEF NewTo
<1>6. QED
  BY <1>1, <1>3, <1>4, <1>5

\* The last line that was printed is the last line that was read.
UniqLast(ls, n, V) ==
    /\ UniqTo(ls, n) \in Seq(V)
    /\ n = 0 => UniqTo(ls, n) = <<>>
    /\ n > 0 => UniqTo(ls, n) # <<>> /\ UniqTo(ls, n)[Len(UniqTo(ls, n))] = ls[n]

LEMMA UniqNext ==
  ASSUME NEW V, NEW ls \in Seq(V), NEW n \in 0..(Len(ls) - 1), UniqLast(ls, n, V),
         \A i \in 1..Len(ls) : Kept(ls[i]) = ls[i]
  PROVE  UniqLast(ls, n + 1, V) /\ UniqTo(ls, n + 1) = Differ(UniqTo(ls, n), ls[n + 1])
<1> DEFINE o == UniqTo(ls, n)
           q == UniqTo(ls, n + 1)
           e == ls[n + 1]
<1>0. Len(ls) \in Nat /\ n \in Nat /\ n + 1 \in 1..Len(ls) /\ n + 1 > 0 /\ n + 1 # 0
  BY LenProperties
<1>1. Elements(ls, n + 1, V) /\ e \in V
  BY <1>0, ElementOfSeq DEF Elements
<1>2. /\ NewTo(ls, n) \in SUBSET (1..n)
      /\ n = 0 \/ e # ls[n] => NewTo(ls, n + 1) = NewTo(ls, n) \cup {n + 1}
      /\ n # 0 /\ e = ls[n] => NewTo(ls, n + 1) = NewTo(ls, n)
  BY <1>0, NewNext
<1>3. Chosen(ls, NewTo(ls, n) \cup {n + 1}) = Append(o, e)
  BY <1>0, <1>1, <1>2, ChosenGrows DEF UniqTo
<1>4. n = 0 \/ e # ls[n] => q = Append(o, e)
  BY <1>2, <1>3 DEF UniqTo
<1>5. n # 0 /\ e = ls[n] => q = o
  BY <1>2 DEF UniqTo
<1>6. o \in Seq(V) /\ (n = 0 => o = <<>>) /\ (n > 0 => o # <<>> /\ o[Len(o)] = ls[n])
  BY DEF UniqLast
<1> HIDE DEF o, q, e
<1>7. Append(o, e) \in Seq(V) /\ Append(o, e) # <<>> /\ Append(o, e)[Len(Append(o, e))] = e
  BY <1>1, <1>6, AppendProperties
<1>8. q \in Seq(V) /\ q # <<>> /\ q[Len(q)] = e
  <2>1. CASE n = 0 \/ e # ls[n]
    BY <1>4, <1>7, <2>1
  <2>2. CASE n # 0 /\ e = ls[n]
    BY <1>0, <1>5, <1>6, <2>2
  <2>3. QED
    BY <2>1, <2>2
<1>9. q = Differ(o, e)
  <2>1. CASE n = 0
    BY <1>4, <1>6, <2>1 DEF Differ
  <2>2. CASE n # 0
    <3>1. o # <<>> /\ o[Len(o)] = ls[n] /\ Kept(ls[n]) = ls[n]
      BY <1>0, <1>6, <2>2
    <3>2. QED
      BY <1>4, <1>5, <2>2, <3>1 DEF Differ
  <2>3. QED
    BY <2>1, <2>2
<1>10. UniqLast(ls, n + 1, V)
  BY <1>0, <1>8 DEF UniqLast, q, e
<1>11. QED
  BY <1>9, <1>10 DEF q, o, e

\* What sort and uniq work on.
LEMMA CollectedIs ==
  ASSUME NEW f \in Seq(Byte)
  PROVE  Collected(f) = AllLines(f, LINE_BUF - 1) /\ Collected(f) \in Seq(Seq(Byte))
<1> DEFINE ls == LinesOf(f, LINE_BUF - 1)
           l == LineTo(f, Len(f) + 1, LINE_BUF - 1)
<1>1. ls \in Seq(Seq(Byte)) /\ l \in Seq(Byte)
  BY ToolSizes, LinesAll
<1>2. Read(f) = [ended |-> ls, line |-> l]
  BY ReadIs
<1>3. AllLines(f, LINE_BUF - 1) = IF l = <<>> THEN ls ELSE Append(ls, l)
  BY DEF AllLines
<1> HIDE DEF ls, l
<1>4. Collected(f) = IF l = <<>> THEN ls ELSE Append(ls, l)
  BY <1>2 DEF Collected
<1>5. Append(ls, l) \in Seq(Seq(Byte))
  BY <1>1, AppendProperties
<1>6. QED
  BY <1>1, <1>3, <1>4, <1>5

LEMMA UniqIs ==
  ASSUME NEW f \in Seq(Byte)
  PROVE  LET all == AllLines(f, LINE_BUF - 1)
         IN  Short(all) => cmd_uniq(f) = Chosen(all, {i \in 1..Len(all) : i = 1 \/ all[i] # all[i - 1]})
<1> SUFFICES ASSUME Short(AllLines(f, LINE_BUF - 1))
             PROVE  LET all == AllLines(f, LINE_BUF - 1)
                    IN  cmd_uniq(f) = Chosen(all, {i \in 1..Len(all) : i = 1 \/ all[i] # all[i - 1]})
  OBVIOUS
<1> DEFINE ls == Collected(f)
           n == Len(ls)
           V == Seq(Byte)
           Body(v) == [k \in 0..n |-> IF k = 0 THEN <<>> ELSE Differ(v[k - 1], ls[k])]
           W == CHOOSE w : w = Body(w)
           G == [k \in 0..n |-> UniqTo(ls, k)]
<1>1. cmd_uniq(f) = W[n]
  BY DEF cmd_uniq
<1>2. ls \in Seq(V) /\ ls = AllLines(f, LINE_BUF - 1)
  BY CollectedIs
<1>s. \A i \in 1..Len(ls) : Kept(ls[i]) = ls[i]
  <2>1. \A i \in 1..Len(ls) : ls[i] \in Seq(Byte) /\ Len(ls[i]) < LINE_BUF - 1
    <3> HIDE DEF ls
    <3> QED BY <1>2, ElementOfSeq DEF Short
  <2>2. QED
    BY <2>1, KeptIs
<1> HIDE DEF ls, V
<1>0. n \in Nat
  BY <1>2, LenProperties
<1>3. UniqLast(ls, 0, V)
  <2>1. NewTo(ls, 0) = {}
    BY DEF NewTo
  <2>2. UniqTo(ls, 0) = <<>>
    BY <2>1, ChosenNone DEF UniqTo
  <2>3. <<>> \in Seq(V) /\ ~ (0 > 0)
    BY EmptySeq
  <2>4. QED
    BY <2>2, <2>3, Zenon DEF UniqLast
<1> DEFINE U == {k \in 0..n : UniqLast(ls, k, V)}
<1>4. 0 \in U
  BY <1>0, <1>3
<1>5. ASSUME NEW k \in 0..(n - 1), k \in U PROVE k + 1 \in U
  <2>1. UniqLast(ls, k + 1, V)
    BY <1>2, <1>s, <1>5, UniqNext
  <2>2. QED
    BY <1>0, <2>1
<1>6. 0..n \subseteq U
  <2> HIDE DEF n, U
  <2> QED BY <1>0, <1>4, <1>5, SetInduction
<1>7. \A k \in 1..n : Differ(UniqTo(ls, k - 1), ls[k]) = UniqTo(ls, k)
  <2> SUFFICES ASSUME NEW k \in 1..n PROVE Differ(UniqTo(ls, k - 1), ls[k]) = UniqTo(ls, k)
    OBVIOUS
  <2> DEFINE j == k - 1
  <2>1. j \in 0..(Len(ls) - 1) /\ j + 1 = k /\ j \in 0..n
    BY <1>0
  <2> HIDE DEF j
  <2>2. UniqLast(ls, j, V)
    BY <1>6, <2>1
  <2>3. Differ(UniqTo(ls, j), ls[j + 1]) = UniqTo(ls, j + 1)
    BY <1>2, <1>s, <2>1, <2>2, UniqNext
  <2>4. QED
    BY <2>1, <2>3 DEF j
<1>8. UniqTo(ls, 0) = <<>>
  BY <1>3 DEF UniqLast
<1>9. G = Body(G)
  <2>1. \A k \in 1..n : k - 1 \in 0..n
    BY <1>0
  <2>2. \A k \in 0..n : k # 0 => k \in 1..n
    BY <1>0
  <2>3. \A k \in 0..n : UniqTo(ls, k) = IF k = 0 THEN <<>> ELSE Differ(G[k - 1], ls[k])
    BY <1>7, <1>8, <2>1, <2>2
  <2>4. QED
    BY <2>3
<1>10. W = Body(W)
  BY <1>9
<1> HIDE DEF W
<1>11. W[0] = <<>> /\ \A k \in 1..n : W[k] = Differ(W[k - 1], ls[k])
  <2>1. 0 \in 0..n /\ \A k \in 1..n : k \in 0..n /\ k # 0
    BY <1>0
  <2>2. \A k \in 0..n : W[k] = IF k = 0 THEN <<>> ELSE Differ(W[k - 1], ls[k])
    BY <1>10
  <2>3. QED
    BY <2>1, <2>2
<1> DEFINE T == {k \in 0..n : W[k] = UniqTo(ls, k)}
<1>12. 0 \in T
  BY <1>0, <1>8, <1>11
<1>13. ASSUME NEW k \in 0..(n - 1), k \in T PROVE k + 1 \in T
  <2>1. k + 1 \in 1..n /\ (k + 1) - 1 = k /\ k + 1 \in 0..n
    BY <1>0
  <2>2. W[k + 1] = Differ(W[k], ls[k + 1])
    BY <1>11, <2>1
  <2>3. Differ(UniqTo(ls, k), ls[k + 1]) = UniqTo(ls, k + 1)
    BY <1>7, <2>1
  <2>4. QED
    BY <1>13, <2>1, <2>2, <2>3
<1>14. 0..n \subseteq T
  <2> HIDE DEF n, T
  <2> QED BY <1>0, <1>12, <1>13, SetInduction
<1>15. W[n] = UniqTo(ls, n)
  BY <1>0, <1>14
<1>16. UniqTo(ls, n) = Chosen(ls, {i \in 1..n : i = 1 \/ ls[i] # ls[i - 1]})
  BY DEF UniqTo, NewTo
<1>17. QED
  BY <1>1, <1>2, <1>15, <1>16

-----------------------------------------------------------------------------
(* The text commands: wc.                                                   *)

\* The words that begin among the first n characters.
StartsTo(f, n) == {i \in 1..n : f[i] \notin Gaps /\ (i = 1 \/ f[i - 1] \in Gaps)}

InWord(f, n) == n # 0 /\ f[n] \notin Gaps

WcTo(f, n) ==
    [lines |-> Cardinality(BreaksTo(f, n)), words |-> Cardinality(StartsTo(f, n)),
     bytes |-> n, in_word |-> InWord(f, n)]

LEMMA StartsNext ==
  ASSUME NEW f, NEW n \in Nat
  PROVE  Cardinality(StartsTo(f, n + 1)) =
           IF f[n + 1] \notin Gaps /\ ~ InWord(f, n) THEN Cardinality(StartsTo(f, n)) + 1
           ELSE Cardinality(StartsTo(f, n))
<1>1. \A i \in 1..(n + 1) : i \in 1..n \/ i = n + 1
  OBVIOUS
<1>2. 1..n \subseteq 1..(n + 1) /\ n + 1 \in 1..(n + 1) /\ (n + 1 = 1 <=> n = 0) /\ (n + 1) - 1 = n /\ n + 1 \notin 1..n
  OBVIOUS
<1>3. n + 1 \in StartsTo(f, n + 1) <=> f[n + 1] \notin Gaps /\ ~ InWord(f, n)
  BY <1>2 DEF StartsTo, InWord
<1>4. \A i \in 1..n : i \in StartsTo(f, n + 1) <=> i \in StartsTo(f, n)
  BY <1>2 DEF StartsTo
<1>5. StartsTo(f, n) \subseteq 1..n /\ StartsTo(f, n + 1) \subseteq 1..(n + 1)
  BY DEF StartsTo
<1>6. CASE f[n + 1] \notin Gaps /\ ~ InWord(f, n)
  <2>1. StartsTo(f, n + 1) = StartsTo(f, n) \cup {n + 1} /\ n + 1 \notin StartsTo(f, n)
    BY <1>1, <1>2, <1>3, <1>4, <1>5, <1>6
  <2>2. IsFiniteSet(StartsTo(f, n))
    BY <1>5, PlacesFinite
  <2>3. Cardinality(StartsTo(f, n) \cup {n + 1}) = Cardinality(StartsTo(f, n)) + 1
    BY <2>1, <2>2, FS_AddElement
  <2>4. QED
    BY <1>6, <2>1, <2>3
<1>7. CASE ~ (f[n + 1] \notin Gaps /\ ~ InWord(f, n))
  <2>1. StartsTo(f, n + 1) = StartsTo(f, n)
    BY <1>1, <1>3, <1>4, <1>5, <1>7
  <2>2. QED
    BY <1>7, <2>1
<1>8. QED
  BY <1>6, <1>7

LEMMA WcNext ==
  ASSUME NEW f \in Seq(Byte), NEW n \in 0..(Len(f) - 1)
  PROVE  Tally(WcTo(f, n), f[n + 1]) = WcTo(f, n + 1)
<1> DEFINE c == f[n + 1]
           L == Cardinality(BreaksTo(f, n))
           w == Cardinality(StartsTo(f, n))
           i == InWord(f, n)
<1>0. n \in Nat /\ n + 1 # 0
  BY LenProperties
<1>1. Cardinality(BreaksTo(f, n + 1)) = IF c = Break THEN L + 1 ELSE L
  <2>1. /\ BreaksTo(f, n) \in SUBSET (1..n)
        /\ c = Break => BreaksTo(f, n + 1) = BreaksTo(f, n) \cup {n + 1}
        /\ c # Break => BreaksTo(f, n + 1) = BreaksTo(f, n)
    BY BreaksNext
  <2>2. IsFiniteSet(BreaksTo(f, n)) /\ n + 1 \notin BreaksTo(f, n)
    <3>1. IsFiniteSet(BreaksTo(f, n))
      BY <1>0, <2>1, PlacesFinite
    <3>2. n + 1 \notin 1..n
      BY <1>0
    <3>3. QED
      BY <2>1, <3>1, <3>2
  <2>3. Cardinality(BreaksTo(f, n) \cup {n + 1}) = L + 1
    BY <2>2, FS_AddElement
  <2>4. QED
    BY <2>1, <2>3
<1>2. Cardinality(StartsTo(f, n + 1)) = IF c \notin Gaps /\ ~ i THEN w + 1 ELSE w
  BY <1>0, StartsNext
<1>3. InWord(f, n + 1) = (c \notin Gaps)
  BY <1>0 DEF InWord
<1>4. WcTo(f, n) = [lines |-> L, words |-> w, bytes |-> n, in_word |-> i]
  BY DEF WcTo
<1>5. WcTo(f, n + 1) =
        [lines   |-> IF c = Break THEN L + 1 ELSE L,
         words   |-> IF c \notin Gaps /\ ~ i THEN w + 1 ELSE w,
         bytes   |-> n + 1,
         in_word |-> c \notin Gaps]
  BY <1>1, <1>2, <1>3, Zenon DEF WcTo
<1> HIDE DEF c, L, w, i
<1> DEFINE r == [lines |-> L, words |-> w, bytes |-> n, in_word |-> i]
<1>6. r.lines = L /\ r.words = w /\ r.bytes = n /\ r.in_word = i
  BY Zenon
<1>7. Tally(r, c) =
        [lines   |-> IF c = Break THEN r.lines + 1 ELSE r.lines,
         words   |-> IF c \notin Gaps /\ ~ r.in_word THEN r.words + 1 ELSE r.words,
         bytes   |-> r.bytes + 1,
         in_word |-> c \notin Gaps]
  BY Zenon DEF Tally
<1> HIDE DEF r
<1>8. Tally(r, c) =
        [lines   |-> IF c = Break THEN L + 1 ELSE L,
         words   |-> IF c \notin Gaps /\ ~ i THEN w + 1 ELSE w,
         bytes   |-> n + 1,
         in_word |-> c \notin Gaps]
  BY <1>6, <1>7, Zenon
<1>9. QED
  BY <1>4, <1>5, <1>8, Zenon DEF r, c

LEMMA WcIs ==
  ASSUME NEW f \in Seq(Byte)
  PROVE  Counts(f)
<1> DEFINE n == Len(f)
           a == [lines |-> 0, words |-> 0, bytes |-> 0, in_word |-> FALSE]
           Body(v) == [k \in 0..n |-> IF k = 0 THEN a ELSE Tally(v[k - 1], f[k])]
           W == CHOOSE w : w = Body(w)
           G == [k \in 0..n |-> WcTo(f, k)]
<1>0. n \in Nat
  BY LenProperties
<1>1. cmd_wc(f) = W[n]
  BY Zenon DEF cmd_wc
<1>2. WcTo(f, 0) = a
  <2>1. BreaksTo(f, 0) = {} /\ Cardinality({}) = 0
    BY BreaksAll, FS_EmptySet
  <2>2. StartsTo(f, 0) = {}
    BY DEF StartsTo
  <2>3. InWord(f, 0) = FALSE
    BY DEF InWord
  <2>4. QED
    BY <2>1, <2>2, <2>3, Zenon DEF WcTo
<1>3. \A k \in 1..n : Tally(WcTo(f, k - 1), f[k]) = WcTo(f, k)
  <2> SUFFICES ASSUME NEW k \in 1..n PROVE Tally(WcTo(f, k - 1), f[k]) = WcTo(f, k)
    OBVIOUS
  <2> DEFINE j == k - 1
  <2>1. j \in 0..(Len(f) - 1) /\ j + 1 = k
    BY <1>0
  <2> HIDE DEF j
  <2>2. Tally(WcTo(f, j), f[j + 1]) = WcTo(f, j + 1)
    BY <2>1, WcNext
  <2>3. QED
    BY <2>1, <2>2 DEF j
<1> HIDE DEF a
<1>4. G = Body(G)
  <2>1. \A k \in 1..n : k - 1 \in 0..n
    BY <1>0
  <2>2. \A k \in 0..n : k # 0 => k \in 1..n
    BY <1>0
  <2>3. \A k \in 0..n : WcTo(f, k) = IF k = 0 THEN a ELSE Tally(G[k - 1], f[k])
    BY <1>2, <1>3, <2>1, <2>2
  <2>4. QED
    BY <2>3
<1>5. W = Body(W)
  BY <1>4
<1> HIDE DEF W
<1>6. W[0] = a /\ \A k \in 1..n : W[k] = Tally(W[k - 1], f[k])
  <2>1. 0 \in 0..n /\ \A k \in 1..n : k \in 0..n /\ k # 0
    BY <1>0
  <2>2. \A k \in 0..n : W[k] = IF k = 0 THEN a ELSE Tally(W[k - 1], f[k])
    BY <1>5
  <2>3. QED
    BY <2>1, <2>2
<1> DEFINE T == {k \in 0..n : W[k] = WcTo(f, k)}
<1>7. 0 \in T
  BY <1>0, <1>2, <1>6
<1>8. ASSUME NEW k \in 0..(n - 1), k \in T PROVE k + 1 \in T
  <2>1. k + 1 \in 1..n /\ (k + 1) - 1 = k /\ k + 1 \in 0..n
    BY <1>0
  <2>2. W[k + 1] = Tally(W[k], f[k + 1])
    BY <1>6, <2>1
  <2>3. Tally(WcTo(f, k), f[k + 1]) = WcTo(f, k + 1)
    BY <1>3, <2>1
  <2>4. QED
    BY <1>8, <2>1, <2>2, <2>3
<1>9. 0..n \subseteq T
  <2> HIDE DEF n, T
  <2> QED BY <1>0, <1>7, <1>8, SetInduction
<1>10. cmd_wc(f) = WcTo(f, n)
  BY <1>0, <1>1, <1>9
<1>11. WcTo(f, n).lines = Cardinality(BreaksTo(f, n)) /\ WcTo(f, n).bytes = n
       /\ WcTo(f, n).words = Cardinality(StartsTo(f, n))
  BY Zenon DEF WcTo
<1>12. BreaksTo(f, n) = Breaks(f)
  BY BreaksAll
<1>13. StartsTo(f, n) = {i \in 1..Len(f) : f[i] \notin Gaps /\ (i = 1 \/ f[i - 1] \in Gaps)}
  BY DEF StartsTo
<1>14. QED
  BY <1>10, <1>11, <1>12, <1>13, Zenon DEF Counts

-----------------------------------------------------------------------------
(* The text commands: grep.                                                 *)

\* The lines that contain the pattern.
Hits(ls, p) == {k \in 1..Len(ls) : Match(ls[k], p)}

\* No line is longer than the array of grep.
Fits(f) == \A e \in Breaks(f) \cup {Len(f) + 1} : Len(LineTo(f, e, Len(f))) <= GREP_BUF - 2

\* What grep has after n characters.
GrepOut(f, p, n) == Chosen(LinesTo(f, n, Len(f)), Hits(LinesTo(f, n, Len(f)), p))
GrepTo(f, p, n) == [out |-> GrepOut(f, p, n), line |-> LineTo(f, n + 1, Len(f))]

\* A line more, which is not chosen.
LEMMA ChosenSame ==
  ASSUME NEW V, NEW s \in Seq(V), NEW e \in V, NEW S \in SUBSET (1..Len(s))
  PROVE  Chosen(Append(s, e), S) = Chosen(s, S)
<1>0. Len(s) \in Nat
  BY LenProperties
<1>1. \A i \in 1..Len(s) : Append(s, e)[i] = s[i]
  BY AppendProperties
<1>2. \A k \in 1..Cardinality(S) : Nth(S, k) \in 1..Len(s)
  BY <1>0, NthIs
<1> DEFINE a == Append(s, e)
<1> HIDE DEF a
<1>3. \A k \in 1..Cardinality(S) : a[Nth(S, k)] = s[Nth(S, k)]
  BY <1>1, <1>2 DEF a
<1>4. QED
  BY <1>3 DEF Chosen, a

LEMMA HitsNext ==
  ASSUME NEW V, NEW ls \in Seq(V), NEW l \in V, NEW p
  PROVE  Chosen(Append(ls, l), Hits(Append(ls, l), p)) =
           IF Match(l, p) THEN Append(Chosen(ls, Hits(ls, p)), l) ELSE Chosen(ls, Hits(ls, p))
<1> DEFINE a == Append(ls, l)
           n == Len(ls)
           H == Hits(ls, p)
<1>0. n \in Nat
  BY LenProperties
<1>1. a \in Seq(V) /\ Len(a) = n + 1 /\ a[n + 1] = l /\ \A i \in 1..n : a[i] = ls[i]
  BY AppendProperties
<1>2. Elements(a, n + 1, V)
  BY <1>0, <1>1, ElementOfSeq DEF Elements
<1>3. H \in SUBSET (1..n)
  BY DEF Hits
<1>4. Chosen(a, H) = Chosen(ls, H)
  BY <1>3, ChosenSame
<1>5. (\A i \in 1..(n + 1) : i \in 1..n \/ i = n + 1) /\ 1..n \subseteq 1..(n + 1) /\ n + 1 \in 1..(n + 1)
  BY <1>0
<1> HIDE DEF a
<1>6. \A i \in 1..n : i \in Hits(a, p) <=> i \in H
  BY <1>1, <1>5 DEF Hits
<1>7. n + 1 \in Hits(a, p) <=> Match(l, p)
  BY <1>1, <1>5 DEF Hits
<1>8. Hits(a, p) \subseteq 1..(n + 1)
  BY <1>1 DEF Hits
<1>9. CASE Match(l, p)
  <2>1. Hits(a, p) = H \cup {n + 1}
    BY <1>3, <1>5, <1>6, <1>7, <1>8, <1>9
  <2>2. Chosen(a, H \cup {n + 1}) = Append(Chosen(a, H), a[n + 1])
    BY <1>0, <1>2, <1>3, ChosenGrows
  <2>3. QED
    BY <1>1, <1>4, <1>9, <2>1, <2>2 DEF a
<1>10. CASE ~ Match(l, p)
  <2>1. Hits(a, p) = H
    BY <1>3, <1>5, <1>6, <1>7, <1>8, <1>10
  <2>2. QED
    BY <1>4, <1>10, <2>1 DEF a
<1>11. QED
  BY <1>9, <1>10

\* There is room for a character that does not end the line.
LEMMA LineFits ==
  ASSUME NEW f \in Seq(Byte), NEW n \in 0..(Len(f) - 1), Fits(f), f[n + 1] # Break
  PROVE  Len(LineTo(f, n + 1, Len(f))) < GREP_BUF - 2 /\ Len(LineTo(f, n + 1, Len(f))) < Len(f)
<1> DEFINE E == {b \in Breaks(f) : b > n + 1} \cup {Len(f) + 1}
           l == Before(f, n + 1)
           L == Len(f)
<1>0. L \in Nat /\ Breaks(f) \subseteq 1..L
  BY BreaksFinite
<1>1. n \in 0..L /\ n \in Nat /\ n < L /\ n + 1 \in 1..L
  BY <1>0
<1>2. E \in SUBSET Nat /\ E # {} /\ \A b \in E : b <= L + 1 /\ b >= n + 2
  BY <1>0, <1>1
<1>3. PICK e \in E : \A y \in E : e <= y
  BY <1>2, LeastNat
<1>4. e \in Breaks(f) \cup {L + 1}
  BY <1>3
<1>5. l \in 0..n /\ (l = 0 \/ l \in Breaks(f)) /\ \A b \in Breaks(f) : b <= n => b <= l
  BY <1>1, BeforeIs
<1>6. n + 1 \notin Breaks(f)
  BY DEF Breaks
<1> DEFINE m == e - 1
<1>7. m \in 0..L /\ m + 1 = e /\ m \in Nat /\ m >= n + 1 /\ l \in 0..m
  BY <1>0, <1>1, <1>2, <1>5
<1>8. \A b \in Breaks(f) : b <= m => b <= l
  <2> SUFFICES ASSUME NEW b \in Breaks(f), b <= m PROVE b <= l
    OBVIOUS
  <2>1. b \in Nat
    BY <1>0
  <2>2. b \notin E
    BY <1>3, <1>7, <2>1
  <2>3. ~ (b > n + 1)
    BY <2>2
  <2>4. b <= n
    BY <1>1, <1>6, <2>1, <2>3
  <2>5. QED
    BY <1>5, <2>4
<1> HIDE DEF l, E, m, L
<1>9. Before(f, m + 1) = l
  BY <1>5, <1>7, <1>8, BeforeOnce DEF L
<1>10. Len(LineTo(f, m + 1, L)) = Least(m, l + L) - l
  BY <1>0, <1>7, <1>9, LineLen DEF L
<1>11. Len(LineTo(f, n + 1, L)) = Least(n, l + L) - l
  BY <1>0, <1>1, LineLen DEF L, l
<1>12. Least(m, l + L) = m /\ Least(n, l + L) = n
  BY <1>0, <1>1, <1>5, <1>7 DEF Least
<1>13. Len(LineTo(f, m + 1, L)) <= GREP_BUF - 2
  BY <1>4, <1>7 DEF Fits, L
<1>14. GREP_BUF \in Nat /\ GREP_BUF - 2 \in Nat
  BY TextToolsAssumption
<1> DEFINE x == Len(LineTo(f, m + 1, L))
           y == Len(LineTo(f, n + 1, L))
<1>15. x = m - l /\ y = n - l /\ x <= GREP_BUF - 2
  BY <1>10, <1>11, <1>12, <1>13
<1> HIDE DEF x, y
<1>16. y < GREP_BUF - 2 /\ y < L
  BY <1>0, <1>1, <1>5, <1>7, <1>14, <1>15
<1>17. QED
  BY <1>16 DEF y, L

LEMMA OtherGrepLine ==
  ASSUME NEW o, NEW l, NEW x
  PROVE  [[out |-> o, line |-> l] EXCEPT !.line = x] = [out |-> o, line |-> x]
OBVIOUS

LEMMA GrepNext ==
  ASSUME NEW f \in Seq(Byte), NEW n \in 0..(Len(f) - 1), NEW p, Fits(f)
  PROVE  Look(GrepTo(f, p, n), f[n + 1], p) = GrepTo(f, p, n + 1)
<1> DEFINE size == Len(f)
           ls == LinesTo(f, n, size)
           l == LineTo(f, n + 1, size)
           o == GrepOut(f, p, n)
           c == f[n + 1]
           r == [out |-> o, line |-> l]
<1>0. size \in Nat /\ n \in 0..size
  BY LenProperties
<1>1. (n + 1) + 1 = n + 2
  OBVIOUS
<1>2. /\ c = Break => LinesTo(f, n + 1, size) = Append(ls, l)
      /\ c # Break => LinesTo(f, n + 1, size) = ls
      /\ ls \in Seq(Seq(Byte))
  <2> HIDE DEF size
  <2> QED BY <1>0, LinesNext DEF size
<1>3. LineTo(f, n + 2, size) = IF c = Break THEN <<>> ELSE IF Len(l) < size THEN Append(l, c) ELSE l
  BY <1>0, LineNext
<1>4. l \in Seq(Byte)
  BY <1>0, LineLen
<1>5. c # Break => Len(l) < GREP_BUF - 2 /\ Len(l) < size /\ Len(l) \in Nat
  BY <1>4, LineFits, LenProperties
<1>6. GrepTo(f, p, n) = r /\ GrepTo(f, p, n + 1) = [out |-> GrepOut(f, p, n + 1), line |-> LineTo(f, n + 2, size)]
  BY <1>1, Zenon DEF GrepTo
<1>7. /\ c = Break => GrepOut(f, p, n + 1) = IF Match(l, p) THEN Append(o, l) ELSE o
      /\ c # Break => GrepOut(f, p, n + 1) = o
  <2>1. o = Chosen(ls, Hits(ls, p)) /\ GrepOut(f, p, n + 1) = Chosen(LinesTo(f, n + 1, size), Hits(LinesTo(f, n + 1, size), p))
    BY DEF GrepOut
  <2> HIDE DEF o, ls, l, c, size
  <2>2. Chosen(Append(ls, l), Hits(Append(ls, l), p)) =
           IF Match(l, p) THEN Append(Chosen(ls, Hits(ls, p)), l) ELSE Chosen(ls, Hits(ls, p))
    BY <1>2, <1>4, HitsNext
  <2>3. QED
    BY <1>2, <2>1, <2>2
<1>8. r.out = o /\ r.line = l
  OBVIOUS
<1>9. [r EXCEPT !.line = Append(l, c)] = [out |-> o, line |-> Append(l, c)]
  BY OtherGrepLine
<1>g. GREP_BUF - 2 \in Nat
  BY ToolSizes
<1> HIDE DEF o, ls, l, c, r, size
<1>10. CASE c = Break
  <2>1. Look(r, c, p) = [out |-> IF Match(r.line, p) THEN Append(r.out, r.line) ELSE r.out, line |-> <<>>]
    BY <1>10 DEF Look
  <2>2. Look(r, c, p) = [out |-> IF Match(l, p) THEN Append(o, l) ELSE o, line |-> <<>>]
    BY <1>8, <2>1, Zenon
  <2>3. GrepOut(f, p, n + 1) = (IF Match(l, p) THEN Append(o, l) ELSE o) /\ LineTo(f, n + 2, size) = <<>>
    BY <1>3, <1>7, <1>10
  <2>4. QED
    BY <1>6, <2>2, <2>3, Zenon DEF c
<1>11. CASE c # Break
  <2>1. ~ (Len(r.line) >= GREP_BUF - 2)
    BY <1>5, <1>8, <1>11, <1>g
  <2>2. Look(r, c, p) = [r EXCEPT !.line = Append(r.line, c)]
    BY <1>11, <2>1 DEF Look
  <2>3. Look(r, c, p) = [out |-> o, line |-> Append(l, c)]
    BY <1>8, <1>9, <2>2, Zenon
  <2>4. GrepOut(f, p, n + 1) = o /\ LineTo(f, n + 2, size) = Append(l, c)
    BY <1>3, <1>5, <1>7, <1>11
  <2>5. QED
    BY <1>6, <2>3, <2>4, Zenon DEF c
<1>12. QED
  BY <1>10, <1>11

\* Every line of the sequence is short enough.
ShortEnough(ls) == \A k \in 1..Len(ls) : Len(ls[k]) <= GREP_BUF - 2

\* All lines fit the array, if those of the sequence do.
LEMMA FitsAll ==
  ASSUME NEW f \in Seq(Byte), Ended(f), ShortEnough(LinesOf(f, Len(f)))
  PROVE  Fits(f)
<1> DEFINE n == Len(f)
           B == Breaks(f)
           s == LinesAt(f, n)
           ls == Chosen(s, B)
<1>0. n \in Nat /\ B \in SUBSET (1..n)
  BY BreaksFinite
<1>1. ls = LinesOf(f, n)
  BY DEF LinesOf, LinesAt
<1>2. Elements(s, n, Seq(Byte))
  BY <1>0, LinesAtType
<1>3. \A e \in B : s[e] = LineTo(f, e, n)
  BY <1>0 DEF LinesAt
<1> HIDE DEF s, B, n
<1>4. Len(ls) = Cardinality(B) /\ Cardinality(B) \in Nat
  BY <1>0, <1>2, ChosenType
<1>5. ASSUME NEW e \in B PROVE Len(LineTo(f, e, n)) <= GREP_BUF - 2
  <2> DEFINE k == Rank(B, e)
  <2>1. k \in 1..Cardinality(B)
    <3> DEFINE C == {j \in B : j <= e}
    <3>1. e \in Int /\ e <= e
      BY <1>0
    <3>2. IsFiniteSet(C) /\ k \in Nat /\ k <= Cardinality(B)
      BY <1>0, <3>1, RankType
    <3>3. e \in C
      BY <3>1
    <3>4. k = Cardinality(C)
      BY DEF Rank
    <3> HIDE DEF C, k
    <3>5. k # 0
      BY <3>2, <3>3, <3>4, FS_EmptySet
    <3>6. QED
      BY <1>4, <3>2, <3>5
  <2> HIDE DEF k
  <2>2. Nth(B, k) = e
    BY <1>0, <2>1, NthOf DEF k
  <2>3. ls[k] = LineTo(f, e, n)
    BY <1>3, <2>1, <2>2 DEF Chosen
  <2>4. k \in 1..Len(ls)
    BY <1>4, <2>1
  <2>5. Len(ls[k]) <= GREP_BUF - 2
    <3> HIDE DEF ls
    <3> QED BY <1>1, <2>4 DEF ShortEnough, n
  <2>6. QED
    BY <2>3, <2>5
<1>6. Len(LineTo(f, n + 1, n)) <= GREP_BUF - 2
  <2>1. LineTo(f, n + 1, n) = <<>>
    BY <1>0, LastLine DEF n
  <2>2. QED
    BY <2>1, ToolSizes
<1>7. QED
  BY <1>5, <1>6 DEF Fits, n, B

LEMMA GrepIs ==
  ASSUME NEW f \in Seq(Byte), NEW p
  PROVE  Finds(f, p)
<1> SUFFICES ASSUME Fits(f)
             PROVE  cmd_grep(p, f) = Chosen(LinesOf(f, Len(f)), Hits(LinesOf(f, Len(f)), p))
  <2> DEFINE ls == LinesOf(f, Len(f))
  <2>1. SUFFICES ASSUME Ended(f), ShortEnough(AllLines(f, Len(f)))
                 PROVE  cmd_grep(p, f) = Chosen(AllLines(f, Len(f)), Hits(AllLines(f, Len(f)), p))
    BY DEF Finds, ShortEnough, Hits
  <2>2. Len(f) \in Nat
    BY LenProperties
  <2>3. AllLines(f, Len(f)) = LinesOf(f, Len(f))
    BY <2>1, <2>2, LastLine
  <2>4. Fits(f)
    BY <2>1, <2>3, FitsAll
  <2>5. QED
    BY <2>3, <2>4
<1> DEFINE n == Len(f)
           a == [out |-> <<>>, line |-> <<>>]
           Body(v) == [k \in 0..n |-> IF k = 0 THEN a ELSE Look(v[k - 1], f[k], p)]
           W == CHOOSE w : w = Body(w)
           G == [k \in 0..n |-> GrepTo(f, p, k)]
<1>0. n \in Nat
  BY LenProperties
<1>1. cmd_grep(p, f) = W[n].out
  BY DEF cmd_grep
<1>2. GrepTo(f, p, 0) = a
  <2>1. 0 + 1 = 1
    OBVIOUS
  <2>2. LinesTo(f, 0, n) = <<>> /\ LineTo(f, 1, n) = <<>>
    BY <1>0, LinesAll
  <2>3. Hits(<<>>, p) = {}
    BY DEF Hits
  <2>4. GrepOut(f, p, 0) = <<>>
    BY <2>2, <2>3, ChosenNone DEF GrepOut
  <2>5. QED
    BY <2>1, <2>2, <2>4 DEF GrepTo
<1>3. \A k \in 1..n : Look(GrepTo(f, p, k - 1), f[k], p) = GrepTo(f, p, k)
  <2> SUFFICES ASSUME NEW k \in 1..n PROVE Look(GrepTo(f, p, k - 1), f[k], p) = GrepTo(f, p, k)
    OBVIOUS
  <2> DEFINE j == k - 1
  <2>1. j \in 0..(Len(f) - 1) /\ j + 1 = k
    BY <1>0
  <2> HIDE DEF j
  <2>2. Look(GrepTo(f, p, j), f[j + 1], p) = GrepTo(f, p, j + 1)
    BY <2>1, GrepNext
  <2>3. QED
    BY <2>1, <2>2 DEF j
<1> HIDE DEF a
<1>4. G = Body(G)
  <2>1. \A k \in 1..n : k - 1 \in 0..n
    BY <1>0
  <2>2. \A k \in 0..n : k # 0 => k \in 1..n
    BY <1>0
  <2>3. \A k \in 0..n : GrepTo(f, p, k) = IF k = 0 THEN a ELSE Look(G[k - 1], f[k], p)
    BY <1>2, <1>3, <2>1, <2>2
  <2>4. QED
    BY <2>3
<1>5. W = Body(W)
  BY <1>4
<1> HIDE DEF W
<1>6. W[0] = a /\ \A k \in 1..n : W[k] = Look(W[k - 1], f[k], p)
  <2>1. 0 \in 0..n /\ \A k \in 1..n : k \in 0..n /\ k # 0
    BY <1>0
  <2>2. \A k \in 0..n : W[k] = IF k = 0 THEN a ELSE Look(W[k - 1], f[k], p)
    BY <1>5
  <2>3. QED
    BY <2>1, <2>2
<1> DEFINE T == {k \in 0..n : W[k] = GrepTo(f, p, k)}
<1>7. 0 \in T
  BY <1>0, <1>2, <1>6
<1>8. ASSUME NEW k \in 0..(n - 1), k \in T PROVE k + 1 \in T
  <2>1. k + 1 \in 1..n /\ (k + 1) - 1 = k /\ k + 1 \in 0..n
    BY <1>0
  <2>2. W[k + 1] = Look(W[k], f[k + 1], p)
    BY <1>6, <2>1
  <2>3. Look(GrepTo(f, p, k), f[k + 1], p) = GrepTo(f, p, k + 1)
    BY <1>3, <2>1
  <2>4. QED
    BY <1>8, <2>1, <2>2, <2>3
<1>9. 0..n \subseteq T
  <2> HIDE DEF n, T
  <2> QED BY <1>0, <1>7, <1>8, SetInduction
<1>10. W[n] = GrepTo(f, p, n)
  BY <1>0, <1>9
<1>11. W[n].out = GrepOut(f, p, n)
  BY <1>10 DEF GrepTo
<1>12. LinesTo(f, n, n) = LinesOf(f, n)
  BY <1>0, LinesAll
<1>13. QED
  BY <1>1, <1>11, <1>12 DEF GrepOut

-----------------------------------------------------------------------------
(* The text commands: sort.                                                 *)

\* The first difference of two lines decides: the comparison is asymmetric.
LEMMA HigherOneWay ==
  ASSUME NEW l \in Seq(Int), NEW m \in Seq(Int), Higher(l, m)
  PROVE  ~ Higher(m, l)
<1> SUFFICES ASSUME Higher(m, l) PROVE FALSE
  OBVIOUS
<1>0. /\ Len(l) \in Nat /\ Len(m) \in Nat
      /\ \A i \in 1..Len(l) : l[i] \in Int
      /\ \A i \in 1..Len(m) : m[i] \in Int
  BY LenProperties, ElementOfSeq
<1>1. PICK k \in 1..Len(l) : /\ k > Len(m) \/ (k <= Len(m) /\ l[k] > m[k])
                             /\ \A i \in 1..k - 1 : i <= Len(m) /\ l[i] = m[i]
  BY DEF Higher
<1>2. PICK j \in 1..Len(m) : /\ j > Len(l) \/ (j <= Len(l) /\ m[j] > l[j])
                             /\ \A i \in 1..j - 1 : i <= Len(l) /\ m[i] = l[i]
  BY DEF Higher
<1>3. CASE k = j
  <2>1. k <= Len(m) /\ k <= Len(l) /\ l[k] > m[k] /\ m[k] > l[k] /\ l[k] \in Int /\ m[k] \in Int
    BY <1>0, <1>1, <1>2, <1>3
  <2>2. QED
    BY <2>1
<1>4. CASE k < j
  <2>1. k \in 1..(j - 1) /\ k <= Len(m) /\ k \in 1..Len(m)
    BY <1>0, <1>1, <1>2, <1>4
  <2>2. m[k] = l[k] /\ l[k] > m[k] /\ l[k] \in Int
    BY <1>0, <1>1, <1>2, <2>1
  <2>3. QED
    BY <2>2
<1>5. CASE j < k
  <2>1. j \in 1..(k - 1) /\ j <= Len(l) /\ j \in 1..Len(l)
    BY <1>0, <1>1, <1>2, <1>5
  <2>2. m[j] = l[j] /\ m[j] > l[j] /\ l[j] \in Int
    BY <1>0, <1>1, <1>2, <2>1
  <2>3. QED
    BY <2>2
<1>6. QED
  BY <1>0, <1>1, <1>2, <1>3, <1>4, <1>5

\* Where l is above k, no line is both not below l and not above k.
LEMMA HigherBetween ==
  ASSUME NEW l \in Seq(Int), NEW m \in Seq(Int), NEW k \in Seq(Int), Higher(l, k)
  PROVE  Higher(l, m) \/ Higher(m, k)
<1>0. /\ Len(l) \in Nat /\ Len(m) \in Nat /\ Len(k) \in Nat
      /\ \A i \in 1..Len(l) : l[i] \in Int
      /\ \A i \in 1..Len(m) : m[i] \in Int
      /\ \A i \in 1..Len(k) : k[i] \in Int
  BY LenProperties, ElementOfSeq
<1>1. PICK d \in 1..Len(l) : /\ d > Len(k) \/ (d <= Len(k) /\ l[d] > k[d])
                             /\ \A i \in 1..d - 1 : i <= Len(k) /\ l[i] = k[i]
  BY DEF Higher
<1>d. d \in Nat /\ d >= 1 /\ d <= Len(l)
  BY <1>0
<1> DEFINE D == {i \in 1..d : i > Len(m) \/ l[i] # m[i]}
<1>2. CASE D = {}
  <2>1. \A i \in 1..d : i <= Len(m) /\ l[i] = m[i]
    <3> SUFFICES ASSUME NEW i \in 1..d PROVE i <= Len(m) /\ l[i] = m[i]
      OBVIOUS
    <3>1. i \notin D
      BY <1>2
    <3>2. ~ (i > Len(m)) /\ l[i] = m[i]
      BY <3>1
    <3>3. QED
      BY <1>0, <1>d, <3>2
  <2>2. d \in 1..d /\ \A i \in 1..(d - 1) : i \in 1..d
    BY <1>d
  <2>3. d \in 1..Len(m) /\ l[d] = m[d]
    BY <1>0, <1>d, <2>1, <2>2
  <2>4. d > Len(k) \/ (d <= Len(k) /\ m[d] > k[d])
    BY <1>1, <2>3
  <2>5. \A i \in 1..(d - 1) : i <= Len(k) /\ m[i] = k[i]
    BY <1>1, <2>1, <2>2
  <2>6. Higher(m, k)
    BY <2>3, <2>4, <2>5 DEF Higher
  <2>7. QED
    BY <2>6
<1>3. CASE D # {}
  <2>1. D \in SUBSET Nat
    BY <1>d
  <2>2. PICK i \in D : \A y \in D : i <= y
    BY <1>3, <2>1, LeastNat
  <2>3. i \in 1..d /\ i \in 1..Len(l) /\ i \in Nat /\ (i > Len(m) \/ l[i] # m[i])
    BY <1>0, <1>d, <2>2
  <2>4. \A j \in 1..(i - 1) : j \in 1..d /\ j \notin D
    BY <1>d, <2>1, <2>2, <2>3
  <2>5. \A j \in 1..(i - 1) : j <= Len(m) /\ l[j] = m[j]
    BY <1>0, <2>4
  <2> HIDE DEF D
  <2>6. CASE i > Len(m) \/ (i <= Len(m) /\ l[i] > m[i])
    BY <2>3, <2>5, <2>6 DEF Higher
  <2>7. CASE i <= Len(m) /\ ~ (l[i] > m[i])
    <3>1. i \in 1..Len(m) /\ m[i] \in Int /\ l[i] \in Int
      BY <1>0, <2>3, <2>7
    <3>2. m[i] > l[i]
      BY <1>0, <2>3, <2>7, <3>1
    <3>3. \A j \in 1..(i - 1) : j \in 1..(d - 1)
      BY <1>d, <2>3
    <3>4. \A j \in 1..(i - 1) : j <= Len(k) /\ m[j] = k[j]
      BY <1>1, <2>5, <3>3
    <3>5. i > Len(k) \/ (i <= Len(k) /\ m[i] > k[i])
      <4>1. CASE i < d
        <5>1. i \in 1..(d - 1)
          BY <1>d, <2>3, <4>1
        <5>2. i <= Len(k) /\ l[i] = k[i]
          BY <1>1, <5>1
        <5>3. QED
          BY <3>2, <5>2
      <4>2. CASE i = d
        <5>1. CASE d > Len(k)
          BY <4>2, <5>1
        <5>2. CASE d <= Len(k) /\ l[d] > k[d]
          <6>1. k[d] \in Int
            BY <1>0, <1>d, <5>2
          <6>2. m[d] > k[d]
            BY <3>1, <3>2, <4>2, <5>2, <6>1
          <6>3. QED
            BY <4>2, <5>2, <6>2
        <5>3. QED
          BY <1>1, <5>1, <5>2
      <4>3. QED
        BY <1>d, <2>3, <4>1, <4>2
    <3>6. Higher(m, k)
      BY <3>1, <3>4, <3>5 DEF Higher
    <3>7. QED
      BY <3>6
  <2>8. QED
    BY <1>0, <2>3, <2>6, <2>7
<1>4. QED
  BY <1>2, <1>3

\* The places of a line.
PlacesOf(s, n, l) == {k \in 1..n : s[k] = l}

\* Every line is there as often in t as in s.
SameLines(s, t, n, V) == \A l \in V : Cardinality(PlacesOf(s, n, l)) = Cardinality(PlacesOf(t, n, l))

\* The line at j + 1 is not below one before it.
Topped(s, j) == \A i \in 1..j : ~ Higher(s[i], s[j + 1])

\* The last i lines are not below any line before them.
Settled(s, n, i) == \A a \in 1..n, b \in 1..n : n - i < b /\ a < b => ~ Higher(s[a], s[b])

\* The exchange of two neighbours.
Swap(j, k) == IF k = j THEN j + 1 ELSE IF k = j + 1 THEN j ELSE k

LEMMA SwapIs ==
  ASSUME NEW n \in Nat, NEW j \in 1..(n - 1)
  PROVE  \A k \in 1..n : Swap(j, k) \in 1..n /\ Swap(j, Swap(j, k)) = k
BY DEF Swap

LEMMA SwapKeepsLines ==
  ASSUME NEW n \in Nat, NEW j \in 1..(n - 1), NEW V, NEW s, NEW t,
         \A k \in 1..n : t[k] = s[Swap(j, k)]
  PROVE  SameLines(s, t, n, V)
<1> SUFFICES ASSUME NEW l \in V
             PROVE  Cardinality(PlacesOf(s, n, l)) = Cardinality(PlacesOf(t, n, l))
  BY DEF SameLines
<1> DEFINE S == PlacesOf(s, n, l)
           T == PlacesOf(t, n, l)
           g == [k \in S |-> Swap(j, k)]
<1>1. \A k \in 1..n : Swap(j, k) \in 1..n /\ Swap(j, Swap(j, k)) = k
  BY SwapIs
<1>2. S \in SUBSET (1..n) /\ T \in SUBSET (1..n)
  BY DEF PlacesOf
<1>3. \A k \in S : Swap(j, k) \in T
  BY <1>1 DEF PlacesOf
<1>4. \A k \in T : Swap(j, k) \in S
  BY <1>1 DEF PlacesOf
<1> HIDE DEF S, T
<1>5. g \in [S -> T]
  BY <1>3
<1>6. \A x \in S, y \in S : g[x] = g[y] => x = y
  <2> SUFFICES ASSUME NEW x \in S, NEW y \in S, g[x] = g[y] PROVE x = y
    OBVIOUS
  <2>1. Swap(j, x) = Swap(j, y)
    OBVIOUS
  <2>2. QED
    BY <1>1, <1>2, <2>1
<1>7. \A y \in T : \E x \in S : g[x] = y
  <2> SUFFICES ASSUME NEW y \in T PROVE \E x \in S : g[x] = y
    OBVIOUS
  <2>1. Swap(j, y) \in S /\ g[Swap(j, y)] = y
    BY <1>1, <1>2, <1>4
  <2>2. QED
    BY <2>1
<1>8. ExistsBijection(S, T)
  <2> HIDE DEF g
  <2>1. g \in Bijection(S, T)
    BY <1>5, <1>6, <1>7 DEF Bijection, Injection, Surjection, IsInjective
  <2>2. QED
    BY <2>1, Zenon DEF ExistsBijection
<1>9. IsFiniteSet(S)
  BY <1>2, PlacesFinite
<1>10. QED
  BY <1>8, <1>9, FS_Bijection DEF S, T

\* What the comparison of two neighbours does to the lines.
LEMMA OrderedKeeps ==
  ASSUME NEW V, V \subseteq Seq(Int), NEW n \in Nat, NEW s \in [1..n -> V], NEW j \in 1..(n - 1)
  PROVE  LET t == Ordered(s, j)
         IN  /\ t \in [1..n -> V] /\ SameLines(s, t, n, V)
             /\ Topped(s, j - 1) => Topped(t, j)
             /\ \A i \in 0..((n - j) - 1) : Settled(s, n, i) => Settled(t, n, i)
<1> DEFINE t == Ordered(s, j)
<1>0. j \in Nat /\ j \in 1..n /\ j + 1 \in 1..n /\ j # j + 1 /\ DOMAIN s = 1..n
  OBVIOUS
<1>1. \A k \in 1..n : s[k] \in Seq(Int)
  OBVIOUS
<1>2. CASE ~ Higher(s[j], s[j + 1])
  <2>1. t = s
    BY <1>2 DEF Ordered
  <2>2. SameLines(s, s, n, V)
    BY DEF SameLines
  <2>3. ASSUME Topped(s, j - 1) PROVE Topped(s, j)
    <3> SUFFICES ASSUME NEW i \in 1..j PROVE ~ Higher(s[i], s[j + 1])
      BY DEF Topped
    <3>1. CASE i = j
      BY <1>2, <3>1
    <3>2. CASE i # j
      <4>1. i \in 1..(j - 1) /\ (j - 1) + 1 = j /\ i \in 1..n
        BY <1>0, <3>2
      <4>2. ~ Higher(s[i], s[j])
        BY <2>3, <4>1 DEF Topped
      <4>3. QED
        BY <1>0, <1>1, <1>2, <4>1, <4>2, HigherBetween
    <3>3. QED
      BY <3>1, <3>2
  <2>4. QED
    BY <2>1, <2>2, <2>3
<1>3. CASE Higher(s[j], s[j + 1])
  <2>1. t = [s EXCEPT ![j] = s[j + 1], ![j + 1] = s[j]]
    BY <1>3 DEF Ordered
  <2>2. t \in [1..n -> V]
    BY <1>0, <2>1
  <2>3. t[j] = s[j + 1] /\ t[j + 1] = s[j] /\ \A k \in 1..n : k # j /\ k # j + 1 => t[k] = s[k]
    BY <1>0, <2>1
  <2>4. \A k \in 1..n : t[k] = s[Swap(j, k)]
    BY <2>3 DEF Swap
  <2> HIDE DEF t
  <2>5. SameLines(s, t, n, V)
    BY <2>4, SwapKeepsLines
  <2>6. ASSUME Topped(s, j - 1) PROVE Topped(t, j)
    <3> SUFFICES ASSUME NEW i \in 1..j PROVE ~ Higher(t[i], t[j + 1])
      BY DEF Topped
    <3>1. CASE i = j
      <4>1. ~ Higher(s[j + 1], s[j])
        BY <1>0, <1>1, <1>3, HigherOneWay
      <4>2. QED
        BY <2>3, <3>1, <4>1
    <3>2. CASE i # j
      <4>1. i \in 1..(j - 1) /\ (j - 1) + 1 = j /\ i \in 1..n /\ i # j + 1
        BY <1>0, <3>2
      <4>2. ~ Higher(s[i], s[j])
        BY <2>6, <4>1 DEF Topped
      <4>3. QED
        BY <2>3, <3>2, <4>1, <4>2
    <3>3. QED
      BY <3>1, <3>2
  <2>7. ASSUME NEW i \in 0..((n - j) - 1), Settled(s, n, i) PROVE Settled(t, n, i)
    <3> SUFFICES ASSUME NEW a \in 1..n, NEW b \in 1..n, n - i < b, a < b
                 PROVE  ~ Higher(t[a], t[b])
      BY DEF Settled
    <3> DEFINE c == Swap(j, a)
    <3>1. b # j /\ b # j + 1
      BY <1>0
    <3>2. c \in 1..n /\ c < b
      BY <1>0 DEF Swap
    <3>3. t[a] = s[c] /\ t[b] = s[b]
      BY <2>3, <2>4, <3>1
    <3> HIDE DEF c
    <3>4. ~ Higher(s[c], s[b])
      BY <2>7, <3>2 DEF Settled
    <3>5. QED
      BY <3>3, <3>4
  <2>8. QED
    BY <2>2, <2>5, <2>6, <2>7 DEF t
<1>4. QED
  BY <1>2, <1>3

\* A pass puts the greatest of the lines it reaches behind them.
LEMMA PassKeeps ==
  ASSUME NEW V, V \subseteq Seq(Int), NEW n \in Nat, NEW s \in [1..n -> V], NEW i \in 0..(n - 1)
  PROVE  LET t == Pass(s, (n - i) - 1)
         IN  /\ t \in [1..n -> V] /\ SameLines(s, t, n, V)
             /\ Settled(s, n, i) => Settled(t, n, i + 1)
<1> DEFINE L == (n - i) - 1
           S == [1..n -> V]
           step == [x \in (1..L) \X S |-> Ordered(x[2], x[1])]
           Body(v) == [k \in 0..L |-> IF k = 0 THEN s ELSE Ordered(v[k - 1], k)]
           W == CHOOSE w : w = Body(w)
<1>0. L \in Nat /\ L + 1 = n - i /\ \A k \in 1..L : k \in 1..(n - 1)
  OBVIOUS
<1>1. Pass(s, L) = W[L]
  BY DEF Pass
<1> HIDE DEF L
<1>2. \A r \in S, k \in 1..L : Ordered(r, k) \in S
  BY <1>0, OrderedKeeps
<1>3. s \in S
  OBVIOUS
<1> HIDE DEF S
<1>4. step \in [(1..L) \X S -> S]
  BY <1>2
<1>5. PICK w : IsLoop(w, S, s, L, step)
  <2> HIDE DEF step
  <2>1. QED
    BY <1>0, <1>3, <1>4, Iteration, Zenon
<1>6. w = Body(w)
  <2>1. w \in [0..L -> S] /\ w[0] = s
    BY <1>5 DEF IsLoop
  <2>2. ASSUME NEW k \in 1..L
        PROVE  w[k] = Ordered(w[k - 1], k)
    <3>1. w[k - 1] \in S
      BY <1>0, <2>1
    <3>2. <<k, w[k - 1]>> \in (1..L) \X S
      BY <3>1
    <3>3. step[<<k, w[k - 1]>>] = Ordered(w[k - 1], k)
      BY <3>2
    <3>4. QED
      BY <3>3, <1>5 DEF IsLoop
  <2>3. QED
    BY <1>0, <2>1, <2>2
<1>7. W = Body(W)
  BY <1>6
<1> HIDE DEF W
<1>8. W[0] = s /\ \A k \in 1..L : W[k] = Ordered(W[k - 1], k)
  <2>1. 0 \in 0..L /\ \A k \in 1..L : k \in 0..L /\ k # 0
    BY <1>0
  <2>2. \A k \in 0..L : W[k] = IF k = 0 THEN s ELSE Ordered(W[k - 1], k)
    BY <1>7
  <2>3. QED
    BY <2>1, <2>2
<1> DEFINE Holds(r, k) == /\ r \in S /\ SameLines(s, r, n, V) /\ Topped(r, k)
                          /\ Settled(s, n, i) => Settled(r, n, i)
           T == {k \in 0..L : Holds(W[k], k)}
<1>9. 0 \in T
  <2>1. Topped(s, 0) /\ SameLines(s, s, n, V)
    BY DEF Topped, SameLines
  <2>2. QED
    BY <1>0, <1>3, <1>8, <2>1
<1>10. ASSUME NEW k \in 0..(L - 1), k \in T PROVE k + 1 \in T
  <2> DEFINE r == W[k]
             q == W[k + 1]
             j == k + 1
  <2>1. j \in 1..L /\ j - 1 = k /\ j \in 0..L /\ k \in 0..L /\ j \in 1..(n - 1)
    BY <1>0
  <2>2. Holds(r, k)
    BY <1>10
  <2>3. q = Ordered(r, j)
    BY <1>8, <2>1
  <2>4. i \in 0..((n - j) - 1)
    BY <1>0, <2>1
  <2>5. W[j] = q
    OBVIOUS
  <2> HIDE DEF r, q, j
  <2>6. /\ q \in S /\ SameLines(r, q, n, V)
        /\ Topped(r, j - 1) => Topped(q, j)
        /\ Settled(r, n, i) => Settled(q, n, i)
    BY <2>1, <2>2, <2>3, <2>4, OrderedKeeps DEF S
  <2>7. SameLines(s, q, n, V)
    BY <2>2, <2>6 DEF SameLines
  <2>8. Holds(q, j)
    BY <2>1, <2>2, <2>6, <2>7
  <2>9. QED
    BY <2>1, <2>5, <2>8 DEF j
<1>11. 0..L \subseteq T
  <2> HIDE DEF T
  <2> QED BY <1>0, <1>9, <1>10, SetInduction
<1>12. Holds(W[L], L)
  BY <1>0, <1>11
<1> DEFINE t == W[L]
<1>13. t \in S /\ SameLines(s, t, n, V) /\ Topped(t, L) /\ (Settled(s, n, i) => Settled(t, n, i))
  BY <1>12
<1> HIDE DEF t
<1>14. ASSUME Settled(s, n, i) PROVE Settled(t, n, i + 1)
  <2> SUFFICES ASSUME NEW a \in 1..n, NEW b \in 1..n, n - (i + 1) < b, a < b
               PROVE  ~ Higher(t[a], t[b])
    BY DEF Settled
  <2>1. CASE n - i < b
    BY <1>13, <1>14, <2>1 DEF Settled
  <2>2. CASE ~ (n - i < b)
    <3>1. b = L + 1 /\ a \in 1..L
      BY <1>0, <2>2
    <3>2. QED
      BY <1>13, <3>1 DEF Topped
  <2>3. QED
    BY <2>1, <2>2
<1>15. QED
  BY <1>1, <1>13, <1>14 DEF t, S, L

\* The lines in order.
LEMMA SortedIs ==
  ASSUME NEW V, V \subseteq Seq(Int), NEW ls \in Seq(V)
  PROVE  LET t == Sorted(ls)
         IN  /\ t \in Seq(V) /\ Len(t) = Len(ls) /\ SameLines(ls, t, Len(ls), V)
             /\ \A k \in 1..(Len(ls) - 1) : ~ Higher(t[k], t[k + 1])
<1> DEFINE n == Len(ls)
           S == [1..n -> V]
           step == [x \in (1..n) \X S |-> Pass(x[2], n - x[1])]
           Body(v) == [k \in 0..n |-> IF k = 0 THEN ls ELSE Pass(v[k - 1], n - k)]
           W == CHOOSE w : w = Body(w)
<1>0. n \in Nat /\ ls \in S
  BY LenProperties
<1>1. Sorted(ls) = W[IF ls = <<>> THEN 0 ELSE n - 1]
  BY DEF Sorted
<1>e. ls = <<>> <=> n = 0
  BY EmptySeq
<1> HIDE DEF n
<1>p. ASSUME NEW r \in S, NEW k \in 1..n
      PROVE  LET t == Pass(r, n - k)
             IN  /\ t \in S /\ SameLines(r, t, n, V)
                 /\ Settled(r, n, k - 1) => Settled(t, n, k)
  <2> DEFINE i == k - 1
  <2>1. i \in 0..(n - 1) /\ i + 1 = k /\ (n - i) - 1 = n - k
    BY <1>0
  <2> HIDE DEF i
  <2>2. LET t == Pass(r, (n - i) - 1)
        IN  /\ t \in S /\ SameLines(r, t, n, V)
            /\ Settled(r, n, i) => Settled(t, n, i + 1)
    BY <1>0, <2>1, PassKeeps
  <2>3. QED
    BY <2>1, <2>2 DEF i
<1>2. \A r \in S, k \in 1..n : Pass(r, n - k) \in S
  BY <1>p
<1> HIDE DEF S
<1>4. step \in [(1..n) \X S -> S]
  BY <1>2
<1>5. PICK w : IsLoop(w, S, ls, n, step)
  <2> HIDE DEF step
  <2>1. QED
    BY <1>0, <1>4, Iteration, Zenon
<1>6. w = Body(w)
  <2>1. w \in [0..n -> S] /\ w[0] = ls
    BY <1>5 DEF IsLoop
  <2>2. ASSUME NEW k \in 1..n
        PROVE  w[k] = Pass(w[k - 1], n - k)
    <3>1. w[k - 1] \in S
      BY <1>0, <2>1
    <3>2. <<k, w[k - 1]>> \in (1..n) \X S
      BY <3>1
    <3>3. step[<<k, w[k - 1]>>] = Pass(w[k - 1], n - k)
      BY <3>2
    <3>4. QED
      BY <3>3, <1>5 DEF IsLoop
  <2>3. QED
    BY <1>0, <2>1, <2>2
<1>7. W = Body(W)
  BY <1>6
<1> HIDE DEF W
<1>8. W[0] = ls /\ \A k \in 1..n : W[k] = Pass(W[k - 1], n - k)
  <2>1. 0 \in 0..n /\ \A k \in 1..n : k \in 0..n /\ k # 0
    BY <1>0
  <2>2. \A k \in 0..n : W[k] = IF k = 0 THEN ls ELSE Pass(W[k - 1], n - k)
    BY <1>7
  <2>3. QED
    BY <2>1, <2>2
<1> DEFINE Holds(r, k) == r \in S /\ SameLines(ls, r, n, V) /\ Settled(r, n, k)
           T == {k \in 0..n : Holds(W[k], k)}
<1>9. 0 \in T
  <2>1. SameLines(ls, ls, n, V)
    BY DEF SameLines
  <2>2. Settled(ls, n, 0)
    <3>1. \A b \in 1..n : ~ (n - 0 < b)
      BY <1>0
    <3>2. QED
      BY <3>1 DEF Settled
  <2>3. QED
    BY <1>0, <1>8, <2>1, <2>2
<1>10. ASSUME NEW k \in 0..(n - 1), k \in T PROVE k + 1 \in T
  <2> DEFINE r == W[k]
             q == W[k + 1]
             j == k + 1
  <2>1. j \in 1..n /\ j - 1 = k /\ j \in 0..n
    BY <1>0
  <2>2. Holds(r, k)
    BY <1>10
  <2>3. q = Pass(r, n - j)
    BY <1>8, <2>1
  <2>5. W[j] = q
    OBVIOUS
  <2> HIDE DEF r, q, j
  <2>6. q \in S /\ SameLines(r, q, n, V) /\ (Settled(r, n, j - 1) => Settled(q, n, j))
    BY <1>p, <2>1, <2>2, <2>3
  <2>7. SameLines(ls, q, n, V)
    BY <2>2, <2>6 DEF SameLines
  <2>8. Holds(q, j)
    BY <2>1, <2>2, <2>6, <2>7
  <2>9. QED
    BY <2>1, <2>5, <2>8 DEF j
<1>11. 0..n \subseteq T
  <2> HIDE DEF T
  <2> QED BY <1>0, <1>9, <1>10, SetInduction
<1> DEFINE z == IF ls = <<>> THEN 0 ELSE n - 1
           t == W[z]
<1>12. z \in 0..n /\ n <= z + 1
  BY <1>0, <1>e
<1>13. Sorted(ls) = t
  BY <1>1
<1> HIDE DEF z
<1>14. Holds(t, z)
  BY <1>11, <1>12
<1> HIDE DEF t
<1>15. t \in Seq(V) /\ Len(t) = n
  BY <1>0, <1>14 DEF S
<1>16. \A k \in 1..(n - 1) : ~ Higher(t[k], t[k + 1])
  <2> SUFFICES ASSUME NEW k \in 1..(n - 1) PROVE ~ Higher(t[k], t[k + 1])
    OBVIOUS
  <2>1. k \in 1..n /\ k + 1 \in 1..n /\ n - z < k + 1 /\ k < k + 1
    BY <1>0, <1>12
  <2>2. QED
    BY <1>14, <2>1 DEF Settled
<1>17. QED
  BY <1>13, <1>14, <1>15, <1>16 DEF n

\* sort.
LEMMA SortIs ==
  ASSUME NEW f \in Seq(Byte)
  PROVE  Sorts(f)
<1> DEFINE all == AllLines(f, LINE_BUF - 1)
           m == Least(SORT_LINES, Len(all))
           in == SubSeq(all, 1, m)
           out == cmd_sort(f)
           V == Seq(Byte)
<1>1. Collected(f) = all /\ all \in Seq(V)
  BY CollectedIs
<1>2. out = Sorted(in)
  BY <1>1, Zenon DEF cmd_sort, Sortable
<1>3. in \in Seq(V)
  <2> HIDE DEF all, V
  <2>1. Len(all) \in Nat /\ SORT_LINES \in Nat
    BY <1>1, ToolSizes, LenProperties
  <2>2. m \in 0..Len(all)
    BY <2>1 DEF Least
  <2> HIDE DEF m
  <2>3. \A i \in 1..Len(all) : all[i] \in V
    BY <1>1, ElementOfSeq
  <2>4. QED
    BY <1>1, <2>1, <2>2, <2>3
<1>4. V \subseteq Seq(Int)
  BY ToolTexts, SeqMonotonic
<1> HIDE DEF V, in, out
<1>5. /\ out \in Seq(V) /\ Len(out) = Len(in) /\ SameLines(in, out, Len(in), V)
      /\ \A k \in 1..(Len(in) - 1) : ~ Higher(out[k], out[k + 1])
  BY <1>2, <1>3, <1>4, SortedIs
<1>6. \A i \in 1..Len(in) : in[i] \in V
  BY <1>3, ElementOfSeq
<1>7. \A i \in 1..Len(in) :
         Cardinality({k \in 1..Len(in) : in[k] = in[i]}) = Cardinality({k \in 1..Len(out) : out[k] = in[i]})
  <2> SUFFICES ASSUME NEW i \in 1..Len(in)
               PROVE  Cardinality({k \in 1..Len(in) : in[k] = in[i]}) = Cardinality({k \in 1..Len(out) : out[k] = in[i]})
    OBVIOUS
  <2>1. Cardinality(PlacesOf(in, Len(in), in[i])) = Cardinality(PlacesOf(out, Len(in), in[i]))
    BY <1>5, <1>6, Zenon DEF SameLines
  <2>2. PlacesOf(in, Len(in), in[i]) = {k \in 1..Len(in) : in[k] = in[i]}
    BY DEF PlacesOf
  <2>3. PlacesOf(out, Len(in), in[i]) = {k \in 1..Len(out) : out[k] = in[i]}
    BY <1>5 DEF PlacesOf
  <2>4. QED
    BY <2>1, <2>2, <2>3, Zenon
<1>8. \A k \in 1..(Len(out) - 1) : ~ Higher(out[k], out[k + 1])
  BY <1>5
<1>9. QED
  BY <1>5, <1>7, <1>8 DEF Sorts, in, out

-----------------------------------------------------------------------------
(* The text commands on any text, and at the prompt.                        *)

\* uniq and sort do on every text what they are for, head and tail on every text
\* whose last line ends in a break (shell.c:935-1065).
THEOREM LinesPrintedRight ==
  \A f \in Seq(Byte) : Sorts(f) /\ \A count \in 0..RING : PrintsLines(f, count)
<1> SUFFICES ASSUME NEW f \in Seq(Byte)
             PROVE  Sorts(f) /\ \A count \in 0..RING : PrintsLines(f, count)
  OBVIOUS
<1>1. Sorts(f)
  BY SortIs
<1>2. ASSUME NEW count \in 0..RING PROVE PrintsLines(f, count)
  <2>1. Ended(f) => AllLines(f, LINE_BUF - 1) = LinesOf(f, LINE_BUF - 1)
    BY ToolSizes, LastLine
  <2>2. QED
    BY <2>1, HeadAndTail, UniqIs, Zenon DEF PrintsLines
<1>3. QED
  BY <1>1, <1>2

\* So does wc on every text, and grep on every one whose last line ends in a break
\* and whose lines fit its array (shell.c:890-933, 1076-1098).
THEOREM FoundAndCountedRight ==
  \A f \in Seq(Byte) : Counts(f) /\ \A p \in Seq(Byte) \ {<<>>} : Finds(f, p)
BY GrepIs, WcIs

\* What can be read at the prompt is a text.
LEMMA ReadableTexts ==
  ASSUME CursorInv
  PROVE  \A f \in Readable : f \in Seq(Byte)
<1>1. lines \in Seq(Texts)
  BY RowsAreTexts DEF CursorInv
<1>2. Image(lines) \in Seq(Byte)
  BY <1>1, ImageAppend DEF Texts
<1>3. file \in {ABSENT, NOBUF} \/ file \in Seq(Byte)
  BY DEF CursorInv, FileIs, Texts
<1>4. QED
  BY <1>2, <1>3 DEF Readable

\* Whatever was edited and saved before, uniq and sort print the lines of the file
\* as they should, head and tail those of a file that ends in a break
\* (shell.c:935-1065).
THEOREM ToolsKeepPrinting == Spec => []ToolsPrintLines
<1>1. Init => CursorInv
  BY InitCursor
<1>2. CursorInv /\ [Next]_vars => CursorInv'
  BY NextCursor
<1>3. CursorInv => ToolsPrintLines
  BY ToolSizes, ReadableTexts, LinesPrintedRight DEF ToolsPrintLines
<1>4. QED
  BY <1>1, <1>2, <1>3, PTL DEF Spec

\* wc counts in it what is there, and grep finds what is there if it ends in a
\* break and its lines fit (shell.c:890-933, 1076-1098).
THEOREM ToolsKeepFinding == Spec => []ToolsFindAndCount
<1>1. Init => CursorInv
  BY InitCursor
<1>2. CursorInv /\ [Next]_vars => CursorInv'
  BY NextCursor
<1>3. CursorInv => ToolsFindAndCount
  BY ToolTexts, ReadableTexts, FoundAndCountedRight DEF ToolsFindAndCount
<1>4. QED
  BY <1>1, <1>2, <1>3, PTL DEF Spec
================================================================================
