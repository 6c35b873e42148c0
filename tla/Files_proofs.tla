---------------------------- MODULE Files_proofs ----------------------------
(***************************************************************************)
(* Proofs about module Files, for all names, all sizes of a directory and  *)
(* of the heap.                                                            *)
(*                                                                         *)
(* A command is a composition of four changes to the nodes: one more node, *)
(* one more entry, one entry less, another name.  What has to be kept is   *)
(* proved for each change, with the nodes as a parameter.                  *)
(***************************************************************************)
EXTENDS Files, TLAPS, WellFoundedInduction, SequenceTheorems, FiniteSetTheorems

-----------------------------------------------------------------------------
(* Least elements and loops.                                                *)

\* A loop over the children stops at the least index that matches.
LEMMA LeastNat ==
  ASSUME NEW T \in SUBSET Nat, T # {}
  PROVE  \E x \in T : \A y \in T : x <= y
<1>1. PICK x \in T : \A y \in T : <<y, x>> \notin OpToRel(<, Nat)
  BY NatLessThanWellFounded, WFMin, Zenon
<1>2. ASSUME NEW y \in T PROVE ~ (y < x)
  <2>1. y \in Nat /\ x \in Nat
    OBVIOUS
  <2>2. QED
    BY <1>1, <2>1 DEF OpToRel
<1>3. QED
  BY <1>2

\* Induction, for the set of the numbers that have a property: what holds
\* before a loop and after every round of it holds after all of them.
LEMMA SetInduction ==
  ASSUME NEW n \in Nat, NEW T, 0 \in T,
         \A k \in 0..(n - 1) : k \in T => k + 1 \in T
  PROVE  0..n \subseteq T
<1> DEFINE Rest == {k \in 0..n : k \notin T}
<1>1. SUFFICES ASSUME Rest # {}
               PROVE  FALSE
  OBVIOUS
<1>2. Rest \in SUBSET Nat
  OBVIOUS
<1>3. PICK m \in Rest : \A k \in Rest : m <= k
  BY <1>1, <1>2, LeastNat
<1>4. m \in 0..n /\ m \notin T /\ m # 0
  BY <1>3
<1>5. m - 1 \in 0..(n - 1) /\ m - 1 \in 0..n /\ m - 1 + 1 = m
  BY <1>4
<1>6. m - 1 \notin Rest
  BY <1>3, <1>4, <1>5
<1>7. QED
  BY <1>4, <1>5, <1>6

\* The values after each of n rounds of a loop that starts with a and turns x
\* into step[k, x] in round k.
IsLoop(f, S, a, n, step) ==
    f \in [0..n -> S] /\ f[0] = a /\ \A k \in 1..n : f[k] = step[<<k, f[k - 1]>>]

\* Such a loop has a value after each round.
LEMMA Iteration ==
  ASSUME NEW S, NEW a \in S, NEW n \in Nat, NEW step \in [(1..n) \X S -> S]
  PROVE  \E f : IsLoop(f, S, a, n, step)
<1> DEFINE Loop(f, m) == f[0] = a /\ \A k \in 1..m : f[k] = step[<<k, f[k - 1]>>]
           T == {m \in 0..n : \E f \in [0..m -> S] : Loop(f, m)}
<1>1. 0 \in T
  <2> DEFINE f == [k \in 0..0 |-> a]
  <2>1. f \in [0..0 -> S] /\ Loop(f, 0)
    OBVIOUS
  <2> HIDE DEF f
  <2>2. QED
    BY <2>1
<1>2. ASSUME NEW m \in 0..(n - 1), m \in T
      PROVE  m + 1 \in T
  <2>1. PICK f \in [0..m -> S] : Loop(f, m)
    BY <1>2
  <2> DEFINE g == [k \in 0..(m + 1) |-> IF k = m + 1 THEN step[<<m + 1, f[m]>>] ELSE f[k]]
  <2>2. m + 1 \in 1..n /\ f[m] \in S
    OBVIOUS
  <2>3. <<m + 1, f[m]>> \in (1..n) \X S
    BY <2>2
  <2>4. step[<<m + 1, f[m]>>] \in S
    BY <2>3
  <2>5. g \in [0..(m + 1) -> S]
    BY <2>4
  <2>6. g[0] = a
    BY <2>1
  <2>7. ASSUME NEW k \in 1..(m + 1)
        PROVE  g[k] = step[<<k, g[k - 1]>>]
    <3>1. CASE k = m + 1
      <4>1. k \in 0..(m + 1) /\ k - 1 = m /\ m \in 0..(m + 1) /\ m # m + 1
        BY <3>1
      <4>2. g[k] = step[<<k, f[m]>>] /\ g[k - 1] = f[m]
        BY <4>1, <3>1
      <4>3. QED
        BY <4>2
    <3>2. CASE k # m + 1
      <4>1. k \in 1..m /\ k - 1 \in 0..(m + 1) /\ k - 1 # m + 1 /\ k \in 0..(m + 1)
        BY <3>2
      <4>2. g[k] = f[k] /\ g[k - 1] = f[k - 1]
        BY <4>1, <3>2
      <4>3. f[k] = step[<<k, f[k - 1]>>]
        BY <4>1, <2>1
      <4>4. QED
        BY <4>2, <4>3
    <3>3. QED
      BY <3>1, <3>2
  <2> HIDE DEF g
  <2>8. Loop(g, m + 1)
    BY <2>6, <2>7
  <2>9. m + 1 \in 0..n
    OBVIOUS
  <2>10. QED
    BY <2>5, <2>8, <2>9
<1>3. 0..n \subseteq T
  <2> HIDE DEF T
  <2>1. QED
    BY <1>1, <1>2, SetInduction
<1>4. n \in T
  BY <1>3
<1>5. PICK f \in [0..n -> S] : Loop(f, n)
  BY <1>4
<1>6. IsLoop(f, S, a, n, step)
  BY <1>5 DEF IsLoop
<1>7. QED
  BY <1>6

AllNames  == Names \cup {"/", "etc", "dev", "motd"}
PathNames == AllNames \cup {""}
Paths     == Seq(PathNames)

NodeType == [name : AllNames, dir : BOOLEAN, ch : Seq(Nat)]

\* The children of nodes nd are nodes, and no node is the child of two.
Children(nd) ==
    \A d \in 1..Len(nd) :
        /\ Len(nd[d].ch) =< MAX_CHILDREN
        /\ \A i \in 1..Len(nd[d].ch) : nd[d].ch[i] \in 2..Len(nd)

OneParent(nd) ==
    \A d, e \in 1..Len(nd) :
        \A i \in 1..Len(nd[d].ch), j \in 1..Len(nd[e].ch) :
            nd[d].ch[i] = nd[e].ch[j] => d = e /\ i = j

Tree(nd) ==
    /\ nd \in Seq(NodeType) /\ Len(nd) >= 1 /\ nd[1].dir
    /\ Children(nd)
    /\ OneParent(nd)

\* No file has entries: holds until the user has moved a directory.
FilesBare(nd) == \A d \in 1..Len(nd) : ~nd[d].dir => nd[d].ch = <<>>

IInv ==
    /\ Tree(node)
    /\ cwd \in Paths /\ prev_cwd \in Paths /\ displaced \in BOOLEAN
    /\ ~displaced => FilesBare(node)
    /\ CwdIsDirectory

\* The same, in the form the proofs use it.
Entry(nd, d, i, c) == i \in 1..Len(nd[d].ch) /\ nd[d].ch[i] = c

AllOne(nd) ==
    \A d, e \in 1..Len(nd) : \A i, j, c : Entry(nd, d, i, c) /\ Entry(nd, e, j, c) => d = e /\ i = j

\* Both forms say the same.
LEMMA OneParentIs ==
  ASSUME NEW nd
  PROVE  OneParent(nd) <=> AllOne(nd)
<1>1. ASSUME OneParent(nd), NEW d \in 1..Len(nd), NEW e \in 1..Len(nd), NEW i, NEW j, NEW c,
             Entry(nd, d, i, c), Entry(nd, e, j, c)
      PROVE  d = e /\ i = j
  <2>1. i \in 1..Len(nd[d].ch) /\ j \in 1..Len(nd[e].ch) /\ nd[d].ch[i] = nd[e].ch[j]
    BY <1>1 DEF Entry
  <2>2. QED
    BY <1>1, <2>1 DEF OneParent
<1>2. ASSUME AllOne(nd), NEW d \in 1..Len(nd), NEW e \in 1..Len(nd),
             NEW i \in 1..Len(nd[d].ch), NEW j \in 1..Len(nd[e].ch), nd[d].ch[i] = nd[e].ch[j]
      PROVE  d = e /\ i = j
  <2>1. Entry(nd, d, i, nd[d].ch[i]) /\ Entry(nd, e, j, nd[d].ch[i])
    BY <1>2 DEF Entry
  <2>2. QED
    BY <1>2, <2>1 DEF AllOne
<1>3. QED
  BY <1>1, <1>2 DEF OneParent, AllOne

\* Two entries that name the same node are one entry.
LEMMA SameEntry ==
  ASSUME NEW nd, OneParent(nd), NEW d \in 1..Len(nd), NEW e \in 1..Len(nd), NEW i, NEW j, NEW c,
         Entry(nd, d, i, c), Entry(nd, e, j, c)
  PROVE  d = e /\ i = j
<1>1. AllOne(nd)
  BY OneParentIs
<1>2. QED
  BY <1>1, Zenon DEF AllOne

-----------------------------------------------------------------------------
(* Looking up a name.                                                       *)

Hits(nd, d, name) == {i \in 1..Len(nd[d].ch) : nd[nd[d].ch[i]].name = name}

Lookup(nd, d, name) ==
    IF Hits(nd, d, name) = {} THEN NULL
    ELSE nd[d].ch[CHOOSE i \in Hits(nd, d, name) : \A j \in Hits(nd, d, name) : i =< j]

\* Entry i is the first one of that name.
FirstHit(nd, d, name, i) ==
    /\ i \in 1..Len(nd[d].ch)
    /\ nd[nd[d].ch[i]].name = name
    /\ \A j \in 1..(i - 1) : nd[nd[d].ch[j]].name # name

\* A node of the tree has its fields.
LEMMA Fields ==
  ASSUME NEW nd, nd \in Seq(NodeType), NEW d \in 1..Len(nd)
  PROVE  /\ nd[d] \in NodeType
         /\ nd[d].name \in AllNames /\ nd[d].dir \in BOOLEAN /\ nd[d].ch \in Seq(Nat)
         /\ Len(nd[d].ch) \in Nat
<1>1. nd[d] \in NodeType
  OBVIOUS
<1>2. nd[d].ch \in Seq(Nat)
  BY <1>1 DEF NodeType
<1>3. Len(nd[d].ch) \in Nat
  BY <1>2
<1>4. QED
  BY <1>1, <1>2, <1>3 DEF NodeType

\* What finddir returns is the node of the first entry of that name.
LEMMA LookupFinds ==
  ASSUME NEW nd, Tree(nd), NEW d \in 1..Len(nd), NEW name, Lookup(nd, d, name) # NULL
  PROVE  /\ Lookup(nd, d, name) \in 2..Len(nd)
         /\ \E i \in 1..Len(nd[d].ch) : FirstHit(nd, d, name, i) /\ Lookup(nd, d, name) = nd[d].ch[i]
<1> DEFINE H == Hits(nd, d, name)
<1>0. nd[d].ch \in Seq(Nat) /\ Len(nd[d].ch) \in Nat
  BY Fields DEF Tree
<1>1. H # {} /\ H \in SUBSET Nat
  BY <1>0 DEF Lookup, Hits
<1>2. \E i \in H : \A j \in H : i =< j
  <2> HIDE DEF H
  <2>1. QED
    BY <1>1, LeastNat
<1> DEFINE i == CHOOSE i \in H : \A j \in H : i =< j
<1>3. i \in H /\ \A j \in H : i =< j
  BY <1>2
<1>4. Lookup(nd, d, name) = nd[d].ch[i]
  BY <1>1 DEF Lookup
<1> HIDE DEF i
<1>5. i \in 1..Len(nd[d].ch) /\ nd[nd[d].ch[i]].name = name
  BY <1>3 DEF Hits
<1>6. ASSUME NEW j \in 1..(i - 1)
      PROVE  nd[nd[d].ch[j]].name # name
  <2>1. j \in 1..Len(nd[d].ch) /\ ~(i =< j)
    BY <1>0, <1>5
  <2>2. j \notin H
    BY <2>1, <1>3
  <2>3. QED
    BY <2>1, <2>2 DEF Hits
<1>7. FirstHit(nd, d, name, i)
  BY <1>5, <1>6 DEF FirstHit
<1>8. nd[d].ch[i] \in 2..Len(nd)
  BY <1>5 DEF Tree, Children
<1>9. QED
  BY <1>4, <1>5, <1>7, <1>8

\* And there is only one first entry.
LEMMA LookupIs ==
  ASSUME NEW nd, Tree(nd), NEW d \in 1..Len(nd), NEW name, NEW i, FirstHit(nd, d, name, i)
  PROVE  Lookup(nd, d, name) = nd[d].ch[i]
<1> DEFINE H == Hits(nd, d, name)
<1>0. nd[d].ch \in Seq(Nat) /\ Len(nd[d].ch) \in Nat
  BY Fields DEF Tree
<1>1. i \in H
  BY DEF Hits, FirstHit
<1>2. ASSUME NEW j \in H
      PROVE  i =< j
  <2>1. j \in 1..Len(nd[d].ch) /\ nd[nd[d].ch[j]].name = name
    BY DEF Hits
  <2>2. j \notin 1..(i - 1)
    BY <2>1 DEF FirstHit
  <2>3. QED
    BY <2>1, <2>2, <1>0 DEF FirstHit
<1>3. ASSUME NEW j \in H, \A k \in H : j =< k
      PROVE  j = i
  <2>1. j =< i /\ i =< j
    BY <1>1, <1>2, <1>3
  <2>2. j \in Nat /\ i \in Nat
    BY <1>0, <1>1 DEF Hits
  <2>3. QED
    BY <2>1, <2>2
<1>4. (CHOOSE k \in H : \A j \in H : k =< j) = i
  <2> HIDE DEF H
  <2>1. QED
    BY <1>1, <1>2, <1>3
<1>5. QED
  BY <1>1, <1>4 DEF Lookup

-----------------------------------------------------------------------------
(* Walking a path.                                                          *)

StepOf(nd, path, k, d) == IF d = NULL THEN NULL ELSE Lookup(nd, d, path[k])

IsWalk(nd, path, w) ==
    /\ w \in [0..Len(path) -> 0..Len(nd)]
    /\ w[0] = 1
    /\ \A k \in 1..Len(path) : w[k] = StepOf(nd, path, k, w[k - 1])

\* A walk exists: the loop of vfs_resolve has a node, or NULL, after each name.
LEMMA WalkExists ==
  ASSUME NEW nd, Tree(nd), NEW path, Len(path) \in Nat
  PROVE  \E w : IsWalk(nd, path, w)
<1> DEFINE n == Len(path)
           S == 0..Len(nd)
           step == [x \in (1..n) \X S |-> StepOf(nd, path, x[1], x[2])]
<1>0. Len(nd) \in Nat /\ Len(nd) >= 1
  BY DEF Tree
<1>1. 1 \in S
  BY <1>0
<1>2. ASSUME NEW x \in (1..n) \X S
      PROVE  StepOf(nd, path, x[1], x[2]) \in S
  <2>1. CASE x[2] = NULL
    BY <2>1, <1>0 DEF StepOf, NULL
  <2>2. CASE x[2] # NULL
    <3>1. x[2] \in 1..Len(nd)
      BY <2>2, <1>0 DEF NULL
    <3>2. Lookup(nd, x[2], path[x[1]]) = NULL \/ Lookup(nd, x[2], path[x[1]]) \in 2..Len(nd)
      BY <3>1, LookupFinds
    <3>3. QED
      BY <3>2, <2>2, <1>0 DEF StepOf, NULL
  <2>3. QED
    BY <2>1, <2>2
<1>3. step \in [(1..n) \X S -> S]
  BY <1>2
<1>4. PICK w : IsLoop(w, S, 1, n, step)
  <2>1. n \in Nat
    OBVIOUS
  <2> HIDE DEF step, S, n
  <2>2. QED
    BY <1>1, <1>3, <2>1, Iteration, Zenon
<1>5. ASSUME NEW k \in 1..n
      PROVE  w[k] = StepOf(nd, path, k, w[k - 1])
  <2>1. w[k - 1] \in S
    BY <1>4 DEF IsLoop
  <2>2. <<k, w[k - 1]>> \in (1..n) \X S
    BY <2>1
  <2>3. step[<<k, w[k - 1]>>] = StepOf(nd, path, k, w[k - 1])
    BY <2>2
  <2>4. QED
    BY <2>3, <1>4 DEF IsLoop
<1>6. QED
  BY <1>4, <1>5 DEF IsWalk, IsLoop

\* finddir and vfs_resolve, with the nodes as a parameter.
Resolve(nd, path) ==
    LET walk[k \in 0..Len(path)] ==
            IF k = 0 THEN root
            ELSE LET d == walk[k - 1] IN IF d = NULL THEN NULL ELSE Lookup(nd, d, path[k])
    IN  IF path = NoPath THEN NULL ELSE walk[Len(path)]

\* ramfs_finddir, with the nodes as a parameter.
LEMMA FinddirIsLookup ==
  ASSUME NEW d, NEW name
  PROVE  finddir(d, name) = Lookup(node, d, name)
BY DEF finddir, Lookup, Hits

\* vfs_resolve, with the nodes as a parameter.
LEMMA ResolveIs ==
  \A path : vfs_resolve(path) = Resolve(node, path)
BY DEF vfs_resolve, Resolve, finddir, Lookup, Hits

\* The same after the step.
LEMMA ResolveIsPrime ==
  \A path : vfs_resolve(path)' = Resolve(node', path)
BY DEF vfs_resolve, Resolve, finddir, Lookup, Hits

\* The recursive function of vfs_resolve is a walk, and so the only one: the
\* path leads to where the walk ends.
LEMMA ResolveWalks ==
  ASSUME NEW nd, Tree(nd), NEW path, Len(path) \in Nat, path # NoPath,
         NEW w, IsWalk(nd, path, w)
  PROVE  Resolve(nd, path) = w[Len(path)]
<1> DEFINE Walk(v) == [k \in 0..Len(path) |->
                         IF k = 0 THEN root
                         ELSE LET d == v[k - 1] IN IF d = NULL THEN NULL ELSE Lookup(nd, d, path[k])]
           walk == CHOOSE v : v = Walk(v)
<1>1. Resolve(nd, path) = walk[Len(path)]
  BY DEF Resolve
<1>2. w = Walk(w)
  BY DEF IsWalk, StepOf, root
<1>3. walk = Walk(walk)
  BY <1>2
<1> HIDE DEF walk
<1>4. walk[0] = 1 /\ \A k \in 1..Len(path) : walk[k] = StepOf(nd, path, k, walk[k - 1])
  BY <1>3 DEF StepOf, root
<1> DEFINE T == {k \in 0..Len(path) : walk[k] = w[k]}
<1>5. 0..Len(path) \subseteq T
  <2>1. 0 \in T
    BY <1>4 DEF IsWalk
  <2>2. ASSUME NEW k \in 0..(Len(path) - 1), k \in T
        PROVE  k + 1 \in T
    BY <1>4, <2>2 DEF IsWalk
  <2> HIDE DEF T
  <2>3. QED
    BY <2>1, <2>2, SetInduction
<1>6. QED
  BY <1>1, <1>5

\* A path leads to a node or to NULL.
LEMMA ResolveType ==
  ASSUME NEW nd, Tree(nd), NEW path, Len(path) \in Nat
  PROVE  Resolve(nd, path) \in 0..Len(nd)
<1>1. CASE path = NoPath
  BY <1>1 DEF Resolve, NULL, Tree
<1>2. CASE path # NoPath
  <2>1. PICK w : IsWalk(nd, path, w)
    BY WalkExists
  <2>2. Resolve(nd, path) = w[Len(path)]
    BY <1>2, <2>1, ResolveWalks
  <2>3. QED
    BY <2>1, <2>2 DEF IsWalk
<1>3. QED
  BY <1>1, <1>2

\* Every directory that a name leads to is still what the name leads to.
KeepsDirs(nd, md) ==
    \A d \in 1..Len(nd), name \in PathNames :
        LET m == Lookup(nd, d, name)
        IN  m # NULL /\ nd[m].dir => Lookup(md, d, name) = m /\ md[m].dir

\* Then a path that leads to a directory still does: there are only directories
\* on the way, as a file has no entries.
LEMMA PathKept ==
  ASSUME NEW nd, NEW md, Tree(nd), Tree(md), FilesBare(nd), KeepsDirs(nd, md),
         NEW path \in Paths, Resolve(nd, path) # NULL, nd[Resolve(nd, path)].dir
  PROVE  Resolve(md, path) # NULL /\ md[Resolve(md, path)].dir
<1> DEFINE n == Len(path)
<1>0. path \in Seq(PathNames)
  BY DEF Paths
<1>1. n \in Nat
  BY <1>0
<1>names. \A k \in 1..n : path[k] \in PathNames
  BY <1>0
<1>path. path # NoPath
  BY Zenon DEF Resolve
<1>2. PICK w : IsWalk(nd, path, w)
  BY <1>1, WalkExists
<1>3. PICK v : IsWalk(md, path, v)
  BY <1>1, WalkExists
<1>4. Resolve(nd, path) = w[n] /\ Resolve(md, path) = v[n]
  BY <1>1, <1>path, <1>2, <1>3, ResolveWalks
<1>w. /\ w \in [0..n -> 0..Len(nd)] /\ w[0] = 1
      /\ \A k \in 1..n : w[k] = StepOf(nd, path, k, w[k - 1])
  BY <1>2 DEF IsWalk
<1>v. /\ v \in [0..n -> 0..Len(md)] /\ v[0] = 1
      /\ \A k \in 1..n : v[k] = StepOf(md, path, k, v[k - 1])
  BY <1>3 DEF IsWalk
<1>len. Len(nd) \in Nat
  BY DEF Tree
<1> HIDE DEF n
<1> DEFINE OnWay(k) == w[k] # NULL /\ nd[w[k]].dir
<1>5. \A k \in 0..n : OnWay(k)
  <2> DEFINE T == {j \in 0..n : OnWay(n - j)}
  <2>1. 0 \in T
    BY <1>4, <1>1
  <2>2. ASSUME NEW j \in 0..(n - 1), j \in T
        PROVE  j + 1 \in T
    <3> DEFINE k == n - j
    <3>1. k \in 1..n /\ k - 1 \in 0..n /\ n - (j + 1) = k - 1 /\ j + 1 \in 0..n
      BY <1>1
    <3>2. w[k] # NULL /\ w[k] = StepOf(nd, path, k, w[k - 1])
      BY <2>2, <3>1, <1>w
    <3>3. w[k - 1] # NULL /\ Lookup(nd, w[k - 1], path[k]) # NULL
      BY <3>2 DEF StepOf
    <3>4. w[k - 1] \in 1..Len(nd)
      BY <3>1, <3>3, <1>w, <1>len DEF NULL
    <3>5. \E i \in 1..Len(nd[w[k - 1]].ch) : TRUE
      BY <3>3, <3>4, LookupFinds
    <3>6. nd[w[k - 1]].ch # <<>>
      BY <3>5
    <3>7. nd[w[k - 1]].dir
      BY <3>4, <3>6 DEF FilesBare
    <3> HIDE DEF k
    <3>8. QED
      BY <3>1, <3>3, <3>7
  <2>3. 0..n \subseteq T
    <3> HIDE DEF T
    <3>1. QED
      BY <2>1, <2>2, <1>1, SetInduction
  <2>4. ASSUME NEW k \in 0..n PROVE OnWay(k)
    <3>1. n - k \in 0..n /\ n - (n - k) = k
      BY <1>1
    <3>2. QED
      BY <2>3, <3>1
  <2>5. QED
    BY <2>4
<1>6. \A k \in 0..n : v[k] = w[k] /\ md[w[k]].dir
  <2> DEFINE T == {k \in 0..n : v[k] = w[k] /\ md[w[k]].dir}
  <2>1. 0 \in T
    BY <1>1, <1>w, <1>v DEF Tree
  <2>2. ASSUME NEW k \in 0..(n - 1), k \in T
        PROVE  k + 1 \in T
    <3>1. k + 1 \in 1..n /\ k + 1 \in 0..n /\ k \in 0..n /\ (k + 1) - 1 = k
      BY <1>1
    <3>2. w[k] # NULL /\ w[k + 1] # NULL /\ nd[w[k + 1]].dir
      BY <1>5, <3>1
    <3>3. w[k] \in 1..Len(nd)
      BY <3>1, <3>2, <1>w, <1>len DEF NULL
    <3>4. w[k + 1] = Lookup(nd, w[k], path[k + 1])
      BY <3>1, <3>2, <1>w DEF StepOf
    <3>5. Lookup(md, w[k], path[k + 1]) = w[k + 1] /\ md[w[k + 1]].dir
      BY <3>1, <3>2, <3>3, <3>4, <1>names DEF KeepsDirs
    <3>6. v[k + 1] = Lookup(md, w[k], path[k + 1])
      BY <3>1, <3>2, <2>2, <1>v DEF StepOf
    <3>7. QED
      BY <3>1, <3>5, <3>6
  <2>3. 0..n \subseteq T
    <3> HIDE DEF T
    <3>1. QED
      BY <2>1, <2>2, <1>1, SetInduction
  <2>4. QED
    BY <2>3
<1>7. v[n] = w[n] /\ md[w[n]].dir /\ w[n] # NULL
  BY <1>1, <1>5, <1>6
<1>8. QED
  BY <1>4, <1>7

-----------------------------------------------------------------------------
(* The changes.                                                             *)

Added(nd, name, dir) == Append(nd, Node(name, dir))
Linked(nd, to, n)    == [nd EXCEPT ![to].ch = add_child(@, n)]
Cut(nd, d, n)        == [nd EXCEPT ![d].ch = Without(@, n)]
Renamed(nd, n, name) == [nd EXCEPT ![n].name = name]

HasEntry(nd, d, n) == \E i \in 1..Len(nd[d].ch) : nd[d].ch[i] = n

\* Node n is in no directory.
Loose(nd, n) == \A d \in 1..Len(nd) : \A i \in 1..Len(nd[d].ch) : nd[d].ch[i] # n

\* The nodes of nd are still there, with all their entries.
Extends(nd, md) ==
    /\ Len(nd) =< Len(md)
    /\ \A d \in 1..Len(nd) :
          /\ md[d].name = nd[d].name /\ md[d].dir = nd[d].dir
          /\ Len(nd[d].ch) =< Len(md[d].ch)
          /\ \A i \in 1..Len(nd[d].ch) : md[d].ch[i] = nd[d].ch[i]

\* A node that is made has no entries and is in no directory.
LEMMA AddedTree ==
  ASSUME NEW nd, Tree(nd), NEW name \in AllNames, NEW dir \in BOOLEAN
  PROVE  LET md == Added(nd, name, dir)
         IN  /\ Len(md) = Len(nd) + 1
             /\ Tree(md) /\ Extends(nd, md) /\ Loose(md, Len(nd) + 1)
             /\ FilesBare(nd) => FilesBare(md)
<1> DEFINE md == Added(nd, name, dir)
           new == Node(name, dir)
<1>0. nd \in Seq(NodeType) /\ Len(nd) \in Nat /\ Len(nd) >= 1
  BY DEF Tree
<1>1. new \in NodeType /\ new.ch = <<>>
  BY DEF Node, NodeType
<1> HIDE DEF new
<1>2. md \in Seq(NodeType) /\ Len(md) = Len(nd) + 1
  BY <1>0, <1>1 DEF Added, new
<1>3. \A d \in 1..Len(nd) : md[d] = nd[d]
  BY <1>0, <1>1 DEF Added, new
<1>4. md[Len(nd) + 1] = new
  BY <1>0, <1>1 DEF Added, new
<1> HIDE DEF md
<1>5. \A d \in 1..Len(md) : d \in 1..Len(nd) \/ d = Len(nd) + 1
  BY <1>0, <1>2
<1>6. \A d \in 1..Len(md) : \A i \in 1..Len(md[d].ch) :
         d \in 1..Len(nd) /\ md[d].ch = nd[d].ch
  BY <1>1, <1>3, <1>4, <1>5
<1>7. Children(md)
  <2> SUFFICES ASSUME NEW d \in 1..Len(md)
               PROVE  /\ Len(md[d].ch) =< MAX_CHILDREN
                      /\ \A i \in 1..Len(md[d].ch) : md[d].ch[i] \in 2..Len(md)
    BY DEF Children
  <2>1. CASE d \in 1..Len(nd)
    BY <2>1, <1>0, <1>2, <1>3 DEF Tree, Children
  <2>2. CASE d = Len(nd) + 1
    BY <2>2, <1>1, <1>4, FilesAssumption
  <2>3. QED
    BY <1>5, <2>1, <2>2
<1>8. OneParent(md)
  <2>1. \A d \in 1..Len(md) : \A i, c : Entry(md, d, i, c) => d \in 1..Len(nd) /\ Entry(nd, d, i, c)
    BY <1>6 DEF Entry
  <2>2. AllOne(nd)
    BY OneParentIs DEF Tree
  <2>3. AllOne(md)
    BY <2>1, <2>2 DEF AllOne
  <2>4. QED
    BY <2>3, OneParentIs
<1>9. Loose(md, Len(nd) + 1)
  <2>1. \A d \in 1..Len(nd) : \A i \in 1..Len(nd[d].ch) : nd[d].ch[i] # Len(nd) + 1
    BY <1>0 DEF Tree, Children
  <2>2. QED
    BY <1>6, <2>1 DEF Loose
<1>10. Extends(nd, md)
  <2>1. \A d \in 1..Len(nd) : Len(nd[d].ch) \in Nat
    BY <1>0, Fields
  <2>2. QED
    BY <1>0, <1>2, <1>3, <2>1 DEF Extends
<1>11. FilesBare(nd) => FilesBare(md)
  BY <1>1, <1>3, <1>4, <1>5 DEF FilesBare
<1>12. Tree(md)
  <2>1. md[1].dir
    BY <1>0, <1>3 DEF Tree
  <2>2. QED
    BY <1>0, <1>2, <1>7, <1>8, <2>1 DEF Tree
<1>13. QED
  BY <1>2, <1>9, <1>10, <1>11, <1>12 DEF md

WithEntries(nd, d, ch) == [nd EXCEPT ![d].ch = ch]

\* The nodes md differ from nd in the entries of d.
OnlyEntries(nd, d, ch, md) ==
    /\ md \in Seq(NodeType) /\ Len(md) = Len(nd)
    /\ \A e \in 1..Len(nd) : md[e].name = nd[e].name /\ md[e].dir = nd[e].dir
    /\ \A e \in 1..Len(nd) : e # d => md[e].ch = nd[e].ch
    /\ md[d].ch = ch

\* What an entry that is added, or taken out, leaves as it was.
LEMMA EntriesChanged ==
  ASSUME NEW nd, nd \in Seq(NodeType), NEW d \in 1..Len(nd), NEW ch \in Seq(Nat)
  PROVE  OnlyEntries(nd, d, ch, WithEntries(nd, d, ch))
<1> DEFINE md == WithEntries(nd, d, ch)
<1>0. Len(nd) \in Nat
  OBVIOUS
<1>1. md = [nd EXCEPT ![d] = [nd[d] EXCEPT !.ch = ch]]
  BY DEF WithEntries
<1>2. nd[d] \in NodeType
  OBVIOUS
<1> DEFINE r == [nd[d] EXCEPT !.ch = ch]
<1>3. r \in NodeType /\ r.name = nd[d].name /\ r.dir = nd[d].dir /\ r.ch = ch
  BY <1>2 DEF NodeType
<1> HIDE DEF r
<1>4. md = [nd EXCEPT ![d] = r]
  BY <1>1 DEF r
<1>5. md \in Seq(NodeType) /\ Len(md) = Len(nd) /\ md[d] = r
      /\ \A e \in 1..Len(nd) : e # d => md[e] = nd[e]
  BY <1>3, <1>4
<1>6. QED
  BY <1>3, <1>5 DEF OnlyEntries

\* A node that is in no directory gets an entry in one, or stays as it is.
LEMMA LinkedTree ==
  ASSUME NEW nd, Tree(nd), NEW to \in 1..Len(nd), NEW n \in 2..Len(nd), Loose(nd, n)
  PROVE  LET md == Linked(nd, to, n)
         IN  /\ Len(md) = Len(nd) /\ Tree(md) /\ Extends(nd, md)
             /\ FilesBare(nd) /\ nd[to].dir => FilesBare(md)
             /\ Len(nd[to].ch) < MAX_CHILDREN => HasEntry(md, to, n)
<1> DEFINE md == Linked(nd, to, n)
           old == nd[to].ch
           ch == add_child(old, n)
<1>0. nd \in Seq(NodeType) /\ Len(nd) \in Nat /\ Len(nd) >= 1 /\ n \in Nat
  BY DEF Tree
<1>1. old \in Seq(Nat) /\ Len(old) \in Nat /\ Len(old) =< MAX_CHILDREN /\ MAX_CHILDREN \in Nat
  BY <1>0, Fields, FilesAssumption DEF Tree, Children
<1> HIDE DEF old
<1>2. /\ ch \in Seq(Nat) /\ Len(ch) \in Nat
      /\ \/ Len(old) < MAX_CHILDREN /\ Len(ch) = Len(old) + 1 /\ ch[Len(old) + 1] = n
         \/ Len(old) = MAX_CHILDREN /\ Len(ch) = Len(old)
      /\ \A i \in 1..Len(old) : ch[i] = old[i]
  <2>1. CASE Len(old) < MAX_CHILDREN
    BY <2>1, <1>0, <1>1 DEF add_child
  <2>2. CASE ~(Len(old) < MAX_CHILDREN)
    BY <2>2, <1>1 DEF add_child
  <2>3. QED
    BY <2>1, <2>2
<1>3. md = WithEntries(nd, to, ch)
  BY DEF Linked, old, WithEntries
<1> HIDE DEF md, ch
<1>4. /\ md \in Seq(NodeType) /\ Len(md) = Len(nd)
      /\ \A e \in 1..Len(nd) : md[e].name = nd[e].name /\ md[e].dir = nd[e].dir
      /\ \A e \in 1..Len(nd) : e # to => md[e].ch = nd[e].ch
      /\ md[to].ch = ch
  <2>1. ch \in Seq(Nat)
    BY <1>2
  <2>2. OnlyEntries(nd, to, ch, WithEntries(nd, to, ch))
    BY <1>0, <2>1, EntriesChanged, Zenon
  <2>3. QED
    BY <2>2, <1>3 DEF OnlyEntries
<1>5. \A e \in 1..Len(nd) : \A i \in 1..Len(md[e].ch) :
         \/ i \in 1..Len(nd[e].ch) /\ md[e].ch[i] = nd[e].ch[i]
         \/ e = to /\ i = Len(old) + 1 /\ md[e].ch[i] = n
  <2> SUFFICES ASSUME NEW e \in 1..Len(nd), NEW i \in 1..Len(md[e].ch)
               PROVE  \/ i \in 1..Len(nd[e].ch) /\ md[e].ch[i] = nd[e].ch[i]
                      \/ e = to /\ i = Len(old) + 1 /\ md[e].ch[i] = n
    OBVIOUS
  <2>1. CASE e # to
    BY <2>1, <1>4
  <2>2. CASE e = to
    <3>1. i \in 1..Len(ch) /\ md[e].ch[i] = ch[i] /\ nd[e].ch = old
      BY <2>2, <1>4 DEF old
    <3>2. \/ i \in 1..Len(old) /\ ch[i] = old[i]
          \/ i = Len(old) + 1 /\ ch[i] = n
      BY <3>1, <1>1, <1>2
    <3>3. QED
      BY <2>2, <3>1, <3>2
  <2>3. QED
    BY <2>1, <2>2
<1>6. Children(md)
  <2> SUFFICES ASSUME NEW e \in 1..Len(nd)
               PROVE  /\ Len(md[e].ch) =< MAX_CHILDREN
                      /\ \A i \in 1..Len(md[e].ch) : md[e].ch[i] \in 2..Len(nd)
    BY <1>4 DEF Children
  <2>0. Children(nd)
    BY DEF Tree
  <2>1. Len(md[e].ch) =< MAX_CHILDREN
    <3>1. CASE e = to
      BY <3>1, <1>1, <1>2, <1>4
    <3>2. CASE e # to
      BY <3>2, <2>0, <1>4 DEF Children
    <3>3. QED
      BY <3>1, <3>2
  <2>2. QED
    BY <1>5, <2>0, <2>1 DEF Children
<1>7. OneParent(md)
  <2> SUFFICES ASSUME NEW d \in 1..Len(nd), NEW e \in 1..Len(nd),
                      NEW i \in 1..Len(md[d].ch), NEW j \in 1..Len(md[e].ch),
                      md[d].ch[i] = md[e].ch[j]
               PROVE  d = e /\ i = j
    BY <1>4 DEF OneParent
  <2>1. CASE i \in 1..Len(nd[d].ch) /\ md[d].ch[i] = nd[d].ch[i]
             /\ j \in 1..Len(nd[e].ch) /\ md[e].ch[j] = nd[e].ch[j]
    <3>1. OneParent(nd) /\ nd[d].ch[i] = nd[e].ch[j]
      BY <2>1 DEF Tree
    <3>2. Entry(nd, d, i, nd[d].ch[i]) /\ Entry(nd, e, j, nd[d].ch[i])
      BY <2>1, <3>1 DEF Entry
    <3>3. QED
      BY <3>1, <3>2, SameEntry
  <2>2. CASE d = to /\ i = Len(old) + 1 /\ e = to /\ j = Len(old) + 1
    BY <2>2
  <2>3. ~(i \in 1..Len(nd[d].ch) /\ md[d].ch[i] = nd[d].ch[i] /\ md[e].ch[j] = n)
    BY DEF Loose
  <2>4. ~(j \in 1..Len(nd[e].ch) /\ md[e].ch[j] = nd[e].ch[j] /\ md[d].ch[i] = n)
    BY DEF Loose
  <2>5. QED
    BY <1>5, <2>1, <2>2, <2>3, <2>4
<1>8. Tree(md)
  BY <1>0, <1>4, <1>6, <1>7 DEF Tree
<1>9. Extends(nd, md)
  <2>1. ASSUME NEW e \in 1..Len(nd)
        PROVE  /\ Len(nd[e].ch) =< Len(md[e].ch)
               /\ \A i \in 1..Len(nd[e].ch) : md[e].ch[i] = nd[e].ch[i]
    <3>1. Len(nd[e].ch) \in Nat
      BY <1>0, Fields
    <3>2. CASE e = to
      BY <3>2, <1>1, <1>2, <1>4 DEF old
    <3>3. CASE e # to
      BY <3>1, <3>3, <1>4
    <3>4. QED
      BY <3>2, <3>3
  <2>2. QED
    BY <1>0, <1>4, <2>1 DEF Extends
<1>10. FilesBare(nd) /\ nd[to].dir => FilesBare(md)
  BY <1>4 DEF FilesBare
<1>11. Len(old) < MAX_CHILDREN => HasEntry(md, to, n)
  <2> SUFFICES ASSUME Len(old) < MAX_CHILDREN PROVE HasEntry(md, to, n)
    OBVIOUS
  <2>1. Len(old) + 1 \in 1..Len(md[to].ch) /\ md[to].ch[Len(old) + 1] = n
    BY <1>1, <1>2, <1>4
  <2>2. QED
    BY <2>1 DEF HasEntry
<1>12. QED
  BY <1>4, <1>8, <1>9, <1>10, <1>11 DEF md, old

\* More entries behind the old ones hide none of them.
LEMMA ExtendsKeeps ==
  ASSUME NEW nd, NEW md, Tree(nd), Tree(md), Extends(nd, md)
  PROVE  KeepsDirs(nd, md)
<1> SUFFICES ASSUME NEW d \in 1..Len(nd), NEW name \in PathNames, Lookup(nd, d, name) # NULL
             PROVE  /\ Lookup(md, d, name) = Lookup(nd, d, name)
                    /\ nd[Lookup(nd, d, name)].dir => md[Lookup(nd, d, name)].dir
  BY DEF KeepsDirs
<1>0. Len(nd) \in Nat /\ Len(md) \in Nat /\ d \in 1..Len(md)
  BY DEF Tree, Extends
<1>1. PICK i \in 1..Len(nd[d].ch) : FirstHit(nd, d, name, i) /\ Lookup(nd, d, name) = nd[d].ch[i]
  BY LookupFinds
<1>2. Len(nd[d].ch) \in Nat /\ Len(md[d].ch) \in Nat
  BY <1>0, Fields DEF Tree
<1>3. \A j \in 1..Len(nd[d].ch) :
        /\ nd[d].ch[j] \in 1..Len(nd) /\ md[d].ch[j] = nd[d].ch[j]
        /\ md[nd[d].ch[j]].name = nd[nd[d].ch[j]].name
        /\ md[nd[d].ch[j]].dir = nd[nd[d].ch[j]].dir
  <2> SUFFICES ASSUME NEW j \in 1..Len(nd[d].ch)
               PROVE  /\ nd[d].ch[j] \in 1..Len(nd) /\ md[d].ch[j] = nd[d].ch[j]
                      /\ md[nd[d].ch[j]].name = nd[nd[d].ch[j]].name
                      /\ md[nd[d].ch[j]].dir = nd[nd[d].ch[j]].dir
    OBVIOUS
  <2>1. nd[d].ch[j] \in 2..Len(nd)
    BY DEF Tree, Children
  <2>2. nd[d].ch[j] \in 1..Len(nd)
    BY <1>0, <2>1
  <2>3. md[d].ch[j] = nd[d].ch[j]
    BY DEF Extends
  <2>4. QED
    BY <2>2, <2>3 DEF Extends
<1>4. i \in 1..Len(md[d].ch) /\ \A j \in 1..(i - 1) : j \in 1..Len(nd[d].ch)
  BY <1>2 DEF Extends
<1>5. FirstHit(md, d, name, i)
  BY <1>1, <1>3, <1>4 DEF FirstHit
<1>6. Lookup(md, d, name) = md[d].ch[i]
  BY <1>0, <1>5, LookupIs
<1>7. QED
  BY <1>1, <1>3, <1>6

\* Where entry i of node e was before entry p of node d was taken out.
Was(d, p, e, i) == IF e = d /\ i >= p THEN i + 1 ELSE i

\* What the removal of one child leaves of the list of entries, as the shifting
\* loop of ramfs_remove does it.
LEMMA WithoutFacts ==
  ASSUME NEW s \in Seq(Nat), NEW p \in 1..Len(s), \A j \in 1..Len(s) : s[j] = s[p] => j = p
  PROVE  /\ Without(s, s[p]) \in Seq(Nat) /\ Len(Without(s, s[p])) = Len(s) - 1
         /\ \A k \in 1..(p - 1) : Without(s, s[p])[k] = s[k]
         /\ \A k \in p..(Len(s) - 1) : Without(s, s[p])[k] = s[k + 1]
<1> DEFINE i == CHOOSE i \in 1..Len(s) : s[i] = s[p] /\ \A j \in 1..i - 1 : s[j] # s[p]
<1>1. \A j \in 1..(p - 1) : s[j] # s[p]
  OBVIOUS
<1>2. i = p
  BY <1>1
<1>3. Without(s, s[p]) = RemoveAt(s, p)
  BY <1>2 DEF Without
<1> DEFINE a == SubSeq(s, 1, p - 1)
           b == SubSeq(s, p + 1, Len(s))
<1>4. Len(s) \in Nat /\ p - 1 \in 0..Len(s) /\ p + 1 \in 1..(Len(s) + 1)
  OBVIOUS
<1>5. a \in Seq(Nat) /\ Len(a) = p - 1 /\ \A k \in 1..(p - 1) : a[k] = s[k]
  BY <1>4
<1>6. b \in Seq(Nat) /\ Len(b) = Len(s) - p /\ \A k \in 1..(Len(s) - p) : b[k] = s[k + p]
  <2>1. b \in Seq(Nat) /\ Len(b) = Len(s) - p
    BY <1>4
  <2>2. ASSUME NEW k \in 1..(Len(s) - p)
        PROVE  b[k] = s[k + p]
    <3>1. b[k] = s[p + 1 + k - 1]
      <4>1. \A k0 \in (p + 1)..Len(s) : s[k0] \in Nat
        BY <1>4
      <4>2. p + 1 \in Int /\ Len(s) \in Int /\ k \in 1..(Len(s) - (p + 1) + 1)
        BY <1>4
      <4>3. QED
        BY <4>1, <4>2, SubSeqProperties
    <3>2. p + 1 + k - 1 = k + p
      BY <1>4
    <3>3. QED
      BY <3>1, <3>2
  <2>3. QED
    BY <2>1, <2>2
<1>7. RemoveAt(s, p) = a \o b
  BY DEF RemoveAt
<1> HIDE DEF a, b
<1>8. /\ a \o b \in Seq(Nat) /\ Len(a \o b) = Len(s) - 1
      /\ \A k \in 1..(p - 1) : (a \o b)[k] = a[k]
      /\ \A k \in p..(Len(s) - 1) : (a \o b)[k] = b[k - (p - 1)]
  <2>1. a \in Seq(Nat) /\ b \in Seq(Nat) /\ Len(a) = p - 1 /\ Len(b) = Len(s) - p
    BY <1>5, <1>6
  <2>2. Len(a) \in Nat /\ Len(b) \in Nat /\ Len(a) + Len(b) = Len(s) - 1
    BY <1>4, <2>1
  <2>3. /\ a \o b \in Seq(Nat) /\ Len(a \o b) = Len(a) + Len(b)
        /\ \A k \in 1..(Len(a) + Len(b)) : (a \o b)[k] = IF k <= Len(a) THEN a[k] ELSE b[k - Len(a)]
    BY <2>1, ConcatProperties
  <2>4. \A k \in 1..(p - 1) : k \in 1..(Len(a) + Len(b)) /\ k <= Len(a)
    BY <1>4, <2>1, <2>2
  <2>5. \A k \in p..(Len(s) - 1) : k \in 1..(Len(a) + Len(b)) /\ ~(k <= Len(a))
    BY <1>4, <2>1, <2>2
  <2>6. QED
    BY <2>1, <2>2, <2>3, <2>4, <2>5
<1>9. \A k \in p..(Len(s) - 1) : k - (p - 1) \in 1..(Len(s) - p) /\ k - (p - 1) + p = k + 1
  BY <1>4
<1>10. \A k \in p..(Len(s) - 1) : b[k - (p - 1)] = s[k + 1]
  BY <1>6, <1>9
<1>11. QED
  BY <1>3, <1>5, <1>7, <1>8, <1>10

\* The nodes md are those of nd without entry p of node d.
EntryOut(nd, d, p, md) ==
    /\ Len(md) = Len(nd)
    /\ \A e \in 1..Len(nd) : md[e].name = nd[e].name /\ md[e].dir = nd[e].dir
    /\ \A e \in 1..Len(nd) : Len(md[e].ch) = IF e = d THEN Len(nd[e].ch) - 1 ELSE Len(nd[e].ch)
    /\ \A e \in 1..Len(nd) : \A i \in 1..Len(md[e].ch) :
          /\ Was(d, p, e, i) \in 1..Len(nd[e].ch)
          /\ md[e].ch[i] = nd[e].ch[Was(d, p, e, i)]

\* Taking out the entry of a node leaves that node in no directory, and takes
\* away no other entry.
LEMMA CutTree ==
  ASSUME NEW nd, Tree(nd), NEW d \in 1..Len(nd), NEW p \in 1..Len(nd[d].ch), NEW n, n = nd[d].ch[p],
         NEW md, md = Cut(nd, d, n)
  PROVE  Tree(md) /\ Loose(md, n) /\ EntryOut(nd, d, p, md)
<1> DEFINE old == nd[d].ch
           ch == Without(old, n)
<1>0. nd \in Seq(NodeType) /\ Len(nd) \in Nat /\ Len(nd) >= 1 /\ Children(nd) /\ OneParent(nd)
  BY DEF Tree
<1>len. \A e \in 1..Len(nd) : Len(nd[e].ch) \in Nat
  BY <1>0, Fields
<1>1. old \in Seq(Nat) /\ Len(old) \in Nat
  BY <1>0, Fields
<1>2. \A j \in 1..Len(old) : old[j] = old[p] => j = p
  BY <1>0, SMT DEF OneParent
<1>3. n = old[p] /\ p \in 1..Len(old)
  OBVIOUS
<1>4. md = WithEntries(nd, d, ch)
  BY DEF Cut, WithEntries
<1> HIDE DEF old
<1>5. /\ ch \in Seq(Nat) /\ Len(ch) = Len(old) - 1
      /\ \A k \in 1..(p - 1) : ch[k] = old[k]
      /\ \A k \in p..(Len(old) - 1) : ch[k] = old[k + 1]
  BY <1>1, <1>2, <1>3, WithoutFacts
<1> HIDE DEF ch
<1>6. /\ md \in Seq(NodeType) /\ Len(md) = Len(nd)
      /\ \A e \in 1..Len(nd) : md[e].name = nd[e].name /\ md[e].dir = nd[e].dir
      /\ \A e \in 1..Len(nd) : e # d => md[e].ch = nd[e].ch
      /\ md[d].ch = ch
  <2>1. ch \in Seq(Nat)
    BY <1>5
  <2>2. OnlyEntries(nd, d, ch, WithEntries(nd, d, ch))
    BY <1>0, <2>1, EntriesChanged, Zenon
  <2>3. QED
    BY <2>2, <1>4 DEF OnlyEntries
<1>7. \A e \in 1..Len(nd) : Len(md[e].ch) = IF e = d THEN Len(nd[e].ch) - 1 ELSE Len(nd[e].ch)
  BY <1>5, <1>6 DEF old
<1>8. ASSUME NEW e \in 1..Len(nd), NEW i \in 1..Len(md[e].ch)
      PROVE  /\ Was(d, p, e, i) \in 1..Len(nd[e].ch)
             /\ md[e].ch[i] = nd[e].ch[Was(d, p, e, i)]
             /\ i \in Nat /\ ~(e = d /\ Was(d, p, e, i) = p)
  <2>1. CASE e # d
    BY <2>1, <1>6, <1>len DEF Was
  <2>2. CASE e = d
    <3>1. i \in 1..(Len(old) - 1) /\ md[e].ch[i] = ch[i] /\ nd[e].ch = old
      BY <2>2, <1>5, <1>6 DEF old
    <3>2. CASE i >= p
      <4>1. Was(d, p, e, i) = i + 1 /\ i \in p..(Len(old) - 1)
        BY <2>2, <3>1, <3>2, <1>1, <1>3 DEF Was
      <4>2. i + 1 \in 1..Len(old) /\ i \in Nat /\ i + 1 # p
        BY <4>1, <1>1, <1>3
      <4>3. ch[i] = old[i + 1]
        BY <4>1, <1>5
      <4>4. QED
        BY <4>1, <4>2, <4>3, <3>1
    <3>3. CASE ~(i >= p)
      <4>1. Was(d, p, e, i) = i /\ i \in 1..(p - 1) /\ i \in 1..Len(old) /\ i \in Nat /\ i # p
        BY <2>2, <3>1, <3>3, <1>1, <1>3 DEF Was
      <4>2. ch[i] = old[i]
        BY <4>1, <1>5
      <4>3. QED
        BY <4>1, <4>2, <3>1
    <3>4. QED
      BY <3>2, <3>3
  <2>3. QED
    BY <2>1, <2>2
<1>9. Children(md)
  <2> SUFFICES ASSUME NEW e \in 1..Len(nd)
               PROVE  /\ Len(md[e].ch) =< MAX_CHILDREN
                      /\ \A i \in 1..Len(md[e].ch) : md[e].ch[i] \in 2..Len(nd)
    BY <1>6 DEF Children
  <2>1. Len(md[e].ch) =< MAX_CHILDREN
    <3>1. Len(nd[e].ch) =< MAX_CHILDREN /\ Len(nd[e].ch) \in Nat /\ MAX_CHILDREN \in Nat
      BY <1>0, <1>len, FilesAssumption DEF Children
    <3>2. Len(md[e].ch) = IF e = d THEN Len(nd[e].ch) - 1 ELSE Len(nd[e].ch)
      BY <1>7
    <3>3. QED
      BY <3>1, <3>2
  <2>2. QED
    BY <1>0, <1>8, <2>1 DEF Children
<1>10. OneParent(md)
  <2> SUFFICES ASSUME NEW a \in 1..Len(nd), NEW b \in 1..Len(nd),
                      NEW i \in 1..Len(md[a].ch), NEW j \in 1..Len(md[b].ch),
                      md[a].ch[i] = md[b].ch[j]
               PROVE  a = b /\ i = j
    BY <1>6 DEF OneParent
  <2>1. nd[a].ch[Was(d, p, a, i)] = nd[b].ch[Was(d, p, b, j)]
    BY <1>8
  <2>2. Was(d, p, a, i) \in 1..Len(nd[a].ch) /\ Was(d, p, b, j) \in 1..Len(nd[b].ch)
    BY <1>8
  <2>3. a = b /\ Was(d, p, a, i) = Was(d, p, b, j)
    <3> DEFINE x == Was(d, p, a, i)
               y == Was(d, p, b, j)
    <3> HIDE DEF x, y
    <3>1. x \in 1..Len(nd[a].ch) /\ y \in 1..Len(nd[b].ch) /\ nd[a].ch[x] = nd[b].ch[y]
      BY <2>1, <2>2 DEF x, y
    <3>2. OneParent(nd)
      BY <1>0
    <3>3. a = b /\ x = y
      <4> DEFINE c == nd[a].ch[x]
      <4>1. Entry(nd, a, x, c) /\ Entry(nd, b, y, c)
        BY <3>1 DEF Entry
      <4>2. AllOne(nd)
        BY <3>2, OneParentIs
      <4> HIDE DEF c
      <4>3. QED
        BY <4>1, <4>2 DEF AllOne
    <3>4. QED
      BY <3>3 DEF x, y
  <2>4. i \in Nat /\ j \in Nat /\ p \in Nat
    BY <1>8, <1>3, <1>1
  <2>5. QED
    BY <2>3, <2>4 DEF Was
<1>11. Loose(md, n)
  <2> SUFFICES ASSUME NEW e \in 1..Len(nd), NEW i \in 1..Len(md[e].ch), md[e].ch[i] = n
               PROVE  FALSE
    BY <1>6 DEF Loose
  <2>1. nd[e].ch[Was(d, p, e, i)] = nd[d].ch[p] /\ Was(d, p, e, i) \in 1..Len(nd[e].ch)
    BY <1>8
  <2>2. e = d /\ Was(d, p, e, i) = p
    <3>1. Entry(nd, e, Was(d, p, e, i), nd[d].ch[p]) /\ Entry(nd, d, p, nd[d].ch[p])
      BY <2>1, <1>3 DEF Entry
    <3>2. QED
      BY <3>1, <1>0, SameEntry
  <2>3. QED
    BY <2>2, <1>8
<1>12. Tree(md)
  <2>1. md[1].dir
    BY <1>0, <1>6 DEF Tree
  <2>2. QED
    BY <2>1, <1>0, <1>6, <1>9, <1>10 DEF Tree
<1>13. EntryOut(nd, d, p, md)
  BY <1>6, <1>7, <1>8 DEF EntryOut
<1>14. QED
  BY <1>11, <1>12, <1>13

\* Taking out a file hides no directory.
LEMMA CutKeeps ==
  ASSUME NEW nd, Tree(nd), NEW h \in 1..Len(nd), NEW p \in 1..Len(nd[h].ch), NEW n, n = nd[h].ch[p],
         NEW md, md = Cut(nd, h, n), ~nd[n].dir
  PROVE  KeepsDirs(nd, md)
<1> SUFFICES ASSUME NEW d \in 1..Len(nd), NEW name \in PathNames, Lookup(nd, d, name) # NULL,
                    nd[Lookup(nd, d, name)].dir
             PROVE  Lookup(md, d, name) = Lookup(nd, d, name) /\ md[Lookup(nd, d, name)].dir
  BY DEF KeepsDirs
<1>0. nd \in Seq(NodeType) /\ Len(nd) \in Nat /\ Children(nd)
  BY DEF Tree
<1>1. /\ Len(md) = Len(nd) /\ Tree(md)
      /\ \A e \in 1..Len(nd) : md[e].name = nd[e].name /\ md[e].dir = nd[e].dir
      /\ \A e \in 1..Len(nd) : Len(md[e].ch) = IF e = h THEN Len(nd[e].ch) - 1 ELSE Len(nd[e].ch)
      /\ \A e \in 1..Len(nd) : \A i \in 1..Len(md[e].ch) :
            /\ Was(h, p, e, i) \in 1..Len(nd[e].ch)
            /\ md[e].ch[i] = nd[e].ch[Was(h, p, e, i)]
  <2>1. Tree(md) /\ EntryOut(nd, h, p, md)
    BY CutTree
  <2>2. QED
    BY <2>1 DEF EntryOut
<1>2. PICK i \in 1..Len(nd[d].ch) : FirstHit(nd, d, name, i) /\ Lookup(nd, d, name) = nd[d].ch[i]
  BY LookupFinds
<1>3. Len(nd[d].ch) \in Nat /\ i \in Nat
  BY <1>0, Fields
<1>4. ~(d = h /\ i = p)
  BY <1>2
<1>p. p \in Nat
  <2>1. Len(nd[h].ch) \in Nat
    BY <1>0, Fields
  <2>2. QED
    BY <2>1
<1> DEFINE q == IF d = h /\ i > p THEN i - 1 ELSE i
<1>5. q \in Nat /\ q \in 1..Len(md[d].ch) /\ Was(h, p, d, q) = i
  <2>1. CASE d = h
    <3>1. Len(md[d].ch) = Len(nd[d].ch) - 1 /\ i # p /\ p \in 1..Len(nd[d].ch)
      BY <2>1, <1>1, <1>4
    <3>2. CASE i > p
      BY <2>1, <3>1, <3>2, <1>3, <1>p DEF Was
    <3>3. CASE ~(i > p)
      BY <2>1, <3>1, <3>3, <1>3, <1>p DEF Was
    <3>4. QED
      BY <3>2, <3>3
  <2>2. CASE d # h
    <3>1. Len(md[d].ch) = Len(nd[d].ch)
      BY <2>2, <1>1
    <3>2. QED
      BY <2>2, <3>1, <1>3 DEF Was
  <2>3. QED
    BY <2>1, <2>2
<1>6. ASSUME NEW j \in 1..(q - 1)
      PROVE  j \in 1..Len(md[d].ch) /\ Was(h, p, d, j) \in 1..(i - 1)
  <2>1. j \in Nat /\ j \in 1..Len(md[d].ch) /\ j < q
    <3>1. Len(md[d].ch) \in Nat
      BY <1>1, <1>0, Fields DEF Tree
    <3>2. QED
      BY <3>1, <1>5
  <2>2. Was(h, p, d, j) \in Nat /\ Was(h, p, d, j) >= 1
    BY <2>1, <1>p DEF Was
  <2>3. Was(h, p, d, j) < i
    <3>1. CASE d = h
      BY <3>1, <2>1, <1>3, <1>p, <1>4, <1>5 DEF Was
    <3>2. CASE d # h
      BY <3>2, <2>1, <1>3 DEF Was
    <3>3. QED
      BY <3>1, <3>2
  <2>4. QED
    BY <2>1, <2>2, <2>3, <1>3
<1> HIDE DEF q
<1>7. \A j \in 1..Len(nd[d].ch) : nd[d].ch[j] \in 1..Len(nd)
  BY <1>0 DEF Children
<1>8. md[d].ch[q] = nd[d].ch[i] /\ md[md[d].ch[q]].name = name
  <2>1. md[d].ch[q] = nd[d].ch[i]
    BY <1>1, <1>5
  <2>2. nd[d].ch[i] \in 1..Len(nd) /\ nd[nd[d].ch[i]].name = name
    BY <1>2, <1>7 DEF FirstHit
  <2>3. QED
    BY <2>1, <2>2, <1>1
<1>9. ASSUME NEW j \in 1..(q - 1)
      PROVE  md[md[d].ch[j]].name # name
  <2> DEFINE k == Was(h, p, d, j)
  <2> HIDE DEF k
  <2>1. k \in 1..(i - 1) /\ k \in 1..Len(nd[d].ch) /\ md[d].ch[j] = nd[d].ch[k]
    BY <1>1, <1>6 DEF k
  <2>2. nd[nd[d].ch[k]].name # name
    BY <1>2, <2>1 DEF FirstHit
  <2>3. md[nd[d].ch[k]].name = nd[nd[d].ch[k]].name
    BY <2>1, <1>1, <1>7
  <2>4. QED
    BY <2>1, <2>2, <2>3
<1>10. FirstHit(md, d, name, q)
  BY <1>5, <1>8, <1>9 DEF FirstHit
<1>11. Lookup(md, d, name) = md[d].ch[q]
  BY <1>1, <1>10, LookupIs
<1>12. QED
  BY <1>1, <1>2, <1>7, <1>8, <1>11

\* The nodes md differ from nd in the name of n.
OnlyName(nd, n, new, md) ==
    /\ Len(md) = Len(nd)
    /\ \A e \in 1..Len(nd) : md[e].ch = nd[e].ch /\ md[e].dir = nd[e].dir
    /\ \A e \in 1..Len(nd) : md[e].name = IF e = n THEN new ELSE nd[e].name

\* A new name changes no entry.
LEMMA RenamedTree ==
  ASSUME NEW nd, Tree(nd), NEW n \in 1..Len(nd), NEW new \in AllNames, NEW md, md = Renamed(nd, n, new)
  PROVE  /\ Tree(md) /\ OnlyName(nd, n, new, md)
         /\ FilesBare(nd) => FilesBare(md)
<1>0. nd \in Seq(NodeType) /\ Len(nd) \in Nat /\ nd[n] \in NodeType
  BY DEF Tree
<1> DEFINE r == [nd[n] EXCEPT !.name = new]
<1>1. r \in NodeType /\ r.name = new /\ r.dir = nd[n].dir /\ r.ch = nd[n].ch
  BY <1>0 DEF NodeType
<1>2. md = [nd EXCEPT ![n] = r]
  BY DEF Renamed
<1> HIDE DEF r
<1>3. md \in Seq(NodeType) /\ Len(md) = Len(nd) /\ md[n] = r
      /\ \A e \in 1..Len(nd) : e # n => md[e] = nd[e]
  BY <1>0, <1>1, <1>2
<1>4. \A e \in 1..Len(nd) : md[e].ch = nd[e].ch /\ md[e].dir = nd[e].dir
  BY <1>1, <1>3
<1>5. Tree(md)
  <2>1. md[1].dir
    BY <1>4 DEF Tree
  <2>2. Children(md)
    BY <1>3, <1>4 DEF Tree, Children
  <2>3. OneParent(md)
    <3>1. AllOne(nd)
      BY OneParentIs DEF Tree
    <3>2. \A e \in 1..Len(nd) : \A i, c : Entry(md, e, i, c) <=> Entry(nd, e, i, c)
      BY <1>4 DEF Entry
    <3>3. AllOne(md)
      BY <1>3, <3>1, <3>2 DEF AllOne
    <3>4. QED
      BY <3>3, OneParentIs
  <2>4. QED
    BY <1>3, <2>1, <2>2, <2>3 DEF Tree
<1>6. OnlyName(nd, n, new, md)
  BY <1>1, <1>3, <1>4 DEF OnlyName
<1>7. QED
  BY <1>3, <1>4, <1>5, <1>6 DEF FilesBare

\* A file that is renamed hides no directory: mv takes a name that leads to a
\* directory as the place to move to.
LEMMA RenamedKeeps ==
  ASSUME NEW nd, Tree(nd), NEW h \in 1..Len(nd), NEW p \in 1..Len(nd[h].ch), NEW n, n = nd[h].ch[p],
         NEW new \in AllNames, NEW md, md = Renamed(nd, n, new), ~nd[n].dir,
         Lookup(nd, h, new) = NULL \/ ~nd[Lookup(nd, h, new)].dir
  PROVE  KeepsDirs(nd, md)
<1> SUFFICES ASSUME NEW d \in 1..Len(nd), NEW name \in PathNames, Lookup(nd, d, name) # NULL,
                    nd[Lookup(nd, d, name)].dir
             PROVE  Lookup(md, d, name) = Lookup(nd, d, name) /\ md[Lookup(nd, d, name)].dir
  BY DEF KeepsDirs
<1>0. nd \in Seq(NodeType) /\ Len(nd) \in Nat /\ Children(nd) /\ OneParent(nd)
  BY DEF Tree
<1>n. n \in 1..Len(nd)
  BY <1>0 DEF Children
<1>1. /\ Len(md) = Len(nd) /\ Tree(md)
      /\ \A e \in 1..Len(nd) : md[e].ch = nd[e].ch /\ md[e].dir = nd[e].dir
      /\ \A e \in 1..Len(nd) : md[e].name = IF e = n THEN new ELSE nd[e].name
  <2>1. Tree(md) /\ OnlyName(nd, n, new, md)
    BY <1>n, RenamedTree
  <2>2. QED
    BY <2>1 DEF OnlyName
<1>2. PICK i \in 1..Len(nd[d].ch) : FirstHit(nd, d, name, i) /\ Lookup(nd, d, name) = nd[d].ch[i]
  BY LookupFinds
<1>3. Len(nd[d].ch) \in Nat
  BY <1>0, Fields
<1>4. \A j \in 1..Len(nd[d].ch) : nd[d].ch[j] \in 1..Len(nd)
  BY <1>0 DEF Children
<1>5. nd[d].ch[i] # n
  BY <1>2
<1>6. md[nd[d].ch[i]].name = name
  BY <1>1, <1>2, <1>4, <1>5 DEF FirstHit
<1>7. ASSUME NEW j \in 1..(i - 1)
      PROVE  md[nd[d].ch[j]].name # name
  <2>1. j \in 1..Len(nd[d].ch) /\ nd[d].ch[j] \in 1..Len(nd)
    BY <1>3, <1>4
  <2>2. nd[nd[d].ch[j]].name # name
    BY <1>2 DEF FirstHit
  <2>3. CASE nd[d].ch[j] # n
    BY <2>1, <2>2, <2>3, <1>1
  <2>4. CASE nd[d].ch[j] = n
    <3>1. d = h
      <4>1. nd[d].ch[j] = nd[h].ch[p]
        BY <2>4
      <4>2. Entry(nd, d, j, n) /\ Entry(nd, h, p, n)
        BY <2>1, <2>4, <4>1, <1>0 DEF Entry
      <4>3. QED
        BY <4>2, <1>0, SameEntry
    <3>2. new # name
      BY <3>1
    <3>3. QED
      BY <2>1, <2>4, <3>2, <1>1
  <2>5. QED
    BY <2>3, <2>4
<1>8. md[d].ch = nd[d].ch
  BY <1>1
<1>9. FirstHit(md, d, name, i)
  BY <1>6, <1>7, <1>8 DEF FirstHit
<1>10. Lookup(md, d, name) = md[d].ch[i]
  BY <1>1, <1>9, LookupIs
<1>11. QED
  BY <1>1, <1>2, <1>4, <1>8, <1>10

\* Two changes that hide no directory, one after the other.
LEMMA KeepsTwice ==
  ASSUME NEW nd, NEW md, NEW ld, Tree(nd), Tree(md), Len(nd) = Len(md), KeepsDirs(nd, md), KeepsDirs(md, ld)
  PROVE  KeepsDirs(nd, ld)
<1> SUFFICES ASSUME NEW d \in 1..Len(nd), NEW name \in PathNames, Lookup(nd, d, name) # NULL,
                    nd[Lookup(nd, d, name)].dir
             PROVE  Lookup(ld, d, name) = Lookup(nd, d, name) /\ ld[Lookup(nd, d, name)].dir
  BY DEF KeepsDirs
<1>1. Lookup(md, d, name) = Lookup(nd, d, name) /\ md[Lookup(nd, d, name)].dir
  BY DEF KeepsDirs
<1>2. QED
  BY <1>1 DEF KeepsDirs

\* Taking an entry out of a directory gives no file an entry.
LEMMA CutBare ==
  ASSUME NEW nd, Tree(nd), NEW d \in 1..Len(nd), NEW p \in 1..Len(nd[d].ch), NEW md, Tree(md),
         EntryOut(nd, d, p, md), FilesBare(nd)
  PROVE  FilesBare(md)
<1> SUFFICES ASSUME NEW e \in 1..Len(nd), ~nd[e].dir
             PROVE  md[e].ch = <<>>
  BY DEF FilesBare, EntryOut
<1>1. nd[e].ch = <<>>
  BY DEF FilesBare
<1>2. e # d
  BY <1>1
<1>3. Len(md[e].ch) = 0
  BY <1>1, <1>2 DEF EntryOut
<1>4. md[e].ch \in Seq(Nat)
  <2>1. md \in Seq(NodeType) /\ e \in 1..Len(md)
    BY DEF Tree, EntryOut
  <2>2. QED
    BY <2>1, Fields
<1>5. QED
  BY <1>3, <1>4

\* Two changes that only add, one after the other.
LEMMA ExtendsTwice ==
  ASSUME NEW nd, NEW md, NEW ld, Tree(nd), Tree(md), Tree(ld), Extends(nd, md), Extends(md, ld)
  PROVE  Extends(nd, ld)
<1>0. Len(nd) \in Nat /\ Len(md) \in Nat /\ Len(ld) \in Nat /\ Len(nd) =< Len(md) /\ Len(md) =< Len(ld)
  BY DEF Tree, Extends
<1>1. ASSUME NEW d \in 1..Len(nd)
      PROVE  /\ ld[d].name = nd[d].name /\ ld[d].dir = nd[d].dir
             /\ Len(nd[d].ch) =< Len(ld[d].ch)
             /\ \A i \in 1..Len(nd[d].ch) : ld[d].ch[i] = nd[d].ch[i]
  <2>1. d \in 1..Len(md) /\ d \in 1..Len(ld)
    BY <1>0
  <2>2. Len(nd[d].ch) \in Nat /\ Len(md[d].ch) \in Nat /\ Len(ld[d].ch) \in Nat
    BY <2>1, Fields DEF Tree
  <2>3. Len(nd[d].ch) =< Len(md[d].ch) /\ Len(md[d].ch) =< Len(ld[d].ch)
    BY <2>1 DEF Extends
  <2>4. \A i \in 1..Len(nd[d].ch) : i \in 1..Len(md[d].ch)
    BY <2>2, <2>3
  <2>5. QED
    BY <2>1, <2>2, <2>3, <2>4 DEF Extends
<1>2. QED
  BY <1>0, <1>1 DEF Extends

-----------------------------------------------------------------------------
(* The inductive invariant.                                                 *)

\* The tree that vfs_init and ramfs_init build satisfies the invariant.
LEMMA InitInvariant == Init => IInv
<1> SUFFICES ASSUME Init PROVE IInv
  OBVIOUS
<1> DEFINE A == [Node("/", TRUE) EXCEPT !.ch = <<2, 3>>]
           B == [Node("etc", TRUE) EXCEPT !.ch = <<4>>]
           C == Node("dev", TRUE)
           D == Node("motd", FALSE)
<1>1. A \in NodeType /\ B \in NodeType /\ C \in NodeType /\ D \in NodeType
  <2>1. <<2, 3>> \in Seq(Nat) /\ <<4>> \in Seq(Nat) /\ <<>> \in Seq(Nat)
    OBVIOUS
  <2>2. "/" \in AllNames /\ "etc" \in AllNames /\ "dev" \in AllNames /\ "motd" \in AllNames
    BY DEF AllNames
  <2>3. ASSUME NEW r \in NodeType, NEW ch \in Seq(Nat)
        PROVE  [r EXCEPT !.ch = ch] \in NodeType
    BY DEF NodeType
  <2>4. Node("/", TRUE) \in NodeType /\ Node("etc", TRUE) \in NodeType
    BY <2>1, <2>2 DEF NodeType, Node
  <2>5. A \in NodeType
    BY <2>1, <2>3, <2>4
  <2>6. B \in NodeType
    BY <2>1, <2>3, <2>4
  <2>7. C \in NodeType /\ D \in NodeType
    BY <2>1, <2>2 DEF NodeType, Node
  <2>8. QED
    BY <2>5, <2>6, <2>7
<1>2. A.ch = <<2, 3>> /\ B.ch = <<4>> /\ C.ch = <<>> /\ D.ch = <<>> /\ A.dir /\ B.dir /\ C.dir
  BY DEF Node
<1>3. node = <<A, B, C, D>> /\ cwd = <<>> /\ prev_cwd = <<>> /\ displaced = FALSE
  BY DEF Init
<1> HIDE DEF A, B, C, D
<1>4. node \in Seq(NodeType) /\ Len(node) = 4
      /\ node[1] = A /\ node[2] = B /\ node[3] = C /\ node[4] = D
  BY <1>1, <1>3
<1>5. Children(node)
  <2> SUFFICES ASSUME NEW d \in 1..4
               PROVE  /\ Len(node[d].ch) =< MAX_CHILDREN
                      /\ \A i \in 1..Len(node[d].ch) : node[d].ch[i] \in 2..4
    BY <1>4 DEF Children
  <2>1. CASE d = 1
    <3> DEFINE ch == <<2, 3>>
    <3>1. Len(ch) = 2 /\ ch[1] = 2 /\ ch[2] = 3 /\ node[d].ch = ch
      BY <2>1, <1>2, <1>4
    <3> HIDE DEF ch
    <3>2. \A i \in 1..2 : i = 1 \/ i = 2
      OBVIOUS
    <3>3. \A i \in 1..Len(ch) : ch[i] \in 2..4
      BY <3>1, <3>2
    <3>4. QED
      BY <3>1, <3>3, FilesAssumption
  <2>2. CASE d = 2
    BY <2>2, <1>2, <1>4, FilesAssumption
  <2>3. CASE d \in {3, 4}
    BY <2>3, <1>2, <1>4, FilesAssumption
  <2>4. QED
    BY <2>1, <2>2, <2>3
<1>6. OneParent(node)
  <2>1. \A i, c : Entry(node, 1, i, c) => i \in {1, 2} /\ c = i + 1
    BY <1>2, <1>4 DEF Entry
  <2>2. \A i, c : Entry(node, 2, i, c) => i = 1 /\ c = 4
    BY <1>2, <1>4 DEF Entry
  <2>3. \A i, c : ~Entry(node, 3, i, c) /\ ~Entry(node, 4, i, c)
    BY <1>2, <1>4 DEF Entry
  <2>4. ASSUME NEW d \in 1..4, NEW e \in 1..4, NEW i, NEW j, NEW c, Entry(node, d, i, c), Entry(node, e, j, c)
        PROVE  d = e /\ i = j
    <3>1. d \in {1, 2} /\ e \in {1, 2}
      BY <2>3, <2>4
    <3>2. QED
      BY <2>1, <2>2, <2>4, <3>1
  <2>5. QED
    BY <1>4, <2>4, OneParentIs DEF AllOne
<1>7. Tree(node) /\ FilesBare(node)
  BY <1>2, <1>4, <1>5, <1>6 DEF Tree, FilesBare
<1>8. <<>> \in Paths
  BY DEF Paths
<1>9. vfs_resolve(<<>>) = 1
  <2> DEFINE e == <<>>
  <2>1. Len(e) = 0 /\ e # NoPath
    BY DEF NoPath
  <2> HIDE DEF e
  <2>2. PICK w : IsWalk(node, e, w)
    BY <1>7, <2>1, WalkExists
  <2>3. Resolve(node, e) = w[0] /\ w[0] = 1
    BY <1>7, <2>1, <2>2, ResolveWalks DEF IsWalk
  <2>4. QED
    BY <2>3, ResolveIs DEF e
<1>10. CwdIsDirectory
  BY <1>2, <1>3, <1>4, <1>9 DEF CwdIsDirectory, NULL
<1>11. QED
  BY <1>3, <1>7, <1>8, <1>10 DEF IInv

\* The shell's directory before a command, and after one that does not change it.
LEMMA HereIs ==
  ASSUME IInv
  PROVE  /\ here = Resolve(node, cwd) /\ here \in 0..Len(node)
         /\ here # NULL => here \in 1..Len(node)
         /\ here # NULL /\ ~displaced => node[here].dir
<1>1. here = Resolve(node, cwd)
  BY ResolveIs DEF here
<1>2. Len(cwd) \in Nat /\ Tree(node) /\ Len(node) \in Nat
  BY DEF IInv, Paths, Tree
<1>3. here \in 0..Len(node)
  BY <1>1, <1>2, ResolveType
<1>4. ~displaced => node[here].dir
  BY DEF IInv, CwdIsDirectory, here
<1>5. QED
  BY <1>1, <1>2, <1>3, <1>4 DEF NULL

\* A command that leaves the shell's paths alone keeps the invariant if it keeps
\* the tree and, as long as nothing is displaced, every directory's name.
LEMMA CommandKeeps ==
  ASSUME IInv, Tree(node'), UNCHANGED <<cwd, prev_cwd>>, displaced' \in BOOLEAN,
         displaced => displaced',
         ~displaced' => FilesBare(node') /\ KeepsDirs(node, node')
  PROVE  IInv'
<1>1. ASSUME ~displaced', NEW p \in {cwd, prev_cwd}
      PROVE  vfs_resolve(p)' # NULL /\ node'[vfs_resolve(p)'].dir
  <2>1. ~displaced /\ p \in Paths /\ FilesBare(node) /\ Tree(node)
    BY <1>1 DEF IInv
  <2>2. vfs_resolve(p) # NULL /\ node[vfs_resolve(p)].dir
    BY <2>1 DEF IInv, CwdIsDirectory
  <2>3. Resolve(node, p) # NULL /\ node[Resolve(node, p)].dir
    BY <2>2, ResolveIs
  <2>4. Resolve(node', p) # NULL /\ node'[Resolve(node', p)].dir
    BY <1>1, <2>1, <2>3, PathKept
  <2>5. QED
    BY <2>4, ResolveIsPrime
<1>2. CwdIsDirectory'
  BY <1>1 DEF CwdIsDirectory
<1>3. QED
  BY <1>2 DEF IInv

\* ramfs_mkdir and ramfs_mkfile only add.
LEMMA MakeExtends ==
  ASSUME Tree(node), NEW parent \in 1..Len(node), NEW name \in Names, NEW dir \in BOOLEAN,
         Make(parent, name, dir)
  PROVE  /\ Tree(node') /\ Extends(node, node')
         /\ FilesBare(node) /\ node[parent].dir => FilesBare(node')
<1>1. CASE HasMemory
  <2> DEFINE md == Added(node, name, dir)
  <2>0. Len(node) \in Nat /\ Len(node) >= 1 /\ name \in AllNames
    BY DEF Tree, AllNames
  <2>1. /\ Len(md) = Len(node) + 1 /\ Tree(md) /\ Extends(node, md) /\ Loose(md, Len(node) + 1)
        /\ FilesBare(node) => FilesBare(md)
    BY <2>0, AddedTree
  <2>2. node' = Linked(md, parent, Len(node) + 1)
    BY <1>1 DEF Make, Linked, Added, Fresh
  <2> HIDE DEF md
  <2>3. parent \in 1..Len(md) /\ Len(node) + 1 \in 2..Len(md)
    BY <2>0, <2>1
  <2>4. /\ Tree(node') /\ Extends(md, node')
        /\ FilesBare(md) /\ md[parent].dir => FilesBare(node')
    BY <2>1, <2>2, <2>3, LinkedTree
  <2>5. Extends(node, node')
    BY <2>1, <2>4, ExtendsTwice
  <2>6. md[parent].dir = node[parent].dir
    BY <2>1 DEF Extends
  <2>7. QED
    BY <2>1, <2>4, <2>5, <2>6
<1>2. CASE ~HasMemory
  <2>1. node' = node
    BY <1>2 DEF Make
  <2>2. Extends(node, node)
    <3>1. Len(node) \in Nat /\ \A d \in 1..Len(node) : Len(node[d].ch) \in Nat
      BY Fields DEF Tree
    <3>2. QED
      BY <3>1 DEF Extends
  <2>3. QED
    BY <2>1, <2>2
<1>3. QED
  BY <1>1, <1>2

\* A command that makes a node in the directory it is given.
LEMMA MakeKeeps ==
  ASSUME IInv, NEW parent \in 1..Len(node), ~displaced => node[parent].dir,
         NEW name \in Names, NEW dir \in BOOLEAN,
         Make(parent, name, dir), UNCHANGED <<cwd, prev_cwd, displaced>>
  PROVE  IInv'
<1>1. Tree(node) /\ displaced \in BOOLEAN /\ (~displaced => FilesBare(node))
  BY DEF IInv
<1>2. /\ Tree(node') /\ Extends(node, node')
      /\ FilesBare(node) /\ node[parent].dir => FilesBare(node')
  BY <1>1, MakeExtends
<1>3. KeepsDirs(node, node')
  BY <1>1, <1>2, ExtendsKeeps
<1>4. QED
  BY <1>1, <1>2, <1>3, CommandKeeps

\* What finddir finds in the shell's directory is the node of one entry.
LEMMA FoundHere ==
  ASSUME IInv, here # NULL, NEW name, finddir(here, name) # NULL
  PROVE  /\ finddir(here, name) \in 2..Len(node)
         /\ \E i \in 1..Len(node[here].ch) : finddir(here, name) = node[here].ch[i]
<1>1. here \in 1..Len(node) /\ Tree(node)
  BY HereIs DEF IInv
<1> DEFINE d == here
<1> HIDE DEF d
<1>2. finddir(d, name) = Lookup(node, d, name)
  BY FinddirIsLookup
<1>3. Lookup(node, d, name) # NULL /\ d \in 1..Len(node)
  BY <1>1, <1>2 DEF d
<1>4. /\ Lookup(node, d, name) \in 2..Len(node)
      /\ \E i \in 1..Len(node[d].ch) : FirstHit(node, d, name, i) /\ Lookup(node, d, name) = node[d].ch[i]
  BY <1>1, <1>3, LookupFinds
<1>5. QED
  BY <1>2, <1>4 DEF d

\* cmd_cp keeps the invariant: it makes a file, or writes into one.
LEMMA CopyKeeps ==
  ASSUME IInv, NEW src \in Names, NEW dst \in Names, cmd_cp(src, dst)
  PROVE  IInv'
<1> DEFINE to == finddir(here, dst)
<1>1. here # NULL /\ UNCHANGED <<cwd, prev_cwd, displaced>>
  BY DEF cmd_cp
<1>2. here \in 1..Len(node) /\ (~displaced => node[here].dir)
  BY <1>1, HereIs
<1>3. CASE to # NULL /\ node[to].dir /\ Make(to, src, FALSE)
  <2>1. to \in 2..Len(node)
    BY <1>1, <1>3, FoundHere
  <2> HIDE DEF to
  <2>2. to \in 1..Len(node)
    BY <2>1
  <2>3. QED
    BY <1>1, <1>3, <2>2, MakeKeeps
<1>4. CASE Make(here, dst, FALSE)
  BY <1>1, <1>2, <1>4, MakeKeeps
<1>5. CASE UNCHANGED node
  <2>1. Tree(node) /\ displaced \in BOOLEAN /\ (~displaced => FilesBare(node))
    BY DEF IInv
  <2>2. KeepsDirs(node, node)
    BY DEF KeepsDirs
  <2>3. QED
    BY <1>1, <1>5, <2>1, <2>2, CommandKeeps
<1>6. QED
  BY <1>3, <1>4, <1>5 DEF cmd_cp

\* cmd_rm keeps the invariant: it takes out a file, never a directory.
LEMMA RemoveKeeps ==
  ASSUME IInv, NEW name \in Names, cmd_rm(name)
  PROVE  IInv'
<1> DEFINE n == finddir(here, name)
           h == here
<1>1. here # NULL /\ n # NULL /\ ~node[n].dir /\ UNCHANGED <<cwd, prev_cwd, displaced>>
      /\ node' = Cut(node, h, n)
  BY DEF cmd_rm, Cut
<1>2. h \in 1..Len(node) /\ Tree(node) /\ displaced \in BOOLEAN /\ (~displaced => FilesBare(node))
  BY <1>1, HereIs DEF IInv
<1>3. PICK p \in 1..Len(node[h].ch) : n = node[h].ch[p]
  BY <1>1, FoundHere
<1> HIDE DEF n, h
<1>4. Tree(node') /\ EntryOut(node, h, p, node')
  BY <1>1, <1>2, <1>3, CutTree
<1>5. KeepsDirs(node, node')
  BY <1>1, <1>2, <1>3, CutKeeps
<1>6. ~displaced => FilesBare(node')
  BY <1>2, <1>3, <1>4, CutBare
<1>7. QED
  BY <1>1, <1>2, <1>4, <1>5, <1>6, CommandKeeps

\* cmd_mv keeps the invariant: it renames an entry, or cuts it and links it
\* below another directory; displaced is set when it was a directory.
LEMMA MoveKeeps ==
  ASSUME IInv, NEW src \in Names, NEW dst \in Names, cmd_mv(src, dst)
  PROVE  IInv'
<1> DEFINE n == finddir(here, src)
           to == finddir(here, dst)
           h == here
<1>1. /\ here # NULL /\ n # NULL /\ UNCHANGED <<cwd, prev_cwd>>
      /\ displaced' = (displaced \/ node[n].dir)
  BY DEF cmd_mv
<1>2. /\ h \in 1..Len(node) /\ Tree(node) /\ displaced \in BOOLEAN
      /\ ~displaced => FilesBare(node)
  BY <1>1, HereIs DEF IInv
<1>3. /\ n \in 2..Len(node)
      /\ \E p \in 1..Len(node[h].ch) : n = node[h].ch[p]
  BY <1>1, FoundHere
<1>4. PICK p \in 1..Len(node[h].ch) : n = node[h].ch[p]
  BY <1>3
<1>5. to = Lookup(node, h, dst) /\ (to # NULL => to \in 2..Len(node))
  BY <1>1, FoundHere, FinddirIsLookup
<1>6. node' = IF to # NULL /\ node[to].dir THEN Linked(Cut(node, h, n), to, n) ELSE Renamed(node, n, dst)
  BY DEF cmd_mv, Moved, Linked, Cut, Renamed
<1>7. Len(node) \in Nat /\ n \in 1..Len(node) /\ dst \in AllNames
  BY <1>2, <1>3 DEF Tree, AllNames
<1>8. node[n].dir \in BOOLEAN
  BY <1>2, <1>7, Fields DEF Tree
<1> HIDE DEF n, to, h
<1>9. displaced' \in BOOLEAN /\ (displaced => displaced') /\ (~displaced' => ~displaced /\ ~node[n].dir)
  BY <1>1, <1>2, <1>8
<1>10. CASE to # NULL /\ node[to].dir
  <2> DEFINE md == Cut(node, h, n)
  <2>1. Tree(md) /\ Loose(md, n) /\ EntryOut(node, h, p, md)
    BY <1>2, <1>4, CutTree
  <2>2. node' = Linked(md, to, n)
    BY <1>6, <1>10
  <2>3. Len(md) = Len(node) /\ to \in 1..Len(md) /\ n \in 2..Len(md) /\ md[to].dir
    BY <2>1, <1>3, <1>5, <1>7, <1>10 DEF EntryOut
  <2>4. ~displaced' => KeepsDirs(node, md) /\ FilesBare(md)
    <3>1. ~displaced' => KeepsDirs(node, md)
      BY <1>2, <1>4, <1>9, CutKeeps
    <3>2. ~displaced' => FilesBare(md)
      BY <2>1, <1>2, <1>4, <1>9, CutBare
    <3>3. QED
      BY <3>1, <3>2
  <2> HIDE DEF md
  <2>5. Tree(node') /\ Extends(md, node') /\ (FilesBare(md) /\ md[to].dir => FilesBare(node'))
    BY <2>1, <2>2, <2>3, LinkedTree
  <2>6. KeepsDirs(md, node')
    BY <2>1, <2>5, ExtendsKeeps
  <2>7. ~displaced' => KeepsDirs(node, node')
    BY <2>1, <2>3, <2>4, <2>6, <1>2, KeepsTwice
  <2>8. QED
    BY <2>3, <2>4, <2>5, <2>7, <1>1, <1>9, CommandKeeps
<1>11. CASE ~(to # NULL /\ node[to].dir)
  <2>1. node' = Renamed(node, n, dst)
    BY <1>6, <1>11
  <2>2. Tree(node') /\ (FilesBare(node) => FilesBare(node'))
    BY <2>1, <1>2, <1>7, RenamedTree
  <2>3. ~displaced' => KeepsDirs(node, node')
    BY <2>1, <1>2, <1>4, <1>5, <1>7, <1>9, <1>11, RenamedKeeps
  <2>4. QED
    BY <2>2, <2>3, <1>1, <1>2, <1>9, CommandKeeps
<1>12. QED
  BY <1>10, <1>11

\* The paths the commands build are paths.
LEMMA PathTypes ==
  NoPath \in Paths /\ <<>> \in Paths /\ \A name \in Names : <<name>> \in Paths
<1>1. ASSUME NEW e \in PathNames
      PROVE  <<e>> \in Paths
  BY DEF Paths
<1>2. "" \in PathNames /\ Names \subseteq PathNames
  BY Zenon DEF PathNames, AllNames
<1>3. <<"">> \in Paths
  BY <1>1, <1>2, Zenon
<1>4. NoPath \in Paths
  BY <1>3, Zenon DEF NoPath
<1>5. <<>> \in Paths
  BY DEF Paths
<1>6. \A name \in Names : <<name>> \in Paths
  BY <1>1, <1>2, Zenon
<1>7. QED
  BY <1>4, <1>5, <1>6

\* cd goes only where a path leads to a directory.
LEMMA CdKeeps ==
  ASSUME IInv, NEW abs, NEW path \in Paths, cmd_cd(abs, path)
  PROVE  IInv'
<1>1. PICK full \in make_full(abs, path) :
        /\ vfs_resolve(full) # NULL /\ node[vfs_resolve(full)].dir
        /\ prev_cwd' = cwd /\ cwd' = full
        /\ UNCHANGED <<node, displaced>>
  BY DEF cmd_cd
<1>2. cwd \in Paths /\ cwd \o path \in Paths
  BY DEF IInv, Paths
<1>3. NoPath \in Paths
  BY PathTypes
<1>4. full \in Paths
  BY <1>2, <1>3, Zenon DEF make_full
<1>5. ASSUME ~displaced', NEW p \in {cwd', prev_cwd'}
      PROVE  vfs_resolve(p)' # NULL /\ node'[vfs_resolve(p)'].dir
  <2>1. vfs_resolve(p)' = vfs_resolve(p)
    BY <1>1, ResolveIs, ResolveIsPrime
  <2>2. p = full \/ p = cwd
    BY <1>1
  <2>3. CASE p = full
    BY <1>1, <2>1, <2>3
  <2>4. CASE p = cwd
    <3>1. ~displaced
      BY <1>1, <1>5
    <3>2. vfs_resolve(p) # NULL /\ node[vfs_resolve(p)].dir
      BY <2>4, <3>1 DEF IInv, CwdIsDirectory
    <3>3. QED
      BY <1>1, <2>1, <3>2
  <2>5. QED
    BY <2>2, <2>3, <2>4
<1>6. CwdIsDirectory'
  BY <1>5 DEF CwdIsDirectory
<1>7. QED
  BY <1>1, <1>2, <1>4, <1>6 DEF IInv

\* cd without an argument and cd - keep the invariant.
LEMMA RootKeeps ==
  ASSUME IInv, cd_root \/ cd_back
  PROVE  IInv'
<1>1. CASE cd_root
  <2>1. NoPath \in Paths /\ <<>> \in Paths
    BY PathTypes
  <2>2. displaced' = TRUE /\ node' = node /\ cwd' = <<>> /\ prev_cwd' \in {prev_cwd, NoPath}
    BY <1>1, Zenon DEF cd_root
  <2>3. cwd' \in Paths /\ prev_cwd' \in Paths
    BY <2>1, <2>2, Zenon DEF IInv
  <2>4. QED
    BY <2>2, <2>3 DEF IInv, CwdIsDirectory
<1>2. CASE cd_back
  <2>1. cwd' = prev_cwd /\ prev_cwd' = cwd /\ node' = node /\ displaced' = displaced
    BY <1>2 DEF cd_back
  <2>2. ASSUME ~displaced', NEW p \in {cwd', prev_cwd'}
        PROVE  vfs_resolve(p)' # NULL /\ node'[vfs_resolve(p)'].dir
    <3>1. vfs_resolve(p)' = vfs_resolve(p)
      BY <2>1, ResolveIs, ResolveIsPrime
    <3>2. vfs_resolve(p) # NULL /\ node[vfs_resolve(p)].dir
      BY <2>1, <2>2 DEF IInv, CwdIsDirectory
    <3>3. QED
      BY <2>1, <3>1, <3>2
  <2>3. CwdIsDirectory'
    BY <2>2 DEF CwdIsDirectory
  <2>4. QED
    BY <2>1, <2>3 DEF IInv
<1>3. QED
  BY <1>1, <1>2

\* Every command keeps the invariant.
LEMMA NextInvariant == IInv /\ [Next]_vars => IInv'
<1> SUFFICES ASSUME IInv, [Next]_vars PROVE IInv'
  OBVIOUS
<1>0. ASSUME NEW name \in Names, cmd_mkdir(name) \/ cmd_touch(name)
      PROVE  IInv'
  <2>1. here # NULL /\ UNCHANGED <<cwd, prev_cwd, displaced>>
    BY <1>0 DEF cmd_mkdir, cmd_touch
  <2>2. here \in 1..Len(node) /\ (~displaced => node[here].dir)
    BY <2>1, HereIs
  <2>3. Make(here, name, TRUE) \/ Make(here, name, FALSE)
    BY <1>0 DEF cmd_mkdir, cmd_touch
  <2>4. QED
    BY <2>1, <2>2, <2>3, MakeKeeps
<1>1. CASE cd_root \/ cd_back
  BY <1>1, RootKeeps
<1>2. CASE cmd_cd(TRUE, <<>>)
  BY <1>2, CdKeeps, PathTypes
<1>3. CASE \E abs \in BOOLEAN, name \in Names : cmd_cd(abs, <<name>>)
  BY <1>3, CdKeeps, PathTypes
<1>4. CASE \E name \in Names : cmd_mkdir(name) \/ cmd_touch(name) \/ cmd_write(name) \/ cmd_rm(name)
  BY <1>4, <1>0, RemoveKeeps DEF cmd_write
<1>5. CASE \E src, dst \in Names : cmd_mv(src, dst) \/ cmd_cp(src, dst)
  BY <1>5, MoveKeeps, CopyKeeps
<1>6. CASE UNCHANGED vars
  <2>1. node' = node /\ cwd' = cwd /\ prev_cwd' = prev_cwd /\ displaced' = displaced
    BY <1>6 DEF vars
  <2>2. Tree(node) /\ displaced \in BOOLEAN /\ (~displaced => FilesBare(node)) /\ KeepsDirs(node, node)
    BY DEF IInv, KeepsDirs
  <2>3. QED
    BY <2>1, <2>2, CommandKeeps
<1>7. QED
  BY <1>1, <1>2, <1>3, <1>4, <1>5, <1>6 DEF Next

\* The invariant holds in every state the shell commands reach, whatever the
\* names, the size of a directory and the size of the heap.
THEOREM Invariance == Spec => []IInv
BY InitInvariant, NextInvariant, PTL DEF Spec

\* The tree of the RAM file system stays a tree, whatever is moved, renamed or
\* removed, and for every size of a directory and of the heap: no node is in
\* two directories or twice in one, and the root is in none (shell.c:820-829).
THEOREM TreeStaysTree == Spec => []TreeShape
<1>1. IInv => TreeShape
  <2> SUFFICES ASSUME IInv PROVE TreeShape
    OBVIOUS
  <2>1. OneParent(node) /\ Children(node) /\ Len(node) \in Nat
    BY DEF IInv, Tree
  <2>2. \A n \in 1..Len(node) : \A i \in 1..Len(node[n].ch) : node[n].ch[i] # root
    BY <2>1 DEF Children, root
  <2>3. QED
    BY <2>1, <2>2 DEF TreeShape, OneParent
<1>2. QED
  BY <1>1, Invariance, PTL

\* The shell's directory and the one that cd - goes back to exist and are
\* directories until the user moves or renames a directory, or the bare cd
\* writes past cwd: no mkdir, touch, write, cp, rm or mv of a file comes between
\* a path and its directory (shell.c:698, 788).
THEOREM CwdStaysDirectory == Spec => []CwdIsDirectory
<1>1. IInv => CwdIsDirectory
  BY DEF IInv
<1>2. QED
  BY <1>1, Invariance, PTL

-----------------------------------------------------------------------------
(* What find visits.                                                        *)

\* One more level of the tree.
Grow(nd, r) == r \cup UNION {Range(nd[n].ch) : n \in {m \in r : nd[m].dir}}

ReachOf(nd) ==
    LET R[k \in 0..Len(nd)] ==
            IF k = 0 THEN {root}
            ELSE LET r == R[k - 1]
                 IN  r \cup UNION {Range(nd[n].ch) : n \in {m \in r : nd[m].dir}}
    IN  R[Len(nd)]

Closed(nd, S) ==
    \A m \in S : nd[m].dir => \A i \in 1..Len(nd[m].ch) : nd[m].ch[i] \in S

\* One step of the search from the root: it adds children of what it has, stays
\* in every closed set, and stops only in a closed one.
LEMMA GrowIs ==
  ASSUME NEW nd, Tree(nd), NEW r \in SUBSET (1..Len(nd))
  PROVE  /\ Grow(nd, r) \in SUBSET (1..Len(nd)) /\ r \subseteq Grow(nd, r)
         /\ Grow(nd, r) = r => Closed(nd, r)
         /\ \A S : r \subseteq S /\ Closed(nd, S) => Grow(nd, r) \subseteq S
<1>0. nd \in Seq(NodeType) /\ Len(nd) \in Nat /\ Children(nd)
  BY DEF Tree
<1>1. ASSUME NEW m \in r
      PROVE  Range(nd[m].ch) = {nd[m].ch[i] : i \in 1..Len(nd[m].ch)}
  <2>1. nd[m].ch \in Seq(Nat)
    BY <1>0, Fields
  <2>2. QED
    BY <2>1 DEF Range
<1>2. \A x : x \in Grow(nd, r) <=> x \in r \/ \E m \in r : nd[m].dir /\ HasEntry(nd, m, x)
  <2>1. \A x : x \in Grow(nd, r) <=> x \in r \/ \E m \in r : nd[m].dir /\ x \in Range(nd[m].ch)
    BY Zenon DEF Grow
  <2>2. \A m \in r : \A x : x \in Range(nd[m].ch) <=> HasEntry(nd, m, x)
    BY <1>1 DEF HasEntry
  <2>3. QED
    BY <2>1, <2>2
<1>3. \A m \in r : \A i \in 1..Len(nd[m].ch) : nd[m].ch[i] \in 1..Len(nd)
  BY <1>0 DEF Children
<1>4. Grow(nd, r) \in SUBSET (1..Len(nd)) /\ r \subseteq Grow(nd, r)
  BY <1>2, <1>3 DEF HasEntry
<1>5. Grow(nd, r) = r => Closed(nd, r)
  BY <1>2 DEF Closed, HasEntry
<1>6. ASSUME NEW S, r \subseteq S, Closed(nd, S)
      PROVE  Grow(nd, r) \subseteq S
  <2>1. SUFFICES ASSUME NEW x \in Grow(nd, r), x \notin r
                 PROVE  x \in S
    BY <1>6
  <2>2. PICK m \in r : nd[m].dir /\ HasEntry(nd, m, x)
    BY <1>2, <2>1
  <2>3. m \in S
    BY <1>6
  <2>4. QED
    BY <1>6, <2>2, <2>3 DEF Closed, HasEntry
<1>7. QED
  BY <1>4, <1>5, <1>6

\* As many rounds as there are nodes are enough: what find visits is closed, and
\* it is the least such set with the root.
LEMMA ReachLeast ==
  ASSUME NEW nd, Tree(nd)
  PROVE  /\ ReachOf(nd) \in SUBSET (1..Len(nd)) /\ 1 \in ReachOf(nd)
         /\ Closed(nd, ReachOf(nd))
         /\ \A S : 1 \in S /\ Closed(nd, S) => ReachOf(nd) \subseteq S
<1> DEFINE n == Len(nd)
           U == SUBSET (1..n)
           step == [x \in (1..n) \X U |-> Grow(nd, x[2])]
           Body(R) == [k \in 0..n |->
                         IF k = 0 THEN {root}
                         ELSE LET r == R[k - 1]
                              IN  r \cup UNION {Range(nd[m].ch) : m \in {l \in r : nd[l].dir}}]
           R == CHOOSE f : f = Body(f)
<1>1. n \in Nat /\ n >= 1
  BY DEF Tree
<1>2. ReachOf(nd) = R[n]
  BY DEF ReachOf
<1>3. step \in [(1..n) \X U -> U]
  <2>1. ASSUME NEW x \in (1..n) \X U
        PROVE  Grow(nd, x[2]) \in U
    BY GrowIs
  <2>2. QED
    BY <2>1
<1>4. {1} \in U
  BY <1>1
<1>5. PICK f : IsLoop(f, U, {1}, n, step)
  <2> HIDE DEF step, U, n
  <2>1. QED
    BY <1>1, <1>3, <1>4, Iteration, Zenon
<1>6. f = Body(f)
  <2>1. f \in [0..n -> U] /\ f[0] = {1}
    BY <1>5 DEF IsLoop
  <2>2. ASSUME NEW k \in 1..n
        PROVE  f[k] = Grow(nd, f[k - 1])
    <3>1. f[k - 1] \in U
      BY <2>1
    <3>2. <<k, f[k - 1]>> \in (1..n) \X U
      BY <3>1
    <3>3. step[<<k, f[k - 1]>>] = Grow(nd, f[k - 1])
      BY <3>2
    <3>4. QED
      BY <3>3, <1>5 DEF IsLoop
  <2>3. QED
    BY <2>1, <2>2 DEF Grow, root
<1>7. R = Body(R)
  BY <1>6
<1> HIDE DEF R
<1>8. R[0] = {1} /\ \A k \in 1..n : R[k] = Grow(nd, R[k - 1])
  <2>1. R[0] = {1}
    <3>1. 0 \in 0..n
      BY <1>1
    <3>2. R[0] = Body(R)[0]
      BY <1>7, Zenon
    <3>3. QED
      BY <3>1, <3>2 DEF root
  <2>2. ASSUME NEW k \in 1..n
        PROVE  R[k] = Grow(nd, R[k - 1])
    <3>1. k \in 0..n /\ k # 0
      BY <1>1
    <3>2. R[k] = Body(R)[k]
      BY <1>7, Zenon
    <3>3. Body(R)[k] = Grow(nd, R[k - 1])
      BY <3>1 DEF Grow
    <3>4. QED
      BY <3>2, <3>3
  <2>3. QED
    BY <2>1, <2>2
<1> HIDE DEF n
<1>9. \A k \in 0..n : R[k] \in SUBSET (1..n) /\ 1 \in R[k]
  <2> DEFINE T == {k \in 0..n : R[k] \in SUBSET (1..n) /\ 1 \in R[k]}
  <2>1. 0 \in T
    BY <1>1, <1>8
  <2>2. ASSUME NEW k \in 0..(n - 1), k \in T
        PROVE  k + 1 \in T
    <3>1. k + 1 \in 0..n /\ R[k + 1] = Grow(nd, R[k])
      BY <1>1, <1>8
    <3>2. R[k] \in SUBSET (1..n) /\ 1 \in R[k]
      BY <2>2
    <3>3. Grow(nd, R[k]) \in SUBSET (1..n) /\ R[k] \subseteq Grow(nd, R[k])
      BY <3>2, GrowIs DEF n
    <3>4. QED
      BY <3>1, <3>2, <3>3
  <2>3. 0..n \subseteq T
    <3> HIDE DEF T
    <3>1. QED
      BY <1>1, <2>1, <2>2, SetInduction
  <2>4. QED
    BY <2>3
<1>10. ASSUME NEW S, 1 \in S, Closed(nd, S)
       PROVE  R[n] \subseteq S
  <2> DEFINE T == {k \in 0..n : R[k] \subseteq S}
  <2>1. 0 \in T
    BY <1>1, <1>8, <1>10
  <2>2. ASSUME NEW k \in 0..(n - 1), k \in T
        PROVE  k + 1 \in T
    <3>1. k + 1 \in 0..n /\ R[k + 1] = Grow(nd, R[k]) /\ R[k] \in SUBSET (1..n)
      BY <1>1, <1>8, <1>9
    <3>2. Grow(nd, R[k]) \subseteq S
      BY <2>2, <3>1, <1>10, GrowIs DEF n
    <3>3. QED
      BY <3>1, <3>2
  <2>3. 0..n \subseteq T
    <3> HIDE DEF T
    <3>1. QED
      BY <1>1, <2>1, <2>2, SetInduction
  <2>4. QED
    BY <1>1, <2>3
<1>11. Grow(nd, R[n]) = R[n]
  <2> DEFINE Fixed(k) == Grow(nd, R[k]) = R[k]
             T == {k \in 0..n : Fixed(k) \/ Cardinality(R[k]) >= k + 1}
  <2>0. \A k \in 0..n : IsFiniteSet(R[k]) /\ Cardinality(R[k]) \in Nat /\ Cardinality(R[k]) =< n
    <3>1. IsFiniteSet(1..n) /\ Cardinality(1..n) = n
      BY <1>1, FS_Interval
    <3>2. QED
      BY <3>1, <1>9, FS_Subset, FS_CardinalityType
  <2>1. 0 \in T
    <3>1. Cardinality(R[0]) = 1
      BY <1>8, FS_Singleton
    <3>2. QED
      BY <1>1, <3>1
  <2>2. ASSUME NEW k \in 0..(n - 1), k \in T
        PROVE  k + 1 \in T
    <3>1. k \in 0..n /\ k + 1 \in 0..n /\ R[k + 1] = Grow(nd, R[k])
      BY <1>1, <1>8
    <3>2. CASE Fixed(k)
      BY <3>1, <3>2
    <3>3. CASE ~Fixed(k)
      <4>1. R[k] \subseteq R[k + 1] /\ R[k] # R[k + 1]
        BY <3>1, <3>3, <1>9, GrowIs DEF n
      <4>2. Cardinality(R[k]) >= k + 1
        BY <2>2, <3>3
      <4>3. /\ Cardinality(R[k]) =< Cardinality(R[k + 1])
            /\ Cardinality(R[k + 1]) = Cardinality(R[k]) => R[k + 1] = R[k]
        BY <2>0, <3>1, <4>1, FS_Subset
      <4>4. Cardinality(R[k]) \in Nat /\ Cardinality(R[k + 1]) \in Nat
        BY <2>0, <3>1
      <4>5. Cardinality(R[k + 1]) >= k + 1 + 1
        BY <4>1, <4>2, <4>3, <4>4
      <4>6. QED
        BY <3>1, <4>5
    <3>4. QED
      BY <3>2, <3>3
  <2>3. 0..n \subseteq T
    <3> HIDE DEF T
    <3>1. QED
      BY <1>1, <2>1, <2>2, SetInduction
  <2>4. n \in T /\ n \in 0..n
    BY <1>1, <2>3
  <2>5. QED
    BY <1>1, <2>0, <2>4
<1>12. R[n] \in SUBSET (1..n) /\ 1 \in R[n]
  BY <1>1, <1>9
<1>13. Closed(nd, R[n])
  BY <1>11, <1>12, GrowIs DEF n
<1>14. QED
  BY <1>2, <1>10, <1>12, <1>13 DEF n

\* Reach, with the nodes as a parameter.
LEMMA ReachIs ==
  Reach = ReachOf(node) /\ Reach' = ReachOf(node')
BY DEF Reach, ReachOf

\* A command that only adds, or only renames, takes nothing out of the tree.
LEMMA ReachKept ==
  ASSUME NEW nd, NEW md, Tree(nd), Tree(md), Len(nd) =< Len(md),
         \A d \in 1..Len(nd) : nd[d].dir =>
            /\ md[d].dir
            /\ \A i \in 1..Len(nd[d].ch) :
                 \E j \in 1..Len(md[d].ch) : md[d].ch[j] = nd[d].ch[i]
  PROVE  ReachOf(nd) \subseteq ReachOf(md)
<1> DEFINE S == ReachOf(md) \cap (1..Len(nd))
<1>1. 1 \in ReachOf(md) /\ Closed(md, ReachOf(md))
  BY ReachLeast
<1>2. Len(nd) \in Nat /\ Len(nd) >= 1 /\ Children(nd)
  BY DEF Tree
<1>3. 1 \in S
  BY <1>1, <1>2
<1>4. Closed(nd, S)
  <2> SUFFICES ASSUME NEW m \in S, nd[m].dir, NEW i \in 1..Len(nd[m].ch)
               PROVE  nd[m].ch[i] \in S
    BY DEF Closed
  <2>1. md[m].dir /\ \E j \in 1..Len(md[m].ch) : md[m].ch[j] = nd[m].ch[i]
    OBVIOUS
  <2>2. nd[m].ch[i] \in ReachOf(md)
    BY <1>1, <2>1 DEF Closed
  <2>3. nd[m].ch[i] \in 1..Len(nd)
    BY <1>2 DEF Children
  <2>4. QED
    BY <2>2, <2>3
<1>5. ReachOf(nd) \subseteq S
  <2> HIDE DEF S
  <2>1. QED
    BY <1>3, <1>4, ReachLeast
<1>6. QED
  BY <1>5

\* Adding nodes and entries takes nothing out of reach.
LEMMA ExtendsReach ==
  ASSUME NEW nd, NEW md, Tree(nd), Tree(md), Extends(nd, md)
  PROVE  ReachOf(nd) \subseteq ReachOf(md)
<1>1. Len(nd) =< Len(md)
  BY DEF Extends
<1>2. ASSUME NEW d \in 1..Len(nd), nd[d].dir, NEW i \in 1..Len(nd[d].ch)
      PROVE  \E j \in 1..Len(md[d].ch) : md[d].ch[j] = nd[d].ch[i]
  <2>1. d \in 1..Len(md) /\ Len(nd[d].ch) =< Len(md[d].ch) /\ md[d].ch[i] = nd[d].ch[i]
    BY <1>1 DEF Tree, Extends
  <2>2. Len(nd[d].ch) \in Nat /\ Len(md[d].ch) \in Nat
    BY <2>1, Fields DEF Tree
  <2>3. i \in 1..Len(md[d].ch)
    BY <2>1, <2>2
  <2>4. QED
    BY <2>1, <2>3
<1>3. \A d \in 1..Len(nd) : nd[d].dir => md[d].dir
  BY DEF Extends
<1>4. QED
  BY <1>1, <1>2, <1>3, ReachKept

\* A mv into a directory that is not the node itself and has room keeps the node
\* in the tree: it is now one level further down.
LEMMA MoveReach ==
  ASSUME NEW nd, Tree(nd), NEW h \in 1..Len(nd), NEW p \in 1..Len(nd[h].ch), NEW n, n = nd[h].ch[p],
         NEW q \in 1..Len(nd[h].ch), NEW to, to = nd[h].ch[q], nd[to].dir, to # n,
         Len(nd[to].ch) # MAX_CHILDREN,
         NEW ld, ld = Linked(Cut(nd, h, n), to, n)
  PROVE  ReachOf(nd) \subseteq ReachOf(ld)
<1> DEFINE md == Cut(nd, h, n)
<1>0. nd \in Seq(NodeType) /\ Len(nd) \in Nat /\ Len(nd) >= 1 /\ Children(nd)
  BY DEF Tree
<1>1. Tree(md) /\ Loose(md, n) /\ EntryOut(nd, h, p, md)
  BY CutTree
<1>2. ld = Linked(md, to, n)
  OBVIOUS
<1> HIDE DEF md
<1>3. /\ Len(md) = Len(nd)
      /\ \A e \in 1..Len(nd) : md[e].dir = nd[e].dir
      /\ \A e \in 1..Len(nd) : Len(md[e].ch) = IF e = h THEN Len(nd[e].ch) - 1 ELSE Len(nd[e].ch)
      /\ \A e \in 1..Len(nd) : \A i \in 1..Len(md[e].ch) :
            /\ Was(h, p, e, i) \in 1..Len(nd[e].ch)
            /\ md[e].ch[i] = nd[e].ch[Was(h, p, e, i)]
  BY <1>1 DEF EntryOut
<1>4. n \in 2..Len(nd) /\ to \in 1..Len(nd)
  BY <1>0 DEF Children
<1>5. Len(md[to].ch) < MAX_CHILDREN
  <2>1. Len(nd[to].ch) \in Nat
    BY <1>0, <1>4, Fields
  <2>2. Len(nd[to].ch) =< MAX_CHILDREN /\ MAX_CHILDREN \in Nat
    BY <1>0, <1>4, FilesAssumption DEF Children
  <2>3. Len(md[to].ch) = IF to = h THEN Len(nd[to].ch) - 1 ELSE Len(nd[to].ch)
    BY <1>3, <1>4
  <2>4. QED
    BY <2>1, <2>2, <2>3
<1>6. /\ Len(ld) = Len(md) /\ Tree(ld) /\ Extends(md, ld)
      /\ HasEntry(ld, to, n)
  <2>1. to \in 1..Len(md) /\ n \in 2..Len(md)
    BY <1>3, <1>4
  <2> DEFINE ls == Linked(md, to, n)
  <2>2. /\ Len(ls) = Len(md) /\ Tree(ls) /\ Extends(md, ls)
        /\ Len(md[to].ch) < MAX_CHILDREN => HasEntry(ls, to, n)
    BY <1>1, <2>1, LinkedTree, Zenon
  <2>3. QED
    BY <1>2, <1>5, <2>2
<1> DEFINE S == ReachOf(ld)
<1>7. 1 \in S /\ Closed(ld, S) /\ S \in SUBSET (1..Len(nd))
  BY <1>3, <1>6, ReachLeast
<1> HIDE DEF S
<1>8. \A e \in 1..Len(nd) : ld[e].dir = nd[e].dir
  <2>1. \A e \in 1..Len(md) : ld[e].dir = md[e].dir
    BY <1>6 DEF Extends
  <2>2. QED
    BY <2>1, <1>3
<1>9. ASSUME NEW e \in 1..Len(nd), NEW i \in 1..Len(nd[e].ch), nd[e].ch[i] # n
      PROVE  \E j \in 1..Len(ld[e].ch) : ld[e].ch[j] = nd[e].ch[i]
  <2>1. PICK j \in 1..Len(md[e].ch) : md[e].ch[j] = nd[e].ch[i]
    <3>1. Len(nd[e].ch) \in Nat /\ i \in Nat /\ p \in Nat /\ (e = h => p \in 1..Len(nd[e].ch))
      <4>1. Len(nd[e].ch) \in Nat /\ Len(nd[h].ch) \in Nat
        BY <1>0, Fields
      <4>2. QED
        BY <4>1
    <3>2. ~(e = h /\ i = p)
      BY <1>9
    <3> DEFINE k == IF e = h /\ i > p THEN i - 1 ELSE i
    <3>3. k \in 1..Len(md[e].ch) /\ Was(h, p, e, k) = i
      <4>1. CASE e = h /\ i > p
        <5>1. Len(md[e].ch) = Len(nd[e].ch) - 1
          BY <4>1, <1>3
        <5>2. QED
          BY <3>1, <4>1, <5>1 DEF Was
      <4>2. CASE e = h /\ ~(i > p)
        <5>1. Len(md[e].ch) = Len(nd[e].ch) - 1
          BY <4>2, <1>3
        <5>2. QED
          BY <3>1, <3>2, <4>2, <5>1 DEF Was
      <4>3. CASE e # h
        <5>1. Len(md[e].ch) = Len(nd[e].ch)
          BY <4>3, <1>3
        <5>2. QED
          BY <3>1, <4>3, <5>1 DEF Was
      <4>4. QED
        BY <4>1, <4>2, <4>3
    <3> HIDE DEF k
    <3>4. md[e].ch[k] = nd[e].ch[i]
      BY <3>3, <1>3
    <3>5. QED
      BY <3>3, <3>4
  <2>2. e \in 1..Len(md) /\ ld[e].ch[j] = md[e].ch[j] /\ Len(md[e].ch) =< Len(ld[e].ch)
    <3>1. e \in 1..Len(md)
      BY <1>3
    <3>2. QED
      BY <1>6, <3>1 DEF Extends
  <2>3. Len(md[e].ch) \in Nat /\ Len(ld[e].ch) \in Nat
    BY <1>1, <1>6, <2>2, Fields DEF Tree
  <2>4. j \in 1..Len(ld[e].ch)
    BY <2>2, <2>3
  <2>5. QED
    BY <2>1, <2>2, <2>4
<1>10. Closed(nd, S)
  <2> SUFFICES ASSUME NEW m \in S, nd[m].dir, NEW i \in 1..Len(nd[m].ch)
               PROVE  nd[m].ch[i] \in S
    BY DEF Closed
  <2>1. m \in 1..Len(nd) /\ ld[m].dir
    BY <1>7, <1>8
  <2>2. ASSUME NEW c \in 1..Len(nd[m].ch), nd[m].ch[c] # n
        PROVE  nd[m].ch[c] \in S
    <3>1. PICK j \in 1..Len(ld[m].ch) : ld[m].ch[j] = nd[m].ch[c]
      BY <2>1, <2>2, <1>9
    <3>2. QED
      BY <2>1, <3>1, <1>7 DEF Closed
  <2>3. CASE nd[m].ch[i] # n
    BY <2>2, <2>3
  <2>4. CASE nd[m].ch[i] = n
    <3>1. m = h
      <4>1. nd[m].ch[i] = nd[h].ch[p] /\ OneParent(nd)
        BY <2>4 DEF Tree
      <4>2. Entry(nd, m, i, n) /\ Entry(nd, h, p, n)
        BY <2>1, <2>4, <4>1 DEF Entry
      <4>3. QED
        BY <2>1, <4>1, <4>2, SameEntry
    <3>2. to \in S
      BY <2>2, <3>1
    <3>3. ld[to].dir
      BY <1>4, <1>8
    <3>4. n \in S
      BY <3>2, <3>3, <1>6, <1>7 DEF Closed, HasEntry
    <3>5. QED
      BY <2>4, <3>4
  <2>5. QED
    BY <2>3, <2>4
<1>11. QED
  <2>1. ReachOf(nd) \subseteq S
    BY <1>7, <1>10, ReachLeast
  <2>2. QED
    BY <2>1 DEF S

\* Making a node takes nothing out of reach.
LEMMA MakeReach ==
  ASSUME IInv, NEW parent \in 1..Len(node), NEW name \in Names, NEW dir \in BOOLEAN, Make(parent, name, dir)
  PROVE  Reach \subseteq Reach'
<1>1. Tree(node)
  BY DEF IInv
<1>2. Tree(node') /\ Extends(node, node')
  BY <1>1, MakeExtends
<1>3. QED
  BY <1>1, <1>2, ExtendsReach, ReachIs

\* What mv does to the tree.
LEMMA MoveLoses ==
  ASSUME IInv, NEW src \in Names, NEW dst \in Names, cmd_mv(src, dst),
         finddir(here, src) # finddir(here, dst), Len(node[finddir(here, dst)].ch) # MAX_CHILDREN
  PROVE  Reach \subseteq Reach'
<1> DEFINE n == finddir(here, src)
           to == finddir(here, dst)
           h == here
<1>1. here # NULL /\ n # NULL
  BY DEF cmd_mv
<1>2. h \in 1..Len(node) /\ Tree(node)
  BY <1>1, HereIs DEF IInv
<1>3. n \in 2..Len(node) /\ \E p \in 1..Len(node[h].ch) : n = node[h].ch[p]
  BY <1>1, FoundHere
<1>4. PICK p \in 1..Len(node[h].ch) : n = node[h].ch[p]
  BY <1>3
<1>5. node' = IF to # NULL /\ node[to].dir THEN Linked(Cut(node, h, n), to, n) ELSE Renamed(node, n, dst)
  BY DEF cmd_mv, Moved, Linked, Cut, Renamed
<1>6. CASE to # NULL /\ node[to].dir
  <2>1. PICK q \in 1..Len(node[h].ch) : to = node[h].ch[q]
    BY <1>1, <1>6, FoundHere
  <2>2. node' = Linked(Cut(node, h, n), to, n) /\ to # n /\ Len(node[to].ch) # MAX_CHILDREN
    BY <1>5, <1>6
  <2> HIDE DEF n, to, h
  <2>3. ReachOf(node) \subseteq ReachOf(node')
    BY <1>2, <1>4, <1>6, <2>1, <2>2, MoveReach
  <2>4. QED
    BY <2>3, ReachIs
<1>7. CASE ~(to # NULL /\ node[to].dir)
  <2>1. node' = Renamed(node, n, dst)
    BY <1>5, <1>7
  <2>2. Len(node) \in Nat /\ n \in 1..Len(node) /\ dst \in AllNames
    BY <1>2, <1>3 DEF Tree, AllNames
  <2> HIDE DEF n, to, h
  <2>3. Tree(node') /\ OnlyName(node, n, dst, node')
    BY <1>2, <2>1, <2>2, RenamedTree
  <2>4. /\ Len(node) =< Len(node')
        /\ \A d \in 1..Len(node) : node'[d].ch = node[d].ch /\ node'[d].dir = node[d].dir
    BY <2>2, <2>3 DEF OnlyName
  <2>5. \A d \in 1..Len(node) : node[d].dir =>
            /\ node'[d].dir
            /\ \A i \in 1..Len(node[d].ch) :
                 \E j \in 1..Len(node'[d].ch) : node'[d].ch[j] = node[d].ch[i]
    BY <2>4
  <2>6. ReachOf(node) \subseteq ReachOf(node')
    BY <1>2, <2>3, <2>4, <2>5, ReachKept
  <2>7. QED
    BY <2>6, ReachIs
<1>8. QED
  BY <1>6, <1>7

\* No command but rm, and mv of a directory into itself or into a full one, takes
\* a node out of what find reaches from the root: for every tree that commands
\* can build (shell.c:816-829).
THEOREM NothingIsLost == Spec => NothingLost
<1> DEFINE May == \/ \E name \in Names : cmd_rm(name)
                  \/ \E src, dst \in Names :
                        /\ cmd_mv(src, dst)
                        /\ \/ finddir(here, src) = finddir(here, dst)
                           \/ Len(node[finddir(here, dst)].ch) = MAX_CHILDREN
<1>1. IInv /\ [Next]_vars => [~(Reach \subseteq Reach') => May]_vars
  <2> SUFFICES ASSUME IInv, Next, ~May
               PROVE  Reach \subseteq Reach'
    OBVIOUS
  <2>0. ASSUME node' = node
        PROVE  Reach \subseteq Reach'
    BY <2>0, ReachIs
  <2>1. CASE cd_root \/ cd_back
    BY <2>0, <2>1 DEF cd_root, cd_back
  <2>2. CASE cmd_cd(TRUE, <<>>)
    BY <2>0, <2>2 DEF cmd_cd
  <2>3. CASE \E abs \in BOOLEAN, name \in Names : cmd_cd(abs, <<name>>)
    BY <2>0, <2>3 DEF cmd_cd
  <2>4. ASSUME NEW name \in Names, cmd_mkdir(name) \/ cmd_touch(name)
        PROVE  Reach \subseteq Reach'
    <3>1. here # NULL /\ (Make(here, name, TRUE) \/ Make(here, name, FALSE))
      BY <2>4 DEF cmd_mkdir, cmd_touch
    <3>2. here \in 1..Len(node)
      BY <3>1, HereIs
    <3>3. QED
      BY <3>1, <3>2, MakeReach
  <2>5. CASE \E name \in Names : cmd_mkdir(name) \/ cmd_touch(name) \/ cmd_write(name) \/ cmd_rm(name)
    BY <2>4, <2>5 DEF cmd_write
  <2>6. ASSUME NEW src \in Names, NEW dst \in Names, cmd_mv(src, dst)
        PROVE  Reach \subseteq Reach'
    BY <2>6, MoveLoses
  <2>7. ASSUME NEW src \in Names, NEW dst \in Names, cmd_cp(src, dst)
        PROVE  Reach \subseteq Reach'
    <3> DEFINE to == finddir(here, dst)
    <3>1. here # NULL
      BY <2>7 DEF cmd_cp
    <3>2. here \in 1..Len(node)
      BY <3>1, HereIs
    <3>3. CASE to # NULL /\ Make(to, src, FALSE)
      <4>1. to \in 2..Len(node)
        BY <3>1, <3>3, FoundHere
      <4> HIDE DEF to
      <4>2. to \in 1..Len(node)
        BY <4>1
      <4>3. QED
        BY <3>3, <4>2, MakeReach
    <3>4. CASE Make(here, dst, FALSE)
      BY <3>2, <3>4, MakeReach
    <3>5. CASE UNCHANGED node
      BY <2>0, <3>5
    <3>6. QED
      BY <2>7, <3>3, <3>4, <3>5 DEF cmd_cp
  <2>8. CASE \E src, dst \in Names : cmd_mv(src, dst) \/ cmd_cp(src, dst)
    BY <2>6, <2>7, <2>8
  <2>9. QED
    BY <2>1, <2>2, <2>3, <2>5, <2>8 DEF Next
<1>2. QED
  BY <1>1, Invariance, PTL DEF Spec, NothingLost
=============================================================================
