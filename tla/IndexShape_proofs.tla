--------------------------- MODULE IndexShape_proofs --------------------------
(***************************************************************************)
(* The shape of a tree of IndexFile, and what a split does to it: a node   *)
(* with a key too many gives half of its pairs to a new one.               *)
(***************************************************************************)
EXTENDS IndexFile, WellFoundedInduction, TLAPS

-----------------------------------------------------------------------------
\* A set of numbers that is not empty has its least member.
LEMMA LeastExists ==
  ASSUME NEW S, S \subseteq Nat, S # {}
  PROVE  \E k \in S : \A j \in S : k <= j
<1>1. PICK x \in S : \A y \in S : ~ (<<y, x>> \in OpToRel(<, Nat))
  BY WFMin, NatLessThanWellFounded, Zenon
<1>2. \A y \in S : ~ (y < x)
  BY <1>1, Zenon DEF OpToRel
<1> QED BY <1>2

\* What a loop makes of x after each of its rounds is a function: there is one up
\* to each number.
LEMMA RoundsDef ==
  ASSUME NEW next, NEW x, NEW n \in Nat
  PROVE  Rounds(next, x, n)
           = [k \in 0 .. n |-> IF k = 0 THEN x ELSE next[Rounds(next, x, n)[k - 1]]]
<1> DEFINE Upto(m, f) == f = [k \in 0 .. m |-> IF k = 0 THEN x ELSE next[f[k - 1]]]
           S == {m \in 0 .. n : ~ \E f : Upto(m, f)}
<1>1. S = {}
  <2> SUFFICES ASSUME S # {} PROVE FALSE
    OBVIOUS
  <2>1. PICK m \in S : \A j \in S : m <= j
    <3>1. S \subseteq Nat
      OBVIOUS
    <3> HIDE DEF S
    <3> QED BY <3>1, LeastExists, Zenon
  <2>2. m \in 0 .. n /\ ~ \E f : Upto(m, f)
    BY <2>1
  <2>3. m # 0
    <3>1. Upto(0, [k \in 0 .. 0 |-> x])
      OBVIOUS
    <3> HIDE DEF Upto
    <3> QED BY <3>1, <2>2
  <2>4. m - 1 \in 0 .. n /\ m - 1 \notin S
    <3> HIDE DEF S
    <3> QED BY <2>1, <2>2, <2>3
  <2>5. PICK f : Upto(m - 1, f)
    BY <2>4
  <2> DEFINE h == [k \in 0 .. m |-> IF k = m THEN next[f[m - 1]] ELSE f[k]]
  <2>6. Upto(m, h)
    <3>1. \A k \in 0 .. m : h[k] = IF k = 0 THEN x ELSE next[h[k - 1]]
      <4>1. h[0] = x
        BY <2>2, <2>3, <2>5
      <4>2. h[m] = next[h[m - 1]] /\ m - 1 \in 0 .. m
        BY <2>2, <2>3
      <4>3. ASSUME NEW k \in 0 .. m, k # 0, k # m PROVE h[k] = next[h[k - 1]]
        <5>1. k \in 0 .. m - 1 /\ k - 1 \in 0 .. m - 1 /\ k - 1 # m
          BY <2>2, <4>3
        <5>2. f[k] = next[f[k - 1]]
          BY <5>1, <4>3, <2>5, Zenon
        <5> QED BY <5>1, <5>2, <4>3
      <4> HIDE DEF h
      <4> QED BY <4>1, <4>2, <4>3, <2>2, <2>3
    <3>2. h = [k \in 0 .. m |-> h[k]]
      OBVIOUS
    <3> HIDE DEF h
    <3> QED BY <3>1, <3>2, Zenon
  <2> HIDE DEF Upto
  <2> QED BY <2>2, <2>6
<1>2. \E f : Upto(n, f)
  BY <1>1
<1> QED BY <1>2, Zenon DEF Rounds

\* A loop's first value, and each of the others.
LEMMA RoundsAre ==
  ASSUME NEW next, NEW x, NEW n \in Nat
  PROVE  /\ Rounds(next, x, n)[0] = x
         /\ \A k \in 1 .. n : Rounds(next, x, n)[k] = next[Rounds(next, x, n)[k - 1]]
<1> DEFINE r == Rounds(next, x, n)
<1>1. r = [k \in 0 .. n |-> IF k = 0 THEN x ELSE next[r[k - 1]]]
  BY RoundsDef
<1> HIDE DEF r
<1>2. r[0] = x /\ \A k \in 1 .. n : r[k] = next[r[k - 1]]
  BY <1>1
<1> QED BY <1>2 DEF r
-----------------------------------------------------------------------------
\* A list with a pair put in before place i.
LEMMA InsertAtIs ==
  ASSUME NEW S, NEW s \in Seq(S), NEW i \in 1 .. Len(s), NEW e \in S
  PROVE  /\ InsertAt(s, i, e) \in Seq(S) /\ Len(InsertAt(s, i, e)) = Len(s) + 1
         /\ \A j \in 1 .. Len(s) + 1 : InsertAt(s, i, e)[j] = IF j < i THEN s[j]
                                                              ELSE IF j = i THEN e ELSE s[j - 1]
  BY DEF InsertAt

\* A list without the pair at place i.
LEMMA RemoveAtIs ==
  ASSUME NEW S, NEW s \in Seq(S), NEW i \in 1 .. Len(s)
  PROVE  /\ RemoveAt(s, i) \in Seq(S) /\ Len(RemoveAt(s, i)) = Len(s) - 1
         /\ \A j \in 1 .. Len(s) - 1 : RemoveAt(s, i)[j] = IF j < i THEN s[j] ELSE s[j + 1]
<1> DEFINE a == SubSeq(s, 1, i - 1)
           b == SubSeq(s, i + 1, Len(s))
<1>1. a \in Seq(S) /\ Len(a) = i - 1 /\ \A j \in 1 .. i - 1 : a[j] = s[j]
  OBVIOUS
<1>2. b \in Seq(S) /\ Len(b) = Len(s) - i /\ \A j \in 1 .. Len(s) - i : b[j] = s[j + i]
  OBVIOUS
<1>3. RemoveAt(s, i) = a \o b
  BY DEF RemoveAt
<1> HIDE DEF a, b
<1>4. a \o b \in Seq(S) /\ Len(a \o b) = Len(s) - 1
  <2>1. a \o b \in Seq(S)
    BY <1>1, <1>2
  <2>2. Len(a \o b) = Len(a) + Len(b)
    <3>1. a \in Seq(S) /\ b \in Seq(S)
      BY <1>1, <1>2
    <3> QED BY <3>1
  <2>3. Len(s) \in Nat
    OBVIOUS
  <2> QED BY <2>1, <2>2, <2>3, <1>1, <1>2
<1>5. ASSUME NEW j \in 1 .. Len(s) - 1 PROVE (a \o b)[j] = IF j < i THEN s[j] ELSE s[j + 1]
  <2>1. CASE j < i
    <3>1. (a \o b)[j] = a[j]
      BY <2>1, <1>1, <1>2
    <3> QED BY <2>1, <3>1, <1>1
  <2>2. CASE ~ (j < i)
    <3>1. j - (i - 1) \in 1 .. Len(s) - i /\ (j - (i - 1)) + i = j + 1
      BY <2>2
    <3>2. (a \o b)[j] = b[j - (i - 1)]
      BY <2>2, <1>1, <1>2
    <3>3. b[j - (i - 1)] = s[j + 1]
      BY <3>1, <1>2
    <3> QED BY <2>2, <3>2, <3>3
  <2> QED BY <2>1, <2>2, Zenon
<1> QED BY <1>3, <1>4, <1>5

\* A part of a list with a pair behind it.
LEMMA PartIs ==
  ASSUME NEW S, NEW s \in Seq(S), NEW a \in Nat \ {0}, NEW b \in Nat, b <= Len(s), a <= b + 1, NEW e \in S
  PROVE  /\ Append(SubSeq(s, a, b), e) \in Seq(S) /\ Len(Append(SubSeq(s, a, b), e)) = b - a + 2
         /\ \A j \in 1 .. b - a + 1 : Append(SubSeq(s, a, b), e)[j] = s[j + a - 1]
         /\ Append(SubSeq(s, a, b), e)[b - a + 2] = e
  OBVIOUS
-----------------------------------------------------------------------------
\* Where a node of the tree lies: how far above the leaves, which of the leaves
\* (counted from the left) are below it, and between which keys it lies (above
\* lo, up to hi).
Trees == [root : NodeIds, num : NodeIds, node : [NodeIds -> Node \cup {Nil}]]

\* What the node records say of where the nodes lie makes sense.
Placed(t, g) ==
  /\ t \in Trees
  /\ g.nodes \subseteq NodeIds /\ t.root \in g.nodes
  /\ \A p \in g.nodes : /\ t.node[p] \in Node
                        /\ g.lev[p] \in Nat
                        /\ g.from[p] \in Nat /\ g.to[p] \in Nat
                        /\ g.lo[p] \in -1 .. INDEX_KEY_MAX - 1 /\ g.hi[p] \in 0 .. INDEX_KEY_MAX
  /\ \A p \in g.nodes : g.from[p] < g.to[p] /\ g.to[p] <= g.to[t.root]
  /\ g.from[t.root] = 0 /\ g.lo[t.root] = -1 /\ g.hi[t.root] = INDEX_KEY_MAX
  /\ \A p \in g.nodes \ {t.root} : g.lev[p] < g.lev[t.root]

\* The pairs of a node, in the order of their keys and between lo and hi.  Of two equal
\* keys (not strict) only the first half of a list may have one that is lo: a split
\* leaves the others to the right.
KeysBetween(list, leaf, lo, hi, strict) ==
  /\ list[Len(list)].key = INDEX_KEY_MAX
  /\ \A i \in 1 .. Len(list) - 1 : /\ list[i].key < INDEX_KEY_MAX
                                   /\ lo <= list[i].key /\ list[i].key <= hi
                                   /\ strict \/ Mid <= i => lo < list[i].key
                                   /\ strict /\ ~ leaf => list[i].key < hi
  /\ \A i, j \in 1 .. Len(list) - 1 : i < j => /\ list[i].key <= list[j].key
                                               /\ strict => list[i].key < list[j].key

\* So in each node.
AllKeysBetween(t, g, strict) ==
  \A p \in g.nodes : KeysBetween(t.node[p].list, t.node[p].is_leaf, g.lo[p], g.hi[p], strict)

\* The node pair i leads to.
Child(n, i) == n.list[i].value

\* The children of inner node p: each knows its parent, and they divide the leaves
\* and the keys below p.
HasChildren(t, g, p) ==
  LET n == t.node[p]
  IN  /\ \A i \in DOMAIN n.list :
           /\ Child(n, i) \in g.nodes
           /\ t.node[Child(n, i)].parent = p
           /\ g.lev[Child(n, i)] + 1 = g.lev[p]
           /\ g.from[Child(n, i)] = IF i = 1 THEN g.from[p] ELSE g.to[Child(n, i - 1)]
           /\ i = Len(n.list) => g.to[Child(n, i)] = g.to[p]
           /\ g.lo[Child(n, i)] = IF i = 1 THEN g.lo[p] ELSE n.list[i - 1].key
           /\ g.hi[Child(n, i)] = IF i = Len(n.list) THEN g.hi[p] ELSE n.list[i].key
      /\ \A i, j \in DOMAIN n.list : i < j => g.to[Child(n, i)] <= g.from[Child(n, j)]

\* So every inner node.
AllHaveChildren(t, g) == \A p \in g.nodes : ~ t.node[p].is_leaf => HasChildren(t, g, p)

\* Every node but the root is a child of its parent.
AllAreChildren(t, g) ==
  \A c \in g.nodes \ {t.root} :
    LET p == t.node[c].parent
    IN  p \in g.nodes /\ ~ t.node[p].is_leaf /\ \E i \in DOMAIN t.node[p].list : Child(t.node[p], i) = c

\* The leaves are those at the bottom, and nodes on a level lie side by side.
InOrder(t, g) ==
  /\ \A p \in g.nodes : t.node[p].is_leaf <=> g.lev[p] = 0
  /\ \A p, q \in g.nodes : p # q /\ g.lev[p] = g.lev[q]
       => g.to[p] <= g.from[q] \/ g.to[q] <= g.from[p]
  /\ \A p, q \in g.nodes : g.lev[p] = g.lev[q] /\ g.to[p] <= g.from[q] => g.hi[p] <= g.lo[q]

\* The links of a leaf lead to the leaves that meet it, and the chain ends at the sides.
Chained(t, g) ==
  \A p \in g.nodes : t.node[p].is_leaf =>
    /\ LET q == t.node[p].suc_leaf
       IN  IF q = NoPage THEN g.to[p] = g.to[t.root] /\ g.hi[p] = INDEX_KEY_MAX
           ELSE q \in g.nodes /\ t.node[q].is_leaf /\ g.from[q] = g.to[p] /\ g.lo[q] = g.hi[p]
    /\ LET q == t.node[p].pre_leaf
       IN  IF q = NoPage THEN g.from[p] = 0
           ELSE q \in g.nodes /\ t.node[q].is_leaf /\ g.to[q] = g.from[p]

\* A leaf but the root has a key; where keys repeat, the last one is the largest it
\* may have.
LeavesFull(t, g, strict) ==
  /\ \A p \in g.nodes : t.node[p].is_leaf /\ p # t.root => key_num(t.node[p]) >= 1
  /\ \A p \in g.nodes : ~ strict /\ t.node[p].is_leaf /\ g.hi[p] < INDEX_KEY_MAX
       => key_num(t.node[p]) >= 1 /\ t.node[p].list[key_num(t.node[p])].key = g.hi[p]

\* The shape of a tree, strict when no two keys are equal.
Shape(t, g, strict) ==
  /\ Placed(t, g) /\ AllKeysBetween(t, g, strict) /\ AllHaveChildren(t, g) /\ AllAreChildren(t, g)
  /\ InOrder(t, g) /\ Chained(t, g) /\ LeavesFull(t, g, strict)

\* The pages used hold the tree.
Fits(t, g) == g.nodes \subseteq 1 .. t.num /\ g.to[t.root] <= t.num /\ g.lev[t.root] < t.num

\* The number of keys in each node; node over, if there is one, may have one too many.
Sizes(t, g, over) ==
  /\ \A p \in g.nodes : key_num(t.node[p]) <= IF p = over THEN M ELSE M - 1
  /\ \A p \in g.nodes : ~ t.node[p].is_leaf => key_num(t.node[p]) >= IF p = t.root THEN 1 ELSE Mid - 1
-----------------------------------------------------------------------------
\* The parts of Shape, for a leaf that needs one of them.
LEMMA NodeIs ==
  ASSUME NEW t, NEW g, Placed(t, g), NEW p \in g.nodes
  PROVE  /\ t.num \in NodeIds /\ p \in NodeIds
         /\ t.node[p] \in Node
         /\ t.node[p].list \in Seq(Pair) /\ Len(t.node[p].list) \in Nat \ {0}
         /\ t.node[p].is_leaf \in BOOLEAN
         /\ \A i \in DOMAIN t.node[p].list : /\ t.node[p].list[i] \in Pair
                                             /\ t.node[p].list[i].key \in 0 .. INDEX_KEY_MAX
<1> USE IndexFileAssumption
<1>1. t.num \in NodeIds
  BY DEF Placed, Trees
<1>2. p \in NodeIds
  BY DEF Placed
<1>3. t.node[p] \in Node
  BY DEF Placed
<1>4. t.node[p].list \in Seq(Pair) \ {<< >>} /\ t.node[p].is_leaf \in BOOLEAN
  BY <1>3 DEF Node
<1>5. Len(t.node[p].list) \in Nat \ {0}
  BY <1>4
<1>6. ASSUME NEW i \in DOMAIN t.node[p].list
      PROVE  t.node[p].list[i] \in Pair /\ t.node[p].list[i].key \in 0 .. INDEX_KEY_MAX
  <2>1. t.node[p].list[i] \in Pair
    BY <1>4
  <2> QED BY <2>1 DEF Pair
<1> QED BY <1>1, <1>2, <1>3, <1>4, <1>5, <1>6

\* The first pair from a key on, in a node whose last key is as large.
LEMMA FirstFromIs ==
  ASSUME NEW n \in Node, NEW key \in 0 .. INDEX_KEY_MAX, n.list[Len(n.list)].key = INDEX_KEY_MAX
  PROVE  /\ FirstFrom(n, key) \in 1 .. Len(n.list)
         /\ n.list[FirstFrom(n, key)].key >= key
         /\ \A j \in 1 .. FirstFrom(n, key) - 1 : n.list[j].key < key
<1> USE IndexFileAssumption
<1> DEFINE S == {i \in DOMAIN n.list : n.list[i].key >= key}
<1>1. n.list \in Seq(Pair) /\ n.list # << >>
  BY DEF Node
<1>2. Len(n.list) \in Nat /\ Len(n.list) > 0 /\ DOMAIN n.list = 1 .. Len(n.list)
  BY <1>1
<1>3. \A i \in DOMAIN n.list : n.list[i].key \in 0 .. INDEX_KEY_MAX
  <2> SUFFICES ASSUME NEW i \in DOMAIN n.list PROVE n.list[i].key \in 0 .. INDEX_KEY_MAX
    OBVIOUS
  <2>1. n.list[i] \in Pair
    BY <1>1
  <2> QED BY <2>1 DEF Pair
<1>4. S \subseteq Nat /\ Len(n.list) \in S
  BY <1>2
<1>5. PICK i \in S : \A j \in S : i <= j
  <2> HIDE DEF S
  <2> QED BY <1>4, LeastExists, Zenon
<1>6. \A j \in 1 .. i - 1 : n.list[j].key < key
  BY <1>2, <1>3, <1>5
<1>7. \E k \in DOMAIN n.list : n.list[k].key >= key /\ \A j \in 1 .. k - 1 : n.list[j].key < key
  BY <1>5, <1>6
<1> QED BY <1>2, <1>7, Zenon DEF FirstFrom

\* From a node between whose keys a key is, a search goes to such a node below.
LEMMA TowardIs ==
  ASSUME NEW t, NEW g, NEW strict, Placed(t, g), AllKeysBetween(t, g, strict), AllHaveChildren(t, g),
         NEW key \in 0 .. INDEX_KEY_MAX, NEW p \in g.nodes, g.lo[p] < key, key <= g.hi[p]
  PROVE  LET q == Toward(t, key)[p]
         IN  /\ q \in g.nodes /\ g.lo[q] < key /\ key <= g.hi[q]
             /\ t.node[p].is_leaf => q = p
             /\ ~ t.node[p].is_leaf => g.lev[q] + 1 = g.lev[p]
<1> USE IndexFileAssumption
<1> DEFINE n == t.node[p]
           i == FirstFrom(n, key)
<1>1. p \in NodeIds /\ n \in Node /\ Len(n.list) \in Nat \ {0} /\ DOMAIN n.list = 1 .. Len(n.list)
  BY NodeIs
<1>2. KeysBetween(n.list, n.is_leaf, g.lo[p], g.hi[p], strict)
  BY DEF AllKeysBetween
<1>3. /\ i \in 1 .. Len(n.list) /\ n.list[i].key >= key
      /\ \A j \in 1 .. i - 1 : n.list[j].key < key
  BY <1>1, <1>2, FirstFromIs DEF KeysBetween
<1>4. Toward(t, key)[p] = IF n.is_leaf THEN p ELSE n.list[i].value
  BY <1>1 DEF Toward
<1>5. CASE n.is_leaf
  BY <1>4, <1>5
<1>6. CASE ~ n.is_leaf
  <2> DEFINE c == Child(n, i)
  <2>1. HasChildren(t, g, p)
    BY <1>6 DEF AllHaveChildren
  <2>2. /\ c \in g.nodes /\ g.lev[c] + 1 = g.lev[p]
        /\ g.lo[c] = IF i = 1 THEN g.lo[p] ELSE n.list[i - 1].key
        /\ g.hi[c] = IF i = Len(n.list) THEN g.hi[p] ELSE n.list[i].key
    BY <2>1, <1>1, <1>3 DEF HasChildren
  <2>3. g.lo[c] < key
    BY <2>2, <1>3
  <2>4. key <= g.hi[c]
    BY <2>2, <1>3, <1>1, NodeIs
  <2> QED BY <1>4, <1>6, <2>2, <2>3, <2>4 DEF Child
<1> QED BY <1>5, <1>6

\* The leaf location_at comes to for a key is one between whose bounds it is.
LEMMA LeafForIs ==
  ASSUME NEW t, NEW g, NEW strict, Placed(t, g), AllKeysBetween(t, g, strict), AllHaveChildren(t, g),
         InOrder(t, g), g.lev[t.root] < t.num, NEW key \in 0 .. INDEX_KEY_MAX
  PROVE  /\ LeafFor(t, key) \in g.nodes /\ t.node[LeafFor(t, key)].is_leaf
         /\ g.lo[LeafFor(t, key)] < key /\ key <= g.hi[LeafFor(t, key)]
<1> USE IndexFileAssumption
<1> DEFINE r    == Rounds(Toward(t, key), t.root, t.num)
           H    == g.lev[t.root]
           P(k) == /\ r[k] \in g.nodes /\ g.lo[r[k]] < key /\ key <= g.hi[r[k]]
                   /\ t.node[r[k]].is_leaf \/ g.lev[r[k]] + k = H
           S    == {k \in 0 .. t.num : ~ P(k)}
<1>1. t.num \in Nat /\ t.root \in g.nodes /\ H \in Nat /\ H < t.num
  BY DEF Placed, Trees, NodeIds
<1>2. r[0] = t.root /\ \A k \in 1 .. t.num : r[k] = Toward(t, key)[r[k - 1]]
  BY <1>1, RoundsAre
<1>3. P(0)
  BY <1>1, <1>2 DEF Placed
<1>4. ASSUME NEW k \in 1 .. t.num, P(k - 1) PROVE P(k)
  <2>1. r[k] = Toward(t, key)[r[k - 1]]
    BY <1>2
  <2> HIDE DEF r
  <2>2. /\ r[k] \in g.nodes /\ g.lo[r[k]] < key /\ key <= g.hi[r[k]]
        /\ t.node[r[k - 1]].is_leaf => r[k] = r[k - 1]
        /\ ~ t.node[r[k - 1]].is_leaf => g.lev[r[k]] + 1 = g.lev[r[k - 1]]
    BY <1>4, <2>1, TowardIs
  <2>3. CASE t.node[r[k - 1]].is_leaf
    BY <2>2, <2>3
  <2>4. CASE ~ t.node[r[k - 1]].is_leaf
    <3>1. g.lev[r[k]] \in Nat /\ g.lev[r[k - 1]] \in Nat
      BY <1>4, <2>2 DEF Placed
    <3> QED BY <2>2, <2>4, <1>4, <3>1, <1>1
  <2> QED BY <2>3, <2>4
<1>5. S = {}
  <2> SUFFICES ASSUME S # {} PROVE FALSE
    OBVIOUS
  <2>1. PICK k \in S : \A j \in S : k <= j
    <3>1. S \subseteq Nat
      OBVIOUS
    <3> HIDE DEF S
    <3> QED BY <3>1, LeastExists, Zenon
  <2> HIDE DEF P
  <2>2. k \in 1 .. t.num /\ ~ P(k)
    BY <2>1, <1>3
  <2>3. P(k - 1)
    <3>1. k - 1 \in 0 .. t.num /\ k - 1 \notin S
      <4> HIDE DEF S
      <4> QED BY <2>1, <2>2, <1>1
    <3> QED BY <3>1
  <2> QED BY <2>2, <2>3, <1>4
<1>6. P(t.num)
  <2> HIDE DEF P
  <2> QED BY <1>5, <1>1
<1>7. t.node[r[t.num]].is_leaf
  <2>1. g.lev[r[t.num]] \in Nat
    BY <1>6 DEF Placed
  <2> QED BY <1>6, <2>1, <1>1
<1> QED BY <1>6, <1>7 DEF LeafFor
-----------------------------------------------------------------------------
\* What a list of pairs is, element by element.
LEMMA ListIs ==
  ASSUME NEW list \in Seq(Pair) \ {<< >>}
  PROVE  /\ list \in Seq(Pair) /\ Len(list) \in Nat \ {0} /\ DOMAIN list = 1 .. Len(list)
         /\ \A i \in 1 .. Len(list) : list[i] \in Pair /\ list[i].key \in 0 .. INDEX_KEY_MAX
                                      /\ list[i].key \in Int /\ list[i].value \in Nat
<1> USE IndexFileAssumption
<1>1. list \in Seq(Pair) /\ Len(list) \in Nat \ {0} /\ DOMAIN list = 1 .. Len(list)
  OBVIOUS
<1>2. ASSUME NEW i \in 1 .. Len(list)
      PROVE  list[i] \in Pair /\ list[i].key \in 0 .. INDEX_KEY_MAX
             /\ list[i].key \in Int /\ list[i].value \in Nat
  <2>1. list[i] \in Pair
    BY <1>1
  <2> QED BY <2>1 DEF Pair
<1> QED BY <1>1, <1>2

\* The first place of a list with a key as large.
PlaceFor(list, i, key) ==
  i \in 1 .. Len(list) /\ list[i].key >= key /\ \A j \in 1 .. i - 1 : list[j].key < key

\* A list with key put in at place i of an old one.
PutIn(list, old, i, key) ==
  /\ Len(list) = Len(old) + 1
  /\ \A j \in 1 .. Len(list) : list[j].key = IF j < i THEN old[j].key
                                             ELSE IF j = i THEN key ELSE old[j - 1].key

\* A key put in at its place between the bounds of a node.
LEMMA KeyPutIn ==
  ASSUME NEW old \in Seq(Pair) \ {<< >>}, NEW leaf, NEW lo \in Int, NEW hi \in Int, NEW strict,
         KeysBetween(old, leaf, lo, hi, strict),
         NEW key \in 0 .. INDEX_KEY_MAX - 1, lo < key, key <= hi,
         NEW i, PlaceFor(old, i, key),
         strict => (i < Len(old) => old[i].key # key) /\ (~ leaf => key < hi),
         NEW list \in Seq(Pair) \ {<< >>}, PutIn(list, old, i, key)
  PROVE  KeysBetween(list, leaf, lo, hi, strict)
<1> USE IndexFileAssumption
<1> DEFINE K == Len(old) - 1
           new(j) == IF j < i THEN old[j].key ELSE IF j = i THEN key ELSE old[j - 1].key
<1>0. /\ i \in 1 .. Len(old) /\ old[i].key >= key /\ \A j \in 1 .. i - 1 : old[j].key < key
      /\ Len(list) = Len(old) + 1 /\ \A j \in 1 .. Len(list) : list[j].key = new(j)
  BY DEF PlaceFor, PutIn
<1>1. K \in Nat /\ Len(old) = K + 1 /\ Len(list) = K + 2 /\ i \in 1 .. K + 1
  BY <1>0, ListIs
<1>2. \A j \in 1 .. K + 1 : old[j].key \in Int
  BY ListIs
<1>3. /\ old[K + 1].key = INDEX_KEY_MAX
      /\ \A j \in 1 .. K : /\ old[j].key < INDEX_KEY_MAX /\ lo <= old[j].key /\ old[j].key <= hi
                           /\ strict \/ Mid <= j => lo < old[j].key
                           /\ strict /\ ~ leaf => old[j].key < hi
      /\ \A j, k \in 1 .. K : j < k => /\ old[j].key <= old[k].key
                                       /\ strict => old[j].key < old[k].key
  BY <1>1 DEF KeysBetween
<1>4. \A j \in 1 .. K + 2 : list[j].key = new(j)
  BY <1>0, <1>1, Zenon
<1>5. Mid \in Int
  BY DEF Mid
<1> HIDE DEF K
<1>9. ASSUME NEW j \in 1 .. K, NEW k \in 1 .. K, j <= k
      PROVE  old[j].key <= old[k].key /\ old[j].key \in Int /\ old[k].key \in Int
  <2>1. old[j].key \in Int /\ old[k].key \in Int
    BY <1>1, <1>2
  <2>2. CASE j = k
    BY <2>1, <2>2
  <2>3. CASE j < k
    BY <2>1, <2>3, <1>3
  <2> QED BY <2>1, <2>2, <2>3, <1>9, <1>1
<1>6. list[K + 2].key = INDEX_KEY_MAX
  BY <1>1, <1>3, <1>4
<1>7. ASSUME NEW j \in 1 .. K + 1
      PROVE  /\ list[j].key < INDEX_KEY_MAX /\ lo <= list[j].key /\ list[j].key <= hi
             /\ strict \/ Mid <= j => lo < list[j].key
             /\ strict /\ ~ leaf => list[j].key < hi
  <2>0. list[j].key = new(j)
    BY <1>1, <1>4
  <2>1. CASE j < i
    <3>1. j \in 1 .. K /\ list[j].key = old[j].key
      BY <1>1, <2>0, <2>1
    <3> QED BY <3>1, <1>3
  <2>2. CASE j = i
    BY <2>0, <2>2
  <2>3. CASE j > i
    <3>1. j - 1 \in 1 .. K /\ i \in 1 .. K /\ list[j].key = old[j - 1].key /\ i <= j - 1
      BY <1>1, <2>0, <2>3
    <3>2. old[i].key <= old[j - 1].key
      BY <3>1, <1>2, <1>3, <1>1
    <3>3. old[j - 1].key >= key /\ old[j - 1].key \in Int
      BY <3>1, <3>2, <1>0, <1>2, <1>1
    <3> QED BY <3>1, <3>3, <1>3
  <2> QED BY <2>1, <2>2, <2>3, <1>1
<1>8. ASSUME NEW j \in 1 .. K + 1, NEW k \in 1 .. K + 1, j < k
      PROVE  list[j].key <= list[k].key /\ (strict => list[j].key < list[k].key)
  <2>0. list[j].key = new(j) /\ list[k].key = new(k)
    BY <1>1, <1>4
  <2>1. CASE k < i
    <3>1. j \in 1 .. K /\ k \in 1 .. K /\ list[j].key = old[j].key /\ list[k].key = old[k].key
      BY <1>1, <2>0, <1>8, <2>1
    <3> QED BY <3>1, <1>3, <1>8
  <2>2. CASE k = i
    <3>1. list[j].key = old[j].key /\ list[k].key = key /\ j \in 1 .. i - 1 /\ j \in 1 .. K
      BY <1>1, <2>0, <1>8, <2>2
    <3> QED BY <3>1, <1>0, <1>2
  <2>3. CASE j = i
    <3>1. list[j].key = key /\ list[k].key = old[k - 1].key /\ k - 1 \in 1 .. K /\ i <= k - 1 /\ i \in 1 .. K
      BY <1>1, <2>0, <1>8, <2>3
    <3>2. old[i].key <= old[k - 1].key /\ old[i].key \in Int /\ old[k - 1].key \in Int
      BY <3>1, <1>9
    <3>3. strict => key < old[i].key
      BY <3>1, <3>2, <1>0, <1>1
    <3>4. key <= old[i].key
      BY <3>2, <1>0
    <3> QED BY <3>1, <3>2, <3>3, <3>4
  <2>4. CASE j < i /\ i < k
    <3>1. list[j].key = old[j].key /\ j \in 1 .. i - 1 /\ list[k].key = old[k - 1].key
          /\ k - 1 \in 1 .. K /\ i <= k - 1 /\ i \in 1 .. K /\ j \in 1 .. K
      BY <1>1, <2>0, <1>8, <2>4
    <3>2. old[i].key <= old[k - 1].key /\ old[i].key \in Int /\ old[k - 1].key \in Int
      BY <3>1, <1>9
    <3>3. old[j].key < key /\ old[j].key \in Int
      BY <3>1, <1>0, <1>9
    <3>5. key <= old[i].key
      BY <3>2, <1>0
    <3>4. old[j].key < old[k - 1].key
      <4>1. key \in Int
        OBVIOUS
      <4> QED BY ONLY <3>2, <3>3, <3>5, <4>1
    <3> QED BY <3>1, <3>2, <3>3, <3>4
  <2>5. CASE i < j
    <3>1. list[j].key = old[j - 1].key /\ list[k].key = old[k - 1].key
          /\ j - 1 \in 1 .. K /\ k - 1 \in 1 .. K /\ j - 1 < k - 1
      BY <1>1, <2>0, <1>8, <2>5
    <3> QED BY <3>1, <1>3
  <2> QED BY <2>1, <2>2, <2>3, <2>4, <2>5, <1>8, <1>1
<1> QED BY <1>1, <1>6, <1>7, <1>8 DEF KeysBetween
-----------------------------------------------------------------------------
\* Node n with another list of pairs.
Relisted(n, list) == [n EXCEPT !.list = list]

\* Tree t with another list of pairs in node p.
WithList(t, p, list) == [t EXCEPT !.node[p].list = list]

\* A node with another list of pairs, in its tree.
LEMMA WithListIs ==
  ASSUME NEW t \in Trees, NEW p \in NodeIds, t.node[p] \in Node, NEW list \in Seq(Pair) \ {<< >>}
  PROVE  LET u == WithList(t, p, list)
         IN  /\ u \in Trees /\ u.root = t.root /\ u.num = t.num
             /\ u.node[p] = Relisted(t.node[p], list) /\ u.node[p] \in Node
             /\ u.node[p].list = list /\ u.node[p].is_leaf = t.node[p].is_leaf
             /\ u.node[p].parent = t.node[p].parent /\ u.node[p].pre_leaf = t.node[p].pre_leaf
             /\ u.node[p].suc_leaf = t.node[p].suc_leaf
             /\ \A q \in NodeIds : q # p => u.node[q] = t.node[q]
<1> DEFINE m == [t.node[p] EXCEPT !.list = list]
           u == WithList(t, p, list)
<1>1. m \in Node /\ m.list = list /\ m.is_leaf = t.node[p].is_leaf /\ m.parent = t.node[p].parent
      /\ m.pre_leaf = t.node[p].pre_leaf /\ m.suc_leaf = t.node[p].suc_leaf
  BY Zenon DEF Node
<1>2. u = [t EXCEPT !.node = [t.node EXCEPT ![p] = m]]
  BY DEF WithList
<1>6. m = Relisted(t.node[p], list)
  BY DEF Relisted
<1> HIDE DEF m
<1>3. [t.node EXCEPT ![p] = m] \in [NodeIds -> Node \cup {Nil}]
  BY <1>1 DEF Trees
<1>4. /\ u.root = t.root /\ u.num = t.num /\ u.node = [t.node EXCEPT ![p] = m] /\ u \in Trees
  BY <1>2, <1>3 DEF Trees
<1>5. u.node[p] = m /\ \A q \in NodeIds : q # p => u.node[q] = t.node[q]
  BY <1>4 DEF Trees
<1> QED BY <1>1, <1>4, <1>5, <1>6

\* A leaf that gets other pairs between its bounds: the tree keeps its shape.
LEMMA LeafRelisted ==
  ASSUME NEW t, NEW g, NEW strict, Shape(t, g, strict), NEW p \in g.nodes, t.node[p].is_leaf,
         NEW list \in Seq(Pair) \ {<< >>},
         KeysBetween(list, t.node[p].is_leaf, g.lo[p], g.hi[p], strict),
         Len(list) >= 2 \/ p = t.root,
         ~ strict /\ g.hi[p] < INDEX_KEY_MAX
           => Len(list) >= 2 /\ list[Len(list) - 1].key = g.hi[p]
  PROVE  Shape(WithList(t, p, list), g, strict)
<1> DEFINE u == WithList(t, p, list)
<1>1. Placed(t, g) /\ t \in Trees /\ p \in NodeIds /\ g.nodes \subseteq NodeIds /\ t.node[p] \in Node
  BY NodeIs DEF Shape, Placed
<1>2. /\ u \in Trees /\ u.root = t.root /\ u.num = t.num
      /\ u.node[p] = Relisted(t.node[p], list) /\ u.node[p] \in Node
      /\ u.node[p].list = list /\ u.node[p].is_leaf = t.node[p].is_leaf
      /\ u.node[p].parent = t.node[p].parent /\ u.node[p].pre_leaf = t.node[p].pre_leaf
      /\ u.node[p].suc_leaf = t.node[p].suc_leaf
      /\ \A q \in NodeIds : q # p => u.node[q] = t.node[q]
  <2>1. t \in Trees /\ p \in NodeIds /\ t.node[p] \in Node /\ list \in Seq(Pair) \ {<< >>}
    BY <1>1
  <2>2. /\ u \in Trees /\ u.root = t.root /\ u.num = t.num
    BY <2>1, WithListIs
  <2>3. u.node[p] = Relisted(t.node[p], list)
    BY <2>1, WithListIs
  <2>4. u.node[p].list = list
    BY <2>1, WithListIs
  <2>5. \A q \in NodeIds : q # p => u.node[q] = t.node[q]
    BY <2>1, WithListIs
  <2>6. u.node[p].is_leaf = t.node[p].is_leaf
    BY <2>1, <2>3, Zenon DEF Relisted, Node
  <2>7. u.node[p] \in Node
    BY <2>1, WithListIs
  <2>8. /\ u.node[p].parent = t.node[p].parent /\ u.node[p].pre_leaf = t.node[p].pre_leaf
        /\ u.node[p].suc_leaf = t.node[p].suc_leaf
    BY <2>1, WithListIs
  <2> QED BY <2>2, <2>3, <2>4, <2>5, <2>6, <2>7, <2>8
<1>3. \A q \in g.nodes : /\ u.node[q].is_leaf = t.node[q].is_leaf
                         /\ u.node[q].parent = t.node[q].parent
                         /\ u.node[q].pre_leaf = t.node[q].pre_leaf
                         /\ u.node[q].suc_leaf = t.node[q].suc_leaf
                         /\ q # p => u.node[q] = t.node[q]
  BY <1>1, <1>2, Zenon
<1> HIDE DEF u
<1>4. Placed(u, g)
  BY <1>1, <1>2, <1>3, Zenon DEF Placed
<1>5. AllKeysBetween(u, g, strict)
  BY <1>2, <1>3, Zenon DEF Shape, AllKeysBetween
<1>6. AllHaveChildren(u, g)
  <2> SUFFICES ASSUME NEW q \in g.nodes, ~ u.node[q].is_leaf PROVE HasChildren(u, g, q)
    BY DEF AllHaveChildren
  <2>1. q # p /\ u.node[q] = t.node[q] /\ HasChildren(t, g, q)
    BY <1>3 DEF Shape, AllHaveChildren
  <2> QED BY <2>1, <1>3 DEF HasChildren
<1>7. AllAreChildren(u, g)
  <2> SUFFICES ASSUME NEW c \in g.nodes \ {u.root}
               PROVE  LET q == u.node[c].parent
                      IN  /\ q \in g.nodes /\ ~ u.node[q].is_leaf
                          /\ \E i \in DOMAIN u.node[q].list : Child(u.node[q], i) = c
    BY DEF AllAreChildren
  <2> DEFINE q == t.node[c].parent
  <2>1. u.node[c].parent = q /\ c \in g.nodes \ {t.root}
    BY <1>2, <1>3
  <2>2. q \in g.nodes /\ ~ t.node[q].is_leaf /\ \E i \in DOMAIN t.node[q].list : Child(t.node[q], i) = c
    BY <2>1 DEF Shape, AllAreChildren
  <2>3. u.node[q] = t.node[q]
    BY <2>2, <1>3
  <2> HIDE DEF q
  <2> QED BY <2>1, <2>2, <2>3
<1>8. InOrder(u, g)
  BY <1>3 DEF Shape, InOrder
<1>9. Chained(u, g)
  <2>1. Chained(t, g) /\ u.root = t.root
    BY <1>2 DEF Shape
  <2> QED BY <2>1, <1>3 DEF Chained
<1>10. LeavesFull(u, g, strict)
  <2>1. Len(list) \in Nat
    OBVIOUS
  <2>2. LeavesFull(t, g, strict)
    BY DEF Shape
  <2>3. ASSUME NEW q \in g.nodes, u.node[q].is_leaf, q # u.root PROVE key_num(u.node[q]) >= 1
    <3>1. CASE q = p
      BY <1>2, <2>1, <2>3, <3>1 DEF key_num
    <3>2. CASE q # p
      BY <1>2, <1>3, <2>2, <2>3, <3>2 DEF LeavesFull
    <3> QED BY <3>1, <3>2
  <2>4. ASSUME NEW q \in g.nodes, ~ strict, u.node[q].is_leaf, g.hi[q] < INDEX_KEY_MAX
        PROVE  key_num(u.node[q]) >= 1 /\ u.node[q].list[key_num(u.node[q])].key = g.hi[q]
    <3>1. CASE q = p
      BY <1>2, <2>1, <2>4, <3>1 DEF key_num
    <3>2. CASE q # p
      BY <1>3, <2>2, <2>4, <3>2 DEF LeavesFull
    <3> QED BY <3>1, <3>2
  <2> QED BY <2>3, <2>4 DEF LeavesFull
<1> QED BY <1>4, <1>5, <1>6, <1>7, <1>8, <1>9, <1>10 DEF Shape, u
-----------------------------------------------------------------------------
\* Node p of tree u has the pairs it has in tree t, and a pair more at place i.
PairPutIn(t, u, p, i, key, rid) ==
  LET K == key_num(t.node[p])
  IN  /\ K \in Nat /\ i \in 1 .. K + 1 /\ key_num(u.node[p]) = K + 1
      /\ \A j \in 1 .. K + 1 : u.node[p].list[j] = IF j < i THEN t.node[p].list[j]
                                                   ELSE IF j = i THEN pair(key, rid)
                                                   ELSE t.node[p].list[j - 1]

\* The loop of location_at comes to the place of a key, and insert_key puts a pair there.
LEMMA KeyInserted ==
  ASSUME NEW t, NEW g, NEW strict, Shape(t, g, strict), Sizes(t, g, NoPage), g.lev[t.root] < t.num,
         NEW key \in 0 .. INDEX_KEY_MAX - 1, NEW rid \in Nat,
         NEW p, p = LeafFor(t, key), NEW i, i = FirstFrom(t.node[p], key),
         strict => \A j \in 1 .. key_num(t.node[p]) : t.node[p].list[j].key # key
  PROVE  LET u == insert_key(t, p, i, key, rid)
         IN  /\ p \in g.nodes /\ t.node[p].is_leaf
             /\ Shape(u, g, strict) /\ Sizes(u, g, p)
             /\ u.root = t.root /\ u.num = t.num
             /\ PairsOf(u.node[p]) = PairsOf(t.node[p]) \cup {<<key, rid>>}
             /\ \A q \in NodeIds : q # p => u.node[q] = t.node[q]
             /\ u.node[p].is_leaf
             /\ PairPutIn(t, u, p, i, key, rid)
<1> USE IndexFileAssumption
<1> DEFINE old  == t.node[p].list
           K    == Len(old) - 1
           list == InsertAt(old, i, pair(key, rid))
           u    == WithList(t, p, list)
<1>1. /\ Placed(t, g) /\ AllKeysBetween(t, g, strict) /\ AllHaveChildren(t, g) /\ InOrder(t, g)
      /\ LeavesFull(t, g, strict) /\ key \in 0 .. INDEX_KEY_MAX
  BY DEF Shape
<1>2. p \in g.nodes /\ t.node[p].is_leaf /\ g.lo[p] < key /\ key <= g.hi[p]
  BY <1>1, LeafForIs
<1>3. /\ t \in Trees /\ p \in NodeIds /\ t.node[p] \in Node /\ old \in Seq(Pair) \ {<< >>}
      /\ g.lo[p] \in Int /\ g.hi[p] \in Int
  BY <1>1, <1>2 DEF Placed, Node
<1>4. /\ Len(old) = K + 1 /\ K \in Nat /\ old \in Seq(Pair)
      /\ \A j \in 1 .. K + 1 : old[j] \in Pair /\ old[j].key \in Int
  BY <1>3, ListIs
<1>5. KeysBetween(old, t.node[p].is_leaf, g.lo[p], g.hi[p], strict)
  BY <1>1, <1>2, Zenon DEF AllKeysBetween
<1>6. old[K + 1].key = INDEX_KEY_MAX
  BY <1>4, <1>5 DEF KeysBetween
<1>7. i \in 1 .. K + 1 /\ old[i].key >= key /\ \A j \in 1 .. i - 1 : old[j].key < key
  BY <1>1, <1>3, <1>4, <1>6, FirstFromIs
<1>8. /\ list \in Seq(Pair) /\ Len(list) = K + 2
      /\ \A j \in 1 .. K + 2 : list[j] = IF j < i THEN old[j] ELSE IF j = i THEN pair(key, rid)
                                         ELSE old[j - 1]
  <2>1. pair(key, rid) \in Pair
    BY <1>1 DEF pair, Pair
  <2>2. i \in 1 .. Len(old) /\ Len(old) + 1 = K + 2
    BY <1>4, <1>7
  <2> HIDE DEF K, old
  <2> DEFINE e == pair(key, rid)
  <2>3. old \in Seq(Pair) /\ e \in Pair
    BY <1>4, <2>1
  <2> HIDE DEF e
  <2>4. /\ InsertAt(old, i, e) \in Seq(Pair) /\ Len(InsertAt(old, i, e)) = Len(old) + 1
        /\ \A j \in 1 .. Len(old) + 1 : InsertAt(old, i, e)[j] = IF j < i THEN old[j] ELSE IF j = i THEN e
                                                  ELSE old[j - 1]
    BY <2>2, <2>3, InsertAtIs
  <2>5. /\ list \in Seq(Pair) /\ Len(list) = Len(old) + 1
        /\ \A j \in 1 .. Len(old) + 1 : list[j] = IF j < i THEN old[j] ELSE IF j = i THEN pair(key, rid)
                                                  ELSE old[j - 1]
    BY <2>4 DEF e
  <2> QED BY <2>2, <2>5
<1>9. list # << >>
  BY <1>4, <1>8
<1>10. insert_key(t, p, i, key, rid) = u
  BY DEF insert_key, WithList
<1>11. u.root = t.root /\ u.num = t.num
  BY <1>3, <1>8, <1>9, WithListIs
<1>12. u.node[p].list = list /\ \A q \in NodeIds : q # p => u.node[q] = t.node[q]
  BY <1>3, <1>8, <1>9, WithListIs
<1>13. u.node[p].is_leaf
  <2>1. u.node[p] = Relisted(t.node[p], list)
    BY <1>3, <1>8, <1>9, WithListIs
  <2> QED BY <1>2, <1>3, <2>1 DEF Relisted, Node
<1> DEFINE n == t.node[p]
<1>14. key_num(n) = K
  BY DEF key_num
<1>15. strict => (i < Len(old) => old[i].key # key)
  BY <1>4, <1>7, <1>14
<1> HIDE DEF K, list, old
<1>16. PutIn(list, old, i, key)
  <2>1. Len(list) = Len(old) + 1 /\ pair(key, rid).key = key
    BY <1>4, <1>8 DEF pair
  <2>2. \A j \in 1 .. Len(list) : list[j].key = IF j < i THEN old[j].key
                                                ELSE IF j = i THEN key ELSE old[j - 1].key
    BY <1>8, <2>1
  <2> QED BY <2>1, <2>2 DEF PutIn
<1>17. KeysBetween(list, t.node[p].is_leaf, g.lo[p], g.hi[p], strict)
  <2>1. list \in Seq(Pair) \ {<< >>} /\ PlaceFor(old, i, key)
    BY <1>4, <1>7, <1>8, <1>9 DEF PlaceFor
  <2>2. strict => (i < Len(old) => old[i].key # key) /\ (~ t.node[p].is_leaf => key < g.hi[p])
    BY <1>2, <1>15
  <2> QED BY <1>2, <1>3, <1>5, <1>16, <2>1, <2>2, KeyPutIn, Zenon
<1>18. Len(list) >= 2
  BY <1>4, <1>8
<1>19. ~ strict /\ g.hi[p] < INDEX_KEY_MAX => Len(list) >= 2 /\ list[Len(list) - 1].key = g.hi[p]
  <2> SUFFICES ASSUME ~ strict, g.hi[p] < INDEX_KEY_MAX PROVE list[K + 1].key = g.hi[p]
    BY <1>4, <1>8, <1>18
  <2>1. K >= 1 /\ old[K].key = g.hi[p]
    BY <1>1, <1>2, <1>14 DEF LeavesFull, old
  <2>2. i <= K
    BY <1>2, <1>4, <1>7, <2>1
  <2>3. list[K + 1] = old[K]
    BY <1>4, <1>7, <1>8, <2>2
  <2> QED BY <2>1, <2>3
<1>20. Shape(u, g, strict)
  BY <1>2, <1>8, <1>9, <1>17, <1>18, <1>19, LeafRelisted, Zenon
<1>21. Sizes(u, g, p)
  <2>1. \A q \in g.nodes : q \in NodeIds
    BY <1>1 DEF Placed
  <2>2. key_num(u.node[p]) = K + 1
    BY <1>4, <1>8, <1>12 DEF key_num
  <2>3. K <= M - 1 /\ M \in Nat
    BY <1>2, <1>14, <1>3 DEF Sizes, NoPage, NodeIds
  <2>4. \A q \in g.nodes : key_num(u.node[q]) <= IF q = p THEN M ELSE M - 1
    <3> SUFFICES ASSUME NEW q \in g.nodes PROVE key_num(u.node[q]) <= IF q = p THEN M ELSE M - 1
      OBVIOUS
    <3>1. CASE q = p
      BY <3>1, <2>2, <2>3, <1>4
    <3>2. CASE q # p
      BY <3>2, <2>1, <1>12 DEF Sizes, NoPage, NodeIds
    <3> QED BY <3>1, <3>2
  <2>5. \A q \in g.nodes : ~ u.node[q].is_leaf => q # p
    BY <1>13
  <2> HIDE DEF u
  <2>6. \A q \in g.nodes : ~ u.node[q].is_leaf
           => key_num(u.node[q]) >= IF q = u.root THEN 1 ELSE Mid - 1
    BY <2>5, <2>1, <1>11, <1>12 DEF Sizes
  <2> QED BY <2>4, <2>6 DEF Sizes
<1>22. PairsOf(u.node[p]) = PairsOf(t.node[p]) \cup {<<key, rid>>}
  <2>1. PairsOf(u.node[p]) = {<<list[j].key, list[j].value>> : j \in 1 .. K + 1}
    BY <1>4, <1>8, <1>12 DEF PairsOf, key_num
  <2>2. PairsOf(t.node[p]) = {<<old[j].key, old[j].value>> : j \in 1 .. K}
    BY <1>14 DEF PairsOf, old
  <2>3. ASSUME NEW j \in 1 .. K + 1
        PROVE  <<list[j].key, list[j].value>>
                 \in {<<old[k].key, old[k].value>> : k \in 1 .. K} \cup {<<key, rid>>}
    <3>1. CASE j < i
      <4>1. j \in 1 .. K /\ list[j] = old[j]
        BY <3>1, <1>4, <1>7, <1>8
      <4> QED BY <4>1
    <3>2. CASE j = i
      <4>1. list[j] = pair(key, rid)
        BY <3>2, <1>4, <1>7, <1>8
      <4> QED BY <4>1 DEF pair
    <3>3. CASE j > i
      <4>1. j - 1 \in 1 .. K /\ list[j] = old[j - 1]
        BY <3>3, <1>4, <1>7, <1>8
      <4> QED BY <4>1
    <3> QED BY <3>1, <3>2, <3>3, <1>7
  <2>4. ASSUME NEW k \in 1 .. K
        PROVE  <<old[k].key, old[k].value>> \in {<<list[j].key, list[j].value>> : j \in 1 .. K + 1}
    <3>1. CASE k < i
      <4>1. k \in 1 .. K + 1 /\ list[k] = old[k]
        BY <3>1, <1>4, <1>7, <1>8
      <4> QED BY <4>1
    <3>2. CASE ~ (k < i)
      <4>1. k + 1 \in 1 .. K + 1 /\ list[k + 1] = old[k]
        BY <3>2, <1>4, <1>7, <1>8
      <4> QED BY <4>1
    <3> QED BY <3>1, <3>2
  <2>5. <<key, rid>> \in {<<list[j].key, list[j].value>> : j \in 1 .. K + 1}
    <3>1. list[i] = pair(key, rid)
      BY <1>4, <1>7, <1>8
    <3> QED BY <3>1, <1>7 DEF pair
  <2> QED BY <2>1, <2>2, <2>3, <2>4, <2>5
<1>23. PairPutIn(t, u, p, i, key, rid)
  <2>1. key_num(t.node[p]) = K /\ u.node[p].list = list
    BY <1>12, <1>14
  <2>2. \A j \in 1 .. K + 1 : list[j] = IF j < i THEN t.node[p].list[j]
                                        ELSE IF j = i THEN pair(key, rid) ELSE t.node[p].list[j - 1]
    <3>1. \A j \in 1 .. K + 1 : list[j] = IF j < i THEN old[j] ELSE IF j = i THEN pair(key, rid)
                                          ELSE old[j - 1]
      BY <1>4, <1>8
    <3> QED BY <3>1 DEF old
  <2> HIDE DEF u
  <2>3. K \in Nat /\ i \in 1 .. K + 1 /\ key_num(u.node[p]) = K + 1
    BY <1>4, <1>7, <1>8, <1>12 DEF key_num
  <2> QED BY <2>1, <2>2, <2>3 DEF PairPutIn
<1> QED BY <1>2, <1>10, <1>11, <1>12, <1>13, <1>20, <1>21, <1>22, <1>23
-----------------------------------------------------------------------------
\* The left part of a list that is split.
LeftPart(list, old, leaf) ==
  /\ Len(list) = IF leaf THEN Mid + 1 ELSE Mid
  /\ list[Len(list)].key = INDEX_KEY_MAX
  /\ \A j \in 1 .. Len(list) - 1 : list[j] = old[j]
  /\ ~ leaf => list[Mid].value = old[Mid].value

\* The right part.
RightPart(list, old) ==
  /\ Len(list) = M - Mid + 1
  /\ \A j \in 1 .. Len(list) : list[j] = old[j + Mid]

\* The list of the parent, with one more pair.
Hooked(list, old, i, key, left, right) ==
  /\ Len(list) = Len(old) + 1
  /\ \A j \in 1 .. Len(list) : list[j] = IF j < i THEN old[j]
                                         ELSE IF j = i THEN pair(key, left)
                                         ELSE IF j = i + 1 THEN pair(old[i].key, right)
                                         ELSE old[j - 1]

\* The middle of M keys.
LEMMA MidIs ==
  /\ M \in Nat /\ M >= 3 /\ Mid \in Nat /\ 2 <= Mid /\ Mid < M
  /\ Mid - 1 <= M - Mid /\ 2 * Mid >= M
  /\ M % 2 = 1 => M - Mid < Mid
  BY IndexFileAssumption DEF Mid

\* The middle key is between the bounds, and each part is between its bounds.
LEMMA PartsBetween ==
  ASSUME NEW old \in Seq(Pair) \ {<< >>}, Len(old) = M + 1, NEW leaf \in BOOLEAN,
         NEW lo \in Int, NEW hi \in Int, NEW strict,
         KeysBetween(old, leaf, lo, hi, strict), strict \/ M % 2 = 1
  PROVE  /\ old[Mid].key \in 0 .. INDEX_KEY_MAX - 1 /\ lo < old[Mid].key /\ old[Mid].key <= hi
         /\ strict => old[Mid].key < hi
         /\ \A list : LeftPart(list, old, leaf) => KeysBetween(list, leaf, lo, old[Mid].key, strict)
         /\ \A list : RightPart(list, old) => KeysBetween(list, leaf, old[Mid].key, hi, strict)
<1> USE IndexFileAssumption
<1>1. /\ old[M + 1].key = INDEX_KEY_MAX
      /\ \A j \in 1 .. M : /\ old[j].key < INDEX_KEY_MAX /\ lo <= old[j].key /\ old[j].key <= hi
                           /\ strict \/ Mid <= j => lo < old[j].key
                           /\ strict /\ ~ leaf => old[j].key < hi
                           /\ old[j].key \in 0 .. INDEX_KEY_MAX /\ old[j].key \in Int
      /\ \A j, k \in 1 .. M : j < k => /\ old[j].key <= old[k].key
                                       /\ strict => old[j].key < old[k].key
  <2>1. Len(old) - 1 = M /\ \A j \in 1 .. M : j \in 1 .. Len(old)
    BY MidIs
  <2>2. \A j \in 1 .. M : old[j].key \in 0 .. INDEX_KEY_MAX /\ old[j].key \in Int
    BY <2>1, ListIs
  <2> QED BY <2>1, <2>2 DEF KeysBetween
<1>2. Mid \in 1 .. M /\ Mid + 1 \in 1 .. M
  BY MidIs
<1>3. /\ old[Mid].key \in 0 .. INDEX_KEY_MAX - 1 /\ lo < old[Mid].key /\ old[Mid].key <= hi
      /\ old[Mid].key \in Int
  BY <1>1, <1>2, MidIs
<1>4. strict => old[Mid].key < hi
  <2>1. strict => old[Mid].key < old[Mid + 1].key
    BY <1>1, <1>2
  <2>2. old[Mid + 1].key <= hi /\ old[Mid + 1].key \in Int
    BY <1>1, <1>2
  <2> QED BY <2>1, <2>2, <1>3
<1>5. ASSUME NEW list, LeftPart(list, old, leaf)
      PROVE  KeysBetween(list, leaf, lo, old[Mid].key, strict)
  <2> DEFINE N == Len(list) - 1
  <2>1. /\ N \in Nat /\ Len(list) = N + 1 /\ N <= Mid /\ (~ leaf => N = Mid - 1)
        /\ list[N + 1].key = INDEX_KEY_MAX /\ \A j \in 1 .. N : list[j] = old[j]
    <3>1. Len(list) = (IF leaf THEN Mid + 1 ELSE Mid) /\ list[Len(list)].key = INDEX_KEY_MAX
          /\ \A j \in 1 .. Len(list) - 1 : list[j] = old[j]
      BY <1>5 DEF LeftPart
    <3>2. N \in Nat /\ Len(list) = N + 1 /\ N <= Mid /\ (~ leaf => N = Mid - 1)
      BY <3>1, MidIs
    <3> QED BY <3>1, <3>2
  <2> HIDE DEF N
  <2>2. \A j \in 1 .. N : j \in 1 .. M /\ j <= Mid /\ list[j] = old[j]
    BY <2>1, MidIs
  <2>3. ASSUME NEW j \in 1 .. N PROVE old[j].key <= old[Mid].key /\ (~ leaf /\ strict => old[j].key < old[Mid].key)
    <3>1. CASE j = Mid
      BY <3>1, <2>1, <1>3, MidIs
    <3>2. CASE j # Mid
      BY <3>2, <2>2, <1>1, <1>2, MidIs
    <3> QED BY <3>1, <3>2
  <2>4. \A j \in 1 .. N : /\ list[j].key < INDEX_KEY_MAX
                          /\ lo <= list[j].key /\ list[j].key <= old[Mid].key
                          /\ strict \/ Mid <= j => lo < list[j].key
                          /\ strict /\ ~ leaf => list[j].key < old[Mid].key
    BY <2>2, <2>3, <1>1
  <2>5. \A j, k \in 1 .. N : j < k => /\ list[j].key <= list[k].key
                                      /\ strict => list[j].key < list[k].key
    BY <2>2, <1>1
  <2> QED BY <2>1, <2>4, <2>5, Zenon DEF KeysBetween, N
<1>6. ASSUME NEW list, RightPart(list, old)
      PROVE  KeysBetween(list, leaf, old[Mid].key, hi, strict)
  <2> DEFINE N == M - Mid
  <2>1. N \in Nat /\ Len(list) = N + 1 /\ \A j \in 1 .. N + 1 : list[j] = old[j + Mid]
    BY <1>6, MidIs DEF RightPart
  <2>2. list[N + 1].key = INDEX_KEY_MAX
    <3>1. (N + 1) + Mid = M + 1 /\ N + 1 \in 1 .. N + 1
      BY <2>1, MidIs
    <3>2. list[N + 1] = old[M + 1]
      BY <3>1, <2>1
    <3> QED BY <3>2, <1>1
  <2>3. \A j \in 1 .. N : j + Mid \in 1 .. M /\ Mid < j + Mid /\ list[j] = old[j + Mid]
    BY <2>1, MidIs
  <2>4. M % 2 = 1 => N < Mid
    BY MidIs
  <2> HIDE DEF N
  <2>5. ASSUME NEW j \in 1 .. N
        PROVE  old[Mid].key <= old[j + Mid].key /\ (strict => old[Mid].key < old[j + Mid].key)
    BY <2>3, <1>1, <1>2
  <2>6. \A j \in 1 .. N : /\ list[j].key < INDEX_KEY_MAX
                          /\ old[Mid].key <= list[j].key /\ list[j].key <= hi
                          /\ strict /\ ~ leaf => list[j].key < hi
    BY <2>3, <2>5, <1>1
  <2>7. \A j \in 1 .. N : strict \/ Mid <= j => old[Mid].key < list[j].key
    BY <2>1, <2>3, <2>4, <2>5, MidIs
  <2>8. \A j, k \in 1 .. N : j < k => /\ list[j].key <= list[k].key
                                      /\ strict => list[j].key < list[k].key
    <3> SUFFICES ASSUME NEW j \in 1 .. N, NEW k \in 1 .. N, j < k
                 PROVE  /\ list[j].key <= list[k].key
                        /\ strict => list[j].key < list[k].key
      OBVIOUS
    <3>1. j + Mid < k + Mid
      BY MidIs
    <3> QED BY <3>1, <2>3, <1>1, Zenon
  <2>9. Len(list) - 1 = N
    BY <2>1
  <2> QED BY <2>1, <2>2, <2>6, <2>7, <2>8, <2>9 DEF KeysBetween
<1> QED BY <1>3, <1>4, <1>5, <1>6
-----------------------------------------------------------------------------
\* Node p, which is not the root and has a key too many, is split: the pairs behind
\* the middle one are in node new, which is behind it below their parent, P.
Split(t, u, nodes, p, new, P, i) ==
  LET n     == t.node[p]
      moved == {n.list[j].value : j \in Mid + 1 .. M + 1}
  IN  /\ u \in Trees /\ u.root = t.root
      /\ \A q \in nodes \cup {new} : u.node[q] \in Node
      /\ u.node[p].is_leaf <=> n.is_leaf
      /\ u.node[new].is_leaf <=> n.is_leaf
      /\ ~ u.node[P].is_leaf
      /\ u.node[p].parent = P /\ u.node[new].parent = P /\ u.node[P].parent = t.node[P].parent
      /\ LeftPart(u.node[p].list, n.list, n.is_leaf)
      /\ RightPart(u.node[new].list, n.list)
      /\ Hooked(u.node[P].list, t.node[P].list, i, n.list[Mid].key, p, new)
      /\ n.is_leaf => /\ u.node[p].pre_leaf = n.pre_leaf /\ u.node[p].suc_leaf = new
                      /\ u.node[new].pre_leaf = p /\ u.node[new].suc_leaf = n.suc_leaf
      /\ \A q \in nodes \ {p, P} :
            /\ u.node[q].is_leaf <=> t.node[q].is_leaf
            /\ u.node[q].list = t.node[q].list
            /\ u.node[q].suc_leaf = t.node[q].suc_leaf
            /\ u.node[q].parent = IF ~ n.is_leaf /\ q \in moved THEN new ELSE t.node[q].parent
            /\ u.node[q].pre_leaf = IF n.is_leaf /\ q = n.suc_leaf THEN new ELSE t.node[q].pre_leaf

\* Node p, the child i of P, has a key too many and is to give half of them to `new'.
Halved(t, g, p, new, P, i, strict) ==
  /\ Shape(t, g, strict) /\ (strict \/ M % 2 = 1)
  /\ p \in g.nodes \ {t.root} /\ P = t.node[p].parent
  /\ i \in DOMAIN t.node[P].list /\ Child(t.node[P], i) = p
  /\ key_num(t.node[p]) = M
  /\ new \in NodeIds \ g.nodes

\* What is known of a node that is to be split.
LEMMA HalvedIs ==
  ASSUME NEW t, NEW g, NEW p, NEW new, NEW P, NEW i, NEW strict, Halved(t, g, p, new, P, i, strict)
  PROVE  LET L    == t.node[p].list
             up   == t.node[P].list
             over == L[Mid].key
         IN  /\ p \in g.nodes /\ P \in g.nodes /\ P # p /\ new \notin g.nodes /\ p # t.root /\ new # t.root
             /\ ~ t.node[P].is_leaf /\ HasChildren(t, g, P) /\ g.lev[P] = g.lev[p] + 1
             /\ L \in Seq(Pair) \ {<< >>} /\ Len(L) = M + 1
             /\ KeysBetween(L, t.node[p].is_leaf, g.lo[p], g.hi[p], strict)
             /\ over \in 0 .. INDEX_KEY_MAX - 1 /\ g.lo[p] < over /\ over <= g.hi[p]
             /\ strict => over < g.hi[p]
             /\ up \in Seq(Pair) \ {<< >>} /\ i \in 1 .. Len(up)
             /\ \A j \in 1 .. Len(up) : Child(t.node[P], j) = p <=> j = i
             /\ PlaceFor(up, i, over)
             /\ strict => (i < Len(up) => up[i].key # over) /\ over < g.hi[P]
<1> USE IndexFileAssumption
<1> DEFINE L    == t.node[p].list
           up   == t.node[P].list
           over == L[Mid].key
<1>1. /\ Placed(t, g) /\ AllKeysBetween(t, g, strict) /\ AllHaveChildren(t, g) /\ AllAreChildren(t, g)
      /\ p \in g.nodes \ {t.root} /\ new \in NodeIds \ g.nodes /\ key_num(t.node[p]) = M
      /\ i \in DOMAIN up /\ Child(t.node[P], i) = p /\ P = t.node[p].parent
      /\ (strict \/ M % 2 = 1)
  BY DEF Halved, Shape
<1>2. P \in g.nodes /\ ~ t.node[P].is_leaf /\ HasChildren(t, g, P)
  BY <1>1 DEF AllAreChildren, AllHaveChildren
<1>3. /\ g.lev[p] + 1 = g.lev[P]
      /\ g.lo[p] = IF i = 1 THEN g.lo[P] ELSE up[i - 1].key
      /\ g.hi[p] = IF i = Len(up) THEN g.hi[P] ELSE up[i].key
  BY <1>1, <1>2, Zenon DEF HasChildren
<1>4. /\ g.lev[p] \in Nat /\ g.lo[p] \in Int /\ g.hi[p] \in Int /\ g.lo[P] \in Int /\ g.hi[P] \in Int
      /\ t.node[p] \in Node /\ t.node[P] \in Node /\ g.from[p] < g.to[p]
      /\ g.from[p] \in Nat /\ g.to[p] \in Nat
      /\ t.root \in g.nodes
  BY <1>1, <1>2 DEF Placed
<1>5. L \in Seq(Pair) \ {<< >>} /\ up \in Seq(Pair) \ {<< >>} /\ t.node[p].is_leaf \in BOOLEAN
  BY <1>4, Zenon DEF Node
<1>6. Len(L) = M + 1
  BY <1>1, <1>5, ListIs, MidIs DEF key_num
<1>7. /\ KeysBetween(L, t.node[p].is_leaf, g.lo[p], g.hi[p], strict)
      /\ KeysBetween(up, t.node[P].is_leaf, g.lo[P], g.hi[P], strict)
  BY <1>1, <1>2 DEF AllKeysBetween
<1> HIDE DEF L
<1>8. over \in 0 .. INDEX_KEY_MAX - 1 /\ g.lo[p] < over /\ over <= g.hi[p] /\ (strict => over < g.hi[p])
  BY <1>1, <1>4, <1>5, <1>6, <1>7, PartsBetween
<1>9. /\ i \in 1 .. Len(up) /\ DOMAIN up = 1 .. Len(up) /\ Len(up) \in Nat
      /\ \A j \in 1 .. Len(up) : up[j].key \in Int
  BY <1>1, <1>5, ListIs, Zenon
<1>10. ASSUME NEW j \in 1 .. Len(up), Child(t.node[P], j) = p PROVE j = i
  <2>0. \A a, b \in DOMAIN up : a < b => g.to[Child(t.node[P], a)] <= g.from[Child(t.node[P], b)]
    BY <1>2 DEF HasChildren
  <2>3. i \in DOMAIN up /\ j \in DOMAIN up
    BY <1>9
  <2>1. j < i => g.to[p] <= g.from[p]
    BY <1>1, <1>10, <2>0, <2>3
  <2>2. i < j => g.to[p] <= g.from[p]
    BY <1>1, <1>10, <2>0, <2>3
  <2> QED BY <2>1, <2>2, <1>4, <1>9
<1> HIDE DEF over
<1>11. PlaceFor(up, i, over)
  <2>1. /\ up[Len(up)].key = INDEX_KEY_MAX
        /\ \A j, k \in 1 .. Len(up) - 1 : j < k => up[j].key <= up[k].key
    BY <1>7 DEF KeysBetween
  <2>2. up[i].key >= over
    BY <2>1, <1>3, <1>8, <1>9, <1>4
  <2>3. ASSUME NEW j \in 1 .. i - 1 PROVE up[j].key < over
    <3>1. j \in 1 .. Len(up) - 1 /\ i - 1 \in 1 .. Len(up) - 1 /\ i # 1
      BY <1>9
    <3>2. up[j].key <= up[i - 1].key
      <4>1. CASE j = i - 1
        BY <4>1, <1>9, <3>1
      <4>2. CASE j < i - 1
        BY <4>2, <2>1, <3>1, Zenon
      <4> QED BY <4>1, <4>2, <3>1, <1>9
    <3>3. up[i - 1].key < over /\ up[i - 1].key \in Int /\ up[j].key \in Int
      BY <1>3, <1>8, <1>9, <3>1
    <3> QED BY <3>2, <3>3, <1>8
  <2> QED BY <1>9, <2>2, <2>3 DEF PlaceFor
<1>12. strict => (i < Len(up) => up[i].key # over) /\ over < g.hi[P]
  <2> SUFFICES ASSUME strict PROVE (i < Len(up) => up[i].key # over) /\ over < g.hi[P]
    OBVIOUS
  <2>1. i < Len(up) => g.hi[p] = up[i].key
    BY <1>3, <1>9
  <2>2. i = Len(up) => g.hi[p] = g.hi[P]
    BY <1>3
  <2>3. i < Len(up) => up[i].key <= g.hi[P]
    BY <1>7, <1>9 DEF KeysBetween
  <2> QED BY <2>1, <2>2, <2>3, <1>4, <1>8, <1>9
<1>13. P # p
  BY <1>3, <1>4
<1> QED BY <1>1, <1>2, <1>3, <1>4, <1>5, <1>6, <1>7, <1>8, <1>9, <1>10, <1>11, <1>12, <1>13, Zenon DEF L, over

\* Where the nodes lie after the split: f moves what is behind the new leaf, and cut
\* is where the two parts meet.
Widens(f, t, g, p, cut) ==
  /\ f \in [Nat -> Nat] /\ f[0] = 0 /\ \A x, y \in Nat : x < y => f[x] < f[y]
  /\ cut \in Nat /\ f[g.from[p]] < cut /\ cut < f[g.to[p]]
  /\ ~ t.node[p].is_leaf => cut = f[g.to[Child(t.node[p], Mid)]]

\* Where the nodes lie then.
Widened(g, h, p, new, over, f, cut) ==
  /\ h.nodes = g.nodes \cup {new}
  /\ \A q \in g.nodes : /\ h.lev[q] = g.lev[q] /\ h.from[q] = f[g.from[q]] /\ h.lo[q] = g.lo[q]
                        /\ h.to[q] = IF q = p THEN cut ELSE f[g.to[q]]
                        /\ h.hi[q] = IF q = p THEN over ELSE g.hi[q]
  /\ h.lev[new] = g.lev[p] /\ h.from[new] = cut /\ h.to[new] = f[g.to[p]]
  /\ h.lo[new] = over /\ h.hi[new] = g.hi[p]

\* A split leaves each node in its place ...
LEMMA SplitPlaced ==
  ASSUME NEW t, NEW g, NEW p, NEW new, NEW P, NEW i, NEW strict, Halved(t, g, p, new, P, i, strict),
         NEW u, Split(t, u, g.nodes, p, new, P, i), NEW f, NEW cut, Widens(f, t, g, p, cut),
         NEW h, Widened(g, h, p, new, t.node[p].list[Mid].key, f, cut)
  PROVE  Placed(u, h)
<1> USE IndexFileAssumption
<1> DEFINE over == t.node[p].list[Mid].key
<1>1. /\ p \in g.nodes /\ new \notin g.nodes /\ p # t.root /\ new # t.root
      /\ over \in 0 .. INDEX_KEY_MAX - 1
  BY HalvedIs
<1>2. /\ Placed(t, g) /\ new \in NodeIds
  BY DEF Halved, Shape
<1>3. /\ u \in Trees /\ u.root = t.root /\ \A q \in g.nodes \cup {new} : u.node[q] \in Node
  BY DEF Split
<1>4. /\ f \in [Nat -> Nat] /\ f[0] = 0 /\ \A x, y \in Nat : x < y => f[x] < f[y]
      /\ cut \in Nat /\ f[g.from[p]] < cut /\ cut < f[g.to[p]]
  BY DEF Widens
<1>5. /\ h.nodes = g.nodes \cup {new}
      /\ \A q \in g.nodes : /\ h.lev[q] = g.lev[q] /\ h.from[q] = f[g.from[q]] /\ h.lo[q] = g.lo[q]
                            /\ h.to[q] = IF q = p THEN cut ELSE f[g.to[q]]
                            /\ h.hi[q] = IF q = p THEN over ELSE g.hi[q]
      /\ h.lev[new] = g.lev[p] /\ h.from[new] = cut /\ h.to[new] = f[g.to[p]]
      /\ h.lo[new] = over /\ h.hi[new] = g.hi[p]
  BY DEF Widened
<1> HIDE DEF over
<1>6. /\ g.nodes \subseteq NodeIds /\ t.root \in g.nodes
      /\ \A q \in g.nodes : /\ g.lev[q] \in Nat /\ g.from[q] \in Nat /\ g.to[q] \in Nat
                            /\ g.lo[q] \in -1 .. INDEX_KEY_MAX - 1 /\ g.hi[q] \in 0 .. INDEX_KEY_MAX
                            /\ g.from[q] < g.to[q] /\ g.to[q] <= g.to[t.root]
      /\ g.from[t.root] = 0 /\ g.lo[t.root] = -1 /\ g.hi[t.root] = INDEX_KEY_MAX
      /\ \A q \in g.nodes \ {t.root} : g.lev[q] < g.lev[t.root]
  BY <1>2 DEF Placed
<1>7. /\ h.nodes \subseteq NodeIds /\ u.root \in h.nodes
      /\ h.from[u.root] = 0 /\ h.lo[u.root] = -1 /\ h.hi[u.root] = INDEX_KEY_MAX
  BY <1>1, <1>2, <1>3, <1>4, <1>5, <1>6
<1>8. ASSUME NEW q \in h.nodes
      PROVE  /\ u.node[q] \in Node
             /\ h.lev[q] \in Nat
             /\ h.from[q] \in Nat /\ h.to[q] \in Nat
             /\ h.lo[q] \in -1 .. INDEX_KEY_MAX - 1 /\ h.hi[q] \in 0 .. INDEX_KEY_MAX
  <2>1. CASE q = new
    BY <2>1, <1>1, <1>3, <1>4, <1>5, <1>6
  <2>2. CASE q \in g.nodes
    BY <2>2, <1>1, <1>3, <1>4, <1>5, <1>6
  <2> QED BY <2>1, <2>2, <1>5
<1>9. ASSUME NEW q \in g.nodes PROVE f[g.from[q]] < f[g.to[q]] /\ f[g.to[q]] <= f[g.to[t.root]]
  <2>1. f[g.from[q]] < f[g.to[q]]
    BY <1>4, <1>6
  <2>2. CASE g.to[q] = g.to[t.root]
    BY <2>1, <2>2, <1>4, <1>6
  <2>3. CASE g.to[q] < g.to[t.root]
    BY <2>1, <2>3, <1>4, <1>6
  <2> QED BY <2>1, <2>2, <2>3, <1>6
<1>10. h.to[u.root] = f[g.to[t.root]] /\ f[g.to[t.root]] \in Nat
  BY <1>1, <1>3, <1>4, <1>5, <1>6
<1>11. ASSUME NEW q \in h.nodes PROVE h.from[q] < h.to[q] /\ h.to[q] <= h.to[u.root]
  <2>1. CASE q = new
    BY <2>1, <1>1, <1>4, <1>5, <1>9, <1>10
  <2>2. CASE q = p
    <3>1. f[g.to[p]] \in Nat
      BY <1>1, <1>4, <1>6
    <3> QED BY <2>2, <3>1, <1>1, <1>4, <1>5, <1>9, <1>10
  <2>3. CASE q \in g.nodes /\ q # p
    BY <2>3, <1>5, <1>9, <1>10
  <2> QED BY <2>1, <2>2, <2>3, <1>5
<1>12. ASSUME NEW q \in h.nodes \ {u.root} PROVE h.lev[q] < h.lev[u.root]
  <2>1. CASE q = new
    BY <2>1, <1>1, <1>3, <1>5, <1>6
  <2>2. CASE q \in g.nodes
    BY <2>2, <1>3, <1>5, <1>6
  <2> QED BY <2>1, <2>2, <1>5
<1> QED BY <1>3, <1>7, <1>8, <1>11, <1>12 DEF Placed

\* ... the keys between the bounds of their nodes ...
LEMMA SplitKeys ==
  ASSUME NEW t, NEW g, NEW p, NEW new, NEW P, NEW i, NEW strict, Halved(t, g, p, new, P, i, strict),
         NEW u, Split(t, u, g.nodes, p, new, P, i), NEW f, NEW cut,
         NEW h, Widened(g, h, p, new, t.node[p].list[Mid].key, f, cut)
  PROVE  AllKeysBetween(u, h, strict)
<1> USE IndexFileAssumption
<1> DEFINE L == t.node[p].list
           over == L[Mid].key
           up == t.node[P].list
           leaf == t.node[p].is_leaf
<1>1. /\ p \in g.nodes /\ P \in g.nodes /\ P # p /\ new \notin g.nodes
      /\ ~ t.node[P].is_leaf
      /\ L \in Seq(Pair) \ {<< >>} /\ Len(L) = M + 1
      /\ KeysBetween(L, t.node[p].is_leaf, g.lo[p], g.hi[p], strict)
      /\ over \in 0 .. INDEX_KEY_MAX - 1 /\ g.lo[p] < over /\ over <= g.hi[p]
      /\ up \in Seq(Pair) \ {<< >>} /\ i \in 1 .. Len(up)
      /\ PlaceFor(up, i, over)
      /\ strict => (i < Len(up) => up[i].key # over) /\ over < g.hi[P]
  BY HalvedIs
<1>2. /\ Placed(t, g) /\ AllKeysBetween(t, g, strict) /\ (strict \/ M % 2 = 1)
  BY DEF Halved, Shape
<1>3. /\ u.node[p].is_leaf <=> leaf
      /\ u.node[new].is_leaf <=> leaf
      /\ ~ u.node[P].is_leaf
      /\ LeftPart(u.node[p].list, L, leaf) /\ RightPart(u.node[new].list, L)
      /\ Hooked(u.node[P].list, up, i, over, p, new)
      /\ \A q \in g.nodes \ {p, P} : /\ u.node[q].is_leaf <=> t.node[q].is_leaf
                                     /\ u.node[q].list = t.node[q].list
      /\ \A q \in g.nodes \cup {new} : u.node[q] \in Node
  BY DEF Split
<1>5. /\ h.nodes = g.nodes \cup {new}
      /\ \A q \in g.nodes : /\ h.lo[q] = g.lo[q]
                            /\ h.hi[q] = IF q = p THEN over ELSE g.hi[q]
      /\ h.lo[new] = over /\ h.hi[new] = g.hi[p]
  BY DEF Widened
<1>6. /\ g.lo[p] \in Int /\ g.hi[p] \in Int /\ g.lo[P] \in Int /\ g.hi[P] \in Int
      /\ t.node[p] \in Node
  <2>1. \A q \in g.nodes : /\ t.node[q] \in Node
                           /\ g.lo[q] \in -1 .. INDEX_KEY_MAX - 1 /\ g.hi[q] \in 0 .. INDEX_KEY_MAX
    BY <1>2 DEF Placed
  <2>2. p \in g.nodes /\ P \in g.nodes
    BY <1>1
  <2> QED BY <2>1, <2>2
<1>7. /\ leaf \in BOOLEAN /\ u.node[p].is_leaf \in BOOLEAN /\ u.node[new].is_leaf \in BOOLEAN
      /\ u.node[P].is_leaf \in BOOLEAN /\ t.node[P].is_leaf \in BOOLEAN
      /\ u.node[P].list \in Seq(Pair) \ {<< >>}
      /\ \A q \in g.nodes : u.node[q].is_leaf \in BOOLEAN /\ t.node[q].is_leaf \in BOOLEAN
  BY <1>1, <1>2, <1>3, <1>6, Zenon DEF Node, Placed
<1> HIDE DEF over, L, leaf, up
<1>8. /\ KeysBetween(u.node[p].list, leaf, g.lo[p], over, strict)
      /\ KeysBetween(u.node[new].list, leaf, over, g.hi[p], strict)
  <2>1. L \in Seq(Pair) \ {<< >>} /\ Len(L) = M + 1 /\ KeysBetween(L, leaf, g.lo[p], g.hi[p], strict)
    BY <1>1 DEF leaf
  <2>2. /\ \A list : LeftPart(list, L, leaf) => KeysBetween(list, leaf, g.lo[p], L[Mid].key, strict)
        /\ \A list : RightPart(list, L) => KeysBetween(list, leaf, L[Mid].key, g.hi[p], strict)
    BY <2>1, <1>2, <1>6, <1>7, PartsBetween
  <2> QED BY <2>2, <1>3 DEF over
<1>9. KeysBetween(u.node[P].list, FALSE, g.lo[P], g.hi[P], strict)
  <2>1. KeysBetween(up, FALSE, g.lo[P], g.hi[P], strict)
    <3>1. KeysBetween(up, t.node[P].is_leaf, g.lo[P], g.hi[P], strict)
      BY <1>1, <1>2 DEF AllKeysBetween, up
    <3>2. t.node[P].is_leaf = FALSE
      BY <1>1, <1>7
    <3> QED BY <3>1, <3>2, Zenon
  <2>2. PutIn(u.node[P].list, up, i, over)
    <3>1. Len(up) \in Nat
      BY <1>1
    <3>2. ASSUME NEW j \in 1 .. Len(up) + 1
          PROVE  u.node[P].list[j].key = IF j < i THEN up[j].key ELSE IF j = i THEN over ELSE up[j - 1].key
      <4>1. u.node[P].list[j] = IF j < i THEN up[j]
                                ELSE IF j = i THEN pair(over, p)
                                ELSE IF j = i + 1 THEN pair(up[i].key, new)
                                ELSE up[j - 1]
        BY <1>3 DEF Hooked
      <4>2. CASE j < i
        BY <4>1, <4>2
      <4>3. CASE j = i
        BY <4>1, <4>3 DEF pair
      <4>4. CASE j = i + 1
        BY <4>1, <4>4, <1>1 DEF pair
      <4>5. CASE ~ (j < i) /\ j # i /\ j # i + 1
        BY <4>1, <4>5
      <4> QED BY <4>2, <4>3, <4>4, <4>5
    <3> QED BY <3>1, <3>2, <1>3 DEF Hooked, PutIn
  <2>3. g.lo[P] < over /\ over <= g.hi[P]
    <3>1. HasChildren(t, g, P) /\ Child(t.node[P], i) = p /\ DOMAIN up = 1 .. Len(up) /\ Len(up) \in Nat
      <4>1. HasChildren(t, g, P)
        BY HalvedIs
      <4>2. Child(t.node[P], i) = p
        BY DEF Halved
      <4> QED BY <4>1, <4>2, <1>1, ListIs
    <3>2. g.lo[p] = IF i = 1 THEN g.lo[P] ELSE up[i - 1].key
      BY <3>1, <1>1, Zenon DEF HasChildren, up
    <3>3. g.hi[p] = IF i = Len(up) THEN g.hi[P] ELSE up[i].key
      BY <3>1, <1>1, Zenon DEF HasChildren, up
    <3>4. \A j \in 1 .. Len(up) - 1 : g.lo[P] <= up[j].key /\ up[j].key <= g.hi[P]
      BY <2>1 DEF KeysBetween
    <3>5. \A j \in 1 .. Len(up) : up[j].key \in Int
      BY <1>1, ListIs
    <3>6. g.lo[P] <= g.lo[p]
      BY <3>1, <3>2, <3>4, <3>5, <1>1, <1>6
    <3>7. g.hi[p] <= g.hi[P]
      <4>1. CASE i = Len(up)
        BY <4>1, <3>3, <1>6
      <4>2. CASE i # Len(up)
        <5>2. i \in 1 .. Len(up) /\ Len(up) \in Nat
          BY <3>1, <1>1
        <5>1. i \in 1 .. Len(up) - 1
          BY ONLY <4>2, <5>2
        <5> QED BY <4>2, <5>1, <3>3, <3>4
      <4> QED BY <4>1, <4>2
    <3> QED BY <3>6, <3>7, <1>1, <1>6
  <2> QED BY <1>1, <1>6, <1>7, <2>1, <2>2, <2>3, KeyPutIn, Zenon
<1>10. ASSUME NEW q \in h.nodes
       PROVE  KeysBetween(u.node[q].list, u.node[q].is_leaf, h.lo[q], h.hi[q], strict)
  <2>1. CASE q = p
    <3>1. u.node[p].is_leaf = leaf
      BY <1>3, <1>7
    <3> QED BY <2>1, <3>1, <1>1, <1>5, <1>8
  <2>2. CASE q = new
    <3>1. u.node[new].is_leaf = leaf
      BY <1>3, <1>7
    <3> QED BY <2>2, <3>1, <1>1, <1>5, <1>8
  <2>3. CASE q = P
    <3>1. u.node[P].is_leaf = FALSE
      BY <1>3, <1>7
    <3> QED BY <2>3, <3>1, <1>1, <1>5, <1>9, Zenon
  <2>4. CASE q \in g.nodes \ {p, P}
    <3>1. u.node[q].is_leaf = t.node[q].is_leaf /\ u.node[q].list = t.node[q].list
      BY <2>4, <1>3, <1>7
    <3>2. KeysBetween(t.node[q].list, t.node[q].is_leaf, g.lo[q], g.hi[q], strict)
      BY <2>4, <1>2 DEF AllKeysBetween
    <3> QED BY <2>4, <3>1, <3>2, <1>5
  <2> QED BY <2>1, <2>2, <2>3, <2>4, <1>5
<1> QED BY <1>10 DEF AllKeysBetween

\* f keeps the order of what it moves.
LEMMA WidensIs ==
  ASSUME NEW t, NEW g, NEW p, NEW f, NEW cut, Widens(f, t, g, p, cut)
  PROVE  /\ \A x \in Nat : f[x] \in Nat
         /\ \A x, y \in Nat : x <= y => f[x] <= f[y]
<1>1. f \in [Nat -> Nat] /\ \A x, y \in Nat : x < y => f[x] < f[y]
  BY DEF Widens
<1>2. \A x \in Nat : f[x] \in Nat
  BY <1>1
<1>3. ASSUME NEW x \in Nat, NEW y \in Nat, x <= y PROVE f[x] <= f[y]
  <2>1. CASE x = y
    BY <2>1, <1>2
  <2>2. CASE x < y
    BY <2>2, <1>1, <1>2
  <2> QED BY <2>1, <2>2, <1>3
<1> QED BY <1>2, <1>3

\* The children of a node that is split, and the nodes whose parent stays the same.
LEMMA MovedAre ==
  ASSUME NEW t, NEW g, NEW p, NEW new, NEW P, NEW i, NEW strict, Halved(t, g, p, new, P, i, strict),
         NEW u, Split(t, u, g.nodes, p, new, P, i)
  PROVE  /\ ~ t.node[p].is_leaf => HasChildren(t, g, p)
         /\ \A c \in g.nodes \ {p} : t.node[c].parent # p => u.node[c].parent = t.node[c].parent
         /\ ~ t.node[p].is_leaf =>
              \A j \in 1 .. M + 1 :
                LET c == Child(t.node[p], j)
                IN  c \in g.nodes \ {p, P} /\ u.node[c].parent = IF j <= Mid THEN p ELSE new
<1> DEFINE L == t.node[p].list
           moved == {L[j].value : j \in Mid + 1 .. M + 1}
<1>1. /\ p \in g.nodes /\ P \in g.nodes /\ P # p /\ ~ t.node[P].is_leaf /\ g.lev[P] = g.lev[p] + 1
      /\ L \in Seq(Pair) \ {<< >>} /\ Len(L) = M + 1
  BY HalvedIs
<1>2. /\ Placed(t, g) /\ AllHaveChildren(t, g) /\ P = t.node[p].parent
  BY DEF Halved, Shape
<1>3. /\ u.node[P].parent = t.node[P].parent
      /\ \A q \in g.nodes \ {p, P} :
           u.node[q].parent = IF ~ t.node[p].is_leaf /\ q \in moved THEN new ELSE t.node[q].parent
  BY DEF Split
<1>4. ~ t.node[p].is_leaf => HasChildren(t, g, p)
  BY <1>1, <1>2 DEF AllHaveChildren
<1>5. DOMAIN L = 1 .. M + 1 /\ \A j \in 1 .. M + 1 : Child(t.node[p], j) = L[j].value
  BY <1>1 DEF Child
<1>6. /\ \A q \in g.nodes : g.lev[q] \in Nat /\ g.from[q] \in Nat /\ g.to[q] \in Nat /\ g.from[q] < g.to[q]
  BY <1>2 DEF Placed
<1>7. ASSUME ~ t.node[p].is_leaf
      PROVE  /\ \A j \in 1 .. M + 1 : /\ L[j].value \in g.nodes /\ t.node[L[j].value].parent = p
                                      /\ g.lev[L[j].value] + 1 = g.lev[p]
             /\ \A j, k \in 1 .. M + 1 : j < k => g.to[L[j].value] <= g.from[L[k].value]
  <2>1. HasChildren(t, g, p)
    BY <1>4, <1>7
  <2> QED BY <2>1, <1>5 DEF HasChildren
<1> HIDE DEF L
<1>8. ASSUME NEW c \in g.nodes \ {p}, t.node[c].parent # p PROVE u.node[c].parent = t.node[c].parent
  <2>1. CASE c = P
    BY <2>1, <1>3
  <2>2. CASE c # P /\ ~ t.node[p].is_leaf
    <3>1. c \notin moved
      <4> SUFFICES ASSUME c \in moved PROVE FALSE
        OBVIOUS
      <4>1. PICK j \in Mid + 1 .. M + 1 : c = L[j].value
        OBVIOUS
      <4>2. j \in 1 .. M + 1
        BY MidIs
      <4> QED BY <4>1, <4>2, <2>2, <1>7, <1>8
    <3> QED BY <2>2, <3>1, <1>3
  <2>3. CASE c # P /\ t.node[p].is_leaf
    BY <2>3, <1>3
  <2> QED BY <2>1, <2>2, <2>3
<1>9. ASSUME ~ t.node[p].is_leaf, NEW j \in 1 .. M + 1
      PROVE  L[j].value \in g.nodes \ {p, P} /\ u.node[L[j].value].parent = IF j <= Mid THEN p ELSE new
  <2> DEFINE c == L[j].value
  <2>1. c \in g.nodes /\ t.node[c].parent = p /\ g.lev[c] + 1 = g.lev[p]
    BY <1>7, <1>9
  <2>2. c # p /\ c # P
    BY <2>1, <1>1, <1>6
  <2>3. CASE j <= Mid
    <3>1. c \notin moved
      <4> SUFFICES ASSUME c \in moved PROVE FALSE
        OBVIOUS
      <4>1. PICK k \in Mid + 1 .. M + 1 : c = L[k].value
        OBVIOUS
      <4>2. k \in 1 .. M + 1 /\ j < k
        BY <2>3, MidIs
      <4>3. g.to[c] <= g.from[c]
        BY <4>1, <4>2, <1>7, <1>9
      <4> QED BY <4>3, <2>1, <1>6
    <3> QED BY <2>1, <2>2, <2>3, <3>1, <1>3
  <2>4. CASE ~ (j <= Mid)
    <3>1. j \in Mid + 1 .. M + 1
      BY <2>4, MidIs
    <3> HIDE DEF c
    <3>2. c \in moved
      BY <3>1 DEF c
    <3> QED BY <2>1, <2>2, <2>4, <3>2, <1>3, <1>9 DEF c
  <2> QED BY <2>1, <2>2, <2>3, <2>4
<1> QED BY <1>4, <1>5, <1>8, <1>9

\* HasChildren of one place.
ChildAt(t, g, p, list, i) ==
  LET c == list[i].value
  IN  /\ c \in g.nodes
      /\ t.node[c].parent = p
      /\ g.lev[c] + 1 = g.lev[p]
      /\ g.from[c] = IF i = 1 THEN g.from[p] ELSE g.to[list[i - 1].value]
      /\ i = Len(list) => g.to[c] = g.to[p]
      /\ g.lo[c] = IF i = 1 THEN g.lo[p] ELSE list[i - 1].key
      /\ g.hi[c] = IF i = Len(list) THEN g.hi[p] ELSE list[i].key

\* HasChildren, one child after the other.
LEMMA ChildrenAre ==
  ASSUME NEW t, NEW g, NEW p, NEW list \in Seq(Pair), list = t.node[p].list
  PROVE  HasChildren(t, g, p) <=>
           /\ \A i \in 1 .. Len(list) : ChildAt(t, g, p, list, i)
           /\ \A i, j \in 1 .. Len(list) : i < j => g.to[list[i].value] <= g.from[list[j].value]
<1>1. DOMAIN list = 1 .. Len(list)
  OBVIOUS
<1> QED BY <1>1 DEF HasChildren, ChildAt, Child

\* The children of a node a split has nothing to do with ...
LEMMA SplitChildrenOfOthers ==
  ASSUME NEW t, NEW g, NEW p, NEW new, NEW P, NEW i, NEW strict, Halved(t, g, p, new, P, i, strict),
         NEW u, Split(t, u, g.nodes, p, new, P, i), NEW f, NEW cut, Widens(f, t, g, p, cut),
         NEW h, Widened(g, h, p, new, t.node[p].list[Mid].key, f, cut),
         NEW q \in g.nodes \ {p, P}, ~ u.node[q].is_leaf
  PROVE  HasChildren(u, h, q)
<1> DEFINE list == t.node[q].list
<1>1. p \in g.nodes /\ P \in g.nodes /\ P # p
  BY HalvedIs
<1>2. Placed(t, g) /\ AllHaveChildren(t, g) /\ P = t.node[p].parent
  BY DEF Halved, Shape
<1>3. (u.node[q].is_leaf <=> t.node[q].is_leaf) /\ u.node[q].list = list
  BY DEF Split
<1>4. /\ h.nodes = g.nodes \cup {new}
      /\ \A r \in g.nodes : /\ h.lev[r] = g.lev[r] /\ h.from[r] = f[g.from[r]] /\ h.lo[r] = g.lo[r]
                            /\ r # p => h.to[r] = f[g.to[r]] /\ h.hi[r] = g.hi[r]
  BY DEF Widened
<1>5. \A x, y \in Nat : x <= y => f[x] <= f[y]
  BY WidensIs
<1>6. \A c \in g.nodes \ {p} : t.node[c].parent # p => u.node[c].parent = t.node[c].parent
  BY MovedAre
<1>7. \A r \in g.nodes : g.from[r] \in Nat /\ g.to[r] \in Nat /\ t.node[r] \in Node
  BY <1>2 DEF Placed
<1>8. list \in Seq(Pair)
  BY <1>7 DEF Node
<1>9. /\ \A j \in 1 .. Len(list) : ChildAt(t, g, q, list, j)
      /\ \A j, k \in 1 .. Len(list) : j < k => g.to[list[j].value] <= g.from[list[k].value]
  <2>1. HasChildren(t, g, q)
    BY <1>2, <1>3 DEF AllHaveChildren
  <2> QED BY <2>1, <1>8, ChildrenAre
<1> HIDE DEF list
<1>10. \A j \in 1 .. Len(list) : /\ list[j].value \in g.nodes \ {p} /\ t.node[list[j].value].parent = q
                                 /\ u.node[list[j].value].parent = q
  <2> SUFFICES ASSUME NEW j \in 1 .. Len(list)
               PROVE  /\ list[j].value \in g.nodes \ {p} /\ t.node[list[j].value].parent = q
                      /\ u.node[list[j].value].parent = q
    OBVIOUS
  <2>1. list[j].value \in g.nodes /\ t.node[list[j].value].parent = q
    BY <1>9 DEF ChildAt
  <2>2. list[j].value # p
    BY <2>1, <1>2
  <2> QED BY <2>1, <2>2, <1>6
<1>11. ASSUME NEW j \in 1 .. Len(list) PROVE ChildAt(u, h, q, list, j)
  <2>1. ChildAt(t, g, q, list, j) /\ list[j].value \in g.nodes \ {p} /\ u.node[list[j].value].parent = q
    BY <1>9, <1>10
  <2>2. j # 1 => list[j - 1].value \in g.nodes \ {p}
    <3>1. j # 1 => j - 1 \in 1 .. Len(list)
      BY <1>8
    <3> QED BY <3>1, <1>10
  <2> QED BY <2>1, <2>2, <1>4 DEF ChildAt
<1>12. ASSUME NEW j \in 1 .. Len(list), NEW k \in 1 .. Len(list), j < k
       PROVE  h.to[list[j].value] <= h.from[list[k].value]
  <2>1. list[j].value \in g.nodes \ {p} /\ list[k].value \in g.nodes \ {p}
    BY <1>10
  <2>2. g.to[list[j].value] <= g.from[list[k].value]
    BY <1>9, <1>12
  <2> QED BY <2>1, <2>2, <1>4, <1>5, <1>7
<1> QED BY <1>3, <1>8, <1>11, <1>12, ChildrenAre

\* ... of the two halves ...
LEMMA SplitChildrenOfHalves ==
  ASSUME NEW t, NEW g, NEW p, NEW new, NEW P, NEW i, NEW strict, Halved(t, g, p, new, P, i, strict),
         NEW u, Split(t, u, g.nodes, p, new, P, i), NEW f, NEW cut, Widens(f, t, g, p, cut),
         NEW h, Widened(g, h, p, new, t.node[p].list[Mid].key, f, cut),
         ~ t.node[p].is_leaf
  PROVE  HasChildren(u, h, p) /\ HasChildren(u, h, new)
<1> DEFINE L == t.node[p].list
           over == L[Mid].key
           left == u.node[p].list
           right == u.node[new].list
<1>1. /\ p \in g.nodes /\ P \in g.nodes /\ P # p /\ new \notin g.nodes
      /\ L \in Seq(Pair) \ {<< >>} /\ Len(L) = M + 1
  BY HalvedIs
<1>2. Placed(t, g)
  BY DEF Halved, Shape
<1>3. /\ Len(left) = Mid /\ \A j \in 1 .. Mid - 1 : left[j] = L[j]
      /\ left[Mid].value = L[Mid].value
  BY MidIs DEF Split, LeftPart
<1>4. Len(right) = M - Mid + 1 /\ \A j \in 1 .. M - Mid + 1 : right[j] = L[j + Mid]
  BY DEF Split, RightPart
<1>5. /\ \A x \in Nat : f[x] \in Nat
      /\ \A x, y \in Nat : x <= y => f[x] <= f[y]
  BY WidensIs
<1>6. /\ h.nodes = g.nodes \cup {new}
      /\ \A r \in g.nodes : /\ h.lev[r] = g.lev[r] /\ h.from[r] = f[g.from[r]] /\ h.lo[r] = g.lo[r]
                            /\ r # p => h.to[r] = f[g.to[r]] /\ h.hi[r] = g.hi[r]
      /\ h.to[p] = cut /\ h.hi[p] = over
      /\ h.lev[new] = g.lev[p] /\ h.from[new] = cut /\ h.to[new] = f[g.to[p]]
      /\ h.lo[new] = over /\ h.hi[new] = g.hi[p]
  BY <1>1 DEF Widened
<1>7. /\ left \in Seq(Pair) /\ right \in Seq(Pair)
  <2>1. u.node[p] \in Node /\ u.node[new] \in Node
    BY <1>1 DEF Split
  <2> QED BY <2>1 DEF Node
<1>8. \A r \in g.nodes : g.from[r] \in Nat /\ g.to[r] \in Nat
  BY <1>2 DEF Placed
<1>9. /\ \A j \in 1 .. M + 1 : ChildAt(t, g, p, L, j)
      /\ \A j, k \in 1 .. M + 1 : j < k => g.to[L[j].value] <= g.from[L[k].value]
  <2>1. HasChildren(t, g, p)
    BY MovedAre
  <2> QED BY <2>1, <1>1, ChildrenAre
<1>10. \A j \in 1 .. M + 1 : /\ L[j].value \in g.nodes \ {p}
                             /\ u.node[L[j].value].parent = IF j <= Mid THEN p ELSE new
  BY MovedAre DEF Child
<1>11. cut = f[g.to[L[Mid].value]]
  BY DEF Widens, Child
<1> HIDE DEF L, over, left, right
<1>12. \A j \in 1 .. Mid : left[j].value = L[j].value
  BY <1>3, MidIs
<1>13. HasChildren(u, h, p)
  <2>1. ASSUME NEW j \in 1 .. Mid PROVE ChildAt(u, h, p, left, j)
    <3> DEFINE c == L[j].value
               b == L[j - 1].value
    <3>1. j \in 1 .. M + 1 /\ j <= Mid /\ j # M + 1
      BY MidIs
    <3>2. ChildAt(t, g, p, L, j) /\ c \in g.nodes \ {p} /\ u.node[c].parent = p
      BY <3>1, <1>9, <1>10
    <3>3. left[j].value = c
      BY <1>12
    <3>4. j # 1 => /\ j - 1 \in 1 .. Mid - 1 /\ j - 1 \in 1 .. M + 1
      BY MidIs
    <3>5. j # 1 => left[j - 1] = L[j - 1] /\ b \in g.nodes \ {p}
      BY <3>4, <1>3, <1>10
    <3>6. j # Mid => left[j] = L[j]
      BY <1>3, MidIs
    <3>7. /\ g.lev[c] + 1 = g.lev[p]
          /\ g.from[c] = IF j = 1 THEN g.from[p] ELSE g.to[b]
          /\ g.lo[c] = IF j = 1 THEN g.lo[p] ELSE L[j - 1].key
          /\ g.hi[c] = L[j].key
      BY <3>1, <3>2, <1>1 DEF ChildAt
    <3> HIDE DEF c, b
    <3>8. h.lev[c] + 1 = h.lev[p] /\ h.from[c] = IF j = 1 THEN h.from[p] ELSE h.to[b]
      BY <3>2, <3>5, <3>7, <1>1, <1>6
    <3>9. h.lo[c] = IF j = 1 THEN h.lo[p] ELSE left[j - 1].key
      BY <3>2, <3>5, <3>7, <1>1, <1>6
    <3>10. h.hi[c] = IF j = Mid THEN h.hi[p] ELSE left[j].key
      BY <3>2, <3>6, <3>7, <1>6 DEF over
    <3>11. j = Mid => h.to[c] = h.to[p]
      BY <3>2, <1>6, <1>11 DEF c
    <3>12. j # 1 => left[j - 1].value = b
      BY <3>5 DEF b
    <3> QED BY <3>2, <3>3, <3>8, <3>9, <3>10, <3>11, <3>12, <1>3, <1>6 DEF ChildAt
  <2>2. ASSUME NEW j \in 1 .. Mid, NEW k \in 1 .. Mid, j < k
        PROVE  h.to[left[j].value] <= h.from[left[k].value]
    <3>1. j \in 1 .. M + 1 /\ k \in 1 .. M + 1
      BY MidIs
    <3>2. L[j].value \in g.nodes \ {p} /\ L[k].value \in g.nodes \ {p}
      BY <3>1, <1>10
    <3>3. g.to[L[j].value] <= g.from[L[k].value]
      BY <2>2, <3>1, <1>9
    <3> QED BY <3>2, <3>3, <1>5, <1>6, <1>8, <1>12
  <2> QED BY <2>1, <2>2, <1>3, <1>7, ChildrenAre, Zenon DEF left
<1>14. HasChildren(u, h, new)
  <2>1. ASSUME NEW j \in 1 .. M - Mid + 1 PROVE ChildAt(u, h, new, right, j)
    <3> DEFINE m == j + Mid
               c == L[m].value
               b == L[m - 1].value
    <3>1. m \in 1 .. M + 1 /\ ~ (m <= Mid) /\ m # 1 /\ m - 1 \in 1 .. M + 1
      BY MidIs
    <3>2. ChildAt(t, g, p, L, m) /\ c \in g.nodes \ {p} /\ u.node[c].parent = new
      BY <3>1, <1>9, <1>10
    <3>3. right[j] = L[m]
      BY <1>4
    <3>4. j # 1 => right[j - 1] = L[m - 1]
      <4>1. j # 1 => j - 1 \in 1 .. M - Mid + 1 /\ (j - 1) + Mid = m - 1
        BY MidIs
      <4> QED BY <4>1, <1>4
    <3>5. b \in g.nodes \ {p}
      BY <3>1, <1>10
    <3>6. j = 1 => m - 1 = Mid
      BY MidIs
    <3>7. m = M + 1 <=> j = M - Mid + 1
      BY MidIs
    <3> HIDE DEF m
    <3>8. /\ g.lev[c] + 1 = g.lev[p]
          /\ g.from[c] = g.to[b]
          /\ g.lo[c] = L[m - 1].key
          /\ g.hi[c] = IF m = M + 1 THEN g.hi[p] ELSE L[m].key
          /\ m = M + 1 => g.to[c] = g.to[p]
      BY <3>1, <3>2, <1>1 DEF ChildAt
    <3> HIDE DEF c, b
    <3>9. h.lev[c] + 1 = h.lev[new]
      BY <3>2, <3>8, <1>6
    <3>10. h.from[c] = IF j = 1 THEN h.from[new] ELSE h.to[b]
      <4>1. h.from[c] = f[g.to[b]] /\ h.to[b] = f[g.to[b]]
        BY <3>2, <3>5, <3>8, <1>6
      <4>2. j = 1 => h.from[new] = f[g.to[b]]
        BY <3>6, <1>6, <1>11 DEF b
      <4> QED BY <4>1, <4>2
    <3>11. j = M - Mid + 1 => h.to[c] = h.to[new]
      BY <3>2, <3>7, <3>8, <1>6
    <3>12. h.lo[c] = IF j = 1 THEN h.lo[new] ELSE right[j - 1].key
      BY <3>2, <3>4, <3>6, <3>8, <1>6 DEF over
    <3>13. h.hi[c] = IF j = M - Mid + 1 THEN h.hi[new] ELSE right[j].key
      BY <3>2, <3>3, <3>7, <3>8, <1>6
    <3>14. right[j].value = c /\ (j # 1 => right[j - 1].value = b)
      BY <3>3, <3>4 DEF c, b
    <3> QED BY <3>2, <3>9, <3>10, <3>11, <3>12, <3>13, <3>14, <1>4, <1>6 DEF ChildAt
  <2>2. ASSUME NEW j \in 1 .. M - Mid + 1, NEW k \in 1 .. M - Mid + 1, j < k
        PROVE  h.to[right[j].value] <= h.from[right[k].value]
    <3>1. j + Mid \in 1 .. M + 1 /\ k + Mid \in 1 .. M + 1 /\ j + Mid < k + Mid
      BY <2>2, MidIs
    <3>2. L[j + Mid].value \in g.nodes \ {p} /\ L[k + Mid].value \in g.nodes \ {p}
      BY <3>1, <1>10
    <3>3. g.to[L[j + Mid].value] <= g.from[L[k + Mid].value]
      BY <3>1, <1>9
    <3>4. right[j] = L[j + Mid] /\ right[k] = L[k + Mid]
      BY <1>4
    <3> QED BY <3>2, <3>3, <3>4, <1>5, <1>6, <1>8
  <2> QED BY <2>1, <2>2, <1>4, <1>7, ChildrenAre DEF right
<1> QED BY <1>13, <1>14

\* ... and of their parent.
LEMMA SplitChildrenOfParent ==
  ASSUME NEW t, NEW g, NEW p, NEW new, NEW P, NEW i, NEW strict, Halved(t, g, p, new, P, i, strict),
         NEW u, Split(t, u, g.nodes, p, new, P, i), NEW f, NEW cut, Widens(f, t, g, p, cut),
         NEW h, Widened(g, h, p, new, t.node[p].list[Mid].key, f, cut)
  PROVE  HasChildren(u, h, P)
<1> DEFINE over == t.node[p].list[Mid].key
           up   == t.node[P].list
           list == u.node[P].list
           K    == Len(up)
<1>1. /\ p \in g.nodes /\ P \in g.nodes /\ P # p /\ new \notin g.nodes
      /\ HasChildren(t, g, P) /\ g.lev[P] = g.lev[p] + 1
      /\ up \in Seq(Pair) \ {<< >>} /\ i \in 1 .. K
      /\ \A j \in 1 .. K : Child(t.node[P], j) = p <=> j = i
  BY HalvedIs
<1>2. Placed(t, g) /\ Child(t.node[P], i) = p
  BY DEF Halved, Shape
<1>3. /\ Len(list) = K + 1 /\ K \in Nat
      /\ \A j \in 1 .. K + 1 : list[j] = IF j < i THEN up[j]
                                         ELSE IF j = i THEN pair(over, p)
                                         ELSE IF j = i + 1 THEN pair(up[i].key, new)
                                         ELSE up[j - 1]
  <2>1. Hooked(list, up, i, over, p, new)
    BY DEF Split
  <2>2. K \in Nat
    BY <1>1
  <2> QED BY <2>1, <2>2 DEF Hooked
<1>5. /\ \A x \in Nat : f[x] \in Nat
      /\ \A x, y \in Nat : x <= y => f[x] <= f[y]
      /\ cut \in Nat /\ cut < f[g.to[p]] /\ f[g.from[p]] < cut
  BY WidensIs DEF Widens
<1>6. /\ h.nodes = g.nodes \cup {new}
      /\ \A r \in g.nodes : /\ h.lev[r] = g.lev[r] /\ h.from[r] = f[g.from[r]] /\ h.lo[r] = g.lo[r]
                            /\ r # p => h.to[r] = f[g.to[r]] /\ h.hi[r] = g.hi[r]
      /\ h.to[p] = cut /\ h.hi[p] = over
      /\ h.lev[new] = g.lev[p] /\ h.from[new] = cut /\ h.to[new] = f[g.to[p]]
      /\ h.lo[new] = over /\ h.hi[new] = g.hi[p]
  BY <1>1 DEF Widened
<1>7. list \in Seq(Pair)
  <2>1. u.node[P] \in Node
    BY <1>1 DEF Split
  <2> QED BY <2>1 DEF Node
<1>8. \A r \in g.nodes : g.from[r] \in Nat /\ g.to[r] \in Nat /\ g.from[r] < g.to[r]
  BY <1>2 DEF Placed
<1>9. /\ \A j \in 1 .. K : ChildAt(t, g, P, up, j)
      /\ \A j, k \in 1 .. K : j < k => g.to[up[j].value] <= g.from[up[k].value]
  BY <1>1, ChildrenAre
<1>10. /\ up[i].value = p
       /\ \A j \in 1 .. K : up[j].value \in g.nodes /\ (up[j].value = p <=> j = i)
  BY <1>1, <1>2, <1>9, Zenon DEF Child, ChildAt
<1>11. u.node[p].parent = P /\ u.node[new].parent = P
       /\ \A c \in g.nodes \ {p} : t.node[c].parent # p => u.node[c].parent = t.node[c].parent
  <2>1. u.node[p].parent = P /\ u.node[new].parent = P
    BY DEF Split
  <2>2. \A c \in g.nodes \ {p} : t.node[c].parent # p => u.node[c].parent = t.node[c].parent
    BY MovedAre
  <2> QED BY <2>1, <2>2
<1>12. ASSUME NEW j \in 1 .. K PROVE u.node[up[j].value].parent = P
  <2>1. CASE j = i
    BY <2>1, <1>10, <1>11
  <2>2. CASE j # i
    <3>1. up[j].value \in g.nodes \ {p}
      BY <2>2, <1>10
    <3>2. t.node[up[j].value].parent = P
      BY <1>9, Zenon DEF ChildAt
    <3> QED BY <3>1, <3>2, <1>1, <1>11
  <2> QED BY <2>1, <2>2
<1> HIDE DEF over, up, list, K
\* Where each of the children was.
<1>13. ASSUME NEW j \in 1 .. K + 1, j < i
       PROVE  j \in 1 .. K /\ list[j] = up[j] /\ up[j].value \in g.nodes \ {p}
  BY <1>1, <1>3, <1>10, <1>13
<1>14. list[i].key = over /\ list[i].value = p /\ i \in 1 .. K + 1
  BY <1>1, <1>3 DEF pair
<1>15. list[i + 1].key = up[i].key /\ list[i + 1].value = new /\ i + 1 \in 1 .. K + 1
  BY <1>1, <1>3 DEF pair
<1>16. ASSUME NEW j \in 1 .. K + 1, j > i + 1
       PROVE  j - 1 \in 1 .. K /\ i < j - 1 /\ list[j] = up[j - 1] /\ up[j - 1].value \in g.nodes \ {p}
  <2>1. i \in 1 .. K /\ K \in Nat
    BY <1>1, <1>3
  <2>2. j - 1 \in 1 .. K /\ i < j - 1 /\ ~ (j < i) /\ j # i /\ j # i + 1
    BY ONLY <2>1, <1>16
  <2>3. list[j] = up[j - 1]
    BY <2>2, <1>3
  <2> QED BY <2>2, <2>3, <1>10
<1>17. ASSUME NEW j \in 1 .. K + 1 PROVE ChildAt(u, h, P, list, j)
  <2>1. CASE j < i
    <3> DEFINE c == up[j].value
               b == up[j - 1].value
    <3>1. j \in 1 .. K /\ j # K /\ j # K + 1 /\ list[j] = up[j] /\ c \in g.nodes \ {p}
      BY <2>1, <1>1, <1>3, <1>13
    <3>2. j # 1 => list[j - 1] = up[j - 1] /\ b \in g.nodes \ {p}
      <4>1. j # 1 => j - 1 \in 1 .. K + 1 /\ j - 1 < i
        BY <2>1, <1>1, <1>3
      <4> QED BY <4>1, <1>13
    <3>3. ChildAt(t, g, P, up, j)
      BY <3>1, <1>9
    <3>4. /\ g.lev[c] + 1 = g.lev[P]
          /\ g.from[c] = IF j = 1 THEN g.from[P] ELSE g.to[b]
          /\ g.lo[c] = IF j = 1 THEN g.lo[P] ELSE up[j - 1].key
          /\ g.hi[c] = up[j].key
      BY <3>1, <3>3 DEF ChildAt, K
    <3>5. u.node[c].parent = P
      BY <3>1, <1>12
    <3>6. list[j].value = c /\ (j # 1 => list[j - 1].value = b)
      BY <3>1, <3>2
    <3> HIDE DEF c, b
    <3>7. h.from[c] = IF j = 1 THEN h.from[P] ELSE h.to[b]
      BY <3>1, <3>2, <3>4, <1>1, <1>6
    <3>8. /\ h.lev[c] + 1 = h.lev[P] /\ h.hi[c] = list[j].key
          /\ h.lo[c] = IF j = 1 THEN h.lo[P] ELSE list[j - 1].key
      BY <3>1, <3>2, <3>4, <1>1, <1>6
    <3> QED BY <3>1, <3>5, <3>6, <3>7, <3>8, <1>3, <1>6 DEF ChildAt
  <2>2. CASE j = i
    <3> DEFINE b == up[j - 1].value
    <3>1. j \in 1 .. K /\ j # K + 1
      BY <2>2, <1>1, <1>3
    <3>2. j # 1 => list[j - 1] = up[j - 1] /\ b \in g.nodes \ {p}
      <4>1. j # 1 => j - 1 \in 1 .. K + 1 /\ j - 1 < i
        BY <2>2, <1>1, <1>3
      <4> QED BY <4>1, <1>13
    <3>3. ChildAt(t, g, P, up, j) /\ up[j].value = p
      BY <2>2, <3>1, <1>9, <1>10
    <3>4. /\ g.lev[p] + 1 = g.lev[P]
          /\ g.from[p] = IF j = 1 THEN g.from[P] ELSE g.to[b]
          /\ g.lo[p] = IF j = 1 THEN g.lo[P] ELSE up[j - 1].key
      BY <3>3 DEF ChildAt
    <3>5. list[j].value = p /\ list[j].key = over /\ (j # 1 => list[j - 1].value = b)
      BY <2>2, <1>14, <3>2
    <3> HIDE DEF b
    <3>6. h.from[p] = IF j = 1 THEN h.from[P] ELSE h.to[b]
      BY <3>2, <3>4, <1>1, <1>6
    <3>7. /\ h.lev[p] + 1 = h.lev[P] /\ h.hi[p] = list[j].key
          /\ h.lo[p] = IF j = 1 THEN h.lo[P] ELSE list[j - 1].key
      BY <3>2, <3>4, <3>5, <1>1, <1>6
    <3> QED BY <3>1, <3>5, <3>6, <3>7, <1>1, <1>3, <1>6, <1>11 DEF ChildAt
  <2>3. CASE j = i + 1
    <3>1. ChildAt(t, g, P, up, i) /\ j # 1 /\ j - 1 = i
      BY <2>3, <1>1, <1>3, <1>9
    <3>2. /\ g.lev[p] + 1 = g.lev[P]
          /\ i = K => g.to[p] = g.to[P]
          /\ g.hi[p] = IF i = K THEN g.hi[P] ELSE up[i].key
      BY <3>1, <1>10 DEF ChildAt, K
    <3>3. j = K + 1 <=> i = K
      BY <2>3, <1>1, <1>3
    <3>4. list[j].value = new /\ list[j].key = up[i].key /\ list[j - 1].value = p /\ list[j - 1].key = over
      BY <2>3, <3>1, <1>14, <1>15
    <3>5. h.lev[new] + 1 = h.lev[P] /\ h.from[new] = h.to[list[j - 1].value]
          /\ h.lo[new] = list[j - 1].key
      BY <3>2, <3>4, <1>1, <1>6
    <3>6. h.hi[new] = IF j = K + 1 THEN h.hi[P] ELSE list[j].key
      BY <3>2, <3>3, <3>4, <1>1, <1>6
    <3>7. j = K + 1 => h.to[new] = h.to[P]
      BY <3>2, <3>3, <1>1, <1>6
    <3> QED BY <3>1, <3>4, <3>5, <3>6, <3>7, <1>3, <1>6, <1>11 DEF ChildAt
  <2>4. CASE j > i + 1
    <3> DEFINE m == j - 1
               c == up[m].value
               b == up[m - 1].value
    <3>1. m \in 1 .. K /\ i < m /\ m # 1 /\ list[j] = up[m] /\ c \in g.nodes \ {p} /\ j # 1
      BY <2>4, <1>1, <1>3, <1>16
    <3>2. ChildAt(t, g, P, up, m)
      BY <3>1, <1>9
    <3>3. /\ g.lev[c] + 1 = g.lev[P]
          /\ g.from[c] = g.to[b]
          /\ m = K => g.to[c] = g.to[P]
          /\ g.lo[c] = up[m - 1].key
          /\ g.hi[c] = IF m = K THEN g.hi[P] ELSE up[m].key
      BY <3>1, <3>2 DEF ChildAt, K
    <3>4. list[j - 1].key = up[m - 1].key /\ h.to[list[j - 1].value] = f[g.to[b]]
      <4>1. CASE m = i + 1
        <5>1. j - 1 = i + 1 /\ m - 1 = i
          BY <4>1, <1>1
        <5> QED BY <5>1, <1>6, <1>10, <1>15
      <4>2. CASE m # i + 1
        <5>1. m - 1 \in 1 .. K /\ j - 1 \in 1 .. K + 1 /\ j - 1 > i + 1 /\ (j - 1) - 1 = m - 1
          BY <4>2, <3>1, <1>1, <1>3
        <5>2. list[j - 1] = up[m - 1] /\ b \in g.nodes \ {p}
          BY <5>1, <1>16
        <5> QED BY <5>2, <1>6
      <4> QED BY <4>1, <4>2
    <3>5. m = K <=> j = K + 1
      BY <1>3
    <3>6. u.node[c].parent = P /\ list[j].value = c
      BY <3>1, <1>12
    <3> HIDE DEF m, c, b
    <3>7. h.from[c] = h.to[list[j - 1].value] /\ h.lo[c] = list[j - 1].key
      BY <3>1, <3>3, <3>4, <1>6
    <3>8. h.hi[c] = IF j = K + 1 THEN h.hi[P] ELSE list[j].key
      BY <3>1, <3>3, <3>5, <1>1, <1>6
    <3>9. h.lev[c] + 1 = h.lev[P] /\ (j = K + 1 => h.to[c] = h.to[P])
      BY <3>1, <3>3, <3>5, <1>1, <1>6
    <3> QED BY <3>1, <3>6, <3>7, <3>8, <3>9, <1>3, <1>6 DEF ChildAt
  <2> QED BY <2>1, <2>2, <2>3, <2>4, <1>1, <1>3
\* Which of the old children reaches as far as the new one.
<1> DEFINE old(j) == IF j <= i THEN j ELSE j - 1
<1>18. ASSUME NEW j \in 1 .. K + 1
       PROVE  /\ old(j) \in 1 .. K /\ list[j].value \in h.nodes
              /\ h.to[list[j].value] <= f[g.to[up[old(j)].value]]
              /\ f[g.from[up[old(j)].value]] <= h.from[list[j].value]
              /\ h.to[list[j].value] \in Nat /\ h.from[list[j].value] \in Nat
  <2>0. f[g.to[p]] \in Nat /\ f[g.from[p]] \in Nat
    BY <1>1, <1>5, <1>8
  <2>1. CASE j < i
    <3>1. old(j) = j /\ list[j] = up[j] /\ up[j].value \in g.nodes \ {p} /\ j \in 1 .. K
      BY <2>1, <1>13, <1>1
    <3> QED BY <3>1, <1>5, <1>6, <1>8
  <2>2. CASE j = i
    <3>1. old(j) = i /\ list[j].value = p /\ up[i].value = p
      BY <2>2, <1>10, <1>14, <1>1
    <3>2. /\ h.to[list[j].value] = cut /\ h.from[list[j].value] = f[g.from[p]]
          /\ up[old(j)].value = p /\ old(j) \in 1 .. K /\ list[j].value \in h.nodes
      BY <3>1, <1>1, <1>6, Zenon
    <3> HIDE DEF old
    <3> QED BY <3>2, <2>0, <1>5
  <2>3. CASE j = i + 1
    <3>1. old(j) = i /\ list[j].value = new /\ up[i].value = p
      BY <2>3, <1>10, <1>15, <1>1
    <3>2. /\ h.to[list[j].value] = f[g.to[p]] /\ h.from[list[j].value] = cut
          /\ up[old(j)].value = p /\ old(j) \in 1 .. K /\ list[j].value \in h.nodes
      BY <3>1, <1>1, <1>6, Zenon
    <3> HIDE DEF old
    <3> QED BY <3>2, <2>0, <1>5
  <2>4. CASE j > i + 1
    <3>1. old(j) = j - 1 /\ list[j] = up[j - 1] /\ up[j - 1].value \in g.nodes \ {p} /\ j - 1 \in 1 .. K
      BY <2>4, <1>16, <1>1
    <3> QED BY <3>1, <1>5, <1>6, <1>8
  <2>5. i \in 1 .. K /\ K \in Nat
    BY <1>1, <1>3
  <2>6. j < i \/ j = i \/ j = i + 1 \/ j > i + 1
    BY <2>5
  <2> QED BY <2>1, <2>2, <2>3, <2>4, <2>6
<1>19. ASSUME NEW j \in 1 .. K + 1, NEW k \in 1 .. K + 1, j < k
       PROVE  h.to[list[j].value] <= h.from[list[k].value]
  <2>1. CASE old(j) < old(k)
    <3> DEFINE a == up[old(j)].value
               b == up[old(k)].value
    <3>1. g.to[a] <= g.from[b] /\ a \in g.nodes /\ b \in g.nodes
      BY <2>1, <1>9, <1>10, <1>18
    <3>2. f[g.to[a]] <= f[g.from[b]] /\ f[g.to[a]] \in Nat /\ f[g.from[b]] \in Nat
      <4> HIDE DEF a, b
      <4> QED BY <3>1, <1>5, <1>8
    <3>3. h.to[list[j].value] <= f[g.to[a]] /\ f[g.from[b]] <= h.from[list[k].value]
          /\ h.to[list[j].value] \in Nat /\ h.from[list[k].value] \in Nat
      BY <1>18
    <3> HIDE DEF a, b
    <3> QED BY <3>2, <3>3
  <2>2. CASE ~ (old(j) < old(k))
    <3>1. j = i /\ k = i + 1
      BY <2>2, <1>1, <1>3, <1>19
    <3> QED BY <3>1, <1>5, <1>6, <1>14, <1>15
  <2> QED BY <2>1, <2>2
<1> QED BY <1>3, <1>7, <1>17, <1>19, ChildrenAre DEF list

\* A split leaves every inner node its children ...
LEMMA SplitChildren ==
  ASSUME NEW t, NEW g, NEW p, NEW new, NEW P, NEW i, NEW strict, Halved(t, g, p, new, P, i, strict),
         NEW u, Split(t, u, g.nodes, p, new, P, i), NEW f, NEW cut, Widens(f, t, g, p, cut),
         NEW h, Widened(g, h, p, new, t.node[p].list[Mid].key, f, cut)
  PROVE  AllHaveChildren(u, h)
<1> SUFFICES ASSUME NEW q \in h.nodes, ~ u.node[q].is_leaf PROVE HasChildren(u, h, q)
  BY DEF AllHaveChildren
<1>1. h.nodes = g.nodes \cup {new}
  BY DEF Widened
<1>2. (u.node[p].is_leaf <=> t.node[p].is_leaf) /\ (u.node[new].is_leaf <=> t.node[p].is_leaf)
  BY DEF Split
<1>3. CASE q = p \/ q = new
  BY <1>2, <1>3, SplitChildrenOfHalves
<1>4. CASE q = P
  BY <1>4, SplitChildrenOfParent
<1>5. CASE q \in g.nodes \ {p, P}
  BY <1>5, SplitChildrenOfOthers
<1> QED BY <1>1, <1>3, <1>4, <1>5

\* ... every node but the root a parent ...
LEMMA SplitAreChildren ==
  ASSUME NEW t, NEW g, NEW p, NEW new, NEW P, NEW i, NEW strict, Halved(t, g, p, new, P, i, strict),
         NEW u, Split(t, u, g.nodes, p, new, P, i), NEW f, NEW cut,
         NEW h, Widened(g, h, p, new, t.node[p].list[Mid].key, f, cut),
         AllHaveChildren(u, h)
  PROVE  AllAreChildren(u, h)
<1> DEFINE L     == t.node[p].list
           up    == t.node[P].list
           list  == u.node[P].list
           K     == Len(up)
           left  == u.node[p].list
           right == u.node[new].list
<1>1. /\ p \in g.nodes /\ P \in g.nodes /\ P # p /\ new \notin g.nodes /\ p # t.root
      /\ L \in Seq(Pair) \ {<< >>} /\ Len(L) = M + 1
      /\ up \in Seq(Pair) \ {<< >>} /\ i \in 1 .. K
      /\ \A j \in 1 .. K : Child(t.node[P], j) = p <=> j = i
  BY HalvedIs
<1>2. Placed(t, g) /\ AllAreChildren(t, g)
  BY DEF Halved, Shape
<1>3. /\ Len(list) = K + 1 /\ K \in Nat
      /\ \A j \in 1 .. K + 1 : list[j] = IF j < i THEN up[j]
                                         ELSE IF j = i THEN pair(L[Mid].key, p)
                                         ELSE IF j = i + 1 THEN pair(up[i].key, new)
                                         ELSE up[j - 1]
  <2>1. Hooked(list, up, i, L[Mid].key, p, new)
    BY DEF Split
  <2>2. K \in Nat
    BY <1>1
  <2> QED BY <2>1, <2>2 DEF Hooked
<1>4. /\ u.node[p].is_leaf <=> t.node[p].is_leaf
      /\ u.node[new].is_leaf <=> t.node[p].is_leaf
      /\ ~ u.node[P].is_leaf /\ u.root = t.root
      /\ \A q \in g.nodes \ {p, P} : /\ u.node[q].is_leaf <=> t.node[q].is_leaf
                                     /\ u.node[q].list = t.node[q].list
      /\ \A q \in g.nodes \cup {new} : u.node[q] \in Node
  BY DEF Split
<1>5. LeftPart(left, L, t.node[p].is_leaf) /\ RightPart(right, L)
  BY DEF Split
<1>6. h.nodes = g.nodes \cup {new}
  BY DEF Widened
<1>7. /\ left \in Seq(Pair) /\ right \in Seq(Pair) /\ list \in Seq(Pair)
  BY <1>1, <1>4, Zenon DEF Node
<1>10. /\ DOMAIN list = 1 .. K + 1 /\ i \in 1 .. K /\ K \in Nat
       /\ list[i].value = p /\ list[i + 1].value = new
       /\ \A j \in 1 .. K : j < i => list[j] = up[j]
       /\ \A j \in 1 .. K : j > i => list[j + 1] = up[j]
  <2>1. i \in 1 .. K /\ K \in Nat
    BY <1>1, <1>3
  <2> HIDE DEF list, up, K, L
  <2>2. DOMAIN list = 1 .. K + 1
    BY <1>3, <1>7
  <2>3. list[i] = pair(L[Mid].key, p) /\ list[i + 1] = pair(up[i].key, new)
    BY <1>3, <2>1
  <2>4. \A j \in 1 .. K : j < i => list[j] = up[j]
    BY <1>3, <2>1
  <2>5. ASSUME NEW j \in 1 .. K, j > i PROVE list[j + 1] = up[j]
    <3>1. j + 1 \in 1 .. K + 1 /\ ~ (j + 1 < i) /\ j + 1 # i /\ j + 1 # i + 1 /\ (j + 1) - 1 = j
      BY <2>1, <2>5
    <3> QED BY <3>1, <1>3
  <2> QED BY <2>1, <2>2, <2>3, <2>4, <2>5 DEF pair
<1> DEFINE Below(q, j, c) == /\ q \in h.nodes /\ ~ u.node[q].is_leaf
                             /\ j \in DOMAIN u.node[q].list /\ u.node[q].list[j].value = c
<1>8. ASSUME NEW c, NEW q, NEW j, Below(q, j, c)
      PROVE  LET r == u.node[c].parent
             IN  r \in h.nodes /\ ~ u.node[r].is_leaf
                 /\ \E k \in DOMAIN u.node[r].list : Child(u.node[r], k) = c
  <2>1. HasChildren(u, h, q)
    BY <1>8 DEF AllHaveChildren
  <2>2. u.node[c].parent = q
    BY <2>1, <1>8, Zenon DEF HasChildren, Child
  <2> QED BY <2>2, <1>8 DEF Child
<1>9. ASSUME NEW c \in h.nodes \ {u.root} PROVE \E q, j : Below(q, j, c)
  <2>1. CASE c = p
    <3>1. i \in DOMAIN list /\ list[i].value = p
      BY <1>10
    <3>2. Below(P, i, c)
      BY <2>1, <3>1, <1>1, <1>4, <1>6
    <3> HIDE DEF Below
    <3> QED BY <3>2
  <2>2. CASE c = new
    <3>1. i + 1 \in DOMAIN list /\ list[i + 1].value = new
      BY <1>10
    <3>2. Below(P, i + 1, c)
      BY <2>2, <3>1, <1>1, <1>4, <1>6
    <3> HIDE DEF Below
    <3> QED BY <3>2
  <2>3. CASE c \in g.nodes \ {p}
    <3> DEFINE q == t.node[c].parent
    <3>1. c \in g.nodes \ {t.root}
      BY <2>3, <1>4, <1>9
    <3>2. q \in g.nodes /\ ~ t.node[q].is_leaf
          /\ \E j \in DOMAIN t.node[q].list : Child(t.node[q], j) = c
      BY <3>1, <1>2 DEF AllAreChildren
    <3>3. PICK j \in DOMAIN t.node[q].list : t.node[q].list[j].value = c
      BY <3>2 DEF Child
    <3> HIDE DEF q
    <3>4. CASE q = P
      <4>0. j \in 1 .. K /\ up[j].value = c
        BY <3>3, <3>4, <1>1
      <4>1. j # i
        BY <2>3, <4>0, <1>1 DEF Child
      <4>2. CASE j < i
        <5>1. j \in DOMAIN list /\ list[j].value = c
          <6> HIDE DEF list, up, K
          <6> QED BY <4>0, <4>2, <1>10
        <5>2. Below(P, j, c)
          BY <5>1, <1>1, <1>4, <1>6
        <5> HIDE DEF Below
        <5> QED BY <5>2
      <4>3. CASE j > i
        <5>2. j + 1 \in DOMAIN list /\ list[j + 1].value = c
          <6> HIDE DEF list, up, K
          <6> QED BY <4>0, <4>3, <1>10
        <5>3. Below(P, j + 1, c)
          BY <5>2, <1>1, <1>4, <1>6
        <5> HIDE DEF Below
        <5> QED BY <5>3
      <4> QED BY <4>0, <4>1, <4>2, <4>3, <1>1
    <3>5. CASE q = p
      <4>0. j \in 1 .. M + 1 /\ L[j].value = c /\ ~ t.node[p].is_leaf
        BY <3>2, <3>3, <3>5, <1>1
      <4>1. CASE j <= Mid
        <5>1. Len(left) = Mid /\ left[j].value = L[j].value
          <6>1. CASE j = Mid
            BY <6>1, <4>0, <1>5 DEF LeftPart
          <6>2. CASE j # Mid
            <7>1. j \in 1 .. Mid - 1
              BY <6>2, <4>0, <4>1, MidIs
            <7> QED BY <7>1, <4>0, <1>5 DEF LeftPart
          <6> QED BY <6>1, <6>2
        <5>2. j \in DOMAIN left
          BY <5>1, <4>0, <4>1, <1>7
        <5>3. Below(p, j, c)
          BY <5>1, <5>2, <4>0, <1>1, <1>4, <1>6
        <5> HIDE DEF Below
        <5> QED BY <5>3
      <4>2. CASE ~ (j <= Mid)
        <5>1. j - Mid \in 1 .. M - Mid + 1 /\ (j - Mid) + Mid = j
          BY <4>0, <4>2, MidIs
        <5>2. j - Mid \in DOMAIN right /\ right[j - Mid].value = c
          BY <5>1, <4>0, <1>5, <1>7 DEF RightPart
        <5>3. Below(new, j - Mid, c)
          BY <5>2, <4>0, <1>4, <1>6
        <5> HIDE DEF Below
        <5> QED BY <5>3
      <4> QED BY <4>1, <4>2
    <3>6. CASE q \in g.nodes \ {p, P}
      <4>1. Below(q, j, c)
        BY <3>2, <3>3, <3>6, <1>4, <1>6
      <4> HIDE DEF Below
      <4> QED BY <4>1
    <3> QED BY <3>2, <3>4, <3>5, <3>6
  <2> QED BY <2>1, <2>2, <2>3, <1>6
<1> HIDE DEF Below
<1> QED BY <1>8, <1>9 DEF AllAreChildren

\* ... the nodes of a level side by side ...
LEMMA SplitInOrder ==
  ASSUME NEW t, NEW g, NEW p, NEW new, NEW P, NEW i, NEW strict, Halved(t, g, p, new, P, i, strict),
         NEW u, Split(t, u, g.nodes, p, new, P, i), NEW f, NEW cut, Widens(f, t, g, p, cut),
         NEW h, Widened(g, h, p, new, t.node[p].list[Mid].key, f, cut)
  PROVE  InOrder(u, h)
<1> USE IndexFileAssumption
<1> DEFINE over == t.node[p].list[Mid].key
<1>1. /\ p \in g.nodes /\ P \in g.nodes /\ P # p /\ new \notin g.nodes
      /\ over \in Int /\ g.lo[p] < over /\ over <= g.hi[p]
  BY HalvedIs
<1>2. Placed(t, g) /\ InOrder(t, g)
  BY DEF Halved, Shape
<1>3. /\ u.node[p].is_leaf <=> t.node[p].is_leaf
      /\ u.node[new].is_leaf <=> t.node[p].is_leaf
      /\ u.node[P].is_leaf <=> t.node[P].is_leaf
      /\ \A q \in g.nodes \ {p, P} : u.node[q].is_leaf <=> t.node[q].is_leaf
  BY HalvedIs, Zenon DEF Split
<1>4. /\ \A x \in Nat : f[x] \in Nat
      /\ \A x, y \in Nat : x <= y => f[x] <= f[y]
      /\ \A x, y \in Nat : x < y => f[x] < f[y]
      /\ cut \in Nat /\ cut < f[g.to[p]] /\ f[g.from[p]] < cut
  BY WidensIs, Zenon DEF Widens
<1>5. /\ h.nodes = g.nodes \cup {new}
      /\ \A r \in g.nodes : /\ h.lev[r] = g.lev[r] /\ h.from[r] = f[g.from[r]] /\ h.lo[r] = g.lo[r]
                            /\ r # p => h.to[r] = f[g.to[r]] /\ h.hi[r] = g.hi[r]
      /\ h.to[p] = cut /\ h.hi[p] = over
      /\ h.lev[new] = g.lev[p] /\ h.from[new] = cut /\ h.to[new] = f[g.to[p]]
      /\ h.lo[new] = over /\ h.hi[new] = g.hi[p]
  BY <1>1 DEF Widened
<1> HIDE DEF over
<1>6. \A r \in g.nodes : /\ g.from[r] \in Nat /\ g.to[r] \in Nat /\ g.from[r] < g.to[r]
                         /\ g.lo[r] \in Int /\ g.hi[r] \in Int
  BY <1>2 DEF Placed
<1>7. /\ \A q \in g.nodes : t.node[q].is_leaf <=> g.lev[q] = 0
      /\ \A q, r \in g.nodes : q # r /\ g.lev[q] = g.lev[r]
           => g.to[q] <= g.from[r] \/ g.to[r] <= g.from[q]
      /\ \A q, r \in g.nodes : g.lev[q] = g.lev[r] /\ g.to[q] <= g.from[r] => g.hi[q] <= g.lo[r]
  BY <1>2 DEF InOrder
<1>8. \A q \in h.nodes : u.node[q].is_leaf <=> h.lev[q] = 0
  BY <1>1, <1>3, <1>5, <1>7
<1>10. \A q \in h.nodes : h.from[q] \in Nat /\ h.to[q] \in Nat
  BY <1>1, <1>4, <1>5, <1>6
\* The parts of p lie where p lay.
<1> DEFINE old(q) == IF q = new THEN p ELSE q
<1>11. ASSUME NEW q \in h.nodes
       PROVE  /\ old(q) \in g.nodes /\ h.lev[q] = g.lev[old(q)]
              /\ f[g.from[old(q)]] <= h.from[q] /\ h.to[q] <= f[g.to[old(q)]]
              /\ g.lo[old(q)] <= h.lo[q] /\ h.hi[q] <= g.hi[old(q)]
              /\ h.from[q] < h.to[q]
              /\ h.lo[q] \in Int /\ h.hi[q] \in Int
              /\ f[g.from[old(q)]] \in Nat /\ f[g.to[old(q)]] \in Nat
              /\ g.lo[old(q)] \in Int /\ g.hi[old(q)] \in Int
  <2>0. f[g.from[p]] \in Nat /\ f[g.to[p]] \in Nat /\ g.lo[p] \in Int /\ g.hi[p] \in Int
    BY <1>1, <1>4, <1>6
  <2>1. CASE q = new
    BY <2>0, <2>1, <1>1, <1>4, <1>5
  <2>2. CASE q = p
    BY <2>0, <2>2, <1>1, <1>4, <1>5
  <2>3. CASE q \in g.nodes \ {p}
    <3>1. old(q) = q
      BY <2>3, <1>1
    <3>2. f[g.from[q]] \in Nat /\ f[g.to[q]] \in Nat /\ f[g.from[q]] < f[g.to[q]]
      BY <2>3, <1>4, <1>6
    <3> QED BY <3>1, <3>2, <2>3, <1>5, <1>6
  <2> QED BY <2>1, <2>2, <2>3, <1>5
<1>12. ASSUME NEW q \in h.nodes, NEW r \in h.nodes, h.lev[q] = h.lev[r]
       PROVE  /\ q # r => h.to[q] <= h.from[r] \/ h.to[r] <= h.from[q]
              /\ h.to[q] <= h.from[r] => h.hi[q] <= h.lo[r]
  <2> DEFINE a == old(q)
             b == old(r)
  <2>1. /\ a \in g.nodes /\ b \in g.nodes /\ g.lev[a] = g.lev[b]
        /\ f[g.from[a]] <= h.from[q] /\ h.to[q] <= f[g.to[a]]
        /\ f[g.from[b]] <= h.from[r] /\ h.to[r] <= f[g.to[b]]
        /\ g.lo[a] <= h.lo[q] /\ h.hi[q] <= g.hi[a] /\ g.lo[b] <= h.lo[r] /\ h.hi[r] <= g.hi[b]
        /\ h.from[q] < h.to[q] /\ h.from[r] < h.to[r]
    BY <1>11, <1>12
  <2>2. /\ h.from[q] \in Nat /\ h.to[q] \in Nat /\ h.from[r] \in Nat /\ h.to[r] \in Nat
        /\ f[g.from[a]] \in Nat /\ f[g.to[a]] \in Nat /\ f[g.from[b]] \in Nat /\ f[g.to[b]] \in Nat
        /\ h.lo[q] \in Int /\ h.hi[q] \in Int /\ h.lo[r] \in Int /\ h.hi[r] \in Int
        /\ g.lo[a] \in Int /\ g.hi[a] \in Int /\ g.lo[b] \in Int /\ g.hi[b] \in Int
    BY <1>10, <1>11
  <2>3. CASE a = b
    <3>1. q = r \/ (q = p /\ r = new) \/ (q = new /\ r = p)
      BY <2>3
    <3>2. CASE q = r
      BY <3>2, <2>1, <2>2
    <3>3. CASE q = p /\ r = new
      BY <3>3, <1>1, <1>4, <1>5, <1>6
    <3>4. CASE q = new /\ r = p
      <4>1. h.to[r] <= h.from[q] /\ ~ (h.to[q] <= h.from[r])
        <5> HIDE DEF a, b
        <5>1. h.to[r] = cut /\ h.from[q] = cut
          BY <3>4, <1>5
        <5> QED BY <5>1, <2>1, <2>2
      <4> QED BY <4>1
    <3> QED BY <3>1, <3>2, <3>3, <3>4
  <2>4. CASE a # b
    <3> HIDE DEF a, b
    <3>1. g.to[a] <= g.from[b] \/ g.to[b] <= g.from[a]
      BY <2>1, <2>4, <1>7
    <3>2. CASE g.to[a] <= g.from[b]
      <4>1. f[g.to[a]] <= f[g.from[b]]
        BY <3>2, <2>1, <1>4, <1>6
      <4>2. g.hi[a] <= g.lo[b]
        BY <3>2, <2>1, <1>7
      <4> QED BY <4>1, <4>2, <2>1, <2>2
    <3>3. CASE g.to[b] <= g.from[a]
      <4>1. f[g.to[b]] <= f[g.from[a]]
        BY <3>3, <2>1, <1>4, <1>6
      <4> QED BY <4>1, <2>1, <2>2
    <3> QED BY <3>1, <3>2, <3>3
  <2> QED BY <2>3, <2>4
<1> QED BY <1>8, <1>12 DEF InOrder

\* ... the leaves linked from left to right ...
LEMMA SplitChained ==
  ASSUME NEW t, NEW g, NEW p, NEW new, NEW P, NEW i, NEW strict, Halved(t, g, p, new, P, i, strict),
         NEW u, Split(t, u, g.nodes, p, new, P, i), NEW f, NEW cut, Widens(f, t, g, p, cut),
         NEW h, Widened(g, h, p, new, t.node[p].list[Mid].key, f, cut)
  PROVE  Chained(u, h)
<1> USE IndexFileAssumption
<1> DEFINE over == t.node[p].list[Mid].key
           root == t.root
           suc(q) == t.node[q].suc_leaf
           pre(q) == t.node[q].pre_leaf
           leaf(q) == t.node[q].is_leaf
<1>1. /\ p \in g.nodes /\ P \in g.nodes /\ P # p /\ new \notin g.nodes /\ ~ leaf(P) /\ p # root
  BY HalvedIs
<1>2. Placed(t, g) /\ InOrder(t, g) /\ Chained(t, g) /\ new \in NodeIds
  BY DEF Halved, Shape
<1>3. /\ u.node[p].is_leaf <=> leaf(p)
      /\ u.node[new].is_leaf <=> leaf(p)
      /\ ~ u.node[P].is_leaf /\ u.root = root
      /\ leaf(p) => /\ u.node[p].pre_leaf = pre(p) /\ u.node[p].suc_leaf = new
                    /\ u.node[new].pre_leaf = p /\ u.node[new].suc_leaf = suc(p)
      /\ \A q \in g.nodes \ {p, P} :
            /\ u.node[q].is_leaf <=> leaf(q)
            /\ u.node[q].suc_leaf = suc(q)
            /\ u.node[q].pre_leaf = IF leaf(p) /\ q = suc(p) THEN new ELSE pre(q)
  BY DEF Split
<1>4. /\ f[0] = 0 /\ cut \in Nat
  BY DEF Widens
<1>5. /\ h.nodes = g.nodes \cup {new}
      /\ \A r \in g.nodes : /\ h.from[r] = f[g.from[r]] /\ h.lo[r] = g.lo[r]
                            /\ r # p => h.to[r] = f[g.to[r]] /\ h.hi[r] = g.hi[r]
      /\ h.to[p] = cut /\ h.hi[p] = over
      /\ h.from[new] = cut /\ h.to[new] = f[g.to[p]]
      /\ h.lo[new] = over /\ h.hi[new] = g.hi[p]
  BY <1>1 DEF Widened
<1> HIDE DEF over
<1>6. /\ \A r \in g.nodes : /\ g.from[r] \in Nat /\ g.to[r] \in Nat /\ g.from[r] < g.to[r]
                            /\ g.to[r] <= g.to[root] /\ r \in NodeIds
      /\ root \in g.nodes
  BY <1>2 DEF Placed
<1>7. \A r \in g.nodes \cup {new} : r # NoPage
  BY <1>2, <1>6 DEF NodeIds, NoPage
<1>8. /\ \A q \in g.nodes : leaf(q) => g.lev[q] = 0
      /\ \A q, r \in g.nodes : q # r /\ g.lev[q] = g.lev[r]
           => g.to[q] <= g.from[r] \/ g.to[r] <= g.from[q]
  BY <1>2 DEF InOrder
<1>9. ASSUME NEW q \in g.nodes, NEW r \in g.nodes, leaf(q), leaf(r),
             g.from[q] = g.from[r] \/ g.to[q] = g.to[r]
      PROVE  q = r
  <2>1. g.lev[q] = g.lev[r]
    BY <1>8, <1>9
  <2>2. /\ g.from[q] \in Nat /\ g.from[r] \in Nat /\ g.to[q] \in Nat /\ g.to[r] \in Nat
        /\ g.from[q] < g.to[q] /\ g.from[r] < g.to[r]
    BY <1>6
  <2>3. ~ (g.to[q] <= g.from[r]) /\ ~ (g.to[r] <= g.from[q])
    BY <2>1, <2>2, <1>9
  <2> QED BY <2>1, <2>3, <1>8
<1>10. \A q \in g.nodes : leaf(q) =>
          /\ IF suc(q) = NoPage THEN g.to[q] = g.to[root] /\ g.hi[q] = INDEX_KEY_MAX
             ELSE suc(q) \in g.nodes /\ leaf(suc(q)) /\ g.from[suc(q)] = g.to[q] /\ g.lo[suc(q)] = g.hi[q]
          /\ IF pre(q) = NoPage THEN g.from[q] = 0
             ELSE pre(q) \in g.nodes /\ leaf(pre(q)) /\ g.to[pre(q)] = g.from[q]
  BY <1>2 DEF Chained
<1>11. \A q \in g.nodes : leaf(q) => u.node[q].is_leaf
  BY <1>1, <1>3
<1> DEFINE NextIs(q) == LET s == u.node[q].suc_leaf
                        IN  IF s = NoPage THEN h.to[q] = h.to[u.root] /\ h.hi[q] = INDEX_KEY_MAX
                            ELSE s \in h.nodes /\ u.node[s].is_leaf /\ h.from[s] = h.to[q] /\ h.lo[s] = h.hi[q]
           BackIs(q) == LET s == u.node[q].pre_leaf
                        IN  IF s = NoPage THEN h.from[q] = 0
                            ELSE s \in h.nodes /\ u.node[s].is_leaf /\ h.to[s] = h.from[q]
<1>12. ASSUME NEW q \in g.nodes, q # p, leaf(q) PROVE NextIs(q)
  <2>1. u.node[q].suc_leaf = suc(q) /\ q # P
    BY <1>1, <1>3, <1>12
  <2>2. CASE suc(q) = NoPage
    BY <2>1, <2>2, <1>1, <1>3, <1>5, <1>6, <1>10, <1>12
  <2>3. CASE suc(q) # NoPage
    <3> DEFINE s == suc(q)
    <3>1. s \in g.nodes /\ leaf(s) /\ g.from[s] = g.to[q] /\ g.lo[s] = g.hi[q]
      BY <2>3, <1>10, <1>12
    <3> HIDE DEF s
    <3>2. u.node[s].is_leaf /\ s \in h.nodes /\ h.from[s] = h.to[q] /\ h.lo[s] = h.hi[q]
      BY <3>1, <1>5, <1>11, <1>12
    <3> QED BY <2>1, <2>3, <3>2 DEF s
  <2> QED BY <2>2, <2>3
<1>13. ASSUME NEW q \in g.nodes, q # p, leaf(q) PROVE BackIs(q)
  <2>1. u.node[q].pre_leaf = IF leaf(p) /\ q = suc(p) THEN new ELSE pre(q)
    BY <1>1, <1>3, <1>13
  <2>2. h.from[q] = f[g.from[q]]
    BY <1>5
  <2>3. CASE leaf(p) /\ q = suc(p)
    <3>1. g.from[q] = g.to[p]
      BY <2>3, <1>1, <1>7, <1>10, <1>13
    <3>2. new # NoPage /\ new \in h.nodes /\ u.node[new].is_leaf /\ h.to[new] = h.from[q]
      BY <2>2, <2>3, <3>1, <1>3, <1>5, <1>7
    <3> QED BY <2>1, <2>3, <3>2
  <2>4. CASE ~ (leaf(p) /\ q = suc(p)) /\ pre(q) = NoPage
    BY <2>1, <2>2, <2>4, <1>4, <1>10, <1>13
  <2>5. CASE ~ (leaf(p) /\ q = suc(p)) /\ pre(q) # NoPage
    <3> DEFINE s == pre(q)
    <3>1. s \in g.nodes /\ leaf(s) /\ g.to[s] = g.from[q]
      BY <2>5, <1>10, <1>13
    <3>2. s # p
      <4> SUFFICES ASSUME s = p PROVE FALSE
        OBVIOUS
      <4>1. leaf(p) /\ g.to[p] = g.from[q]
        BY <3>1
      <4>2. suc(p) # NoPage
        <5> SUFFICES ASSUME suc(p) = NoPage PROVE FALSE
          OBVIOUS
        <5>1. g.to[p] = g.to[root]
          BY <4>1, <1>1, <1>10
        <5> QED BY <5>1, <4>1, <1>6
      <4>3. suc(p) \in g.nodes /\ leaf(suc(p)) /\ g.from[suc(p)] = g.from[q]
        BY <4>1, <4>2, <1>1, <1>10
      <4>4. suc(p) = q
        BY <4>3, <1>9, <1>13
      <4> QED BY <4>1, <4>4, <2>5
    <3> HIDE DEF s
    <3>3. s \in h.nodes /\ u.node[s].is_leaf /\ h.to[s] = h.from[q]
      BY <3>1, <3>2, <2>2, <1>5, <1>11
    <3> QED BY <2>1, <2>5, <3>3 DEF s
  <2> QED BY <2>3, <2>4, <2>5
<1>14. ASSUME leaf(p) PROVE NextIs(p) /\ BackIs(p)
  <2>1. u.node[p].suc_leaf = new /\ u.node[p].pre_leaf = pre(p)
    BY <1>3, <1>14
  <2>2. NextIs(p)
    BY <2>1, <1>3, <1>5, <1>7, <1>14
  <2>3. CASE pre(p) = NoPage
    <3>1. h.from[p] = 0
      BY <2>3, <1>1, <1>4, <1>5, <1>10, <1>14
    <3> QED BY <2>1, <2>2, <2>3, <3>1
  <2>4. CASE pre(p) # NoPage
    <3> DEFINE s == pre(p)
    <3>1. s \in g.nodes /\ leaf(s) /\ g.to[s] = g.from[p]
      BY <2>4, <1>1, <1>10, <1>14
    <3>2. s # p
      BY <3>1, <1>1, <1>6
    <3> HIDE DEF s
    <3>3. s \in h.nodes /\ u.node[s].is_leaf /\ h.to[s] = h.from[p]
      BY <3>1, <3>2, <1>1, <1>5, <1>11
    <3> QED BY <2>1, <2>2, <2>4, <3>3 DEF s
  <2> QED BY <2>3, <2>4
<1>15. ASSUME leaf(p) PROVE NextIs(new) /\ BackIs(new)
  <2>1. u.node[new].suc_leaf = suc(p) /\ u.node[new].pre_leaf = p
    BY <1>3, <1>15
  <2>2. BackIs(new)
    BY <2>1, <1>1, <1>3, <1>5, <1>7, <1>15
  <2>3. CASE suc(p) = NoPage
    <3>1. h.to[new] = h.to[u.root] /\ h.hi[new] = INDEX_KEY_MAX
      BY <2>3, <1>1, <1>3, <1>5, <1>6, <1>10, <1>15
    <3> QED BY <2>1, <2>2, <2>3, <3>1
  <2>4. CASE suc(p) # NoPage
    <3> DEFINE s == suc(p)
    <3>1. s \in g.nodes /\ leaf(s) /\ g.from[s] = g.to[p] /\ g.lo[s] = g.hi[p]
      BY <2>4, <1>1, <1>10, <1>15
    <3> HIDE DEF s
    <3>2. s \in h.nodes /\ u.node[s].is_leaf /\ h.from[s] = h.to[new] /\ h.lo[s] = h.hi[new]
      BY <3>1, <1>5, <1>11
    <3> QED BY <2>1, <2>2, <2>4, <3>2 DEF s
  <2> QED BY <2>3, <2>4
<1>16. ASSUME NEW q \in h.nodes, u.node[q].is_leaf PROVE NextIs(q) /\ BackIs(q)
  <2>1. CASE q = p
    BY <2>1, <1>3, <1>14, <1>16
  <2>2. CASE q = new
    BY <2>2, <1>3, <1>15, <1>16
  <2>3. CASE q \in g.nodes \ {p}
    <3>1. leaf(q)
      BY <2>3, <1>3, <1>16
    <3> QED BY <2>3, <3>1, <1>12, <1>13
  <2> QED BY <2>1, <2>2, <2>3, <1>5
<1> QED BY <1>16 DEF Chained
=============================================================================
