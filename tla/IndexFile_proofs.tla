--------------------------- MODULE IndexFile_proofs ---------------------------
(***************************************************************************)
(* What the shape of its tree says of an index: a search finds the entries *)
(* of its range.  The inductive invariant of IndexFile, and insertions.    *)
(* The tree when a leaf has left it.                                       *)
(***************************************************************************)
EXTENDS IndexSplit_proofs

-----------------------------------------------------------------------------
\* The nodes k steps below the root are those k levels lower.
LEMMA LevelsAre ==
  ASSUME NEW t, NEW g, Placed(t, g), AllHaveChildren(t, g), AllAreChildren(t, g),
         NEW k \in 0 .. t.num
  PROVE  Levels(t)[k] = {p \in g.nodes : g.lev[p] + k = g.lev[t.root]}
<1> DEFINE next == [nodes \in SUBSET NodeIds |-> UNION {Children(t, p) : p \in nodes}]
           r    == Rounds(next, {t.root}, t.num)
           Level(m) == {p \in g.nodes : g.lev[p] + m = g.lev[t.root]}
           S    == {m \in 0 .. t.num : r[m] # Level(m)}
<1>1. /\ t.num \in Nat /\ t.root \in g.nodes /\ g.nodes \subseteq NodeIds
      /\ \A p \in g.nodes : g.lev[p] \in Nat /\ (p # t.root => g.lev[p] < g.lev[t.root])
                            /\ t.node[p] \in Node
  BY DEF Placed, Trees, NodeIds
<1>2. r[0] = {t.root} /\ \A m \in 1 .. t.num : r[m] = next[r[m - 1]]
  <2> HIDE DEF next
  <2> QED BY <1>1, RoundsAre
<1>3. r[0] = Level(0)
  <2>1. \A p \in g.nodes : g.lev[p] + 0 = g.lev[t.root] <=> p = t.root
    BY <1>1
  <2> QED BY <1>1, <1>2, <2>1, Zenon
<1>4. ASSUME NEW m \in 1 .. t.num, r[m - 1] = Level(m - 1) PROVE r[m] = Level(m)
  <2>1. r[m] = next[Level(m - 1)] /\ Level(m - 1) \in SUBSET NodeIds
    BY <1>1, <1>2, <1>4, Zenon
  <2>2. r[m] = UNION {Children(t, p) : p \in Level(m - 1)}
    <3> HIDE DEF r, Level
    <3> QED BY <2>1
  <2>3. ASSUME NEW c, NEW p \in Level(m - 1), c \in Children(t, p) PROVE c \in Level(m)
    <3>1. p \in g.nodes /\ ~ t.node[p].is_leaf /\ c \in ValuesOf(t.node[p].list)
      BY <2>3 DEF Children
    <3>2. PICK i \in DOMAIN t.node[p].list : c = t.node[p].list[i].value
      BY <3>1 DEF ValuesOf
    <3>3. c \in g.nodes /\ g.lev[c] + 1 = g.lev[p]
      BY <3>1, <3>2 DEF AllHaveChildren, HasChildren, Child
    <3>4. g.lev[c] \in Nat /\ g.lev[p] \in Nat /\ g.lev[p] + (m - 1) = g.lev[t.root]
      BY <3>3, <1>1
    <3>5. g.lev[c] + m = g.lev[t.root]
      BY <3>3, <3>4
    <3> QED BY <3>3, <3>5
  <2>4. ASSUME NEW c \in Level(m) PROVE \E p \in Level(m - 1) : c \in Children(t, p)
    <3>1. c \in g.nodes /\ c # t.root
      BY <1>1
    <3> DEFINE p == t.node[c].parent
    <3>2. p \in g.nodes /\ ~ t.node[p].is_leaf /\ \E i \in DOMAIN t.node[p].list : Child(t.node[p], i) = c
      BY <3>1 DEF AllAreChildren
    <3> HIDE DEF p
    <3>3. PICK i \in DOMAIN t.node[p].list : Child(t.node[p], i) = c
      BY <3>2
    <3>4. g.lev[c] + 1 = g.lev[p]
      BY <3>2, <3>3, Zenon DEF AllHaveChildren, HasChildren
    <3>5. g.lev[c] \in Nat /\ g.lev[p] \in Nat /\ g.lev[c] + m = g.lev[t.root]
      BY <3>1, <3>2, <1>1
    <3>6. g.lev[p] + (m - 1) = g.lev[t.root]
      BY <3>4, <3>5
    <3>7. c \in Children(t, p)
      BY <3>2, <3>3 DEF Children, ValuesOf, Child
    <3> QED BY <3>2, <3>6, <3>7
  <2> HIDE DEF r, Level
  <2> QED BY <2>2, <2>3, <2>4
<1>5. S = {}
  <2> SUFFICES ASSUME S # {} PROVE FALSE
    BY Zenon
  <2> HIDE DEF r, Level
  <2>1. PICK m \in S : \A j \in S : m <= j
    <3>1. S \subseteq Nat
      BY <1>1
    <3> HIDE DEF S
    <3> QED BY <3>1, LeastExists, Zenon
  <2>2. m \in 0 .. t.num /\ r[m] # Level(m)
    BY <2>1
  <2>3. m # 0
    BY <2>2, <1>3
  <2>4. m - 1 \in 0 .. t.num /\ m - 1 \notin S
    <3> HIDE DEF S
    <3> QED BY <2>1, <2>2, <2>3, <1>1
  <2>5. r[m - 1] = Level(m - 1)
    BY <2>4
  <2> HIDE DEF S
  <2>6. m \in 1 .. t.num
    BY <2>2, <2>3, <1>1
  <2> QED BY <2>2, <2>5, <2>6, <1>4
<1>6. r[k] = Level(k)
  <2> HIDE DEF r, Level
  <2> QED BY <1>5
<1> QED BY <1>6, Zenon DEF Levels

\* The nodes the root leads to, and the entries of their leaves.
LEMMA NodesAre ==
  ASSUME NEW t, NEW g, NEW strict, Shape(t, g, strict), Fits(t, g)
  PROVE  NodesOf(t) = g.nodes /\ EntriesOf(t) = Content(t, g.nodes)
<1>1. /\ Placed(t, g) /\ AllHaveChildren(t, g) /\ AllAreChildren(t, g)
      /\ t.num \in Nat /\ g.lev[t.root] < t.num /\ g.lev[t.root] \in Nat
  BY DEF Shape, Fits, Placed, Trees, NodeIds
<1>2. \A k \in 0 .. t.num : Levels(t)[k] = {p \in g.nodes : g.lev[p] + k = g.lev[t.root]}
  BY <1>1, LevelsAre
<1>3. NodesOf(t) = g.nodes
  <2>1. ASSUME NEW p \in g.nodes PROVE \E k \in 0 .. t.num : p \in Levels(t)[k]
    <3> DEFINE k == g.lev[t.root] - g.lev[p]
    <3>1. g.lev[p] \in Nat /\ g.lev[p] <= g.lev[t.root]
      BY <1>1 DEF Placed
    <3>2. k \in 0 .. t.num /\ g.lev[p] + k = g.lev[t.root]
      BY <3>1, <1>1
    <3> HIDE DEF k
    <3> QED BY <3>2, <1>2
  <2> QED BY <2>1, <1>2 DEF NodesOf
<1> QED BY <1>3 DEF EntriesOf, Content
-----------------------------------------------------------------------------
\* A way down the tree, a level a round, ends in a leaf; what the rounds keep holds of it.
LEMMA DescentIs ==
  ASSUME NEW t, NEW g, Placed(t, g), InOrder(t, g), g.lev[t.root] < t.num,
         NEW next, NEW X, X \subseteq g.nodes, NEW p \in X,
         \A q \in X : next[q] \in X,
         \A q \in X : t.node[q].is_leaf => next[q] = q,
         \A q \in X : ~ t.node[q].is_leaf => g.lev[next[q]] + 1 = g.lev[q]
  PROVE  /\ Rounds(next, p, t.num)[t.num] \in X
         /\ t.node[Rounds(next, p, t.num)[t.num]].is_leaf
<1> DEFINE r == Rounds(next, p, t.num)
           Q(k) == r[k] \in X /\ (t.node[r[k]].is_leaf \/ g.lev[r[k]] + k <= g.lev[t.root])
           S == {k \in 0 .. t.num : ~ Q(k)}
<1>1. /\ t.num \in Nat /\ g.lev[t.root] \in Nat
      /\ \A q \in g.nodes : g.lev[q] \in Nat /\ g.lev[q] <= g.lev[t.root]
      /\ \A q \in g.nodes : t.node[q].is_leaf <=> g.lev[q] = 0
  <2>1. \A q \in g.nodes : g.lev[q] \in Nat /\ (q # t.root => g.lev[q] < g.lev[t.root])
    BY DEF Placed
  <2>2. t.num \in Nat /\ t.root \in g.nodes
    BY DEF Placed, Trees, NodeIds
  <2> QED BY <2>1, <2>2 DEF InOrder
<1>2. r[0] = p /\ \A k \in 1 .. t.num : r[k] = next[r[k - 1]]
  BY <1>1, RoundsAre
<1> HIDE DEF r
<1>3. Q(0)
  BY <1>1, <1>2
<1>4. ASSUME NEW k \in 1 .. t.num, Q(k - 1) PROVE Q(k)
  <2> DEFINE a == r[k - 1]
             b == r[k]
  <2>1. b = next[a] /\ a \in X /\ (t.node[a].is_leaf \/ g.lev[a] + (k - 1) <= g.lev[t.root])
    BY <1>2, <1>4
  <2> HIDE DEF a, b
  <2>2. b \in X
    BY <2>1
  <2>3. g.lev[a] \in Nat /\ g.lev[b] \in Nat /\ k \in Nat
    BY <2>1, <2>2, <1>1
  <2>4. t.node[b].is_leaf \/ g.lev[b] + k <= g.lev[t.root]
    <3>1. CASE t.node[a].is_leaf
      BY <3>1, <2>1
    <3>2. CASE ~ t.node[a].is_leaf
      <4>1. g.lev[b] + 1 = g.lev[a]
        BY <3>2, <2>1
      <4> QED BY <4>1, <3>2, <2>1, <2>3, <1>1
    <3> QED BY <3>1, <3>2
  <2> QED BY <2>2, <2>4 DEF b
<1> HIDE DEF Q
<1>5. S = {}
  <2> SUFFICES ASSUME S # {} PROVE FALSE
    OBVIOUS
  <2>1. PICK k \in S : \A j \in S : k <= j
    <3>1. S \subseteq Nat
      BY <1>1
    <3> HIDE DEF S
    <3> QED BY <3>1, LeastExists, Zenon
  <2>2. k \in 0 .. t.num /\ ~ Q(k)
    BY <2>1
  <2>3. k # 0
    BY <2>2, <1>3
  <2>4. k - 1 \in 0 .. t.num /\ k - 1 \notin S
    <3> HIDE DEF S
    <3> QED BY <2>1, <2>2, <2>3, <1>1
  <2>5. Q(k - 1)
    BY <2>4
  <2> HIDE DEF S
  <2> QED BY <2>2, <2>3, <2>5, <1>1, <1>4
<1>6. Q(t.num)
  BY <1>1, <1>5
<1>7. r[t.num] \in X /\ (t.node[r[t.num]].is_leaf \/ g.lev[r[t.num]] + t.num <= g.lev[t.root])
  BY <1>6 DEF Q
<1>8. g.lev[r[t.num]] \in Nat
  BY <1>1, <1>7
<1> QED BY <1>1, <1>7, <1>8 DEF r

\* The first and the last leaf below a node.
LEMMA EndsAre ==
  ASSUME NEW t, NEW g, NEW strict, Shape(t, g, strict), Fits(t, g), NEW p \in g.nodes
  PROVE  /\ Leftmost(t, p) \in g.nodes /\ t.node[Leftmost(t, p)].is_leaf
         /\ g.from[Leftmost(t, p)] = g.from[p]
         /\ Rightmost(t, p) \in g.nodes /\ t.node[Rightmost(t, p)].is_leaf
         /\ g.to[Rightmost(t, p)] = g.to[p]
<1>1. /\ Placed(t, g) /\ AllHaveChildren(t, g) /\ InOrder(t, g) /\ g.lev[t.root] < t.num
      /\ g.nodes \subseteq NodeIds
  BY DEF Shape, Fits, Placed
<1> DEFINE down(q) == t.node[q].list[1].value
           up(q)   == Sentinel(t.node[q]).value
           first == [q \in NodeIds |-> IF t.node[q].is_leaf THEN q ELSE t.node[q].list[1].value]
           last  == [q \in NodeIds |-> IF t.node[q].is_leaf THEN q ELSE Sentinel(t.node[q]).value]
           X == {q \in g.nodes : g.from[q] = g.from[p]}
           Y == {q \in g.nodes : g.to[q] = g.to[p]}
<1>2. ASSUME NEW q \in g.nodes, ~ t.node[q].is_leaf
      PROVE  /\ first[q] \in g.nodes /\ g.lev[first[q]] + 1 = g.lev[q] /\ g.from[first[q]] = g.from[q]
             /\ last[q] \in g.nodes /\ g.lev[last[q]] + 1 = g.lev[q] /\ g.to[last[q]] = g.to[q]
  <2> DEFINE list == t.node[q].list
  <2>1. HasChildren(t, g, q) /\ list \in Seq(Pair) /\ Len(list) \in Nat \ {0}
    BY <1>1, <1>2, NodeIs DEF AllHaveChildren
  <2>2. \A i \in 1 .. Len(list) : ChildAt(t, g, q, list, i)
    BY <2>1, ChildrenAre
  <2>3. ChildAt(t, g, q, list, 1) /\ ChildAt(t, g, q, list, Len(list))
    BY <2>1, <2>2
  <2>4. first[q] = list[1].value /\ last[q] = list[Len(list)].value
    BY <1>1, <1>2 DEF Sentinel
  <2> HIDE DEF list, first, last
  <2> QED BY <2>3, <2>4 DEF ChildAt
<1>3. \A q \in g.nodes : t.node[q].is_leaf => first[q] = q /\ last[q] = q
  BY <1>1
<1> HIDE DEF first, last
<1>4. Rounds(first, p, t.num)[t.num] \in X /\ t.node[Rounds(first, p, t.num)[t.num]].is_leaf
  <2>1. X \subseteq g.nodes /\ p \in X
    OBVIOUS
  <2>2. /\ \A q \in X : first[q] \in X
        /\ \A q \in X : t.node[q].is_leaf => first[q] = q
        /\ \A q \in X : ~ t.node[q].is_leaf => g.lev[first[q]] + 1 = g.lev[q]
    BY <1>2, <1>3
  <2> HIDE DEF X
  <2> QED BY <1>1, <2>1, <2>2, DescentIs
<1>5. Rounds(last, p, t.num)[t.num] \in Y /\ t.node[Rounds(last, p, t.num)[t.num]].is_leaf
  <2>1. Y \subseteq g.nodes /\ p \in Y
    OBVIOUS
  <2>2. /\ \A q \in Y : last[q] \in Y
        /\ \A q \in Y : t.node[q].is_leaf => last[q] = q
        /\ \A q \in Y : ~ t.node[q].is_leaf => g.lev[last[q]] + 1 = g.lev[q]
    BY <1>2, <1>3
  <2> HIDE DEF Y
  <2> QED BY <1>1, <2>1, <2>2, DescentIs
<1>6. Leftmost(t, p) = Rounds(first, p, t.num)[t.num]
  BY DEF Leftmost, first
<1>7. Rightmost(t, p) = Rounds(last, p, t.num)[t.num]
  BY DEF Rightmost, last
<1> QED BY <1>4, <1>5, <1>6, <1>7

\* The leaves are told apart by where they begin, and by where they end.
LEMMA LeavesApart ==
  ASSUME NEW t, NEW g, Placed(t, g), InOrder(t, g), NEW p \in g.nodes, NEW q \in g.nodes,
         t.node[p].is_leaf, t.node[q].is_leaf
  PROVE  /\ g.from[p] < g.to[p] /\ g.from[p] \in Nat /\ g.to[p] \in Nat
         /\ g.from[p] = g.from[q] => p = q
         /\ g.to[p] = g.to[q] => p = q
         /\ g.from[p] < g.from[q] => g.to[p] <= g.from[q] /\ g.hi[p] <= g.lo[q]
<1>1. /\ g.from[p] \in Nat /\ g.from[q] \in Nat /\ g.to[p] \in Nat /\ g.to[q] \in Nat
      /\ g.from[p] < g.to[p] /\ g.from[q] < g.to[q]
  BY DEF Placed
<1>2. g.lev[p] = 0 /\ g.lev[q] = 0
  BY DEF InOrder
<1>3. p # q => g.to[p] <= g.from[q] \/ g.to[q] <= g.from[p]
  BY <1>2 DEF InOrder
<1>4. g.to[p] <= g.from[q] => g.hi[p] <= g.lo[q]
  BY <1>2 DEF InOrder
<1> QED BY <1>1, <1>3, <1>4

\* The links between the pages of a tree of this shape.
LEMMA ShapeLinks ==
  ASSUME NEW t, NEW g, NEW strict, Shape(t, g, strict), Fits(t, g)
  PROVE  /\ \A p \in g.nodes : \A c \in Children(t, p) : t.node[c].parent = p
         /\ \A p \in g.nodes : ~ t.node[p].is_leaf
              => \A i \in 1 .. key_num(t.node[p]) :
                   LET before == Rightmost(t, t.node[p].list[i].value)
                       behind == Leftmost(t, t.node[p].list[i + 1].value)
                   IN  t.node[before].suc_leaf = behind /\ t.node[behind].pre_leaf = before
         /\ t.node[Leftmost(t, t.root)].pre_leaf = NoPage
         /\ t.node[Rightmost(t, t.root)].suc_leaf = NoPage
<1>1. /\ Placed(t, g) /\ AllHaveChildren(t, g) /\ InOrder(t, g) /\ Chained(t, g) /\ t.root \in g.nodes
  BY DEF Shape, Placed
<1>2. \A p \in g.nodes : /\ g.from[p] \in Nat /\ g.to[p] \in Nat /\ g.from[p] < g.to[p]
                         /\ g.to[p] <= g.to[t.root]
  BY <1>1 DEF Placed
<1>3. ASSUME NEW p \in g.nodes, NEW c \in Children(t, p) PROVE t.node[c].parent = p
  <2>1. ~ t.node[p].is_leaf /\ c \in ValuesOf(t.node[p].list)
    BY DEF Children
  <2>2. PICK i \in DOMAIN t.node[p].list : c = t.node[p].list[i].value
    BY <2>1 DEF ValuesOf
  <2>3. HasChildren(t, g, p)
    BY <1>1, <2>1, Zenon DEF AllHaveChildren
  <2> QED BY <2>2, <2>3, Zenon DEF HasChildren, Child
<1>4. ASSUME NEW p \in g.nodes, ~ t.node[p].is_leaf, NEW i \in 1 .. key_num(t.node[p])
      PROVE  LET before == Rightmost(t, t.node[p].list[i].value)
                 behind == Leftmost(t, t.node[p].list[i + 1].value)
             IN  t.node[before].suc_leaf = behind /\ t.node[behind].pre_leaf = before
  <2> DEFINE list == t.node[p].list
             c    == list[i].value
             d    == list[i + 1].value
             b    == Rightmost(t, c)
             a    == Leftmost(t, d)
  <2>1. HasChildren(t, g, p) /\ list \in Seq(Pair) /\ Len(list) \in Nat \ {0}
    BY <1>1, <1>4, NodeIs DEF AllHaveChildren
  <2>2. i \in 1 .. Len(list) /\ i + 1 \in 1 .. Len(list) /\ i + 1 # 1 /\ (i + 1) - 1 = i
    BY <2>1 DEF key_num
  <2>3. \A j \in 1 .. Len(list) : ChildAt(t, g, p, list, j)
    BY <2>1, ChildrenAre
  <2>4. ChildAt(t, g, p, list, i) /\ ChildAt(t, g, p, list, i + 1)
    BY <2>2, <2>3
  <2>5. c \in g.nodes /\ d \in g.nodes /\ g.from[d] = g.to[c]
    <3> HIDE DEF list
    <3> QED BY <2>2, <2>4 DEF ChildAt
  <2> HIDE DEF c, d
  <2>6. /\ a \in g.nodes /\ t.node[a].is_leaf /\ g.from[a] = g.from[d]
        /\ b \in g.nodes /\ t.node[b].is_leaf /\ g.to[b] = g.to[c]
    BY <2>5, EndsAre
  <2> HIDE DEF a, b
  <2>7. t.node[b].suc_leaf = a
    <3> DEFINE q == t.node[b].suc_leaf
    <3>1. IF q = NoPage THEN g.to[b] = g.to[t.root]
          ELSE q \in g.nodes /\ t.node[q].is_leaf /\ g.from[q] = g.to[b]
      BY <1>1, <2>6 DEF Chained
    <3> HIDE DEF q
    <3>2. q # NoPage
      <4>1. g.to[b] = g.from[a] /\ g.from[a] < g.to[a] /\ g.to[a] <= g.to[t.root]
        BY <1>2, <2>5, <2>6
      <4>2. g.from[a] \in Nat /\ g.to[a] \in Nat /\ g.to[t.root] \in Nat
        BY <1>1, <1>2, <2>6
      <4> QED BY <3>1, <4>1, <4>2
    <3>3. q \in g.nodes /\ t.node[q].is_leaf /\ g.from[q] = g.from[a]
      BY <3>1, <3>2, <2>5, <2>6
    <3>4. q = a
      BY <3>3, <2>6, <1>1, LeavesApart
    <3> QED BY <3>4 DEF q
  <2>8. t.node[a].pre_leaf = b
    <3> DEFINE q == t.node[a].pre_leaf
    <3>1. IF q = NoPage THEN g.from[a] = 0
          ELSE q \in g.nodes /\ t.node[q].is_leaf /\ g.to[q] = g.from[a]
      BY <1>1, <2>6 DEF Chained
    <3> HIDE DEF q
    <3>2. q # NoPage
      <4>1. g.to[b] = g.from[a] /\ g.from[b] < g.to[b]
        BY <1>2, <2>5, <2>6
      <4>2. g.from[b] \in Nat /\ g.to[b] \in Nat
        BY <1>2, <2>6
      <4> QED BY <3>1, <4>1, <4>2
    <3>3. q \in g.nodes /\ t.node[q].is_leaf /\ g.to[q] = g.to[b]
      BY <3>1, <3>2, <2>5, <2>6
    <3>4. q = b
      BY <3>3, <2>6, <1>1, LeavesApart
    <3> QED BY <3>4 DEF q
  <2> QED BY <2>7, <2>8 DEF a, b, c, d
<1>5. t.node[Leftmost(t, t.root)].pre_leaf = NoPage
  <2> DEFINE a == Leftmost(t, t.root)
             q == t.node[a].pre_leaf
  <2>1. a \in g.nodes /\ t.node[a].is_leaf /\ g.from[a] = 0
    BY <1>1, EndsAre DEF Placed
  <2>2. IF q = NoPage THEN g.from[a] = 0
        ELSE q \in g.nodes /\ t.node[q].is_leaf /\ g.to[q] = g.from[a]
    BY <1>1, <2>1 DEF Chained
  <2> HIDE DEF q, a
  <2>3. q = NoPage
    BY <1>2, <2>1, <2>2
  <2> QED BY <2>3 DEF a, q
<1>6. t.node[Rightmost(t, t.root)].suc_leaf = NoPage
  <2> DEFINE b == Rightmost(t, t.root)
             q == t.node[b].suc_leaf
  <2>1. b \in g.nodes /\ t.node[b].is_leaf /\ g.to[b] = g.to[t.root]
    BY <1>1, EndsAre
  <2>2. IF q = NoPage THEN g.to[b] = g.to[t.root]
        ELSE q \in g.nodes /\ t.node[q].is_leaf /\ g.from[q] = g.to[b]
    BY <1>1, <2>1 DEF Chained
  <2> HIDE DEF q, b
  <2>3. q = NoPage
    <3> SUFFICES ASSUME q # NoPage PROVE FALSE
      OBVIOUS
    <3>1. q \in g.nodes /\ g.from[q] = g.to[t.root]
      BY <2>1, <2>2
    <3>2. g.from[q] < g.to[q] /\ g.to[q] <= g.to[t.root] /\ g.from[q] \in Nat /\ g.to[q] \in Nat
      BY <1>2, <3>1
    <3> QED BY <3>1, <3>2
  <2> QED BY <2>3 DEF b, q
<1> QED BY <1>3, <1>4, <1>5, <1>6
-----------------------------------------------------------------------------
\* A loop that goes through the members of X in the order of their ranks, from x on,
\* and stops at the first that is Above: it meets those before, each once.
Walk(at, m, X, R, Above, x, next) ==
  /\ \A k \in 0 .. m - 1 : at[k] \in X \ Above
  /\ at[m] \notin X \ Above
  /\ \A k \in 0 .. m : at[k] \in X \/ \E a \in X : at[k] = next[a]
  /\ \A i \in 0 .. m - 1, j \in 0 .. m - 1 : i < j => R[at[i]] < R[at[j]]
  /\ \A k \in 0 .. m - 1 : R[x] <= R[at[k]]
  /\ \A c \in X \ Above : R[x] <= R[c] => \E k \in 0 .. m - 1 : c = at[k]

\* A loop that goes from each member to the next one walks through them.
LEMMA WalkIs ==
  ASSUME NEW n \in Nat, NEW X, NEW R \in [X -> 0 .. n - 1], NEW next, NEW x \in X, NEW Above \in SUBSET X,
         \A a, c \in X : R[a] = R[c] => a = c,
         \A a \in Above, c \in X : R[a] <= R[c] => c \in Above,
         \A a \in X : next[a] \in X
           => R[a] < R[next[a]] /\ \A c \in X : R[a] < R[c] => R[next[a]] <= R[c],
         \A a \in X : next[a] \notin X => \A c \in X : R[c] <= R[a]
  PROVE  \E m \in 0 .. n : Walk(Rounds(next, x, n), m, X, R, Above, x, next)
<1> DEFINE at == Rounds(next, x, n)
           Q(k) == /\ at[k] \in X \/ \E a \in X : at[k] = next[a]
                   /\ at[k] \in X => /\ k <= R[at[k]] /\ R[x] <= R[at[k]]
                                     /\ \A j \in 0 .. k - 1 : R[at[j]] < R[at[k]]
                                     /\ \A c \in X : R[x] <= R[c] /\ R[c] < R[at[k]]
                                          => \E j \in 0 .. k - 1 : c = at[j]
                   /\ at[k] \notin X => \A c \in X : R[x] <= R[c] => \E j \in 0 .. k - 1 : c = at[j]
           Go(k) == at[k] \in X \ Above
           S == {k \in 0 .. n : ~ Go(k) \/ ~ Q(k)}
<1>0. n \in Nat
  OBVIOUS
<1>1. at[0] = x /\ \A k \in 1 .. n : at[k] = next[at[k - 1]]
  BY ONLY <1>0, RoundsAre
<1> HIDE DEF at
<1>2. \A a \in X : R[a] \in Nat /\ R[a] < n
  OBVIOUS
<1>3. Q(0)
  BY <1>1, <1>2
<1>4. ASSUME NEW k \in 1 .. n, \A j \in 0 .. k - 1 : Go(j) /\ Q(j) PROVE Q(k)
  <2> DEFINE a == at[k - 1]
             b == at[k]
  <2>1. k - 1 \in 0 .. k - 1 /\ k \in Nat /\ k - 1 \in Nat
    OBVIOUS
  <2>2. Go(k - 1) /\ Q(k - 1)
    BY <2>1, <1>4
  <2>3. a \in X /\ b = next[a]
    BY <2>2, <1>1
  <2>4. /\ k - 1 <= R[a] /\ R[x] <= R[a]
        /\ \A j \in 0 .. (k - 1) - 1 : R[at[j]] < R[a]
        /\ \A c \in X : R[x] <= R[c] /\ R[c] < R[a] => \E j \in 0 .. (k - 1) - 1 : c = at[j]
    BY <2>2, <2>3
  <2>5. R[a] \in Nat /\ R[x] \in Nat
    BY <2>3, <1>2
  <2>6. ASSUME NEW c \in X, R[x] <= R[c], R[c] <= R[a] PROVE \E j \in 0 .. k - 1 : c = at[j]
    <3>1. CASE R[c] = R[a]
      BY <3>1, <2>1, <2>3
    <3>2. CASE R[c] < R[a]
      <4>1. PICK j \in 0 .. (k - 1) - 1 : c = at[j]
        BY <3>2, <2>6, <2>4
      <4>2. j \in 0 .. k - 1
        BY <2>1
      <4> QED BY <4>1, <4>2
    <3> QED BY <3>1, <3>2, <2>6, <2>5, <1>2
  <2>7. CASE b \in X
    <3>1. R[b] \in Nat /\ R[a] < R[b] /\ \A c \in X : R[a] < R[c] => R[b] <= R[c]
      BY <2>3, <2>7, <1>2
    <3>2. k <= R[b] /\ R[x] <= R[b]
      BY <3>1, <2>1, <2>4, <2>5
    <3>3. ASSUME NEW j \in 0 .. k - 1 PROVE R[at[j]] < R[b]
      <4>1. CASE j = k - 1
        BY <4>1, <3>1
      <4>2. CASE j # k - 1
        <5>1. j \in 0 .. (k - 1) - 1 /\ at[j] \in X
          BY <4>2, <2>1, <1>4
        <5>2. R[at[j]] < R[a] /\ R[at[j]] \in Nat
          BY <5>1, <2>4, <1>2
        <5> QED BY <5>2, <3>1, <2>5
      <4> QED BY <4>1, <4>2
    <3>4. ASSUME NEW c \in X, R[x] <= R[c], R[c] < R[b] PROVE \E j \in 0 .. k - 1 : c = at[j]
      <4>1. ~ R[a] < R[c]
        BY <3>1, <3>4, <1>2
      <4>2. R[c] <= R[a]
        BY <4>1, <2>5, <1>2
      <4> QED BY <4>2, <3>4, <2>6
    <3> HIDE DEF a
    <3> QED BY <2>7, <3>2, <3>3, <3>4
  <2>8. CASE b \notin X
    <3>1. \A c \in X : R[c] <= R[a]
      BY <2>3, <2>8
    <3>2. \A c \in X : R[x] <= R[c] => \E j \in 0 .. k - 1 : c = at[j]
      BY <3>1, <2>6
    <3>3. \E c \in X : b = next[c]
      BY <2>3
    <3> HIDE DEF a
    <3> QED BY <2>8, <3>2, <3>3
  <2> QED BY <2>7, <2>8
<1>5. S # {}
  <2> SUFFICES ASSUME S = {} PROVE FALSE
    OBVIOUS
  <2>1. n \in 0 .. n /\ n \notin S
    <3> HIDE DEF S
    <3> QED OBVIOUS
  <2>2. Go(n) /\ Q(n)
    BY <2>1
  <2>3. at[n] \in X /\ n <= R[at[n]]
    BY <2>2
  <2> QED BY <2>3, <1>2
<1>6. PICK m \in S : \A j \in S : m <= j
  <2>1. S \subseteq Nat
    OBVIOUS
  <2> HIDE DEF S
  <2> QED BY <2>1, <1>5, LeastExists, Zenon
<1>7. m \in 0 .. n
  OBVIOUS
<1>8. \A j \in 0 .. m - 1 : Go(j) /\ Q(j)
  <2> SUFFICES ASSUME NEW j \in 0 .. m - 1 PROVE Go(j) /\ Q(j)
    OBVIOUS
  <2>1. j \in 0 .. n /\ ~ (m <= j)
    BY <1>7
  <2>2. j \notin S
    <3> HIDE DEF S
    <3> QED BY <2>1, <1>6
  <2> HIDE DEF Go, Q
  <2> QED BY <2>1, <2>2
<1>9. Q(m)
  <2>1. CASE m = 0
    BY <2>1, <1>3
  <2>2. CASE m # 0
    <3>1. m \in 1 .. n
      BY <2>2, <1>7
    <3> HIDE DEF S, Q, Go
    <3> QED BY <3>1, <1>4, <1>8
  <2> QED BY <2>1, <2>2
<1>10. ~ Go(m)
  <2> HIDE DEF Go, Q
  <2> QED BY <1>9
<1>11. /\ \A k \in 0 .. m - 1 : at[k] \in X \ Above
       /\ at[m] \notin X \ Above
  BY <1>8, <1>10
<1>12. \A k \in 0 .. m : at[k] \in X \/ \E a \in X : at[k] = next[a]
  <2> SUFFICES ASSUME NEW k \in 0 .. m PROVE at[k] \in X \/ \E a \in X : at[k] = next[a]
    OBVIOUS
  <2>1. k \in 0 .. m - 1 \/ k = m
    BY <1>7
  <2>2. Q(k)
    <3> HIDE DEF Q
    <3> QED BY <2>1, <1>8, <1>9
  <2> QED BY <2>2
<1>13. \A i \in 0 .. m - 1, j \in 0 .. m - 1 : i < j => R[at[i]] < R[at[j]]
  <2> SUFFICES ASSUME NEW i \in 0 .. m - 1, NEW j \in 0 .. m - 1, i < j PROVE R[at[i]] < R[at[j]]
    OBVIOUS
  <2>1. i \in 0 .. j - 1
    BY <1>7
  <2>2. Q(j) /\ Go(j)
    BY <1>8
  <2> QED BY <2>1, <2>2
<1>14. \A k \in 0 .. m - 1 : R[x] <= R[at[k]]
  BY <1>8
<1>15. \A c \in X \ Above : R[x] <= R[c] => \E k \in 0 .. m - 1 : c = at[k]
  <2> SUFFICES ASSUME NEW c \in X \ Above, R[x] <= R[c] PROVE \E k \in 0 .. m - 1 : c = at[k]
    OBVIOUS
  <2>1. CASE at[m] \notin X
    BY <2>1, <1>9
  <2>2. CASE at[m] \in X
    <3>1. at[m] \in Above
      BY <2>2, <1>10
    <3>2. ~ (R[at[m]] <= R[c])
      BY <3>1
    <3>3. R[c] < R[at[m]]
      BY <3>2, <2>2, <1>2
    <3> QED BY <3>3, <2>2, <1>9
  <2> QED BY <2>1, <2>2
<1>16. Walk(at, m, X, R, Above, x, next)
  BY <1>11, <1>12, <1>13, <1>14, <1>15 DEF Walk
<1> QED BY <1>7, <1>16 DEF at

\* The sizes of the nodes, and that all leaves lie equally deep.
LEMMA ShapeBalanced ==
  ASSUME NEW t, NEW g, NEW strict, Shape(t, g, strict), Fits(t, g), Sizes(t, g, NoPage)
  PROVE  /\ \A p \in g.nodes : key_num(t.node[p]) <= M - 1
         /\ \A p \in g.nodes : ~ t.node[p].is_leaf /\ p # t.root
              => key_num(t.node[p]) >= (M + 1) \div 2 - 1
         /\ \A k \in 0 .. t.num : \A p, q \in Levels(t)[k] : t.node[p].is_leaf = t.node[q].is_leaf
<1>1. /\ Placed(t, g) /\ AllHaveChildren(t, g) /\ AllAreChildren(t, g) /\ InOrder(t, g)
      /\ \A p \in g.nodes : p # NoPage /\ g.lev[p] \in Nat
      /\ t.num \in Nat /\ g.lev[t.root] \in Nat
  <2>1. Placed(t, g)
    BY DEF Shape
  <2> QED BY <2>1 DEF Shape, Placed, Trees, NodeIds, NoPage
<1>2. \A p \in g.nodes : key_num(t.node[p]) <= M - 1
  BY <1>1 DEF Sizes
<1>3. \A p \in g.nodes : ~ t.node[p].is_leaf /\ p # t.root => key_num(t.node[p]) >= (M + 1) \div 2 - 1
  BY DEF Sizes, Mid
<1>4. ASSUME NEW k \in 0 .. t.num, NEW p \in Levels(t)[k], NEW q \in Levels(t)[k]
      PROVE  t.node[p].is_leaf = t.node[q].is_leaf
  <2>1. p \in g.nodes /\ q \in g.nodes /\ g.lev[p] + k = g.lev[t.root] /\ g.lev[q] + k = g.lev[t.root]
    BY <1>1, <1>4, LevelsAre
  <2>2. g.lev[p] = g.lev[q]
    BY <2>1, <1>1
  <2>3. t.node[p].is_leaf <=> t.node[q].is_leaf
    BY <1>1, <2>1, <2>2 DEF InOrder
  <2>4. t.node[p].is_leaf \in BOOLEAN /\ t.node[q].is_leaf \in BOOLEAN
    BY <1>1, <2>1, NodeIs
  <2> QED BY <2>3, <2>4
<1> QED BY <1>2, <1>3, <1>4
-----------------------------------------------------------------------------
\* The places of the leaves that hold a key, and their order from left to right.
Places(t, nodes) ==
  {a \in nodes \X (1 .. M) : t.node[a[1]].is_leaf /\ a[2] <= key_num(t.node[a[1]])}

\* A number for a place that grows from left to right.
Rank(g, a) == M * g.from[a[1]] + a[2]

\* Place c lies behind place a.
Behind(g, a, c) == \/ g.from[a[1]] < g.from[c[1]]
                   \/ a[1] = c[1] /\ a[2] < c[2]

\* Products that are not equal lie one factor apart.
LEMMA FactorApart ==
  ASSUME NEW m \in Nat, NEW x \in Nat, NEW y \in Nat, x < y
  PROVE  m * x + m <= m * y /\ m * x \in Nat /\ m * y \in Nat
<1> DEFINE d == y - x - 1
<1>1. d \in Nat /\ y = x + 1 + d
  OBVIOUS
<1> HIDE DEF d
<1>2. m * (x + 1 + d) = m * x + m + m * d
  BY <1>1
<1>3. m * d \in Nat /\ m * x \in Nat
  BY <1>1
<1>4. m * y = m * x + m + m * d
  BY <1>1, <1>2
<1> QED BY <1>3, <1>4

\* What a place of a leaf is.
LEMMA PlaceIs ==
  ASSUME NEW t, NEW g, NEW strict, Shape(t, g, strict), NEW a \in Places(t, g.nodes)
  PROVE  /\ a[1] \in g.nodes /\ a[2] \in 1 .. M /\ a = <<a[1], a[2]>>
         /\ t.node[a[1]].is_leaf /\ a[2] \in 1 .. key_num(t.node[a[1]])
         /\ key_num(t.node[a[1]]) \in Nat /\ Len(t.node[a[1]].list) = key_num(t.node[a[1]]) + 1
         /\ g.from[a[1]] \in Nat /\ g.lo[a[1]] \in Int /\ g.hi[a[1]] \in Int
         /\ PairAt(t, a).key \in 0 .. INDEX_KEY_MAX - 1
         /\ g.lo[a[1]] <= PairAt(t, a).key /\ PairAt(t, a).key <= g.hi[a[1]]
         /\ strict => g.lo[a[1]] < PairAt(t, a).key
<1> USE IndexFileAssumption
<1>1. a[1] \in g.nodes /\ a[2] \in 1 .. M /\ a = <<a[1], a[2]>>
      /\ t.node[a[1]].is_leaf /\ a[2] <= key_num(t.node[a[1]])
  BY DEF Places
<1>2. Placed(t, g) /\ AllKeysBetween(t, g, strict)
  BY DEF Shape
<1> DEFINE list == t.node[a[1]].list
<1>3. /\ Len(list) \in Nat \ {0} /\ DOMAIN list = 1 .. Len(list)
      /\ \A i \in DOMAIN list : list[i].key \in 0 .. INDEX_KEY_MAX
  BY <1>1, <1>2, NodeIs
<1>4. key_num(t.node[a[1]]) = Len(list) - 1
  BY DEF key_num
<1>5. KeysBetween(list, t.node[a[1]].is_leaf, g.lo[a[1]], g.hi[a[1]], strict)
  BY <1>1, <1>2, Zenon DEF AllKeysBetween
<1>6. g.from[a[1]] \in Nat /\ g.lo[a[1]] \in Int /\ g.hi[a[1]] \in Int
  BY <1>1, <1>2 DEF Placed
<1> HIDE DEF list
<1>7. a[2] \in 1 .. Len(list) - 1 /\ a[2] \in 1 .. key_num(t.node[a[1]])
  BY <1>1, <1>3, <1>4
<1>8. list[a[2]].key \in 0 .. INDEX_KEY_MAX /\ list[a[2]].key < INDEX_KEY_MAX
      /\ g.lo[a[1]] <= list[a[2]].key /\ list[a[2]].key <= g.hi[a[1]]
      /\ (strict => g.lo[a[1]] < list[a[2]].key)
  BY <1>3, <1>5, <1>7 DEF KeysBetween
<1>9. PairAt(t, a) = list[a[2]]
  BY DEF PairAt, list
<1>10. list[a[2]].key \in 0 .. INDEX_KEY_MAX - 1
  BY <1>8
<1>11. /\ PairAt(t, a).key \in 0 .. INDEX_KEY_MAX - 1
       /\ g.lo[a[1]] <= PairAt(t, a).key /\ PairAt(t, a).key <= g.hi[a[1]]
       /\ strict => g.lo[a[1]] < PairAt(t, a).key
  BY <1>8, <1>9, <1>10
<1>12. key_num(t.node[a[1]]) \in Nat /\ Len(list) = key_num(t.node[a[1]]) + 1
  BY <1>3, <1>4
<1>13. Len(t.node[a[1]].list) = key_num(t.node[a[1]]) + 1
  BY <1>12 DEF list
<1> QED BY <1>1, <1>6, <1>7, <1>11, <1>12, <1>13

\* The ranks of the places follow the leaves from left to right, and so do the keys.
LEMMA RanksAre ==
  ASSUME NEW t, NEW g, NEW strict, Shape(t, g, strict), Fits(t, g), Sizes(t, g, NoPage),
         NEW a \in Places(t, g.nodes), NEW c \in Places(t, g.nodes)
  PROVE  /\ Rank(g, a) \in 0 .. M * t.num - 1 /\ Rank(g, c) \in 0 .. M * t.num - 1
         /\ Rank(g, a) < Rank(g, c) <=> Behind(g, a, c)
         /\ Rank(g, a) = Rank(g, c) => a = c
         /\ Rank(g, a) <= Rank(g, c) => PairAt(t, a).key <= PairAt(t, c).key
<1> USE IndexFileAssumption
<1>1. Placed(t, g) /\ InOrder(t, g) /\ AllKeysBetween(t, g, strict)
  BY DEF Shape
<1>2. M \in Nat /\ t.num \in Nat /\ g.to[t.root] <= t.num /\ g.to[t.root] \in Nat
  BY <1>1 DEF Placed, Fits, Trees, NodeIds
<1>3. ASSUME NEW e \in Places(t, g.nodes)
      PROVE  /\ e[1] \in g.nodes /\ e[2] \in 1 .. M - 1 /\ e = <<e[1], e[2]>> /\ t.node[e[1]].is_leaf
             /\ g.from[e[1]] \in Nat /\ M * g.from[e[1]] \in Nat
             /\ Rank(g, e) \in 0 .. M * t.num - 1
  <2>1. /\ e[1] \in g.nodes /\ e = <<e[1], e[2]>> /\ t.node[e[1]].is_leaf /\ g.from[e[1]] \in Nat
        /\ e[2] \in 1 .. key_num(t.node[e[1]]) /\ key_num(t.node[e[1]]) \in Nat
    BY <1>3, PlaceIs
  <2>2. key_num(t.node[e[1]]) <= M - 1
    <3>1. e[1] # NoPage
      BY <1>1, <2>1 DEF Placed, NodeIds, NoPage
    <3> QED BY <2>1, <3>1 DEF Sizes
  <2>3. e[2] \in 1 .. M - 1
    BY <1>2, <2>1, <2>2
  <2>4. g.from[e[1]] < t.num
    <3>1. g.from[e[1]] < g.to[e[1]] /\ g.to[e[1]] <= g.to[t.root] /\ g.to[e[1]] \in Nat
      BY <1>1, <2>1 DEF Placed
    <3> QED BY <3>1, <2>1, <1>2
  <2>5. M * g.from[e[1]] + M <= M * t.num /\ M * g.from[e[1]] \in Nat /\ M * t.num \in Nat
    BY <2>1, <2>4, <1>2, FactorApart
  <2>6. Rank(g, e) \in 0 .. M * t.num - 1
    BY <2>3, <2>5, <1>2 DEF Rank
  <2> QED BY <2>1, <2>3, <2>5, <2>6
<1> DEFINE p == a[1]
           q == c[1]
<1>4. /\ p \in g.nodes /\ a[2] \in 1 .. M - 1 /\ a = <<p, a[2]>> /\ t.node[p].is_leaf
      /\ g.from[p] \in Nat /\ M * g.from[p] \in Nat
      /\ q \in g.nodes /\ c[2] \in 1 .. M - 1 /\ c = <<q, c[2]>> /\ t.node[q].is_leaf
      /\ g.from[q] \in Nat /\ M * g.from[q] \in Nat
      /\ Rank(g, a) \in 0 .. M * t.num - 1 /\ Rank(g, c) \in 0 .. M * t.num - 1
  BY <1>3
<1>5. Rank(g, a) = M * g.from[p] + a[2] /\ Rank(g, c) = M * g.from[q] + c[2]
  BY DEF Rank
<1>6. g.from[p] = g.from[q] => p = q
  BY <1>1, <1>4, LeavesApart
<1>7. g.from[p] < g.from[q] => Rank(g, a) < Rank(g, c)
  <2>1. ASSUME g.from[p] < g.from[q] PROVE M * g.from[p] + M <= M * g.from[q]
    BY <2>1, <1>2, <1>4, FactorApart
  <2> QED BY <2>1, <1>2, <1>4, <1>5
<1>8. g.from[q] < g.from[p] => Rank(g, c) < Rank(g, a)
  <2>1. ASSUME g.from[q] < g.from[p] PROVE M * g.from[q] + M <= M * g.from[p]
    BY <2>1, <1>2, <1>4, FactorApart
  <2> QED BY <2>1, <1>2, <1>4, <1>5
<1> HIDE DEF p, q
<1>9. g.from[p] < g.from[q] \/ g.from[q] < g.from[p] \/ p = q
  BY <1>4, <1>6
<1>10. p = q => /\ g.from[p] = g.from[q]
                /\ Rank(g, a) < Rank(g, c) <=> a[2] < c[2]
                /\ Rank(g, a) = Rank(g, c) <=> a[2] = c[2]
  <2>1. ASSUME NEW z \in Nat, NEW x \in 1 .. M - 1, NEW y \in 1 .. M - 1
        PROVE  (z + x < z + y <=> x < y) /\ (z + x = z + y <=> x = y)
    BY <1>2
  <2> QED BY <1>4, <1>5, <2>1
<1>11. Rank(g, a) \in Int /\ Rank(g, c) \in Int
  BY <1>2, <1>4
<1>12. Rank(g, a) < Rank(g, c) <=> Behind(g, a, c)
  <2>1. Behind(g, a, c) <=> g.from[p] < g.from[q] \/ (p = q /\ a[2] < c[2])
    BY DEF Behind, p, q
  <2> QED BY <2>1, <1>7, <1>8, <1>9, <1>10, <1>11, <1>4
<1>13. Rank(g, a) = Rank(g, c) => a = c
  <2>1. Rank(g, a) = Rank(g, c) => p = q /\ a[2] = c[2]
    BY <1>7, <1>8, <1>9, <1>10, <1>11
  <2> QED BY <2>1, <1>4
<1>14. Rank(g, a) < Rank(g, c) => PairAt(t, a).key <= PairAt(t, c).key
  <2>1. /\ PairAt(t, a).key \in Int /\ g.hi[p] \in Int /\ PairAt(t, a).key <= g.hi[p]
        /\ PairAt(t, c).key \in Int /\ g.lo[q] \in Int /\ g.lo[q] <= PairAt(t, c).key
        /\ a[2] \in 1 .. key_num(t.node[p]) /\ c[2] \in 1 .. key_num(t.node[q])
    BY PlaceIs DEF p, q
  <2>2. ASSUME g.from[p] < g.from[q] PROVE PairAt(t, a).key <= PairAt(t, c).key
    <3>1. g.hi[p] <= g.lo[q]
      BY <1>1, <1>4, <2>2, LeavesApart
    <3> QED BY <2>1, <3>1
  <2>3. ASSUME p = q, a[2] < c[2] PROVE PairAt(t, a).key <= PairAt(t, c).key
    <3>1. KeysBetween(t.node[p].list, t.node[p].is_leaf, g.lo[p], g.hi[p], strict)
      BY <1>1, <1>4, Zenon DEF AllKeysBetween
    <3>2. t.node[p].list[a[2]].key <= t.node[p].list[c[2]].key
      BY <3>1, <2>1, <2>3, Zenon DEF KeysBetween, key_num
    <3> QED BY <3>2, <2>3 DEF PairAt, p, q
  <2> QED BY <2>2, <2>3, <1>12 DEF Behind, p, q
<1>15. Rank(g, a) <= Rank(g, c) => PairAt(t, a).key <= PairAt(t, c).key
  <2>1. PairAt(t, a).key \in Int /\ PairAt(t, c).key \in Int
    BY PlaceIs
  <2>2. Rank(g, a) = Rank(g, c) => PairAt(t, a).key <= PairAt(t, c).key
    BY <1>13, <2>1
  <2> QED BY <2>2, <1>14, <1>11
<1> QED BY <1>4, <1>12, <1>13, <1>15
-----------------------------------------------------------------------------
\* The next place of a search is the first behind, and after the last there is none.
LEMMA NextPlaceIs ==
  ASSUME NEW t, NEW g, NEW strict, Shape(t, g, strict), Fits(t, g), Sizes(t, g, NoPage),
         NEW a \in Places(t, g.nodes)
  PROVE  \/ /\ NextPlace(t, a) \in Places(t, g.nodes)
            /\ Rank(g, a) < Rank(g, NextPlace(t, a))
            /\ \A c \in Places(t, g.nodes) : Rank(g, a) < Rank(g, c) => Rank(g, NextPlace(t, a)) <= Rank(g, c)
         \/ /\ NextPlace(t, a)[1] = NoPage
            /\ \A c \in Places(t, g.nodes) : Rank(g, c) <= Rank(g, a)
<1> USE IndexFileAssumption
<1> DEFINE p == a[1]
           n == t.node[p]
           b == NextPlace(t, a)
<1>1. Placed(t, g) /\ InOrder(t, g) /\ Chained(t, g) /\ LeavesFull(t, g, strict)
  BY DEF Shape
<1>2. /\ p \in g.nodes /\ a[2] \in Nat /\ a = <<p, a[2]>> /\ n.is_leaf /\ a[2] \in 1 .. key_num(n)
      /\ key_num(n) \in Nat /\ Len(n.list) = key_num(n) + 1 /\ g.from[p] \in Nat
  BY PlaceIs
<1>3. key_num(n) <= M - 1
  <2>1. p # NoPage
    BY <1>1, <1>2 DEF Placed, NodeIds, NoPage
  <2> QED BY <2>1, <1>2 DEF Sizes
<1>4. b = IF a[2] + 1 < Len(n.list) THEN <<p, a[2] + 1>> ELSE <<n.suc_leaf, 1>>
  BY DEF NextPlace
<1>5. ASSUME NEW c \in Places(t, g.nodes)
      PROVE  c[1] \in g.nodes /\ c[2] \in Nat /\ c[2] \in 1 .. key_num(t.node[c[1]])
             /\ g.from[c[1]] \in Nat /\ t.node[c[1]].is_leaf /\ Rank(g, c) \in Int
  <2>1. Rank(g, c) \in 0 .. M * t.num - 1
    BY <1>5, RanksAre
  <2>2. Rank(g, c) \in Int
    BY <2>1
  <2> QED BY <2>2, <1>5, PlaceIs
<1> HIDE DEF p, n, b
<1>6. CASE a[2] < key_num(n)
  <2>1. b = <<p, a[2] + 1>> /\ a[2] + 1 \in 1 .. M /\ a[2] + 1 <= key_num(n)
    BY <1>2, <1>3, <1>4, <1>6
  <2>2. b \in Places(t, g.nodes)
    BY <2>1, <1>2 DEF Places, n
  <2>3. b[1] = p /\ b[2] = a[2] + 1
    BY <2>1
  <2>4. Behind(g, a, b)
    BY <2>3, <1>2 DEF Behind, p
  <2>5. Rank(g, a) < Rank(g, b)
    BY <2>2, <2>4, RanksAre
  <2>6. ASSUME NEW c \in Places(t, g.nodes), Rank(g, a) < Rank(g, c) PROVE Rank(g, b) <= Rank(g, c)
    <3>1. Behind(g, a, c)
      BY <2>6, RanksAre
    <3>4. g.from[p] < g.from[c[1]] \/ (c[1] = p /\ a[2] < c[2])
      BY <3>1 DEF Behind, p
    <3>5. ~ g.from[c[1]] < g.from[p]
      BY <3>4, <1>2, <1>5
    <3>6. ~ (c[1] = p /\ c[2] < a[2] + 1)
      BY <3>4, <1>2, <1>5
    <3>2. ~ Behind(g, c, b)
      BY <3>5, <3>6, <2>3 DEF Behind
    <3>3. ~ Rank(g, c) < Rank(g, b)
      BY <3>2, <2>2, RanksAre
    <3>7. Rank(g, b) \in Int /\ Rank(g, c) \in Int
      BY <2>2, <1>5
    <3> QED BY <3>3, <3>7
  <2> QED BY <2>2, <2>5, <2>6 DEF b
<1>7. CASE ~ a[2] < key_num(n)
  <2> DEFINE q == n.suc_leaf
  <2>1. b = <<q, 1>> /\ a[2] = key_num(n)
    BY <1>2, <1>4, <1>7
  <2>2. IF q = NoPage THEN g.to[p] = g.to[t.root]
        ELSE q \in g.nodes /\ t.node[q].is_leaf /\ g.from[q] = g.to[p]
    BY <1>1, <1>2 DEF Chained, n
  <2>3. g.from[p] < g.to[p] /\ g.from[p] \in Nat /\ g.to[p] \in Nat
    BY <1>1, <1>2 DEF Placed, n
  <2>4. \A c \in Places(t, g.nodes) : c[1] = p => c[2] <= a[2]
    BY <2>1, <1>2, <1>5 DEF n
  <2> HIDE DEF q
  <2>5. CASE q = NoPage
    <3>1. b[1] = NoPage
      BY <2>1, <2>5
    <3>2. ASSUME NEW c \in Places(t, g.nodes) PROVE Rank(g, c) <= Rank(g, a)
      <4>1. g.from[c[1]] < g.to[c[1]] /\ g.to[c[1]] <= g.to[t.root] /\ g.to[c[1]] \in Nat
        BY <1>1, <1>5 DEF Placed
      <4>2. ~ g.from[p] < g.from[c[1]]
        <5>1. c[1] \in g.nodes /\ t.node[c[1]].is_leaf
          BY DEF Places
        <5>2. g.from[p] < g.from[c[1]] => g.to[p] <= g.from[c[1]]
          BY <5>1, <1>1, <1>2, LeavesApart DEF n
        <5>3. g.to[p] = g.to[t.root] /\ g.from[c[1]] \in Nat
          BY <5>1, <2>2, <2>5, <1>1 DEF Placed
        <5> QED BY <5>2, <5>3, <4>1, <2>3
      <4>3. ~ Behind(g, a, c)
        BY <4>2, <2>4, <1>2, <1>5 DEF Behind, p
      <4>4. ~ Rank(g, a) < Rank(g, c)
        BY <4>3, RanksAre
      <4> QED BY <4>4, <1>5
    <3> QED BY <3>1, <3>2 DEF b
  <2>6. CASE q # NoPage
    <3>1. q \in g.nodes /\ t.node[q].is_leaf /\ g.from[q] = g.to[p] /\ g.from[p] < g.from[q]
      BY <2>2, <2>3, <2>6
    <3>2. q # t.root
      BY <3>1, <1>1, <1>2 DEF Placed
    <3>3. key_num(t.node[q]) >= 1
      BY <3>1, <3>2, <1>1 DEF LeavesFull
    <3>4. b \in Places(t, g.nodes) /\ b[1] = q /\ b[2] = 1
      BY <2>1, <3>1, <3>3 DEF Places
    <3>5. Behind(g, a, b)
      BY <3>1, <3>4, <1>2 DEF Behind, p
    <3>6. Rank(g, a) < Rank(g, b)
      BY <3>4, <3>5, RanksAre
    <3>7. ASSUME NEW c \in Places(t, g.nodes), Rank(g, a) < Rank(g, c) PROVE Rank(g, b) <= Rank(g, c)
      <4>1. Behind(g, a, c)
        BY <3>7, RanksAre
      <4>2. g.from[p] < g.from[c[1]]
        BY <4>1, <2>4, <1>2, <1>5 DEF Behind, p
      <4>5. g.from[q] <= g.from[c[1]]
        <5>1. c[1] \in g.nodes /\ t.node[c[1]].is_leaf
          BY DEF Places
        <5>2. g.to[p] <= g.from[c[1]]
          BY <5>1, <4>2, <1>1, <1>2, LeavesApart DEF n
        <5> QED BY <5>2, <3>1
      <4>3. ~ Behind(g, c, b)
        <5>1. c[2] \in Nat \ {0} /\ g.from[q] \in Nat /\ g.from[c[1]] \in Nat
          BY <3>4, <1>5
        <5> QED BY <5>1, <4>5, <3>4 DEF Behind
      <4>4. ~ Rank(g, c) < Rank(g, b)
        BY <4>3, <3>4, RanksAre
      <4> QED BY <4>4, <3>4, <1>5
    <3> QED BY <3>4, <3>6, <3>7 DEF b
  <2> QED BY <2>5, <2>6
<1> QED BY <1>6, <1>7

\* Where a search starts: the places from there on are those with a key as large.
LEMMA StartIs ==
  ASSUME NEW t, NEW g, NEW strict, Shape(t, g, strict), Fits(t, g), Sizes(t, g, NoPage),
         NEW key \in 0 .. INDEX_KEY_MAX - 1,
         NEW a, a = location_at(t, key)
  PROVE  /\ a[1] \in g.nodes /\ t.node[a[1]].is_leaf /\ a[2] \in 1 .. Len(t.node[a[1]].list)
         /\ Len(t.node[a[1]].list) = key_num(t.node[a[1]]) + 1 /\ key_num(t.node[a[1]]) \in Nat
         /\ a = <<a[1], a[2]>>
         /\ t.node[a[1]].list[Len(t.node[a[1]].list)].key = INDEX_KEY_MAX
         /\ a[2] <= key_num(t.node[a[1]])
              => /\ a \in Places(t, g.nodes)
                 /\ \A c \in Places(t, g.nodes) : PairAt(t, c).key >= key <=> Rank(g, a) <= Rank(g, c)
         /\ a[2] > key_num(t.node[a[1]]) /\ ~ strict
              => \A c \in Places(t, g.nodes) : ~ PairAt(t, c).key >= key
<1> USE IndexFileAssumption
<1> DEFINE p == LeafFor(t, key)
           n == t.node[p]
           i == FirstFrom(n, key)
<1>1. /\ Placed(t, g) /\ InOrder(t, g) /\ AllKeysBetween(t, g, strict) /\ AllHaveChildren(t, g)
      /\ LeavesFull(t, g, strict) /\ g.lev[t.root] < t.num /\ key \in 0 .. INDEX_KEY_MAX
  BY DEF Shape, Fits
<1>2. p \in g.nodes /\ n.is_leaf /\ g.lo[p] < key /\ key <= g.hi[p]
  BY <1>1, LeafForIs
<1> HIDE DEF p
<1>3. n \in Node /\ Len(n.list) \in Nat \ {0}
      /\ \A j \in 1 .. Len(n.list) : n.list[j].key \in 0 .. INDEX_KEY_MAX
  BY <1>1, <1>2, NodeIs
<1>4. KeysBetween(n.list, n.is_leaf, g.lo[p], g.hi[p], strict)
  BY <1>1, <1>2, Zenon DEF AllKeysBetween
<1>5. i \in 1 .. Len(n.list) /\ n.list[i].key >= key /\ \A j \in 1 .. i - 1 : n.list[j].key < key
  BY <1>1, <1>3, <1>4, FirstFromIs, Zenon DEF KeysBetween
<1>6. key_num(n) = Len(n.list) - 1 /\ key_num(n) \in Nat /\ n.list[Len(n.list)].key = INDEX_KEY_MAX
  BY <1>3, <1>4 DEF key_num, KeysBetween
<1>7. a = <<p, i>>
  BY DEF location_at, p
<1> HIDE DEF i
<1>8. a[1] = p /\ a[2] = i
  BY <1>7
<1>9. g.lo[p] \in Int /\ g.hi[p] \in Int /\ g.hi[p] <= INDEX_KEY_MAX /\ g.from[p] \in Nat
  BY <1>1, <1>2 DEF Placed
<1>10. ASSUME NEW c \in Places(t, g.nodes), g.from[c[1]] < g.from[p] PROVE PairAt(t, c).key < key
  <2>1. /\ c[1] \in g.nodes /\ t.node[c[1]].is_leaf /\ PairAt(t, c).key \in Int /\ g.hi[c[1]] \in Int
        /\ PairAt(t, c).key <= g.hi[c[1]]
    BY PlaceIs
  <2>2. g.hi[c[1]] <= g.lo[p]
    BY <2>1, <1>1, <1>2, <1>10, LeavesApart
  <2> QED BY <2>1, <2>2, <1>2, <1>9
<1>11. ASSUME NEW c \in Places(t, g.nodes), c[1] = p, c[2] < i PROVE PairAt(t, c).key < key
  <2>1. c[2] \in 1 .. key_num(t.node[c[1]])
    BY PlaceIs
  <2>2. c[2] \in 1 .. i - 1
    BY <2>1, <1>5, <1>11
  <2> QED BY <2>2, <1>5, <1>11, Zenon DEF PairAt
<1>12. ASSUME i <= key_num(n)
       PROVE  /\ a \in Places(t, g.nodes)
              /\ \A c \in Places(t, g.nodes) : PairAt(t, c).key >= key <=> Rank(g, a) <= Rank(g, c)
  <2>1. key_num(n) <= M - 1
    <3>1. p # NoPage
      BY <1>1, <1>2 DEF Placed, NodeIds, NoPage
    <3> QED BY <3>1, <1>2 DEF Sizes
  <2>2. i \in 1 .. M
    BY <2>1, <1>5, <1>6, <1>12
  <2>3. a \in Places(t, g.nodes)
    <3> HIDE DEF n
    <3> QED BY <2>2, <1>2, <1>7, <1>12 DEF Places, n
  <2>4. PairAt(t, a).key >= key /\ PairAt(t, a).key \in Int
    BY <1>3, <1>5, <1>8 DEF PairAt
  <2>5. ASSUME NEW c \in Places(t, g.nodes)
        PROVE  PairAt(t, c).key >= key <=> Rank(g, a) <= Rank(g, c)
    <3>1. PairAt(t, c).key \in Int
      BY PlaceIs
    <3>2. Rank(g, a) \in 0 .. M * t.num - 1 /\ Rank(g, c) \in 0 .. M * t.num - 1
      BY <2>3, RanksAre
    <3>3. Rank(g, a) \in Int /\ Rank(g, c) \in Int
      BY <3>2
    <3>4. Rank(g, a) <= Rank(g, c) => PairAt(t, a).key <= PairAt(t, c).key
      BY <2>3, RanksAre
    <3>5. Rank(g, c) < Rank(g, a) => PairAt(t, c).key < key
      <4>1. Rank(g, c) < Rank(g, a) <=> Behind(g, c, a)
        BY <2>3, RanksAre
      <4>2. Behind(g, c, a) => g.from[c[1]] < g.from[p] \/ (c[1] = p /\ c[2] < i)
        BY <1>8 DEF Behind
      <4> QED BY <4>1, <4>2, <1>10, <1>11
    <3> QED BY <3>1, <3>3, <3>4, <3>5, <2>4
  <2> QED BY <2>3, <2>5
<1>13. ASSUME i > key_num(n), ~ strict, NEW c \in Places(t, g.nodes) PROVE ~ PairAt(t, c).key >= key
  <2>1. i = Len(n.list)
    BY <1>5, <1>6, <1>13
  <2>2. g.hi[p] = INDEX_KEY_MAX
    <3> SUFFICES ASSUME g.hi[p] # INDEX_KEY_MAX PROVE FALSE
      OBVIOUS
    <3>1. g.hi[p] < INDEX_KEY_MAX
      BY <1>9
    <3>2. key_num(n) >= 1 /\ n.list[key_num(n)].key = g.hi[p]
      BY <3>1, <1>1, <1>2, <1>13 DEF LeavesFull
    <3>3. key_num(n) \in 1 .. i - 1
      BY <3>2, <2>1, <1>6, <1>3
    <3>4. n.list[key_num(n)].key < key
      BY <3>3, <1>5, Zenon
    <3> QED BY <3>2, <3>4, <1>2, <1>9
  <2>3. /\ c[1] \in g.nodes /\ t.node[c[1]].is_leaf /\ PairAt(t, c).key \in Int
        /\ c[2] \in 1 .. key_num(t.node[c[1]]) /\ g.from[c[1]] \in Nat
    BY PlaceIs
  <2>4. ~ g.from[p] < g.from[c[1]]
    <3>1. g.lo[c[1]] \in Int /\ g.lo[c[1]] <= INDEX_KEY_MAX - 1
      BY <1>1, <2>3 DEF Placed
    <3>2. g.from[p] < g.from[c[1]] => g.hi[p] <= g.lo[c[1]]
      BY <1>1, <1>2, <2>3, LeavesApart
    <3> QED BY <3>1, <3>2, <2>2
  <2>5. g.from[c[1]] = g.from[p] => c[1] = p
    BY <1>1, <1>2, <2>3, LeavesApart
  <2>6. g.from[c[1]] < g.from[p] \/ (c[1] = p /\ c[2] < i)
    <3>1. c[1] = p => c[2] < i
      BY <2>1, <2>3, <1>6, <1>3
    <3> QED BY <3>1, <2>3, <2>4, <2>5, <1>9
  <2> QED BY <2>3, <2>6, <1>10, <1>11
<1>14. /\ a[1] \in g.nodes /\ t.node[a[1]].is_leaf /\ a[2] \in 1 .. Len(t.node[a[1]].list)
       /\ Len(t.node[a[1]].list) = key_num(t.node[a[1]]) + 1 /\ key_num(t.node[a[1]]) \in Nat
       /\ a = <<a[1], a[2]>>
       /\ t.node[a[1]].list[Len(t.node[a[1]].list)].key = INDEX_KEY_MAX
  BY <1>2, <1>3, <1>5, <1>6, <1>7, <1>8
<1>15. t.node[a[1]] = n
  BY <1>8
<1> QED BY <1>8, <1>12, <1>13, <1>14, <1>15
-----------------------------------------------------------------------------
\* What a search finds: the places with the keys of its range, from left to right.
Found(t, g, found, lower, upper) ==
  /\ \E m \in Nat : DOMAIN found = 1 .. m
  /\ \A k \in DOMAIN found : /\ found[k] \in Places(t, g.nodes)
                             /\ lower <= PairAt(t, found[k]).key /\ PairAt(t, found[k]).key <= upper
  /\ \A c \in Places(t, g.nodes) : lower <= PairAt(t, c).key /\ PairAt(t, c).key <= upper
       => \E k \in DOMAIN found : c = found[k]
  /\ \A i, j \in DOMAIN found : i < j => Rank(g, found[i]) < Rank(g, found[j])

\* A search finds the places of its range, from left to right.
LEMMA SearchIs ==
  ASSUME NEW t, NEW g, NEW strict, Shape(t, g, strict), Fits(t, g), Sizes(t, g, NoPage),
         NEW lower \in 0 .. INDEX_KEY_MAX - 1, NEW upper \in 0 .. INDEX_KEY_MAX - 1,
         LET a == location_at(t, lower) IN ~ strict \/ a[2] <= key_num(t.node[a[1]])
  PROVE  Found(t, g, search(t, lower, upper), lower, upper)
<1> USE IndexFileAssumption
<1> DEFINE n    == M * t.num
           x    == location_at(t, lower)
           next == [at \in (0 .. MaxPages) \X (1 .. M) |-> NextPlace(t, at)]
           at   == Rounds(next, x, n)
           ends(k) == at[k][1] = NoPage \/ PairAt(t, at[k]).key > upper
           X    == Places(t, g.nodes)
           R    == [a \in X |-> Rank(g, a)]
           Above == {a \in X : PairAt(t, a).key > upper}
           IsFound(m) == ends(m) /\ \A k \in 0 .. m - 1 : ~ ends(k)
           found == CHOOSE m \in 0 .. n : IsFound(m)
           result == [k \in 1 .. found |-> at[k - 1]]
<1>1. n \in Nat /\ g.nodes \subseteq 1 .. MaxPages
  <2>1. t.num \in Nat /\ t.num + 1 \in Nat /\ t.num < t.num + 1 /\ M \in Nat
        /\ g.nodes \subseteq 1 .. MaxPages
    BY DEF Shape, Placed, Trees, NodeIds
  <2> QED BY <2>1, FactorApart
<1>2. search(t, lower, upper) = result
  BY DEF search
<1>3. /\ x[1] \in g.nodes /\ x = <<x[1], x[2]>> /\ x[2] \in 1 .. Len(t.node[x[1]].list)
      /\ Len(t.node[x[1]].list) = key_num(t.node[x[1]]) + 1 /\ key_num(t.node[x[1]]) \in Nat
      /\ t.node[x[1]].list[Len(t.node[x[1]].list)].key = INDEX_KEY_MAX
      /\ x[2] <= key_num(t.node[x[1]])
           => x \in X /\ \A c \in X : PairAt(t, c).key >= lower <=> Rank(g, x) <= Rank(g, c)
      /\ x[2] > key_num(t.node[x[1]]) /\ ~ strict => \A c \in X : ~ PairAt(t, c).key >= lower
  <2>1. x = location_at(t, lower)
    OBVIOUS
  <2> HIDE DEF x, n, next, X
  <2>2. /\ x[1] \in g.nodes /\ x = <<x[1], x[2]>> /\ x[2] \in 1 .. Len(t.node[x[1]].list)
        /\ Len(t.node[x[1]].list) = key_num(t.node[x[1]]) + 1 /\ key_num(t.node[x[1]]) \in Nat
        /\ t.node[x[1]].list[Len(t.node[x[1]].list)].key = INDEX_KEY_MAX
    BY <2>1, StartIs, Zenon
  <2>3. x[2] <= key_num(t.node[x[1]])
          => x \in X /\ \A c \in X : PairAt(t, c).key >= lower <=> Rank(g, x) <= Rank(g, c)
    BY <2>1, StartIs DEF X
  <2>4. x[2] > key_num(t.node[x[1]]) /\ ~ strict => \A c \in X : ~ PairAt(t, c).key >= lower
    BY <2>1, StartIs DEF X
  <2> QED BY <2>2, <2>3, <2>4
<1>4. ~ strict \/ x[2] <= key_num(t.node[x[1]])
  OBVIOUS
<1>5. at[0] = x
  <2> HIDE DEF n, x, next
  <2> QED BY ONLY <1>1, RoundsAre
<1>6. \A a \in X : /\ a[1] # NoPage /\ PairAt(t, a).key \in Int
                   /\ next[a] = NextPlace(t, a)
  <2> SUFFICES ASSUME NEW a \in X PROVE a[1] # NoPage /\ PairAt(t, a).key \in Int /\ next[a] = NextPlace(t, a)
    BY Zenon
  <2>1. a[1] \in g.nodes /\ a[2] \in 1 .. M /\ a = <<a[1], a[2]>> /\ PairAt(t, a).key \in Int
    BY PlaceIs
  <2>2. a[1] # NoPage /\ a[1] \in 0 .. MaxPages
    BY <1>1, <2>1 DEF NoPage
  <2>3. a \in (0 .. MaxPages) \X (1 .. M)
    BY <2>1, <2>2
  <2> QED BY <2>1, <2>2, <2>3
<1> HIDE DEF x, next, n
<1>7. CASE x[2] > key_num(t.node[x[1]])
  <2>1. x[2] = Len(t.node[x[1]].list)
    BY <1>3, <1>7
  <2>2. PairAt(t, x).key = INDEX_KEY_MAX
    BY <2>1, <1>3 DEF PairAt
  <2>3. ends(0)
    BY <2>2, <1>5
  <2> HIDE DEF ends
  <2>4. IsFound(0) /\ 0 \in 0 .. n
    BY <2>3, <1>1
  <2>5. ASSUME NEW m \in 0 .. n, IsFound(m) PROVE m = 0
    <3>1. m # 0 => 0 \in 0 .. m - 1
      BY <1>1
    <3> QED BY <3>1, <2>3, <2>5
  <2>6. found = 0
    <3> HIDE DEF IsFound
    <3> QED BY <2>4, <2>5
  <2>7. DOMAIN result = 1 .. 0
    BY <2>6, Zenon
  <2>8. DOMAIN result = {} /\ \E m \in Nat : DOMAIN result = 1 .. m
    <3>1. 1 .. 0 = {} /\ 0 \in Nat
      OBVIOUS
    <3> HIDE DEF result
    <3> QED BY <2>7, <3>1
  <2>9. \A c \in X : ~ lower <= PairAt(t, c).key
    BY <1>3, <1>4, <1>6, <1>7
  <2> HIDE DEF result, X
  <2>10. Found(t, g, result, lower, upper)
    BY <2>8, <2>9 DEF Found, X
  <2> QED BY <2>10, <1>2
<1>8. CASE ~ x[2] > key_num(t.node[x[1]])
  <2>1. x \in X /\ \A c \in X : PairAt(t, c).key >= lower <=> Rank(g, x) <= Rank(g, c)
    BY <1>3, <1>8
  <2>2. ASSUME NEW a \in X, NEW c \in X
        PROVE  /\ Rank(g, a) \in 0 .. n - 1 /\ Rank(g, a) \in Int /\ Rank(g, c) \in Int
               /\ Rank(g, a) = Rank(g, c) => a = c
               /\ Rank(g, a) <= Rank(g, c) => PairAt(t, a).key <= PairAt(t, c).key
    <3>1. Rank(g, a) \in 0 .. n - 1 /\ Rank(g, c) \in 0 .. n - 1
      BY RanksAre DEF n
    <3>2. Rank(g, a) = Rank(g, c) => a = c
      BY RanksAre
    <3>3. Rank(g, a) <= Rank(g, c) => PairAt(t, a).key <= PairAt(t, c).key
      BY RanksAre
    <3> QED BY <3>1, <3>2, <3>3, <1>1
  <2>3. \A a \in X : R[a] = Rank(g, a)
    OBVIOUS
  <2>4. R \in [X -> 0 .. n - 1]
    BY <2>2
  <2>5. ASSUME NEW a \in X
        PROVE  \/ /\ next[a] \in X /\ Rank(g, a) < Rank(g, next[a])
                  /\ \A c \in X : Rank(g, a) < Rank(g, c) => Rank(g, next[a]) <= Rank(g, c)
               \/ /\ next[a][1] = NoPage /\ next[a] \notin X
                  /\ \A c \in X : Rank(g, c) <= Rank(g, a)
    <3>1. next[a] = NextPlace(t, a)
      BY <1>6
    <3>2. NextPlace(t, a)[1] = NoPage => NextPlace(t, a) \notin X
      BY <1>6
    <3> HIDE DEF R, Above
    <3> QED BY <3>1, <3>2, NextPlaceIs
  <2>6. Above \in SUBSET X
    OBVIOUS
  <2>7. \A a \in Above, c \in X : R[a] <= R[c] => c \in Above
    <3> SUFFICES ASSUME NEW a \in Above, NEW c \in X, R[a] <= R[c] PROVE c \in Above
      OBVIOUS
    <3>1. a \in X /\ PairAt(t, a).key > upper
      OBVIOUS
    <3>2. PairAt(t, a).key <= PairAt(t, c).key
      BY <3>1, <2>2, <2>3
    <3> QED BY <3>1, <3>2, <1>6
  <2>8. \A a, c \in X : R[a] = R[c] => a = c
    BY <2>2, <2>3
  <2>9. \A a \in X : next[a] \in X
          => R[a] < R[next[a]] /\ \A c \in X : R[a] < R[c] => R[next[a]] <= R[c]
    <3> HIDE DEF R, X, Above
    <3> QED BY <2>3, <2>5
  <2>10. \A a \in X : next[a] \notin X => \A c \in X : R[c] <= R[a]
    <3> HIDE DEF R, X, Above
    <3> QED BY <2>3, <2>5
  <2>11. PICK m \in 0 .. n : Walk(at, m, X, R, Above, x, next)
    <3> HIDE DEF R, X, Above
    <3> QED BY <1>1, <2>1, <2>4, <2>6, <2>7, <2>8, <2>9, <2>10, WalkIs, Zenon
  <2>12. /\ \A k \in 0 .. m - 1 : at[k] \in X \ Above
         /\ at[m] \notin X \ Above
         /\ \A k \in 0 .. m : at[k] \in X \/ \E a \in X : at[k] = next[a]
         /\ \A i \in 0 .. m - 1, j \in 0 .. m - 1 : i < j => R[at[i]] < R[at[j]]
         /\ \A k \in 0 .. m - 1 : R[x] <= R[at[k]]
         /\ \A c \in X \ Above : R[x] <= R[c] => \E k \in 0 .. m - 1 : c = at[k]
    <3> HIDE DEF at, R, X, Above
    <3> QED BY <2>11 DEF Walk
  <2>13. \A k \in 0 .. m - 1 : ~ ends(k)
    <3> SUFFICES ASSUME NEW k \in 0 .. m - 1 PROVE ~ ends(k)
      OBVIOUS
    <3> HIDE DEF at
    <3>1. at[k] \in X /\ at[k] \notin Above
      BY <2>12
    <3> QED BY <3>1, <1>6
  <2>14. ends(m)
    <3> HIDE DEF at
    <3>1. m \in 0 .. m
      OBVIOUS
    <3>2. CASE at[m] \in X
      <4>1. at[m] \in Above
        BY <3>2, <2>12
      <4> QED BY <4>1
    <3>3. CASE at[m] \notin X
      <4>1. PICK a \in X : at[m] = next[a]
        BY <3>1, <3>3, <2>12
      <4>2. next[a][1] = NoPage
        <5> HIDE DEF X
        <5> QED BY <4>1, <3>3, <2>5
      <4> QED BY <4>1, <4>2
    <3> QED BY <3>2, <3>3
  <2> HIDE DEF ends
  <2>15. IsFound(m)
    BY <2>13, <2>14
  <2>16. ASSUME NEW k \in 0 .. n, IsFound(k) PROVE k = m
    <3>1. k < m => k \in 0 .. m - 1
      BY <1>1
    <3>2. m < k => m \in 0 .. k - 1
      BY <1>1
    <3> QED BY <3>1, <3>2, <2>15, <2>16, <1>1
  <2>17. found = m
    <3> HIDE DEF IsFound
    <3> QED BY <2>15, <2>16
  <2>18. m \in Nat /\ DOMAIN result = 1 .. m /\ \A k \in 1 .. m : result[k] = at[k - 1]
    <3>1. m \in Nat
      BY <1>1
    <3> HIDE DEF at, found
    <3>2. result = [k \in 1 .. m |-> at[k - 1]]
      BY <2>17
    <3> HIDE DEF result
    <3> QED BY <3>1, <3>2
  <2>20. \A k \in 1 .. m : k - 1 \in 0 .. m - 1
    BY <2>18
  <2> HIDE DEF result, at, R, found
  <2>19. ASSUME NEW k \in DOMAIN result
         PROVE  /\ result[k] \in X
                /\ lower <= PairAt(t, result[k]).key /\ PairAt(t, result[k]).key <= upper
    <3>1. k \in 1 .. m /\ k - 1 \in 0 .. m - 1 /\ result[k] = at[k - 1]
      BY <2>18, <2>19, <2>20
    <3>2. at[k - 1] \in X /\ at[k - 1] \notin Above /\ R[x] <= R[at[k - 1]]
      BY <3>1, <2>12
    <3>3. PairAt(t, at[k - 1]).key \in Int
      BY <3>2, <1>6
    <3>4. PairAt(t, at[k - 1]).key <= upper
      BY <3>2, <3>3
    <3>5. Rank(g, x) <= Rank(g, at[k - 1])
      BY <3>2, <2>1, <2>3
    <3>6. PairAt(t, at[k - 1]).key >= lower
      BY <3>2, <3>5, <2>1
    <3> QED BY <3>1, <3>2, <3>3, <3>4, <3>6
  <2>21. ASSUME NEW c \in X, lower <= PairAt(t, c).key, PairAt(t, c).key <= upper
         PROVE  \E k \in DOMAIN result : c = result[k]
    <3>1. c \in X \ Above /\ PairAt(t, c).key >= lower
      BY <2>21, <1>6
    <3>2. R[x] <= R[c]
      BY <3>1, <2>1, <2>3
    <3> HIDE DEF X, Above
    <3>3. PICK k \in 0 .. m - 1 : c = at[k]
      BY <3>1, <3>2, <2>12
    <3>4. k + 1 \in 1 .. m /\ (k + 1) - 1 = k
      BY <2>18
    <3>5. result[k + 1] = at[k]
      BY <3>4, <2>18
    <3> QED BY <3>3, <3>4, <3>5, <2>18
  <2>22. ASSUME NEW i \in DOMAIN result, NEW j \in DOMAIN result, i < j
         PROVE  Rank(g, result[i]) < Rank(g, result[j])
    <3>1. i \in 1 .. m /\ j \in 1 .. m /\ i - 1 \in 0 .. m - 1 /\ j - 1 \in 0 .. m - 1 /\ i - 1 < j - 1
      BY <2>18, <2>20, <2>22
    <3>2. R[at[i - 1]] < R[at[j - 1]] /\ at[i - 1] \in X /\ at[j - 1] \in X
      BY <3>1, <2>12
    <3>3. result[i] = at[i - 1] /\ result[j] = at[j - 1]
      BY <3>1, <2>18
    <3> QED BY <3>2, <3>3, <2>3
  <2> HIDE DEF X
  <2>23. Found(t, g, result, lower, upper)
    BY <2>18, <2>19, <2>21, <2>22, Zenon DEF Found, X
  <2> QED BY <2>23, <1>2
<1> QED BY <1>7, <1>8
-----------------------------------------------------------------------------
\* The entries are those at the places of the leaves.
LEMMA EntriesAtPlaces ==
  ASSUME NEW t, NEW g, NEW strict, Shape(t, g, strict), Sizes(t, g, NoPage)
  PROVE  /\ \A a \in Places(t, g.nodes) : EntryAt(t, a[1], a[2]) \in Content(t, g.nodes)
         /\ \A e \in Content(t, g.nodes) : \E a \in Places(t, g.nodes) : e = EntryAt(t, a[1], a[2])
<1> USE IndexFileAssumption
<1>1. Placed(t, g)
  BY DEF Shape
<1>2. ASSUME NEW a \in Places(t, g.nodes) PROVE EntryAt(t, a[1], a[2]) \in Content(t, g.nodes)
  <2>1. a[1] \in g.nodes /\ t.node[a[1]].is_leaf /\ a[2] \in 1 .. key_num(t.node[a[1]])
    BY PlaceIs
  <2>2. EntryAt(t, a[1], a[2]) \in PairsOf(t.node[a[1]])
    BY <2>1 DEF EntryAt, PairsOf
  <2> QED BY <2>1, <2>2 DEF Content
<1>3. ASSUME NEW e \in Content(t, g.nodes)
      PROVE  \E a \in Places(t, g.nodes) : e = EntryAt(t, a[1], a[2])
  <2>1. PICK p \in g.nodes : t.node[p].is_leaf /\ e \in PairsOf(t.node[p])
    BY DEF Content
  <2>2. PICK i \in 1 .. key_num(t.node[p]) : e = EntryAt(t, p, i)
    BY <2>1 DEF PairsOf, EntryAt
  <2>3. key_num(t.node[p]) <= M - 1 /\ key_num(t.node[p]) \in Nat
    <3>1. p # NoPage
      BY <1>1, <2>1 DEF Placed, NodeIds, NoPage
    <3>2. key_num(t.node[p]) \in Nat
      BY <1>1, NodeIs DEF key_num
    <3> QED BY <3>1, <3>2 DEF Sizes
  <2>4. i \in 1 .. M /\ i <= key_num(t.node[p])
    BY <2>3
  <2> DEFINE a == <<p, i>>
  <2>5. a \in Places(t, g.nodes) /\ a[1] = p /\ a[2] = i
    BY <2>1, <2>4 DEF Places
  <2> HIDE DEF a
  <2> QED BY <2>2, <2>5
<1> QED BY <1>2, <1>3

\* The leaf a search for the key of an entry comes to has it.
LEMMA EntryReached ==
  ASSUME NEW t, NEW g, NEW strict, Shape(t, g, strict), Fits(t, g), Sizes(t, g, NoPage),
         NEW c \in Places(t, g.nodes), NEW a, a = location_at(t, PairAt(t, c).key)
  PROVE  /\ a[2] <= key_num(t.node[a[1]])
         /\ strict => a = c
<1> USE IndexFileAssumption
<1> DEFINE key == PairAt(t, c).key
           p == a[1]
           q == c[1]
<1>1. /\ Placed(t, g) /\ InOrder(t, g) /\ AllKeysBetween(t, g, strict) /\ AllHaveChildren(t, g)
      /\ g.lev[t.root] < t.num
  BY DEF Shape, Fits
<1>2. /\ q \in g.nodes /\ c = <<q, c[2]>> /\ t.node[q].is_leaf /\ c[2] \in 1 .. key_num(t.node[q])
      /\ key_num(t.node[q]) \in Nat /\ Len(t.node[q].list) = key_num(t.node[q]) + 1
      /\ g.from[q] \in Nat /\ g.lo[q] \in Int /\ g.hi[q] \in Int
      /\ key \in 0 .. INDEX_KEY_MAX - 1 /\ key <= g.hi[q] /\ (strict => g.lo[q] < key)
  BY PlaceIs
<1> HIDE DEF key
<1>3. /\ p \in g.nodes /\ t.node[p].is_leaf /\ a[2] \in 1 .. Len(t.node[p].list)
      /\ Len(t.node[p].list) = key_num(t.node[p]) + 1 /\ key_num(t.node[p]) \in Nat
      /\ a = <<p, a[2]>>
      /\ a[2] > key_num(t.node[p]) /\ ~ strict => \A e \in Places(t, g.nodes) : ~ PairAt(t, e).key >= key
  <2>1. key \in 0 .. INDEX_KEY_MAX - 1 /\ a = location_at(t, key)
    BY <1>2 DEF key
  <2>2. /\ a[1] \in g.nodes /\ t.node[a[1]].is_leaf /\ a[2] \in 1 .. Len(t.node[a[1]].list)
        /\ Len(t.node[a[1]].list) = key_num(t.node[a[1]]) + 1 /\ key_num(t.node[a[1]]) \in Nat
        /\ a = <<a[1], a[2]>>
    BY <2>1, StartIs
  <2>3. a[2] > key_num(t.node[a[1]]) /\ ~ strict => \A e \in Places(t, g.nodes) : ~ PairAt(t, e).key >= key
    BY <2>1, StartIs
  <2> QED BY <2>2, <2>3
<1>4. p = LeafFor(t, key) /\ a[2] = FirstFrom(t.node[p], key)
  BY DEF location_at, key
<1>5. g.lo[p] < key /\ key <= g.hi[p] /\ g.lo[p] \in Int /\ g.hi[p] \in Int /\ g.from[p] \in Nat
  <2>1. key \in 0 .. INDEX_KEY_MAX
    BY <1>2
  <2>2. g.lo[p] < key /\ key <= g.hi[p]
    BY <2>1, <1>1, <1>4, LeafForIs
  <2>3. g.lo[p] \in -1 .. INDEX_KEY_MAX - 1 /\ g.hi[p] \in 0 .. INDEX_KEY_MAX /\ g.from[p] \in Nat
    BY <1>1, <1>3, Zenon DEF Placed
  <2> HIDE DEF p
  <2> QED BY <2>2, <2>3
<1> HIDE DEF p, q
<1>6. strict => p = q
  <2> SUFFICES ASSUME strict, p # q PROVE FALSE
    OBVIOUS
  <2>1. g.from[p] < g.from[q] \/ g.from[q] < g.from[p]
    <3>1. g.from[p] = g.from[q] => p = q
      BY <1>1, <1>2, <1>3, LeavesApart
    <3> QED BY <3>1, <1>2, <1>5
  <2>2. g.from[p] < g.from[q] => g.hi[p] <= g.lo[q]
    BY <1>1, <1>2, <1>3, LeavesApart
  <2>3. g.from[q] < g.from[p] => g.hi[q] <= g.lo[p]
    BY <1>1, <1>2, <1>3, LeavesApart
  <2>4. /\ g.lo[p] < key /\ key <= g.hi[p] /\ g.lo[p] \in Int /\ g.hi[p] \in Int /\ g.lo[q] \in Int
        /\ g.hi[q] \in Int /\ g.lo[q] < key /\ key <= g.hi[q] /\ key \in Int
    BY <1>2, <1>5
  <2> QED BY ONLY <2>1, <2>2, <2>3, <2>4
<1>7. strict => a[2] = c[2]
  <2> SUFFICES ASSUME strict, a[2] # c[2] PROVE FALSE
    OBVIOUS
  <2>1. p = q
    BY <1>6
  <2> DEFINE list == t.node[p].list
  <2>2. list \in Seq(Pair) /\ t.node[p] \in Node /\ KeysBetween(list, t.node[p].is_leaf, g.lo[p], g.hi[p], strict)
        /\ \A j \in 1 .. Len(list) : list[j].key \in Int
    <3>1. t.node[p] \in Node /\ list \in Seq(Pair) \ {<< >>}
      BY <1>1, <1>3 DEF Placed, Node
    <3> QED BY <3>1, <1>1, <1>3, ListIs, Zenon DEF AllKeysBetween
  <2>3. list[a[2]].key >= key /\ \A j \in 1 .. a[2] - 1 : list[j].key < key
    <3>1. key \in 0 .. INDEX_KEY_MAX
      BY <1>2
    <3>2. t.node[p].list[Len(t.node[p].list)].key = INDEX_KEY_MAX /\ t.node[p] \in Node
      BY <2>2 DEF KeysBetween
    <3>3. /\ t.node[p].list[FirstFrom(t.node[p], key)].key >= key
          /\ \A j \in 1 .. FirstFrom(t.node[p], key) - 1 : t.node[p].list[j].key < key
      <4> HIDE DEF key, list
      <4> QED BY <3>1, <3>2, FirstFromIs, Zenon
    <3> QED BY <3>3, <1>4
  <2>4. list[c[2]].key = key /\ c[2] \in 1 .. Len(list) - 1
    <3>1. list[c[2]].key = key
      BY <2>1 DEF PairAt, key, q
    <3>2. c[2] \in 1 .. key_num(t.node[p])
      BY <2>1, <1>2
    <3> QED BY <3>1, <3>2 DEF key_num
  <2> HIDE DEF list
  <2>5. CASE c[2] < a[2]
    <3>1. c[2] \in 1 .. a[2] - 1
      BY <2>4, <2>5, <1>3
    <3> QED BY <3>1, <2>3, <2>4, <1>2
  <2>6. CASE a[2] < c[2]
    <3>1. a[2] \in 1 .. Len(list) - 1
      BY <2>4, <2>6, <1>3
    <3>2. list[a[2]].key < list[c[2]].key
      BY <3>1, <2>2, <2>4, <2>6, Zenon DEF KeysBetween
    <3>3. list[a[2]].key \in Int /\ key \in Int
      <4>1. a[2] \in 1 .. Len(list)
        BY <3>1, <2>2
      <4> QED BY <4>1, <2>2, <1>2
    <3>4. list[a[2]].key < key /\ list[a[2]].key >= key
      BY <3>2, <2>3, <2>4
    <3> QED BY <3>3, <3>4
  <2> QED BY <2>4, <2>5, <2>6, <1>3
<1>8. strict => a = c
  BY <1>2, <1>3, <1>6, <1>7
<1>9. a[2] <= key_num(t.node[p])
  <2>1. CASE strict
    BY <2>1, <1>2, <1>6, <1>7
  <2>2. CASE ~ strict
    <3>1. key \in Int /\ PairAt(t, c).key >= key
      BY <1>2 DEF key
    <3>2. ~ a[2] > key_num(t.node[p])
      BY <2>2, <3>1, <1>3
    <3> QED BY <3>2, <1>3
  <2> QED BY <2>1, <2>2
<1> QED BY <1>8, <1>9 DEF p

\* A search in such a tree finds the entries of its range.
LEMMA RangeFound ==
  ASSUME NEW g, Shape(Tree, g, distinct), Fits(Tree, g), Sizes(Tree, g, NoPage), Apart(Tree, g.nodes),
         NEW lower \in 0 .. INDEX_KEY_MAX - 1, NEW upper \in 0 .. INDEX_KEY_MAX - 1,
         ~ distinct \/ HasKeyFrom(lower)
  PROVE  FindsRange(Content(Tree, g.nodes), lower, upper)
<1> DEFINE t == Tree
           found == search(t, lower, upper)
           scan == [i \in DOMAIN found |-> <<PairAt(t, found[i]).key, PairAt(t, found[i]).value>>]
           entries == Content(t, g.nodes)
<1>1. Scan(lower, upper) = scan
  BY DEF Scan
<1>2. LET a == location_at(t, lower) IN ~ distinct \/ a[2] <= key_num(t.node[a[1]])
  BY DEF HasKeyFrom, Tree
<1> HIDE DEF t
<1>0. Shape(t, g, distinct) /\ Fits(t, g) /\ Sizes(t, g, NoPage) /\ Apart(t, g.nodes)
  BY DEF t
<1>3. Found(t, g, found, lower, upper)
  BY <1>0, <1>2, SearchIs
<1> HIDE DEF found
<1>4. /\ \A k \in DOMAIN found : /\ found[k] \in Places(t, g.nodes)
                                 /\ lower <= PairAt(t, found[k]).key /\ PairAt(t, found[k]).key <= upper
      /\ \A c \in Places(t, g.nodes) : lower <= PairAt(t, c).key /\ PairAt(t, c).key <= upper
           => \E k \in DOMAIN found : c = found[k]
      /\ \A i, j \in DOMAIN found : i < j => Rank(g, found[i]) < Rank(g, found[j])
  BY <1>3 DEF Found
<1>5. DOMAIN scan = DOMAIN found /\ \A k \in DOMAIN found : scan[k] = EntryAt(t, found[k][1], found[k][2])
  BY DEF EntryAt, PairAt
<1>6. \A a : EntryAt(t, a[1], a[2])[1] = PairAt(t, a).key
  BY DEF EntryAt, PairAt
<1> HIDE DEF scan, entries
<1>7. /\ \A a \in Places(t, g.nodes) : EntryAt(t, a[1], a[2]) \in entries
      /\ \A e \in entries : \E a \in Places(t, g.nodes) : e = EntryAt(t, a[1], a[2])
  BY <1>0, EntriesAtPlaces DEF entries
<1>8. ASSUME NEW e \in ToSet(scan) PROVE e \in entries /\ lower <= e[1] /\ e[1] <= upper
  <2>1. PICK k \in DOMAIN found : e = EntryAt(t, found[k][1], found[k][2])
    BY <1>5, <1>8 DEF ToSet
  <2>2. e[1] = PairAt(t, found[k]).key
    BY <2>1, <1>6, Zenon
  <2> QED BY <2>1, <2>2, <1>4, <1>7
<1>9. ASSUME NEW e \in entries, lower <= e[1], e[1] <= upper PROVE e \in ToSet(scan)
  <2>1. PICK a \in Places(t, g.nodes) : e = EntryAt(t, a[1], a[2])
    BY <1>7
  <2>2. e[1] = PairAt(t, a).key
    BY <2>1, <1>6, Zenon
  <2>3. PICK k \in DOMAIN found : a = found[k]
    BY <2>2, <1>4, <1>9
  <2> QED BY <2>1, <2>3, <1>5 DEF ToSet
<1>10. ASSUME NEW i \in DOMAIN scan, NEW j \in DOMAIN scan, i < j
       PROVE  scan[i][1] <= scan[j][1] /\ scan[i] # scan[j]
  <2> DEFINE a == found[i]
             c == found[j]
  <2>1. a \in Places(t, g.nodes) /\ c \in Places(t, g.nodes) /\ Rank(g, a) < Rank(g, c)
    BY <1>4, <1>5, <1>10
  <2>2. scan[i] = EntryAt(t, a[1], a[2]) /\ scan[j] = EntryAt(t, c[1], c[2])
    BY <1>5, <1>10
  <2> HIDE DEF a, c
  <2>3. Rank(g, a) \in 0 .. M * t.num - 1 /\ Rank(g, c) \in 0 .. M * t.num - 1
    BY <2>1, <1>0, RanksAre
  <2>4. Rank(g, a) <= Rank(g, c) => PairAt(t, a).key <= PairAt(t, c).key
    BY <2>1, <1>0, RanksAre
  <2>5. Rank(g, a) \in Int /\ Rank(g, c) \in Int
    BY <2>3
  <2>10. PairAt(t, a).key <= PairAt(t, c).key
    BY <2>1, <2>4, <2>5
  <2>6. scan[i][1] <= scan[j][1]
    BY <2>2, <2>10, <1>6, Zenon
  <2>7. /\ a[1] \in g.nodes /\ t.node[a[1]].is_leaf /\ a[2] \in 1 .. key_num(t.node[a[1]]) /\ a = <<a[1], a[2]>>
        /\ c[1] \in g.nodes /\ t.node[c[1]].is_leaf /\ c[2] \in 1 .. key_num(t.node[c[1]]) /\ c = <<c[1], c[2]>>
    BY <2>1, <1>0, PlaceIs
  <2>8. EntryAt(t, a[1], a[2]) = EntryAt(t, c[1], c[2]) => a[1] = c[1] /\ a[2] = c[2]
    BY <2>7, <1>0 DEF Apart
  <2>9. scan[i] # scan[j]
    BY <2>1, <2>2, <2>5, <2>7, <2>8
  <2> QED BY <2>6, <2>9
<1>11. ToSet(scan) = {e \in entries : lower <= e[1] /\ e[1] <= upper}
  BY <1>8, <1>9
<1>12. FindsRange(entries, lower, upper)
  BY <1>1, <1>10, <1>11 DEF FindsRange
<1> QED BY <1>12 DEF entries, t
-----------------------------------------------------------------------------
\* The inductive invariant: the pages have the shape of a tree.
Grows(t, g, strict) == Shape(t, g, strict) /\ Fits(t, g) /\ Sizes(t, g, NoPage) /\ Apart(t, g.nodes)

\* In every state the pages hold such a tree, whose entries are records.
IInv ==
  /\ distinct \in BOOLEAN
  /\ Entries \subseteq Keys \X Rids
  /\ \E g : Grows(Tree, g, distinct)

\* The tree is the variables, put together.
LEMMA TreeIs ==
  /\ Tree.root = root_page /\ Tree.num = node_num /\ Tree.node = node
  /\ \A t \in Trees : t = [root |-> t.root, num |-> t.num, node |-> t.node]
  /\ Tree' = [root |-> root_page', num |-> node_num', node |-> node']
<1>1. Tree.root = root_page /\ Tree.num = node_num /\ Tree.node = node
  BY DEF Tree
<1>2. \A t \in Trees : t = [root |-> t.root, num |-> t.num, node |-> t.node]
  BY DEF Trees
<1>3. Tree' = [root |-> root_page', num |-> node_num', node |-> node']
  BY DEF Tree
<1> QED BY <1>1, <1>2, <1>3

\* The empty leaf an index begins with has the shape of a tree.
LEMMA InitGrows == Init => IInv /\ Store!Init
<1> USE IndexFileAssumption
<1> SUFFICES ASSUME Init PROVE IInv /\ Entries = {}
  BY DEF Store!Init
<1> DEFINE t == Tree
           n == NewNode(TRUE, NoPage, << >>, 0)
           g == [nodes |-> {1}, lev |-> [p \in {1} |-> 0], from |-> [p \in {1} |-> 0], to |-> [p \in {1} |-> 1],
                 lo |-> [p \in {1} |-> -1], hi |-> [p \in {1} |-> INDEX_KEY_MAX]]
           list == <<pair(INDEX_KEY_MAX, 0)>>
<1>1. 1 \in NodeIds
  BY DEF NodeIds
<1>2. /\ t.root = 1 /\ t.num = 1 /\ t.node = [p \in NodeIds |-> IF p = 1 THEN n ELSE Nil]
      /\ distinct \in BOOLEAN
  BY TreeIs DEF Init
<1>3. list \in Seq(Pair) \ {<< >>} /\ Len(list) = 1 /\ list[1].key = INDEX_KEY_MAX
  BY DEF pair, Pair
<1>4. n.list = list /\ n.is_leaf = TRUE /\ n.pre_leaf = NoPage /\ n.suc_leaf = NoPage /\ n.parent = NoPage
  BY DEF NewNode
<1>5. n \in Node
  <2>1. Append(<< >>, pair(INDEX_KEY_MAX, 0)) = list
    OBVIOUS
  <2> HIDE DEF list
  <2> QED BY <2>1, <1>3 DEF NewNode, Node, NoPage
<1>6. t \in Trees
  <2>1. t.node \in [NodeIds -> Node \cup {Nil}]
    <3> HIDE DEF n
    <3> QED BY <1>2, <1>5
  <2> QED BY <2>1, <1>1, <1>2 DEF Trees, Tree
<1> HIDE DEF list, n
<1>7. t.node[1] = n
  BY <1>1, <1>2
<1> HIDE DEF t
<1>8. /\ g.nodes = {1} /\ g.lev[1] = 0 /\ g.from[1] = 0 /\ g.to[1] = 1 /\ g.lo[1] = -1
      /\ g.hi[1] = INDEX_KEY_MAX
  OBVIOUS
<1> HIDE DEF g
<1>9. key_num(n) = 0
  BY <1>3, <1>4 DEF key_num
<1>10. Placed(t, g)
  BY <1>1, <1>2, <1>5, <1>6, <1>7, <1>8 DEF Placed
<1>11. AllKeysBetween(t, g, distinct)
  <2>1. KeysBetween(list, n.is_leaf, g.lo[1], g.hi[1], distinct)
    BY <1>3 DEF KeysBetween
  <2> QED BY <2>1, <1>4, <1>7, <1>8 DEF AllKeysBetween
<1>12. AllHaveChildren(t, g) /\ AllAreChildren(t, g) /\ InOrder(t, g)
  BY <1>2, <1>4, <1>7, <1>8 DEF AllHaveChildren, AllAreChildren, InOrder
<1>13. Chained(t, g) /\ LeavesFull(t, g, distinct)
  BY <1>2, <1>4, <1>7, <1>8 DEF Chained, LeavesFull
<1>14. Fits(t, g)
  BY <1>2, <1>8 DEF Fits
<1>15. Sizes(t, g, NoPage)
  BY <1>2, <1>4, <1>7, <1>8, <1>9 DEF Sizes
<1>16. Apart(t, g.nodes)
  BY <1>7, <1>8, <1>9 DEF Apart
<1>17. Shape(t, g, distinct)
  BY <1>10, <1>11, <1>12, <1>13 DEF Shape
<1>18. Grows(t, g, distinct)
  BY <1>14, <1>15, <1>16, <1>17 DEF Grows
<1>19. EntriesOf(t) = Content(t, g.nodes)
  BY <1>14, <1>17, NodesAre
<1>20. Content(t, g.nodes) = {}
  <2>1. PairsOf(n) = {}
    BY <1>9 DEF PairsOf
  <2> QED BY <2>1, <1>7, <1>8 DEF Content
<1>21. Entries = {}
  BY <1>19, <1>20 DEF Entries, t
<1> QED BY <1>2, <1>18, <1>21 DEF IInv, t

\* The step of an insertion keeps the invariant, and adds an entry.
LEMMA InsertKeeps ==
  ASSUME IInv, NEW key \in Keys, Insert(key)
  PROVE  IInv' /\ Store!Insert(Entries, Entries')
<1> USE IndexFileAssumption
<1> DEFINE free == Rids \ {e[2] : e \in Entries}
           rid  == CHOOSE r \in free : \A q \in free : r <= q
           u    == insert_record(Tree, key, rid)
<1>1. /\ 2 * node_num + 1 <= (IF distinct THEN MaxPagesUsed ELSE MaxPages)
      /\ IF distinct THEN \A e \in Entries : e[1] # key ELSE key \in RepeatedKeys
      /\ free # {}
      /\ Become(u)
      /\ distinct' = distinct
  BY DEF Insert
<1>2. rid \in free
  <2>1. free \subseteq Nat
    BY DEF Rids
  <2>2. \E r \in free : \A q \in free : r <= q
    <3> HIDE DEF free
    <3> QED BY <2>1, <1>1, LeastExists, Zenon
  <2> HIDE DEF free
  <2> QED BY <2>2
<1>3. rid \in Rids /\ rid \in Nat /\ \A e \in Entries : e[2] # rid
  <2>1. rid \in Rids /\ \A e \in Entries : e[2] # rid
    <3> DEFINE r == rid
    <3>1. r \in free
      BY <1>2
    <3> HIDE DEF r
    <3>2. r \in Rids /\ \A e \in Entries : e[2] # r
      BY <3>1
    <3> QED BY <3>2 DEF r
  <2> HIDE DEF rid
  <2> QED BY <2>1 DEF Rids
<1> HIDE DEF rid, free, u
<1>4. PICK g : Grows(Tree, g, distinct)
  BY DEF IInv
<1>5. Shape(Tree, g, distinct) /\ Fits(Tree, g) /\ Sizes(Tree, g, NoPage) /\ Apart(Tree, g.nodes)
  BY <1>4 DEF Grows
<1>6. Entries = Content(Tree, g.nodes)
  BY <1>5, NodesAre DEF Entries
<1>7. 2 * Tree.num + 1 <= MaxPages
  <2>1. node_num \in Nat
    BY <1>5, TreeIs DEF Shape, Placed, Trees, NodeIds
  <2> QED BY <2>1, <1>1, TreeIs
<1>8. key \in 0 .. INDEX_KEY_MAX - 1
  OBVIOUS
<1>9. distinct \/ M % 2 = 1
  BY <1>1
<1>10. distinct => \A e \in Content(Tree, g.nodes) : e[1] # key
  BY <1>1, <1>6
<1>11. <<key, rid>> \notin Content(Tree, g.nodes)
  BY <1>3, <1>6
<1>12. PICK h : /\ Shape(u, h, distinct) /\ Sizes(u, h, NoPage) /\ Fits(u, h)
                /\ Content(u, h.nodes) = Content(Tree, g.nodes) \cup {<<key, rid>>}
                /\ Apart(Tree, g.nodes) /\ <<key, rid>> \notin Content(Tree, g.nodes)
                     => Apart(u, h.nodes)
  BY <1>3, <1>5, <1>7, <1>8, <1>9, <1>10, InsertIs DEF u
<1>13. Grows(u, h, distinct)
  BY <1>5, <1>11, <1>12 DEF Grows
<1>14. Tree' = u
  <2>1. u \in Trees
    BY <1>12 DEF Shape, Placed
  <2>2. u = [root |-> u.root, num |-> u.num, node |-> u.node]
    BY <2>1, TreeIs
  <2>3. root_page' = u.root /\ node_num' = u.num /\ node' = u.node
    BY <1>1 DEF Become
  <2> QED BY <2>2, <2>3, TreeIs
<1>15. Entries' = Entries \cup {<<key, rid>>}
  <2>1. EntriesOf(u) = Content(u, h.nodes)
    BY <1>12, NodesAre
  <2>2. Entries' = EntriesOf(u)
    BY <1>14 DEF Entries
  <2> QED BY <2>1, <2>2, <1>6, <1>12
<1>16. IInv'
  <2>1. Grows(Tree', h, distinct')
    BY <1>1, <1>13, <1>14
  <2>2. distinct' \in BOOLEAN
    BY <1>1 DEF IInv
  <2>3. Entries' \subseteq Keys \X Rids
    BY <1>3, <1>15 DEF IInv
  <2> QED BY <2>1, <2>2, <2>3 DEF IInv
<1>17. Store!Insert(Entries, Entries')
  <2> DEFINE e == <<key, rid>>
  <2>1. e \in Keys \X Rids /\ e \notin Entries /\ Entries' = Entries \cup {e}
    BY <1>3, <1>6, <1>11, <1>15
  <2> HIDE DEF e
  <2> QED BY <2>1 DEF Store!Insert
<1> QED BY <1>16, <1>17

\* What the invariant says of the tree.
LEMMA InvariantSays == IInv => TypeOK /\ LinksFollowTree /\ Balanced /\ SearchFindsRange
<1> USE IndexFileAssumption
<1> SUFFICES ASSUME IInv PROVE TypeOK /\ LinksFollowTree /\ Balanced /\ SearchFindsRange
  OBVIOUS
<1>1. PICK g : Grows(Tree, g, distinct)
  BY DEF IInv
<1>2. Shape(Tree, g, distinct) /\ Fits(Tree, g) /\ Sizes(Tree, g, NoPage) /\ Apart(Tree, g.nodes)
  BY <1>1 DEF Grows
<1>3. Entries = Content(Tree, g.nodes) /\ InTree = g.nodes
  BY <1>2, NodesAre DEF Entries, InTree
<1>4. TypeOK
  <2>1. Tree \in Trees /\ distinct \in BOOLEAN
    BY <1>2 DEF Shape, Placed, IInv
  <2> QED BY <2>1, TreeIs DEF TypeOK, Trees
<1>5. LinksFollowTree
  <2>1. Tree.root = root_page /\ Tree.node = node
    BY TreeIs
  <2>2. /\ \A p \in g.nodes : \A c \in Children(Tree, p) : Tree.node[c].parent = p
        /\ \A p \in g.nodes : ~ Tree.node[p].is_leaf
             => \A i \in 1 .. key_num(Tree.node[p]) :
                  LET before == Rightmost(Tree, Tree.node[p].list[i].value)
                      behind == Leftmost(Tree, Tree.node[p].list[i + 1].value)
                  IN  Tree.node[before].suc_leaf = behind /\ Tree.node[behind].pre_leaf = before
        /\ Tree.node[Leftmost(Tree, Tree.root)].pre_leaf = NoPage
        /\ Tree.node[Rightmost(Tree, Tree.root)].suc_leaf = NoPage
    BY <1>2, ShapeLinks, Zenon
  <2> QED BY ONLY <1>3, <2>1, <2>2 DEF LinksFollowTree
<1>6. Balanced
  BY <1>2, <1>3, ShapeBalanced, TreeIs DEF Balanced
<1>7. ASSUME NEW e \in Entries PROVE HasKeyFrom(e[1])
  <2>1. PICK c \in Places(Tree, g.nodes) : e = EntryAt(Tree, c[1], c[2])
    BY <1>2, <1>3, EntriesAtPlaces
  <2>2. e[1] = PairAt(Tree, c).key
    BY <2>1 DEF EntryAt, PairAt
  <2> DEFINE a == location_at(Tree, PairAt(Tree, c).key)
  <2>3. a[2] <= key_num(Tree.node[a[1]])
    BY <1>2, EntryReached
  <2> QED BY <2>2, <2>3, TreeIs DEF HasKeyFrom
<1>8. ASSUME NEW lower \in Keys, NEW upper \in Keys, ~ distinct \/ HasKeyFrom(lower)
      PROVE  FindsRange(Entries, lower, upper)
  <2>1. lower \in 0 .. INDEX_KEY_MAX - 1 /\ upper \in 0 .. INDEX_KEY_MAX - 1
    OBVIOUS
  <2> QED BY <2>1, <1>2, <1>3, <1>8, RangeFound
<1> QED BY <1>4, <1>5, <1>6, <1>7, <1>8 DEF SearchFindsRange

-----------------------------------------------------------------------------
\* The entries of t but the one at place c have moved to the places of u: f tells from where.
Moved(f, t, nodes, u, more, c) ==
  /\ f \in [Places(u, more) -> Places(t, nodes) \ {c}]
  /\ \A a, b \in Places(u, more) : f[a] = f[b] => a = b
  /\ \A b \in Places(t, nodes) \ {c} : \E a \in Places(u, more) : f[a] = b
  /\ \A a \in Places(u, more) : EntryAt(u, a[1], a[2]) = EntryAt(t, f[a][1], f[a][2])

\* No entry is at two places, said of places.
LEMMA PlacesApart ==
  ASSUME NEW t, NEW g, NEW strict, Shape(t, g, strict), Sizes(t, g, NoPage)
  PROVE  Apart(t, g.nodes)
           <=> \A a, b \in Places(t, g.nodes) : EntryAt(t, a[1], a[2]) = EntryAt(t, b[1], b[2]) => a = b
<1> USE IndexFileAssumption
<1>1. \A a \in Places(t, g.nodes) : /\ a[1] \in g.nodes /\ a = <<a[1], a[2]>> /\ t.node[a[1]].is_leaf
                                    /\ a[2] \in 1 .. key_num(t.node[a[1]])
  BY PlaceIs
<1>2. ASSUME NEW p \in g.nodes, t.node[p].is_leaf, NEW i \in 1 .. key_num(t.node[p])
      PROVE  <<p, i>> \in Places(t, g.nodes)
  <2>1. p # NoPage
    BY DEF Shape, Placed, NodeIds, NoPage
  <2>2. key_num(t.node[p]) <= M - 1 /\ key_num(t.node[p]) \in Int
    <3>1. Len(t.node[p].list) \in Nat
      BY NodeIs DEF Shape
    <3> QED BY <2>1, <3>1 DEF Sizes, key_num
  <2>3. i \in 1 .. M
    BY <2>2
  <2> QED BY <1>2, <2>3 DEF Places
<1>3. ASSUME Apart(t, g.nodes), NEW a \in Places(t, g.nodes), NEW b \in Places(t, g.nodes),
             EntryAt(t, a[1], a[2]) = EntryAt(t, b[1], b[2])
      PROVE  a = b
  <2> DEFINE p == a[1]
             i == a[2]
             q == b[1]
             j == b[2]
  <2>1. /\ p \in g.nodes /\ a = <<p, i>> /\ t.node[p].is_leaf /\ i \in 1 .. key_num(t.node[p])
        /\ q \in g.nodes /\ b = <<q, j>> /\ t.node[q].is_leaf /\ j \in 1 .. key_num(t.node[q])
        /\ EntryAt(t, p, i) = EntryAt(t, q, j)
    BY <1>1, <1>3
  <2> HIDE DEF p, i, q, j
  <2>2. p = q /\ i = j
    BY <2>1, <1>3 DEF Apart
  <2> QED BY <2>1, <2>2
<1>4. ASSUME \A a, b \in Places(t, g.nodes) : EntryAt(t, a[1], a[2]) = EntryAt(t, b[1], b[2]) => a = b,
             NEW p \in g.nodes, t.node[p].is_leaf, NEW i \in 1 .. key_num(t.node[p]),
             NEW q \in g.nodes, t.node[q].is_leaf, NEW j \in 1 .. key_num(t.node[q]),
             EntryAt(t, p, i) = EntryAt(t, q, j)
      PROVE  p = q /\ i = j
  <2> DEFINE a == <<p, i>>
             b == <<q, j>>
  <2>1. a \in Places(t, g.nodes) /\ b \in Places(t, g.nodes)
    BY <1>2, <1>4
  <2>2. EntryAt(t, a[1], a[2]) = EntryAt(t, b[1], b[2])
    BY <1>4
  <2>3. a = b
    <3> HIDE DEF a, b
    <3> QED BY <2>1, <2>2, <1>4
  <2> QED BY <2>3
<1>5. Apart(t, g.nodes) => \A a, b \in Places(t, g.nodes) : EntryAt(t, a[1], a[2]) = EntryAt(t, b[1], b[2]) => a = b
  BY <1>3
<1>6. (\A a, b \in Places(t, g.nodes) : EntryAt(t, a[1], a[2]) = EntryAt(t, b[1], b[2]) => a = b) => Apart(t, g.nodes)
  BY <1>4 DEF Apart
<1> QED BY <1>5, <1>6

\* Tree u has the entries of t but the one at place c.
LosesEntry(t, nodes, u, more, c) ==
  Content(u, more) = Content(t, nodes) \ {EntryAt(t, c[1], c[2])}

\* Tree u is a tree with the entries of t but the pair at place i of leaf p.
Loses(t, g, u, p, i) ==
  \E h : Grows(u, h, TRUE) /\ Content(u, h.nodes) = Content(t, g.nodes) \ {EntryAt(t, p, i)}

\* A tree whose entries have moved has the others, none of them twice.
LEMMA MovedContent ==
  ASSUME NEW t, NEW g, NEW strict, Shape(t, g, strict), Sizes(t, g, NoPage), Apart(t, g.nodes),
         NEW u, NEW h, Shape(u, h, strict), Sizes(u, h, NoPage),
         NEW c \in Places(t, g.nodes), NEW f, Moved(f, t, g.nodes, u, h.nodes, c)
  PROVE  Apart(u, h.nodes) /\ LosesEntry(t, g.nodes, u, h.nodes, c)
<1> DEFINE X == Places(t, g.nodes)
           Y == Places(u, h.nodes)
           At(a) == EntryAt(t, a[1], a[2])
           Now(a) == EntryAt(u, a[1], a[2])
<1>1. \A a, b \in X : At(a) = At(b) => a = b
  BY PlacesApart
<1>2. /\ \A a \in Y : f[a] \in X \ {c}
      /\ \A a, b \in Y : f[a] = f[b] => a = b
      /\ \A b \in X \ {c} : \E a \in Y : f[a] = b
      /\ \A a \in Y : Now(a) = At(f[a])
  BY DEF Moved
<1>3. /\ \A a \in X : At(a) \in Content(t, g.nodes)
      /\ \A e \in Content(t, g.nodes) : \E a \in X : e = At(a)
  BY EntriesAtPlaces
<1>4. /\ \A a \in Y : Now(a) \in Content(u, h.nodes)
      /\ \A e \in Content(u, h.nodes) : \E a \in Y : e = Now(a)
  BY EntriesAtPlaces
<1>5. \A a, b \in Y : Now(a) = Now(b) => a = b
  <2> HIDE DEF X, Y, At, Now
  <2> QED BY <1>1, <1>2
<1>6. Apart(u, h.nodes)
  BY <1>5, PlacesApart
<1>7. c \in X
  OBVIOUS
<1>8. Content(u, h.nodes) = Content(t, g.nodes) \ {At(c)}
  <2> HIDE DEF X, Y, At, Now
  <2>1. ASSUME NEW e \in Content(u, h.nodes) PROVE e \in Content(t, g.nodes) \ {At(c)}
    <3>1. PICK a \in Y : e = Now(a)
      BY <1>4
    <3>2. f[a] \in X /\ f[a] # c /\ e = At(f[a])
      BY <3>1, <1>2
    <3> QED BY <3>2, <1>1, <1>3, <1>7
  <2>2. ASSUME NEW e \in Content(t, g.nodes) \ {At(c)} PROVE e \in Content(u, h.nodes)
    <3>1. PICK b \in X : e = At(b)
      BY <1>3
    <3>2. b \in X \ {c}
      BY <3>1
    <3>3. PICK a \in Y : f[a] = b
      BY <3>2, <1>2
    <3> QED BY <3>1, <3>3, <1>2, <1>4
  <2> QED BY <2>1, <2>2
<1>9. LosesEntry(t, g.nodes, u, h.nodes, c)
  BY <1>8 DEF LosesEntry
<1> QED BY <1>6, <1>9
-----------------------------------------------------------------------------
\* Leaf p is child x of P, which has another: s, the one behind it, and z is x, or, when p
\* is the last, the one before it, and z is x - 1.
Drops(t, g, p, P, s, x, z) ==
  LET n == t.node[P]
  IN  /\ Shape(t, g, TRUE)
      /\ p \in g.nodes \ {t.root} /\ t.node[p].is_leaf /\ P = t.node[p].parent
      /\ x \in DOMAIN n.list /\ Child(n, x) = p /\ key_num(n) >= 1
      /\ \/ x < Len(n.list) /\ z = x /\ s = Child(n, x + 1)
         \/ x = Len(n.list) /\ z = x - 1 /\ s = Child(n, x - 1)

\* Leaf p has left the tree and the chain of leaves, and P has lost the child x and the key z.
Dropped(t, u, nodes, p, P, x, z) ==
  LET up   == t.node[P].list
      list == u.node[P].list
  IN  /\ u \in Trees /\ u.root = t.root /\ u.num = t.num
      /\ \A q \in nodes \ {p} :
            /\ u.node[q] \in Node
            /\ u.node[q].is_leaf <=> t.node[q].is_leaf
            /\ u.node[q].parent = t.node[q].parent
            /\ q # P => u.node[q].list = t.node[q].list
            /\ t.node[q].is_leaf =>
                 /\ u.node[q].suc_leaf = IF q = t.node[p].pre_leaf THEN t.node[p].suc_leaf
                                         ELSE t.node[q].suc_leaf
                 /\ u.node[q].pre_leaf = IF q = t.node[p].suc_leaf THEN t.node[p].pre_leaf
                                         ELSE t.node[q].pre_leaf
      /\ Len(list) = Len(up) - 1
      /\ \A j \in 1 .. Len(up) - 1 : /\ list[j].value = up[IF j < x THEN j ELSE j + 1].value
                                     /\ list[j].key = up[IF j < z THEN j ELSE j + 1].key

\* The place of leaf p goes to its brother s.
Taken(g, h, p, s, x, z) ==
  /\ h.nodes = g.nodes \ {p}
  /\ \A q \in h.nodes : /\ h.lev[q] = g.lev[q]
                        /\ h.from[q] = IF q = s /\ z = x THEN g.from[p] ELSE g.from[q]
                        /\ h.lo[q] = IF q = s /\ z = x THEN g.lo[p] ELSE g.lo[q]
                        /\ h.to[q] = IF q = s /\ z # x THEN g.to[p] ELSE g.to[q]
                        /\ h.hi[q] = IF q = s /\ z # x THEN g.hi[p] ELSE g.hi[q]

\* What is known of a leaf that leaves the tree, and of its parent.
LEMMA DropsIs ==
  ASSUME NEW t, NEW g, NEW p, NEW P, NEW s, NEW x, NEW z, Drops(t, g, p, P, s, x, z)
  PROVE  LET up == t.node[P].list
         IN  /\ p \in g.nodes /\ P \in g.nodes /\ s \in g.nodes
             /\ p # P /\ s # P /\ s # p /\ p # t.root /\ s # t.root
             /\ t.node[p].is_leaf /\ t.node[s].is_leaf /\ ~ t.node[P].is_leaf
             /\ t.node[p].parent = P /\ t.node[s].parent = P
             /\ HasChildren(t, g, P)
             /\ up \in Seq(Pair) \ {<< >>} /\ Len(up) \in Nat /\ Len(up) >= 2
             /\ x \in 1 .. Len(up) /\ z \in 1 .. Len(up) - 1 /\ z \in {x - 1, x}
             /\ z = x => s = up[x + 1].value
             /\ z # x => s = up[x - 1].value /\ x = Len(up)
             /\ \A j \in 1 .. Len(up) : up[j].value = p <=> j = x
<1> USE IndexFileAssumption
<1> DEFINE up == t.node[P].list
<1>1. /\ Placed(t, g) /\ AllHaveChildren(t, g) /\ AllAreChildren(t, g) /\ InOrder(t, g)
      /\ p \in g.nodes \ {t.root} /\ t.node[p].is_leaf /\ P = t.node[p].parent
      /\ x \in DOMAIN up /\ up[x].value = p /\ key_num(t.node[P]) >= 1
  BY DEF Drops, Shape, Child
<1>2. P \in g.nodes /\ ~ t.node[P].is_leaf /\ HasChildren(t, g, P) /\ p # P
  BY <1>1 DEF AllAreChildren, AllHaveChildren
<1>3. up \in Seq(Pair) \ {<< >>}
  BY <1>1, <1>2 DEF Placed, Node
<1>4. Len(up) \in Nat /\ Len(up) >= 2 /\ x \in 1 .. Len(up) /\ DOMAIN up = 1 .. Len(up)
  <2>1. Len(up) - 1 >= 1
    BY <1>1 DEF key_num
  <2>2. Len(up) \in Nat /\ DOMAIN up = 1 .. Len(up)
    <3> HIDE DEF up
    <3> QED BY <1>3, ListIs
  <2>3. x \in DOMAIN up
    BY <1>1
  <2> QED BY <2>1, <2>2, <2>3
<1>5. /\ \A j \in 1 .. Len(up) : /\ up[j].value \in g.nodes /\ t.node[up[j].value].parent = P
                                 /\ g.lev[up[j].value] + 1 = g.lev[P]
      /\ \A j, k \in 1 .. Len(up) : j < k => g.to[up[j].value] <= g.from[up[k].value]
  BY <1>2, <1>4, Zenon DEF HasChildren, Child
<1>6. \A q \in g.nodes : /\ g.lev[q] \in Nat /\ g.from[q] \in Nat /\ g.to[q] \in Nat
                         /\ g.from[q] < g.to[q]
  BY <1>1 DEF Placed
<1>7. ASSUME NEW j \in 1 .. Len(up), NEW k \in 1 .. Len(up), up[j].value = up[k].value PROVE j = k
  <2>1. ASSUME NEW a \in 1 .. Len(up), NEW b \in 1 .. Len(up), up[a].value = up[b].value PROVE ~ (a < b)
    <3> DEFINE c == up[a].value
    <3>1. c \in g.nodes /\ (a < b => g.to[c] <= g.from[c])
      BY <2>1, <1>5
    <3> HIDE DEF c
    <3> QED BY <3>1, <1>6
  <2>2. ~ (j < k) /\ ~ (k < j)
    BY <2>1, <1>7
  <2> QED BY <2>2, <1>4
<1>8. \E y \in 1 .. Len(up) : y # x /\ s = up[y].value
  <2>1. CASE x < Len(up) /\ s = Child(t.node[P], x + 1)
    <3>1. x + 1 \in 1 .. Len(up) /\ x + 1 # x
      BY <2>1, <1>4
    <3> QED BY <3>1, <2>1 DEF Child
  <2>2. CASE x = Len(up) /\ s = Child(t.node[P], x - 1)
    <3>1. x - 1 \in 1 .. Len(up) /\ x - 1 # x
      BY <2>2, <1>4
    <3> QED BY <3>1, <2>2, Zenon DEF Child
  <2> QED BY <2>1, <2>2, Zenon DEF Drops
<1>9. PICK y \in 1 .. Len(up) : y # x /\ s = up[y].value
  BY <1>8
<1>10. /\ z \in 1 .. Len(up) - 1 /\ z \in {x - 1, x} /\ (z = x => s = up[x + 1].value)
       /\ (z # x => s = up[x - 1].value /\ x = Len(up))
  <2>1. \/ x < Len(up) /\ z = x /\ s = up[x + 1].value
        \/ x = Len(up) /\ z = x - 1 /\ s = up[x - 1].value
    BY DEF Drops, Child
  <2>2. Len(up) \in Nat /\ x \in 1 .. Len(up) /\ Len(up) >= 2
    BY <1>4
  <2>3. CASE x < Len(up) /\ z = x /\ s = up[x + 1].value
    <3>1. z \in 1 .. Len(up) - 1
      BY <2>2, <2>3
    <3> QED BY <3>1, <2>3
  <2>4. CASE x = Len(up) /\ z = x - 1 /\ s = up[x - 1].value
    <3>1. z \in 1 .. Len(up) - 1 /\ z # x
      BY <2>2, <2>4
    <3> QED BY <3>1, <2>4
  <2> QED BY <2>1, <2>3, <2>4
<1> HIDE DEF up
<1>11. s \in g.nodes /\ s # p /\ t.node[s].parent = P /\ g.lev[s] + 1 = g.lev[P] /\ g.lev[p] + 1 = g.lev[P]
  BY <1>1, <1>4, <1>5, <1>7, <1>9
<1>12. t.node[s].is_leaf
  <2>1. g.lev[p] = 0 /\ g.lev[s] = g.lev[p]
    BY <1>1, <1>2, <1>6, <1>11 DEF InOrder
  <2> QED BY <2>1, <1>1, <1>11 DEF InOrder
<1>13. s # t.root
  <2>1. g.lev[P] <= g.lev[t.root]
    <3>1. P # t.root => g.lev[P] < g.lev[t.root]
      BY <1>1, <1>2 DEF Placed
    <3>2. g.lev[P] \in Nat /\ t.root \in g.nodes /\ g.lev[t.root] \in Nat
      BY <1>1, <1>2 DEF Placed
    <3> QED BY <3>1, <3>2
  <2>2. g.lev[s] < g.lev[P] /\ g.lev[s] \in Nat /\ g.lev[P] \in Nat
    BY <1>2, <1>6, <1>11
  <2> QED BY <2>1, <2>2
<1>14. s # P
  BY <1>2, <1>12
<1>15. \A j \in 1 .. Len(up) : up[j].value = p <=> j = x
  BY <1>1, <1>4, <1>7
<1> QED BY <1>1, <1>2, <1>3, <1>4, <1>10, <1>11, <1>12, <1>13, <1>14, <1>15, Zenon DEF up

\* The brother lies next to the leaf, and next to it in the chain.
LEMMA BrotherIs ==
  ASSUME NEW t, NEW g, NEW p, NEW P, NEW s, NEW x, NEW z, Drops(t, g, p, P, s, x, z)
  PROVE  /\ z = x => /\ g.from[s] = g.to[p] /\ g.lo[s] = g.hi[p]
                     /\ t.node[p].suc_leaf = s /\ t.node[s].pre_leaf = p
         /\ z # x => /\ g.from[p] = g.to[s] /\ g.lo[p] = g.hi[s]
                     /\ t.node[p].pre_leaf = s /\ t.node[s].suc_leaf = p
<1> USE IndexFileAssumption
<1> DEFINE up == t.node[P].list
<1>1. /\ p \in g.nodes /\ P \in g.nodes /\ s \in g.nodes
      /\ t.node[p].is_leaf /\ t.node[s].is_leaf /\ HasChildren(t, g, P)
      /\ up \in Seq(Pair) \ {<< >>} /\ Len(up) \in Nat /\ Len(up) >= 2
      /\ x \in 1 .. Len(up) /\ z \in 1 .. Len(up) - 1
      /\ z = x => s = up[x + 1].value
      /\ z # x => s = up[x - 1].value /\ x = Len(up)
      /\ up[x].value = p
  BY DropsIs
<1>2. Placed(t, g) /\ InOrder(t, g) /\ Chained(t, g) /\ DOMAIN up = 1 .. Len(up)
  BY <1>1, ListIs DEF Drops, Shape
<1>3. \A j \in 1 .. Len(up) :
        /\ g.from[up[j].value] = IF j = 1 THEN g.from[P] ELSE g.to[up[j - 1].value]
        /\ g.lo[up[j].value] = IF j = 1 THEN g.lo[P] ELSE up[j - 1].key
        /\ g.hi[up[j].value] = IF j = Len(up) THEN g.hi[P] ELSE up[j].key
  BY <1>1, <1>2, Zenon DEF HasChildren, Child
<1> HIDE DEF up
<1>4. /\ g.from[p] \in Nat /\ g.from[s] \in Nat /\ g.to[p] \in Nat /\ g.to[s] \in Nat
      /\ g.from[p] < g.to[p] /\ g.from[s] < g.to[s] /\ g.to[p] <= g.to[t.root] /\ g.to[s] <= g.to[t.root]
      /\ g.to[t.root] \in Nat
  BY <1>1, <1>2, Zenon DEF Placed
\* Of two leaves next to each other, each is the other's neighbour in the chain.
<1>5. ASSUME NEW a \in g.nodes, NEW b \in g.nodes, t.node[a].is_leaf, t.node[b].is_leaf,
             g.from[b] = g.to[a]
      PROVE  t.node[a].suc_leaf = b /\ t.node[b].pre_leaf = a
  <2>1. /\ g.from[a] \in Nat /\ g.from[b] \in Nat /\ g.to[a] \in Nat /\ g.to[b] \in Nat
        /\ g.from[a] < g.to[a] /\ g.from[b] < g.to[b] /\ g.to[b] <= g.to[t.root]
        /\ g.to[t.root] \in Nat
    BY <1>2 DEF Placed
  <2> DEFINE q == t.node[a].suc_leaf
             r == t.node[b].pre_leaf
  <2>2. /\ q = NoPage => g.to[a] = g.to[t.root]
        /\ q # NoPage => q \in g.nodes /\ t.node[q].is_leaf /\ g.from[q] = g.to[a]
        /\ r = NoPage => g.from[b] = 0
        /\ r # NoPage => r \in g.nodes /\ t.node[r].is_leaf /\ g.to[r] = g.from[b]
    BY <1>2, <1>5 DEF Chained
  <2>3. q # NoPage /\ r # NoPage
    BY <2>1, <2>2, <1>5
  <2> HIDE DEF q, r
  <2>4. q = b
    BY <2>2, <2>3, <1>2, <1>5, LeavesApart
  <2>5. r = a
    BY <2>2, <2>3, <1>2, <1>5, LeavesApart
  <2> QED BY <2>4, <2>5 DEF q, r
<1>6. ASSUME z = x PROVE g.from[s] = g.to[p] /\ g.lo[s] = g.hi[p]
  <2>1. x \in 1 .. Len(up) - 1 /\ x + 1 \in 1 .. Len(up) /\ (x + 1) - 1 = x /\ x + 1 # 1 /\ x # Len(up)
    BY <1>1, <1>6
  <2>2. s = up[x + 1].value
    BY <1>1, <1>6
  <2> QED BY <2>1, <2>2, <1>1, <1>3
<1>7. ASSUME z # x PROVE g.from[p] = g.to[s] /\ g.lo[p] = g.hi[s]
  <2>1. x - 1 \in 1 .. Len(up) /\ x - 1 # Len(up) /\ x # 1
    BY <1>1, <1>7
  <2>2. s = up[x - 1].value
    BY <1>1, <1>7
  <2> QED BY <2>1, <2>2, <1>1, <1>3
<1> QED BY <1>1, <1>5, <1>6, <1>7
-----------------------------------------------------------------------------
\* Where the nodes lie when s has taken the place of p.
LEMMA TakenIs ==
  ASSUME NEW t, NEW g, NEW p, NEW P, NEW s, NEW x, NEW z, Drops(t, g, p, P, s, x, z),
         NEW h, Taken(g, h, p, s, x, z)
  PROVE  /\ h.nodes = g.nodes \ {p} /\ s \in h.nodes /\ P \in h.nodes /\ t.root \in h.nodes
         /\ \A q \in h.nodes : h.lev[q] = g.lev[q]
         /\ \A q \in h.nodes \ {s} : /\ h.from[q] = g.from[q] /\ h.to[q] = g.to[q]
                                     /\ h.lo[q] = g.lo[q] /\ h.hi[q] = g.hi[q]
         /\ z = x => /\ h.from[s] = g.from[p] /\ h.lo[s] = g.lo[p]
                     /\ h.to[s] = g.to[s] /\ h.hi[s] = g.hi[s]
         /\ z # x => /\ h.from[s] = g.from[s] /\ h.lo[s] = g.lo[s]
                     /\ h.to[s] = g.to[p] /\ h.hi[s] = g.hi[p]
         /\ \A q \in g.nodes : /\ g.from[q] \in Nat /\ g.to[q] \in Nat /\ g.from[q] < g.to[q]
                               /\ g.lo[q] \in -1 .. INDEX_KEY_MAX - 1 /\ g.hi[q] \in 0 .. INDEX_KEY_MAX
                               /\ g.lo[q] \in Int /\ g.hi[q] \in Int
                               /\ g.lev[q] \in Nat /\ g.to[q] <= g.to[t.root]
<1> USE IndexFileAssumption
<1>1. /\ p \in g.nodes /\ P \in g.nodes /\ s \in g.nodes /\ p # P /\ s # p /\ p # t.root
  BY DropsIs
<1>2. Placed(t, g)
  BY DEF Drops, Shape
<1>3. /\ h.nodes = g.nodes \ {p}
      /\ \A q \in h.nodes : /\ h.lev[q] = g.lev[q]
                            /\ h.from[q] = IF q = s /\ z = x THEN g.from[p] ELSE g.from[q]
                            /\ h.lo[q] = IF q = s /\ z = x THEN g.lo[p] ELSE g.lo[q]
                            /\ h.to[q] = IF q = s /\ z # x THEN g.to[p] ELSE g.to[q]
                            /\ h.hi[q] = IF q = s /\ z # x THEN g.hi[p] ELSE g.hi[q]
  BY DEF Taken
<1>4. s \in h.nodes /\ P \in h.nodes /\ t.root \in h.nodes
  BY <1>1, <1>2, <1>3 DEF Placed
<1>5. \A q \in g.nodes : /\ g.from[q] \in Nat /\ g.to[q] \in Nat /\ g.from[q] < g.to[q]
                         /\ g.lo[q] \in -1 .. INDEX_KEY_MAX - 1 /\ g.hi[q] \in 0 .. INDEX_KEY_MAX
                         /\ g.lev[q] \in Nat /\ g.to[q] <= g.to[t.root]
  BY <1>2 DEF Placed
<1>6. \A q \in g.nodes : g.lo[q] \in Int /\ g.hi[q] \in Int
  BY <1>5
<1> QED BY <1>3, <1>4, <1>5, <1>6

\* A leaf that leaves the tree leaves each other node in its place ...
LEMMA DropPlaced ==
  ASSUME NEW t, NEW g, NEW p, NEW P, NEW s, NEW x, NEW z, Drops(t, g, p, P, s, x, z),
         NEW u, Dropped(t, u, g.nodes, p, P, x, z), NEW h, Taken(g, h, p, s, x, z)
  PROVE  Placed(u, h)
<1> USE IndexFileAssumption
<1>1. /\ p \in g.nodes /\ s \in g.nodes /\ s # p /\ p # t.root /\ s # t.root
  BY DropsIs
<1>2. /\ Placed(t, g) /\ g.nodes \subseteq NodeIds /\ t.root \in g.nodes
      /\ g.from[t.root] = 0 /\ g.lo[t.root] = -1 /\ g.hi[t.root] = INDEX_KEY_MAX
      /\ \A q \in g.nodes \ {t.root} : g.lev[q] < g.lev[t.root]
  BY DEF Drops, Shape, Placed
<1>3. u \in Trees /\ u.root = t.root /\ \A q \in g.nodes \ {p} : u.node[q] \in Node
  BY DEF Dropped
<1>4. /\ h.nodes = g.nodes \ {p} /\ s \in h.nodes /\ t.root \in h.nodes
      /\ \A q \in h.nodes : h.lev[q] = g.lev[q]
      /\ \A q \in h.nodes \ {s} : /\ h.from[q] = g.from[q] /\ h.to[q] = g.to[q]
                                  /\ h.lo[q] = g.lo[q] /\ h.hi[q] = g.hi[q]
      /\ z = x => /\ h.from[s] = g.from[p] /\ h.lo[s] = g.lo[p]
                  /\ h.to[s] = g.to[s] /\ h.hi[s] = g.hi[s]
      /\ z # x => /\ h.from[s] = g.from[s] /\ h.lo[s] = g.lo[s]
                  /\ h.to[s] = g.to[p] /\ h.hi[s] = g.hi[p]
      /\ \A q \in g.nodes : /\ g.from[q] \in Nat /\ g.to[q] \in Nat /\ g.from[q] < g.to[q]
                            /\ g.lo[q] \in -1 .. INDEX_KEY_MAX - 1 /\ g.hi[q] \in 0 .. INDEX_KEY_MAX
                            /\ g.lev[q] \in Nat /\ g.to[q] <= g.to[t.root]
  BY TakenIs
<1>5. (z = x => g.from[s] = g.to[p]) /\ (z # x => g.from[p] = g.to[s])
  BY BrotherIs
<1>6. /\ h.from[s] \in Nat /\ h.to[s] \in Nat /\ h.from[s] < h.to[s] /\ h.to[s] <= g.to[t.root]
      /\ h.lo[s] \in -1 .. INDEX_KEY_MAX - 1 /\ h.hi[s] \in 0 .. INDEX_KEY_MAX
  <2>1. CASE z = x
    BY <2>1, <1>1, <1>4, <1>5
  <2>2. CASE z # x
    BY <2>2, <1>1, <1>4, <1>5
  <2> QED BY <2>1, <2>2
<1>7. /\ \A q \in h.nodes : /\ h.from[q] \in Nat /\ h.to[q] \in Nat /\ h.from[q] < h.to[q]
                            /\ h.to[q] <= h.to[t.root]
                            /\ h.lo[q] \in -1 .. INDEX_KEY_MAX - 1 /\ h.hi[q] \in 0 .. INDEX_KEY_MAX
      /\ h.from[t.root] = 0 /\ h.lo[t.root] = -1 /\ h.hi[t.root] = INDEX_KEY_MAX
  BY <1>1, <1>2, <1>4, <1>6
<1>8. \A q \in h.nodes : u.node[q] \in Node /\ h.lev[q] \in Nat
  BY <1>3, <1>4
<1>9. \A q \in h.nodes \ {t.root} : h.lev[q] < h.lev[t.root]
  BY <1>2, <1>4
<1>10. h.nodes \subseteq NodeIds /\ u.root \in h.nodes
  BY <1>2, <1>3, <1>4
<1> QED BY <1>3, <1>7, <1>8, <1>9, <1>10 DEF Placed

\* ... the keys between the bounds of their nodes ...
LEMMA DropKeys ==
  ASSUME NEW t, NEW g, NEW p, NEW P, NEW s, NEW x, NEW z, Drops(t, g, p, P, s, x, z),
         NEW u, Dropped(t, u, g.nodes, p, P, x, z), NEW h, Taken(g, h, p, s, x, z)
  PROVE  AllKeysBetween(u, h, TRUE)
<1> USE IndexFileAssumption
<1> DEFINE up == t.node[P].list
           list == u.node[P].list
<1>1. /\ p \in g.nodes /\ s \in g.nodes /\ P \in g.nodes /\ s # p /\ p # P /\ s # P
      /\ ~ t.node[P].is_leaf /\ t.node[s].is_leaf
      /\ up \in Seq(Pair) \ {<< >>} /\ Len(up) \in Nat /\ Len(up) >= 2
      /\ z \in 1 .. Len(up) - 1
  BY DropsIs
<1>2. AllKeysBetween(t, g, TRUE) /\ Placed(t, g)
  BY Zenon DEF Drops, Shape
<1>3. /\ \A q \in g.nodes \ {p} : /\ u.node[q].is_leaf <=> t.node[q].is_leaf
                                  /\ q # P => u.node[q].list = t.node[q].list
      /\ Len(list) = Len(up) - 1
      /\ \A j \in 1 .. Len(up) - 1 : list[j].key = up[IF j < z THEN j ELSE j + 1].key
  BY DEF Dropped
<1>4. /\ h.nodes = g.nodes \ {p} /\ s \in h.nodes
      /\ \A q \in h.nodes \ {s} : h.lo[q] = g.lo[q] /\ h.hi[q] = g.hi[q]
      /\ z = x => h.lo[s] = g.lo[p] /\ h.hi[s] = g.hi[s]
      /\ z # x => h.lo[s] = g.lo[s] /\ h.hi[s] = g.hi[p]
      /\ \A q \in g.nodes : g.lo[q] \in Int /\ g.hi[q] \in Int
  BY TakenIs
<1>5. KeysBetween(list, u.node[P].is_leaf, h.lo[P], h.hi[P], TRUE)
  <2>1. KeysBetween(up, FALSE, g.lo[P], g.hi[P], TRUE)
    <3>1. t.node[P].is_leaf = FALSE
      BY <1>1, <1>2, NodeIs
    <3> QED BY <3>1, <1>1, <1>2, Zenon DEF AllKeysBetween
  <2>2. u.node[P].is_leaf <=> FALSE
    BY <1>1, <1>3
  <2>3. h.lo[P] = g.lo[P] /\ h.hi[P] = g.hi[P]
    BY <1>1, <1>4
  <2> HIDE DEF up, list
  <2> DEFINE v(j) == IF j < z THEN j ELSE j + 1
             n == Len(up) - 1
  <2>4. /\ n \in Nat /\ n >= 1 /\ Len(up) = n + 1 /\ Len(list) = n /\ z \in 1 .. n
        /\ \A j \in 1 .. n : list[j].key = up[v(j)].key
    BY <1>1, <1>3
  <2>5. /\ up[n + 1].key = INDEX_KEY_MAX
        /\ \A i \in 1 .. n : up[i].key < INDEX_KEY_MAX /\ g.lo[P] <= up[i].key /\ up[i].key <= g.hi[P]
                             /\ g.lo[P] < up[i].key /\ up[i].key < g.hi[P]
        /\ \A i, j \in 1 .. n : i < j => up[i].key <= up[j].key /\ up[i].key < up[j].key
    <3>1. Len(up) - 1 = n
      OBVIOUS
    <3> HIDE DEF n
    <3> QED BY <2>1, <2>4, <3>1 DEF KeysBetween
  <2> HIDE DEF n
  <2>6. v(n) = n + 1
    BY <2>4
  <2>7. \A j \in 1 .. n - 1 : v(j) \in 1 .. n
    BY <2>4
  <2>8. \A i, j \in 1 .. n - 1 : i < j => v(i) < v(j)
    BY <2>4
  <2> HIDE DEF v
  <2>9. list[n].key = INDEX_KEY_MAX
    BY <2>4, <2>5, <2>6
  <2>10. \A j \in 1 .. n - 1 : list[j].key = up[v(j)].key
    BY <2>4
  <2> QED BY <2>2, <2>3, <2>4, <2>5, <2>7, <2>8, <2>9, <2>10, Zenon DEF KeysBetween
<1>6. KeysBetween(u.node[s].list, u.node[s].is_leaf, h.lo[s], h.hi[s], TRUE)
  <2> DEFINE L == t.node[s].list
  <2>1. KeysBetween(L, t.node[s].is_leaf, g.lo[s], g.hi[s], TRUE)
    BY <1>1, <1>2, Zenon DEF AllKeysBetween
  <2>2. u.node[s].list = L /\ u.node[s].is_leaf /\ t.node[s].is_leaf
    BY <1>1, <1>3
  <2>3. h.lo[s] <= g.lo[s] /\ g.hi[s] <= h.hi[s]
    <3>1. (z = x => g.lo[s] = g.hi[p]) /\ (z # x => g.lo[p] = g.hi[s])
      BY BrotherIs
    <3>2. g.lo[p] < g.hi[p]
      <4>1. p # t.root /\ t.node[p].is_leaf
        BY DropsIs
      <4>2. key_num(t.node[p]) >= 1
        BY <4>1, <1>1 DEF Drops, Shape, LeavesFull
      <4>3. KeysBetween(t.node[p].list, t.node[p].is_leaf, g.lo[p], g.hi[p], TRUE)
        BY <1>1, <1>2, Zenon DEF AllKeysBetween
      <4>4. Len(t.node[p].list) \in Nat /\ t.node[p].list \in Seq(Pair) \ {<< >>}
        BY <1>1, <1>2, NodeIs
      <4>5. 1 \in 1 .. Len(t.node[p].list) - 1 /\ t.node[p].list[1].key \in Int
        BY <4>2, <4>4, ListIs DEF key_num
      <4>6. g.lo[p] < t.node[p].list[1].key /\ t.node[p].list[1].key <= g.hi[p]
        BY <4>3, <4>5 DEF KeysBetween
      <4> QED BY <4>5, <4>6, <1>1, <1>4
    <3> QED BY <3>1, <3>2, <1>1, <1>4
  <2>4. h.lo[s] \in Int /\ h.hi[s] \in Int /\ g.lo[s] \in Int /\ g.hi[s] \in Int
    BY <1>1, <1>4
  <2>5. L \in Seq(Pair) \ {<< >>}
    BY <1>1, <1>2 DEF Placed, Node
  <2>6. Len(L) \in Nat \ {0} /\ \A i \in 1 .. Len(L) : L[i].key \in Int
    BY <2>5, ListIs
  <2> HIDE DEF L
  <2> QED BY <2>1, <2>2, <2>3, <2>4, <2>6 DEF KeysBetween
<1>7. \A q \in h.nodes \ {s, P} : KeysBetween(u.node[q].list, u.node[q].is_leaf, h.lo[q], h.hi[q], TRUE)
  <2> SUFFICES ASSUME NEW q \in h.nodes \ {s, P}
               PROVE  KeysBetween(u.node[q].list, u.node[q].is_leaf, h.lo[q], h.hi[q], TRUE)
    BY Zenon
  <2>1. KeysBetween(t.node[q].list, t.node[q].is_leaf, g.lo[q], g.hi[q], TRUE)
    BY <1>2, <1>4, Zenon DEF AllKeysBetween
  <2>2. u.node[q].list = t.node[q].list /\ (u.node[q].is_leaf <=> t.node[q].is_leaf)
    BY <1>3, <1>4
  <2>3. h.lo[q] = g.lo[q] /\ h.hi[q] = g.hi[q]
    BY <1>4
  <2> QED BY <2>1, <2>2, <2>3 DEF KeysBetween
<1> QED BY <1>5, <1>6, <1>7, Zenon DEF AllKeysBetween
-----------------------------------------------------------------------------
\* ... the inner nodes their children ...
LEMMA DropChildren ==
  ASSUME NEW t, NEW g, NEW p, NEW P, NEW s, NEW x, NEW z, Drops(t, g, p, P, s, x, z),
         NEW u, Dropped(t, u, g.nodes, p, P, x, z), NEW h, Taken(g, h, p, s, x, z)
  PROVE  AllHaveChildren(u, h)
<1> USE IndexFileAssumption
<1> DEFINE up == t.node[P].list
           list == u.node[P].list
           n == Len(up) - 1
           v(j) == IF j < x THEN j ELSE j + 1
           w(j) == IF j < z THEN j ELSE j + 1
<1>1. /\ p \in g.nodes /\ s \in g.nodes /\ P \in g.nodes /\ s # p /\ p # P /\ s # P
      /\ ~ t.node[P].is_leaf /\ t.node[s].is_leaf /\ t.node[s].parent = P /\ t.node[p].parent = P
      /\ HasChildren(t, g, P)
      /\ up \in Seq(Pair) \ {<< >>} /\ Len(up) \in Nat /\ Len(up) >= 2
      /\ x \in 1 .. Len(up) /\ z \in 1 .. Len(up) - 1 /\ z \in {x - 1, x}
      /\ z = x => s = up[x + 1].value
      /\ z # x => s = up[x - 1].value /\ x = Len(up)
      /\ \A j \in 1 .. Len(up) : up[j].value = p <=> j = x
  BY DropsIs
<1>2. AllHaveChildren(t, g) /\ Placed(t, g)
  BY DEF Drops, Shape
<1>3. /\ \A q \in g.nodes \ {p} : /\ u.node[q] \in Node
                                  /\ u.node[q].is_leaf <=> t.node[q].is_leaf
                                  /\ u.node[q].parent = t.node[q].parent
                                  /\ q # P => u.node[q].list = t.node[q].list
      /\ Len(list) = Len(up) - 1
      /\ \A j \in 1 .. Len(up) - 1 : list[j].value = up[v(j)].value /\ list[j].key = up[w(j)].key
  BY DEF Dropped
<1>4. /\ h.nodes = g.nodes \ {p} /\ s \in h.nodes /\ P \in h.nodes
      /\ \A q \in h.nodes : h.lev[q] = g.lev[q]
      /\ \A q \in h.nodes \ {s} : /\ h.from[q] = g.from[q] /\ h.to[q] = g.to[q]
                                  /\ h.lo[q] = g.lo[q] /\ h.hi[q] = g.hi[q]
      /\ z = x => /\ h.from[s] = g.from[p] /\ h.lo[s] = g.lo[p]
                  /\ h.to[s] = g.to[s] /\ h.hi[s] = g.hi[s]
      /\ z # x => /\ h.from[s] = g.from[s] /\ h.lo[s] = g.lo[s]
                  /\ h.to[s] = g.to[p] /\ h.hi[s] = g.hi[p]
  BY TakenIs
<1>5. ASSUME NEW q \in h.nodes \ {P}, ~ u.node[q].is_leaf PROVE HasChildren(u, h, q)
  <2>1. q \in g.nodes \ {p} /\ q # s /\ ~ t.node[q].is_leaf /\ u.node[q].list = t.node[q].list
    BY <1>1, <1>3, <1>4, <1>5
  <2> DEFINE L == t.node[q].list
  <2>2. HasChildren(t, g, q)
    BY <2>1, <1>2 DEF AllHaveChildren
  <2>3. \A i \in DOMAIN L : L[i].value \in g.nodes /\ t.node[L[i].value].parent = q
    BY <2>2, Zenon DEF HasChildren, Child
  <2>4. \A i \in DOMAIN L : L[i].value \in h.nodes \ {s}
    BY <2>3, <1>1, <1>4, <1>5
  <2>5. /\ \A i \in DOMAIN L :
             /\ g.lev[L[i].value] + 1 = g.lev[q]
             /\ g.from[L[i].value] = IF i = 1 THEN g.from[q] ELSE g.to[L[i - 1].value]
             /\ i = Len(L) => g.to[L[i].value] = g.to[q]
             /\ g.lo[L[i].value] = IF i = 1 THEN g.lo[q] ELSE L[i - 1].key
             /\ g.hi[L[i].value] = IF i = Len(L) THEN g.hi[q] ELSE L[i].key
        /\ \A i, j \in DOMAIN L : i < j => g.to[L[i].value] <= g.from[L[j].value]
    BY <2>2, Zenon DEF HasChildren, Child
  <2>6. L \in Seq(Pair) \ {<< >>} /\ DOMAIN L = 1 .. Len(L) /\ Len(L) \in Nat
    BY <2>1, <1>2, NodeIs DEF Placed, Node
  <2> HIDE DEF L
  <2>7. \A i \in 1 .. Len(L) : i # 1 => i - 1 \in 1 .. Len(L)
    BY <2>6
  <2>8. \A i \in DOMAIN L : /\ h.lev[L[i].value] = g.lev[L[i].value]
                            /\ h.from[L[i].value] = g.from[L[i].value] /\ h.to[L[i].value] = g.to[L[i].value]
                            /\ h.lo[L[i].value] = g.lo[L[i].value] /\ h.hi[L[i].value] = g.hi[L[i].value]
                            /\ u.node[L[i].value].parent = q
    BY <2>3, <2>4, <1>3, <1>4
  <2>9. /\ h.lev[q] = g.lev[q] /\ h.from[q] = g.from[q] /\ h.to[q] = g.to[q]
        /\ h.lo[q] = g.lo[q] /\ h.hi[q] = g.hi[q]
    BY <2>1, <1>4
  <2>10. u.node[q].list = L
    BY <2>1 DEF L
  <2> QED BY <2>4, <2>5, <2>6, <2>7, <2>8, <2>9, <2>10 DEF HasChildren, Child
<1>6. HasChildren(u, h, P)
  <2>1. DOMAIN up = 1 .. Len(up) /\ n \in Nat /\ n >= 1 /\ Len(up) = n + 1
    BY <1>1
  <2>2. /\ \A i \in 1 .. n + 1 :
             /\ up[i].value \in g.nodes /\ t.node[up[i].value].parent = P
             /\ g.lev[up[i].value] + 1 = g.lev[P]
             /\ g.from[up[i].value] = IF i = 1 THEN g.from[P] ELSE g.to[up[i - 1].value]
             /\ i = n + 1 => g.to[up[i].value] = g.to[P]
             /\ g.lo[up[i].value] = IF i = 1 THEN g.lo[P] ELSE up[i - 1].key
             /\ g.hi[up[i].value] = IF i = n + 1 THEN g.hi[P] ELSE up[i].key
        /\ \A i, j \in 1 .. n + 1 : i < j => g.to[up[i].value] <= g.from[up[j].value]
    <3>1. /\ \A i \in 1 .. Len(up) :
               /\ up[i].value \in g.nodes /\ t.node[up[i].value].parent = P
               /\ g.lev[up[i].value] + 1 = g.lev[P]
               /\ g.from[up[i].value] = IF i = 1 THEN g.from[P] ELSE g.to[up[i - 1].value]
               /\ i = Len(up) => g.to[up[i].value] = g.to[P]
               /\ g.lo[up[i].value] = IF i = 1 THEN g.lo[P] ELSE up[i - 1].key
               /\ g.hi[up[i].value] = IF i = Len(up) THEN g.hi[P] ELSE up[i].key
          /\ \A i, j \in 1 .. Len(up) : i < j => g.to[up[i].value] <= g.from[up[j].value]
      <4>1. /\ \A i \in DOMAIN up :
                 /\ up[i].value \in g.nodes /\ t.node[up[i].value].parent = P
                 /\ g.lev[up[i].value] + 1 = g.lev[P]
                 /\ g.from[up[i].value] = IF i = 1 THEN g.from[P] ELSE g.to[up[i - 1].value]
                 /\ i = Len(up) => g.to[up[i].value] = g.to[P]
                 /\ g.lo[up[i].value] = IF i = 1 THEN g.lo[P] ELSE up[i - 1].key
                 /\ g.hi[up[i].value] = IF i = Len(up) THEN g.hi[P] ELSE up[i].key
            /\ \A i, j \in DOMAIN up : i < j => g.to[up[i].value] <= g.from[up[j].value]
        BY <1>1, Zenon DEF HasChildren, Child
      <4>2. DOMAIN up = 1 .. Len(up)
        BY <2>1
      <4> HIDE DEF up
      <4> QED BY <4>1, <4>2, Zenon
    <3>2. Len(up) = n + 1
      BY <2>1
    <3> HIDE DEF n, up
    <3> QED BY <3>1, <3>2
  <2>3. /\ x \in 1 .. n + 1 /\ z \in 1 .. n /\ z \in {x - 1, x}
        /\ z = x => s = up[x + 1].value
        /\ z # x => s = up[x - 1].value /\ x = n + 1
        /\ \A j \in 1 .. n + 1 : up[j].value = p <=> j = x
    BY <1>1, <2>1
  <2>4. Len(list) = n /\ DOMAIN list = 1 .. n
    <3>1. list \in Seq(Pair) \ {<< >>}
      <4>1. u.node[P] \in Node
        BY <1>1, <1>3
      <4> QED BY <4>1 DEF Node
    <3>2. Len(list) = n
      BY <1>3
    <3> HIDE DEF list, n
    <3> QED BY <3>1, <3>2
  <2>5. \A j \in 1 .. n : list[j].value = up[v(j)].value /\ list[j].key = up[w(j)].key
    BY <1>3
  <2> DEFINE c(j) == list[j].value
  <2> HIDE DEF up, list, n
  <2>6. \A j \in 1 .. n : v(j) \in 1 .. n + 1 /\ v(j) # x /\ (j # 1 => v(j) # 1)
    BY <2>1, <2>3
  <2>7. \A i, j \in 1 .. n : i < j => v(i) < v(j)
    BY <2>1, <2>3
  <2>8. \A i \in 1 .. n + 1 : up[i].value = s <=> i = IF z = x THEN x + 1 ELSE x - 1
    <3> DEFINE y == IF z = x THEN x + 1 ELSE x - 1
    <3>1. y \in 1 .. n + 1 /\ up[y].value = s
      BY <2>1, <2>3
    <3> HIDE DEF y
    <3>2. ASSUME NEW i \in 1 .. n + 1, up[i].value = s PROVE i = y
      <4>1. g.from[s] \in Nat /\ g.to[s] \in Nat /\ g.from[s] < g.to[s]
        BY <1>1, TakenIs
      <4>2. i < y => g.to[s] <= g.from[s]
        BY <3>1, <3>2, <2>2
      <4>3. y < i => g.to[s] <= g.from[s]
        BY <3>1, <3>2, <2>2
      <4> QED BY <4>1, <4>2, <4>3, <3>1, <2>1
    <3>3. \A i \in 1 .. n + 1 : up[i].value = s <=> i = y
      BY <3>1, <3>2
    <3> QED BY <3>3 DEF y
  <2>9. ASSUME NEW j \in 1 .. n
        PROVE  /\ c(j) \in h.nodes /\ u.node[c(j)].parent = P /\ h.lev[c(j)] + 1 = h.lev[P]
               /\ h.from[c(j)] = IF j = 1 THEN h.from[P] ELSE h.to[c(j - 1)]
               /\ j = n => h.to[c(j)] = h.to[P]
               /\ h.lo[c(j)] = IF j = 1 THEN h.lo[P] ELSE list[j - 1].key
               /\ h.hi[c(j)] = IF j = n THEN h.hi[P] ELSE list[j].key
    <3> DEFINE i == v(j)
    <3>1. i \in 1 .. n + 1 /\ i # x /\ c(j) = up[i].value /\ list[j].key = up[w(j)].key
      BY <2>5, <2>6
    <3>2. /\ up[i].value \in g.nodes /\ t.node[up[i].value].parent = P
          /\ g.lev[up[i].value] + 1 = g.lev[P] /\ up[i].value # p
          /\ g.from[up[i].value] = IF i = 1 THEN g.from[P] ELSE g.to[up[i - 1].value]
          /\ i = n + 1 => g.to[up[i].value] = g.to[P]
          /\ g.lo[up[i].value] = IF i = 1 THEN g.lo[P] ELSE up[i - 1].key
          /\ g.hi[up[i].value] = IF i = n + 1 THEN g.hi[P] ELSE up[i].key
      BY <3>1, <2>2, <2>3
    <3>3. c(j) \in h.nodes /\ u.node[c(j)].parent = P /\ h.lev[c(j)] + 1 = h.lev[P]
      <4> DEFINE q == c(j)
      <4>1. q \in g.nodes /\ q # p /\ t.node[q].parent = P /\ g.lev[q] + 1 = g.lev[P]
        BY <3>1, <3>2
      <4> HIDE DEF q
      <4>2. q \in h.nodes /\ u.node[q].parent = P /\ h.lev[q] + 1 = h.lev[P]
        BY <4>1, <1>3, <1>4
      <4> QED BY <4>2 DEF q
    <3>4. /\ h.from[P] = g.from[P] /\ h.to[P] = g.to[P] /\ h.lo[P] = g.lo[P] /\ h.hi[P] = g.hi[P]
      BY <1>1, <1>4
    <3>5. j = n => h.to[c(j)] = h.to[P]
      <4> SUFFICES ASSUME j = n PROVE h.to[c(j)] = h.to[P]
        OBVIOUS
      <4>1. CASE z = x
        <5>1. i = n + 1
          BY <4>1, <2>1, <2>3
        <5>2. h.to[c(j)] = g.to[c(j)]
          BY <4>1, <3>3, <1>4
        <5> QED BY <5>1, <5>2, <3>1, <3>2, <3>4
      <4>2. CASE z # x
        <5>1. i = x - 1 /\ x = n + 1 /\ c(j) = s
          BY <4>2, <2>1, <2>3, <3>1
        <5>2. h.to[s] = g.to[p] /\ up[x].value = p
          BY <4>2, <2>3, <1>4
        <5> QED BY <5>1, <5>2, <2>2, <2>3, <3>4
      <4> QED BY <4>1, <4>2
    <3>6. h.hi[c(j)] = IF j = n THEN h.hi[P] ELSE list[j].key
      <4>1. CASE z = x
        <5>1. h.hi[c(j)] = g.hi[c(j)] /\ w(j) = i /\ (i = n + 1 <=> j = n)
          BY <4>1, <3>3, <1>4, <2>1, <2>3
        <5> QED BY <5>1, <3>1, <3>2, <3>4
      <4>2. CASE z # x /\ j = n
        <5>1. i = x - 1 /\ x = n + 1 /\ c(j) = s
          BY <4>2, <2>1, <2>3, <3>1
        <5>2. h.hi[s] = g.hi[p] /\ up[x].value = p
          BY <4>2, <2>3, <1>4
        <5> QED BY <4>2, <5>1, <5>2, <2>2, <2>3, <3>4
      <4>3. CASE z # x /\ j # n
        <5>1. i = j /\ w(j) = j /\ i # n + 1 /\ x = n + 1 /\ i # x - 1
          BY <4>3, <2>1, <2>3
        <5>2. c(j) # s
          BY <4>3, <5>1, <3>1, <2>8
        <5>3. h.hi[c(j)] = g.hi[c(j)]
          BY <5>2, <3>3, <1>4
        <5> QED BY <4>3, <5>1, <5>3, <3>1, <3>2
      <4> QED BY <4>1, <4>2, <4>3
    <3>7. ASSUME j = 1 PROVE h.from[c(j)] = h.from[P] /\ h.lo[c(j)] = h.lo[P]
      <4>1. CASE z = x /\ x = 1
        <5>1. i = 2 /\ c(j) = s
          BY <4>1, <3>1, <3>7, <2>1, <2>3
        <5>2. h.from[s] = g.from[p] /\ h.lo[s] = g.lo[p] /\ up[1].value = p
          BY <4>1, <2>3, <1>4
        <5>3. g.from[up[1].value] = g.from[P] /\ g.lo[up[1].value] = g.lo[P]
          BY <2>1, <2>2
        <5> QED BY <5>1, <5>2, <5>3, <3>4
      <4>2. CASE ~ (z = x /\ x = 1)
        <5>1. i = 1
          BY <4>2, <3>7, <2>1, <2>3
        <5>2. h.from[c(j)] = g.from[c(j)] /\ h.lo[c(j)] = g.lo[c(j)]
          <6>1. CASE z = x
            <7>1. i # x + 1
              BY <5>1, <2>3
            <7>2. c(j) # s
              BY <7>1, <6>1, <3>1, <2>8
            <7> QED BY <7>2, <3>3, <1>4
          <6>2. CASE z # x
            BY <6>2, <3>3, <1>4
          <6> QED BY <6>1, <6>2
        <5> QED BY <5>1, <5>2, <3>1, <3>2, <3>4
      <4> QED BY <4>1, <4>2
    <3>8. ASSUME j # 1 PROVE h.from[c(j)] = h.to[c(j - 1)] /\ h.lo[c(j)] = list[j - 1].key
      <4> DEFINE k == j - 1
                 e == v(k)
      <4>1. k \in 1 .. n
        BY <3>8, <2>1
      <4>2. /\ e \in 1 .. n + 1 /\ e # x /\ c(k) = up[e].value /\ list[k].key = up[w(k)].key
            /\ c(k) \in g.nodes /\ c(k) # p
        BY <4>1, <2>2, <2>3, <2>5, <2>6
      <4>3. c(k) \in h.nodes
        BY <4>2, <1>4
      <4>4. CASE z = x /\ j = x
        <5>1. i = x + 1 /\ e = x - 1 /\ w(k) = x - 1 /\ c(j) = s /\ x # 1 /\ x - 1 \in 1 .. n + 1
          BY <4>4, <3>1, <3>8, <2>1, <2>3
        <5>2. c(k) # s
          BY <5>1, <4>2, <4>4, <2>8
        <5>3. h.from[s] = g.from[p] /\ h.lo[s] = g.lo[p] /\ h.to[c(k)] = g.to[c(k)] /\ up[x].value = p
          BY <5>2, <4>3, <4>4, <2>3, <1>4
        <5>4. g.from[up[x].value] = g.to[up[x - 1].value] /\ g.lo[up[x].value] = up[x - 1].key
          BY <5>1, <2>2, <2>3
        <5> QED BY <5>1, <5>3, <5>4, <4>2
      <4>5. CASE ~ (z = x /\ j = x)
        <5>1. i - 1 = e /\ i # 1 /\ w(k) = e
          <6>1. CASE z = x
            BY <6>1, <4>5, <3>8, <2>1, <2>3
          <6>2. CASE z # x
            <7>1. z = n /\ x = n + 1
              BY <6>2, <2>1, <2>3
            <7> QED BY <7>1, <3>8, <2>1
          <6> QED BY <6>1, <6>2
        <5>2. h.from[c(j)] = g.from[c(j)] /\ h.lo[c(j)] = g.lo[c(j)]
          <6>1. CASE z = x
            <7>1. i # x + 1
              BY <6>1, <4>5, <2>1, <2>3
            <7>2. c(j) # s
              BY <7>1, <6>1, <3>1, <2>8
            <7> QED BY <7>2, <3>3, <1>4
          <6>2. CASE z # x
            BY <6>2, <3>3, <1>4
          <6> QED BY <6>1, <6>2
        <5>3. h.to[c(k)] = g.to[c(k)]
          <6>1. CASE z = x
            BY <6>1, <4>3, <1>4
          <6>2. CASE z # x
            <7>1. e # x - 1
              BY <6>2, <4>1, <2>1, <2>3
            <7>2. c(k) # s
              BY <7>1, <6>2, <4>2, <2>8
            <7> QED BY <7>2, <4>3, <1>4
          <6> QED BY <6>1, <6>2
        <5> QED BY <5>1, <5>2, <5>3, <4>2, <3>1, <3>2
      <4> QED BY <4>4, <4>5
    <3> QED BY <3>3, <3>5, <3>6, <3>7, <3>8
  <2>10. ASSUME NEW i \in 1 .. n, NEW j \in 1 .. n, i < j PROVE h.to[c(i)] <= h.from[c(j)]
    <3> DEFINE a == v(i)
               b == v(j)
    <3>1. /\ a \in 1 .. n + 1 /\ b \in 1 .. n + 1 /\ a < b /\ a # x /\ b # x
          /\ c(i) = up[a].value /\ c(j) = up[b].value
      BY <2>5, <2>6, <2>7, <2>10
    <3>2. /\ c(i) \in g.nodes /\ c(j) \in g.nodes /\ c(i) # p /\ c(j) # p
          /\ g.to[c(i)] <= g.from[c(j)]
      BY <3>1, <2>2, <2>3
    <3>3. c(i) \in h.nodes /\ c(j) \in h.nodes
      BY <3>2, <1>4
    <3>4. CASE z = x /\ c(j) = s
      <4>1. b = x + 1 /\ a < x
        <5>1. up[b].value = s
          BY <3>1, <3>4
        <5>2. b = x + 1
          <6> HIDE DEF a, b, c
          <6> QED BY <5>1, <3>1, <3>4, <2>8
        <5>3. a < b /\ a # x /\ a \in Int /\ x \in Int
          <6>1. a \in 1 .. n + 1 /\ a < b /\ a # x
            BY <3>1
          <6> HIDE DEF a, b
          <6> QED BY <6>1, <2>1, <2>3
        <5> HIDE DEF a, b
        <5> QED BY <5>2, <5>3
      <4>2. g.to[c(i)] <= g.from[p]
        BY <4>1, <3>1, <2>2, <2>3
      <4>3. h.to[c(i)] = g.to[c(i)] /\ h.from[c(j)] = g.from[p]
        BY <3>3, <3>4, <1>4
      <4> QED BY <4>2, <4>3
    <3>5. CASE ~ (z = x /\ c(j) = s)
      <4>1. h.from[c(j)] = g.from[c(j)]
        BY <3>3, <3>5, <1>4
      <4>2. h.to[c(i)] = g.to[c(i)]
        <5>1. CASE z = x
          BY <5>1, <3>3, <1>4
        <5>2. CASE z # x
          <6>1. a # x - 1
            BY <5>2, <3>1, <2>1, <2>3
          <6>2. c(i) # s
            BY <6>1, <5>2, <3>1, <2>8
          <6> QED BY <6>2, <3>3, <1>4
        <5> QED BY <5>1, <5>2
      <4> QED BY <4>1, <4>2, <3>2
    <3> QED BY <3>4, <3>5
  <2> HIDE DEF v, w
  <2> QED BY <2>4, <2>9, <2>10, Zenon DEF HasChildren, Child, list
<1> QED BY <1>5, <1>6 DEF AllHaveChildren
-----------------------------------------------------------------------------
\* ... the other nodes their parents ...
LEMMA DropAreChildren ==
  ASSUME NEW t, NEW g, NEW p, NEW P, NEW s, NEW x, NEW z, Drops(t, g, p, P, s, x, z),
         NEW u, Dropped(t, u, g.nodes, p, P, x, z), NEW h, Taken(g, h, p, s, x, z)
  PROVE  AllAreChildren(u, h)
<1> USE IndexFileAssumption
<1> DEFINE up == t.node[P].list
           list == u.node[P].list
           n == Len(up) - 1
<1>1. /\ p \in g.nodes /\ P \in g.nodes /\ p # P /\ ~ t.node[P].is_leaf /\ t.node[p].is_leaf
      /\ up \in Seq(Pair) \ {<< >>} /\ Len(up) \in Nat /\ Len(up) >= 2
      /\ x \in 1 .. Len(up)
      /\ \A j \in 1 .. Len(up) : up[j].value = p <=> j = x
  BY DropsIs
<1>2. AllAreChildren(t, g) /\ Placed(t, g)
  BY DEF Drops, Shape
<1>3. /\ u.root = t.root
      /\ \A q \in g.nodes \ {p} : /\ u.node[q] \in Node
                                  /\ u.node[q].is_leaf <=> t.node[q].is_leaf
                                  /\ u.node[q].parent = t.node[q].parent
                                  /\ q # P => u.node[q].list = t.node[q].list
      /\ Len(list) = n
      /\ \A j \in 1 .. n : list[j].value = up[IF j < x THEN j ELSE j + 1].value
  BY DEF Dropped
<1>4. h.nodes = g.nodes \ {p}
  BY DEF Taken
<1>5. list \in Seq(Pair) \ {<< >>} /\ n \in Nat /\ Len(up) = n + 1
  <2>1. u.node[P] \in Node
    BY <1>1, <1>3
  <2>2. list \in Seq(Pair) \ {<< >>}
    BY <2>1 DEF Node
  <2> HIDE DEF up, list
  <2> QED BY <2>2, <1>1
<1>6. DOMAIN list = 1 .. n /\ DOMAIN up = 1 .. n + 1
  <2> HIDE DEF up, list, n
  <2> QED BY <1>1, <1>3, <1>5
<1> SUFFICES ASSUME NEW c \in h.nodes \ {u.root}
             PROVE  LET q == u.node[c].parent
                    IN  /\ q \in h.nodes /\ ~ u.node[q].is_leaf
                        /\ \E i \in DOMAIN u.node[q].list : Child(u.node[q], i) = c
  BY DEF AllAreChildren
<1> DEFINE q == t.node[c].parent
<1>7. c \in g.nodes \ {t.root} /\ c # p /\ u.node[c].parent = q
  BY <1>3, <1>4
<1>8. q \in g.nodes /\ ~ t.node[q].is_leaf /\ \E i \in DOMAIN t.node[q].list : t.node[q].list[i].value = c
  BY <1>2, <1>7 DEF AllAreChildren, Child
<1> HIDE DEF q
<1>9. q # p /\ q \in h.nodes /\ ~ u.node[q].is_leaf
  BY <1>1, <1>3, <1>4, <1>8
<1>10. \E i \in DOMAIN u.node[q].list : u.node[q].list[i].value = c
  <2>1. CASE q # P
    BY <2>1, <1>3, <1>8, <1>9
  <2>2. CASE q = P
    <3>1. PICK i \in 1 .. n + 1 : up[i].value = c
      BY <2>2, <1>6, <1>8
    <3> HIDE DEF up, list, n
    <3>2. i # x
      BY <3>1, <1>1, <1>5, <1>7
    <3> DEFINE j == IF i < x THEN i ELSE i - 1
    <3>3. j \in 1 .. n /\ (IF j < x THEN j ELSE j + 1) = i
      BY <3>2, <1>1, <1>5
    <3> HIDE DEF j
    <3>4. list[j].value = c
      BY <3>1, <3>3, <1>3
    <3>5. j \in DOMAIN list
      BY <3>3, <1>6
    <3> QED BY <2>2, <3>4, <3>5 DEF list
  <2> QED BY <2>1, <2>2
<1> QED BY <1>7, <1>9, <1>10 DEF Child

\* ... the nodes of a level side by side ...
LEMMA DropInOrder ==
  ASSUME NEW t, NEW g, NEW p, NEW P, NEW s, NEW x, NEW z, Drops(t, g, p, P, s, x, z),
         NEW u, Dropped(t, u, g.nodes, p, P, x, z), NEW h, Taken(g, h, p, s, x, z)
  PROVE  InOrder(u, h)
<1> USE IndexFileAssumption
<1>1. p \in g.nodes /\ s \in g.nodes /\ s # p /\ t.node[p].is_leaf /\ t.node[s].is_leaf
  BY DropsIs
<1>2. InOrder(t, g)
  BY DEF Drops, Shape
<1>3. \A q \in g.nodes \ {p} : u.node[q].is_leaf <=> t.node[q].is_leaf
  BY DEF Dropped
<1>4. /\ h.nodes = g.nodes \ {p} /\ s \in h.nodes
      /\ \A q \in h.nodes : h.lev[q] = g.lev[q]
      /\ \A q \in h.nodes \ {s} : /\ h.from[q] = g.from[q] /\ h.to[q] = g.to[q]
                                  /\ h.lo[q] = g.lo[q] /\ h.hi[q] = g.hi[q]
      /\ z = x => /\ h.from[s] = g.from[p] /\ h.lo[s] = g.lo[p]
                  /\ h.to[s] = g.to[s] /\ h.hi[s] = g.hi[s]
      /\ z # x => /\ h.from[s] = g.from[s] /\ h.lo[s] = g.lo[s]
                  /\ h.to[s] = g.to[p] /\ h.hi[s] = g.hi[p]
      /\ \A q \in g.nodes : /\ g.from[q] \in Nat /\ g.to[q] \in Nat /\ g.from[q] < g.to[q]
                            /\ g.lo[q] \in Int /\ g.hi[q] \in Int
  BY TakenIs
<1>5. (z = x => g.from[s] = g.to[p]) /\ (z # x => g.from[p] = g.to[s])
  BY BrotherIs
<1>6. /\ \A q \in g.nodes : t.node[q].is_leaf <=> g.lev[q] = 0
      /\ \A q, r \in g.nodes : q # r /\ g.lev[q] = g.lev[r]
           => g.to[q] <= g.from[r] \/ g.to[r] <= g.from[q]
      /\ \A q, r \in g.nodes : g.lev[q] = g.lev[r] /\ g.to[q] <= g.from[r] => g.hi[q] <= g.lo[r]
  BY <1>2 DEF InOrder
<1>7. \A q \in h.nodes : u.node[q].is_leaf <=> h.lev[q] = 0
  BY <1>3, <1>4, <1>6
<1>8. g.lev[p] = 0 /\ g.lev[s] = 0
  BY <1>1, <1>6
\* The other nodes of the level are before both leaves or behind both.
<1>9. ASSUME NEW q \in h.nodes, q # s, h.lev[q] = h.lev[s]
      PROVE  /\ h.to[q] <= h.from[s] \/ h.to[s] <= h.from[q]
             /\ h.to[q] <= h.from[s] => h.hi[q] <= h.lo[s]
             /\ h.to[s] <= h.from[q] => h.hi[s] <= h.lo[q]
  <2>1. q \in g.nodes /\ q # p /\ g.lev[q] = g.lev[s] /\ g.lev[q] = g.lev[p]
    BY <1>4, <1>8, <1>9
  <2>2. /\ g.to[q] <= g.from[s] \/ g.to[s] <= g.from[q]
        /\ g.to[q] <= g.from[p] \/ g.to[p] <= g.from[q]
        /\ g.to[q] <= g.from[s] => g.hi[q] <= g.lo[s]
        /\ g.to[q] <= g.from[p] => g.hi[q] <= g.lo[p]
        /\ g.to[s] <= g.from[q] => g.hi[s] <= g.lo[q]
        /\ g.to[p] <= g.from[q] => g.hi[p] <= g.lo[q]
    BY <2>1, <1>1, <1>6, <1>9
  <2>3. /\ g.from[q] \in Nat /\ g.to[q] \in Nat /\ g.from[q] < g.to[q]
        /\ g.from[p] \in Nat /\ g.to[p] \in Nat /\ g.from[p] < g.to[p]
        /\ g.from[s] \in Nat /\ g.to[s] \in Nat /\ g.from[s] < g.to[s]
    BY <2>1, <1>1, <1>4
  <2>4. h.from[q] = g.from[q] /\ h.to[q] = g.to[q] /\ h.lo[q] = g.lo[q] /\ h.hi[q] = g.hi[q]
    BY <1>4, <1>9
  <2>5. CASE z = x
    BY <2>2, <2>3, <2>4, <2>5, <1>4, <1>5
  <2>6. CASE z # x
    BY <2>2, <2>3, <2>4, <2>6, <1>4, <1>5
  <2> QED BY <2>5, <2>6
<1>10. h.from[s] < h.to[s] /\ h.from[s] \in Nat /\ h.to[s] \in Nat
  <2>1. /\ g.from[p] \in Nat /\ g.to[p] \in Nat /\ g.from[p] < g.to[p]
        /\ g.from[s] \in Nat /\ g.to[s] \in Nat /\ g.from[s] < g.to[s]
    BY <1>1, <1>4
  <2>2. CASE z = x
    BY <2>1, <2>2, <1>4, <1>5
  <2>3. CASE z # x
    BY <2>1, <2>3, <1>4, <1>5
  <2> QED BY <2>2, <2>3
<1>11. ASSUME NEW q \in h.nodes, NEW r \in h.nodes, h.lev[q] = h.lev[r]
       PROVE  /\ q # r => h.to[q] <= h.from[r] \/ h.to[r] <= h.from[q]
              /\ h.to[q] <= h.from[r] => h.hi[q] <= h.lo[r]
  <2>1. CASE q # s /\ r # s
    <3>1. q \in g.nodes /\ r \in g.nodes /\ g.lev[q] = g.lev[r]
      BY <1>4, <1>11
    <3>2. /\ h.from[q] = g.from[q] /\ h.to[q] = g.to[q] /\ h.lo[q] = g.lo[q] /\ h.hi[q] = g.hi[q]
          /\ h.from[r] = g.from[r] /\ h.to[r] = g.to[r] /\ h.lo[r] = g.lo[r] /\ h.hi[r] = g.hi[r]
      BY <2>1, <1>4
    <3> QED BY <3>1, <3>2, <1>6
  <2>2. CASE q = s /\ r = s
    BY <2>2, <1>10
  <2>3. CASE q = s /\ r # s
    BY <2>3, <1>9, <1>11
  <2>4. CASE q # s /\ r = s
    BY <2>4, <1>9, <1>11
  <2> QED BY <2>1, <2>2, <2>3, <2>4
<1> QED BY <1>7, <1>11 DEF InOrder

\* ... the leaves linked from left to right ...
LEMMA DropChained ==
  ASSUME NEW t, NEW g, NEW p, NEW P, NEW s, NEW x, NEW z, Drops(t, g, p, P, s, x, z),
         NEW u, Dropped(t, u, g.nodes, p, P, x, z), NEW h, Taken(g, h, p, s, x, z)
  PROVE  Chained(u, h)
<1> USE IndexFileAssumption
<1> DEFINE root == t.root
           suc(q) == t.node[q].suc_leaf
           pre(q) == t.node[q].pre_leaf
           leaf(q) == t.node[q].is_leaf
<1>1. p \in g.nodes /\ s \in g.nodes /\ s # p /\ leaf(p) /\ leaf(s) /\ p # root /\ s # root
  BY DropsIs
<1>2. Placed(t, g) /\ InOrder(t, g) /\ Chained(t, g)
  BY DEF Drops, Shape
<1>3. /\ u.root = root
      /\ \A q \in g.nodes \ {p} :
            /\ u.node[q].is_leaf <=> leaf(q)
            /\ leaf(q) => /\ u.node[q].suc_leaf = IF q = pre(p) THEN suc(p) ELSE suc(q)
                          /\ u.node[q].pre_leaf = IF q = suc(p) THEN pre(p) ELSE pre(q)
  BY DEF Dropped
<1>4. /\ h.nodes = g.nodes \ {p} /\ s \in h.nodes /\ root \in h.nodes
      /\ \A q \in h.nodes \ {s} : /\ h.from[q] = g.from[q] /\ h.to[q] = g.to[q]
                                  /\ h.lo[q] = g.lo[q] /\ h.hi[q] = g.hi[q]
      /\ z = x => /\ h.from[s] = g.from[p] /\ h.lo[s] = g.lo[p]
                  /\ h.to[s] = g.to[s] /\ h.hi[s] = g.hi[s]
      /\ z # x => /\ h.from[s] = g.from[s] /\ h.lo[s] = g.lo[s]
                  /\ h.to[s] = g.to[p] /\ h.hi[s] = g.hi[p]
      /\ \A q \in g.nodes : g.from[q] \in Nat /\ g.to[q] \in Nat /\ g.from[q] < g.to[q]
                            /\ g.to[q] <= g.to[root]
  BY TakenIs
<1>5. /\ z = x => g.from[s] = g.to[p] /\ g.lo[s] = g.hi[p] /\ suc(p) = s /\ pre(s) = p
      /\ z # x => g.from[p] = g.to[s] /\ g.lo[p] = g.hi[s] /\ pre(p) = s /\ suc(s) = p
  BY BrotherIs
<1>6. h.to[u.root] = g.to[root]
  BY <1>1, <1>3, <1>4
<1>7. \A q \in g.nodes : q # NoPage
  BY <1>2 DEF Placed, NodeIds, NoPage
<1>8. \A q \in g.nodes : leaf(q) =>
          /\ IF suc(q) = NoPage THEN g.to[q] = g.to[root] /\ g.hi[q] = INDEX_KEY_MAX
             ELSE suc(q) \in g.nodes /\ leaf(suc(q)) /\ g.from[suc(q)] = g.to[q] /\ g.lo[suc(q)] = g.hi[q]
          /\ IF pre(q) = NoPage THEN g.from[q] = 0
             ELSE pre(q) \in g.nodes /\ leaf(pre(q)) /\ g.to[pre(q)] = g.from[q]
  BY <1>2 DEF Chained
<1>9. ASSUME NEW q \in g.nodes, NEW r \in g.nodes, leaf(q), leaf(r)
      PROVE  (g.from[q] = g.from[r] => q = r) /\ (g.to[q] = g.to[r] => q = r)
  BY <1>2, <1>9, LeavesApart
\* A link goes to p from its neighbours only, and their links go to them.
<1>10. ASSUME NEW q \in g.nodes, leaf(q) PROVE (suc(q) = p <=> q = pre(p)) /\ (pre(q) = p <=> q = suc(p))
  <2>1. suc(q) = p => q = pre(p)
    <3> SUFFICES ASSUME suc(q) = p PROVE q = pre(p)
      OBVIOUS
    <3>1. g.from[p] = g.to[q]
      BY <1>1, <1>7, <1>8, <1>10
    <3>2. g.from[p] # 0
      BY <3>1, <1>4, <1>10
    <3>3. pre(p) \in g.nodes /\ leaf(pre(p)) /\ g.to[pre(p)] = g.from[p]
      BY <3>2, <1>1, <1>8
    <3> QED BY <3>1, <3>3, <1>9, <1>10
  <2>2. q = pre(p) => suc(q) = p
    <3> SUFFICES ASSUME q = pre(p) PROVE suc(q) = p
      OBVIOUS
    <3>1. g.to[q] = g.from[p]
      BY <1>1, <1>7, <1>8
    <3>2. g.to[q] # g.to[root]
      <4>1. g.from[p] < g.to[p] /\ g.to[p] <= g.to[root] /\ g.from[p] \in Nat /\ g.to[p] \in Nat
            /\ g.to[root] \in Nat
        BY <1>1, <1>4
      <4> QED BY <3>1, <4>1
    <3>3. suc(q) \in g.nodes /\ leaf(suc(q)) /\ g.from[suc(q)] = g.to[q]
      BY <3>2, <1>8, <1>10, Zenon
    <3>4. p \in g.nodes /\ leaf(p) /\ g.from[suc(q)] = g.from[p]
      BY <3>1, <3>3, <1>1
    <3> QED BY <3>3, <3>4, <1>9, Zenon
  <2>3. pre(q) = p => q = suc(p)
    <3> SUFFICES ASSUME pre(q) = p PROVE q = suc(p)
      OBVIOUS
    <3>1. g.to[p] = g.from[q]
      BY <1>1, <1>7, <1>8, <1>10
    <3>2. g.to[p] # g.to[root]
      <4>1. g.from[q] < g.to[q] /\ g.to[q] <= g.to[root] /\ g.from[q] \in Nat /\ g.to[q] \in Nat
            /\ g.to[root] \in Nat
        BY <1>4
      <4> QED BY <3>1, <4>1
    <3>3. suc(p) \in g.nodes /\ leaf(suc(p)) /\ g.from[suc(p)] = g.to[p]
      BY <3>2, <1>1, <1>8
    <3> QED BY <3>1, <3>3, <1>9, <1>10
  <2>4. q = suc(p) => pre(q) = p
    <3> SUFFICES ASSUME q = suc(p) PROVE pre(q) = p
      OBVIOUS
    <3>1. g.from[q] = g.to[p]
      BY <1>1, <1>7, <1>8
    <3>2. g.from[q] # 0
      BY <3>1, <1>1, <1>4
    <3>3. pre(q) \in g.nodes /\ leaf(pre(q)) /\ g.to[pre(q)] = g.from[q]
      BY <3>2, <1>8, <1>10
    <3>4. p \in g.nodes /\ leaf(p) /\ g.to[pre(q)] = g.to[p]
      BY <3>1, <3>3, <1>1
    <3> QED BY <3>3, <3>4, <1>9, Zenon
  <2> QED BY <2>1, <2>2, <2>3, <2>4
\* How far a leaf other than s reaches, and where the leaf behind p begins.
<1>11. ASSUME NEW q \in h.nodes, leaf(q), q # pre(p)
       PROVE  /\ IF suc(q) = NoPage THEN h.to[q] = g.to[root] /\ h.hi[q] = INDEX_KEY_MAX
                 ELSE suc(q) \in h.nodes /\ leaf(suc(q)) /\ h.from[suc(q)] = h.to[q] /\ h.lo[suc(q)] = h.hi[q]
  <2>1. q \in g.nodes /\ suc(q) # p
    BY <1>4, <1>10, <1>11
  <2>2. h.to[q] = g.to[q] /\ h.hi[q] = g.hi[q]
    BY <1>4, <1>5, <1>11
  <2>3. CASE suc(q) = NoPage
    BY <2>1, <2>2, <2>3, <1>8, <1>11
  <2>4. CASE suc(q) # NoPage
    <3> DEFINE r == suc(q)
    <3>1. r \in h.nodes /\ r \in g.nodes /\ leaf(r) /\ g.from[r] = g.to[q] /\ g.lo[r] = g.hi[q]
      BY <2>1, <2>4, <1>4, <1>8, <1>11
    <3>2. r = s => z # x
      <4> SUFFICES ASSUME r = s, z = x PROVE FALSE
        OBVIOUS
      <4>1. g.to[q] = g.to[p]
        BY <3>1, <1>5
      <4>2. q = p
        BY <4>1, <2>1, <1>1, <1>9, <1>11
      <4> QED BY <4>2, <1>4
    <3>3. h.from[r] = g.from[r] /\ h.lo[r] = g.lo[r]
      <4> HIDE DEF r
      <4> QED BY <3>1, <3>2, <1>4
    <3> QED BY <2>2, <2>4, <3>1, <3>3
  <2> QED BY <2>3, <2>4
<1>12. ASSUME NEW q \in h.nodes, leaf(q), q # suc(p)
       PROVE  IF pre(q) = NoPage THEN h.from[q] = 0
              ELSE pre(q) \in h.nodes /\ leaf(pre(q)) /\ h.to[pre(q)] = h.from[q]
  <2>1. q \in g.nodes /\ pre(q) # p
    BY <1>4, <1>10, <1>12
  <2>2. h.from[q] = g.from[q]
    BY <1>4, <1>5, <1>12
  <2>3. CASE pre(q) = NoPage
    BY <2>1, <2>2, <2>3, <1>8, <1>12
  <2>4. CASE pre(q) # NoPage
    <3> DEFINE r == pre(q)
    <3>1. r \in h.nodes /\ r \in g.nodes /\ leaf(r) /\ g.to[r] = g.from[q]
      BY <2>1, <2>4, <1>4, <1>8, <1>12
    <3>2. r = s => z = x
      <4> SUFFICES ASSUME r = s, z # x PROVE FALSE
        OBVIOUS
      <4>1. g.from[q] = g.from[p]
        BY <3>1, <1>5
      <4>2. q = p
        BY <4>1, <2>1, <1>1, <1>9, <1>12
      <4> QED BY <4>2, <1>4
    <3>3. h.to[r] = g.to[r]
      <4> HIDE DEF r
      <4> QED BY <3>1, <3>2, <1>4
    <3> QED BY <2>2, <2>4, <3>1, <3>3
  <2> QED BY <2>3, <2>4
\* The neighbours of p, between which it was.
<1>13. ASSUME NEW q \in h.nodes, leaf(q), q = pre(p)
       PROVE  /\ IF suc(p) = NoPage THEN h.to[q] = g.to[root] /\ h.hi[q] = INDEX_KEY_MAX
                 ELSE suc(p) \in h.nodes /\ leaf(suc(p)) /\ h.from[suc(p)] = h.to[q] /\ h.lo[suc(p)] = h.hi[q]
  <2>1. q \in g.nodes /\ g.to[q] = g.from[p] /\ suc(q) = p /\ g.lo[p] = g.hi[q]
    BY <1>1, <1>4, <1>7, <1>8, <1>10, <1>13
  <2> DEFINE r == suc(p)
  <2>2. /\ r = NoPage => g.to[p] = g.to[root] /\ g.hi[p] = INDEX_KEY_MAX
        /\ r # NoPage => r \in g.nodes /\ leaf(r) /\ g.from[r] = g.to[p] /\ g.lo[r] = g.hi[p]
    BY <1>1, <1>8
  <2>3. r # NoPage => r \in h.nodes
    <3>1. g.from[p] < g.to[p] /\ g.from[p] \in Nat /\ g.to[p] \in Nat
      BY <1>1, <1>4
    <3> HIDE DEF r
    <3>2. r # NoPage => r # p
      BY <2>2, <3>1
    <3> QED BY <2>2, <3>2, <1>4
  <2>4. CASE z = x
    <3>1. r = s
      BY <2>4, <1>5
    <3>2. q # s
      <4>1. /\ g.from[p] < g.to[p] /\ g.from[p] \in Nat /\ g.to[p] \in Nat
            /\ g.from[s] < g.to[s] /\ g.from[s] \in Nat /\ g.to[s] \in Nat
        BY <1>1, <1>4
      <4>2. g.from[s] = g.to[p]
        BY <2>4, <1>5
      <4> QED BY <2>1, <4>1, <4>2
    <3>3. h.to[q] = g.to[q] /\ h.hi[q] = g.hi[q] /\ h.from[s] = g.from[p] /\ h.lo[s] = g.lo[p]
      BY <2>4, <3>2, <1>4, <1>13
    <3>4. s # NoPage
      BY <1>1, <1>7
    <3> QED BY <2>1, <3>1, <3>3, <3>4, <1>1, <1>4
  <2>5. CASE z # x
    <3>1. q = s
      BY <2>5, <1>5, <1>13
    <3>2. h.to[q] = g.to[p] /\ h.hi[q] = g.hi[p]
      BY <2>5, <3>1, <1>4
    <3>3. r # NoPage => r # s
      <4>1. /\ g.from[p] < g.to[p] /\ g.from[p] \in Nat /\ g.to[p] \in Nat
            /\ g.from[s] < g.to[s] /\ g.from[s] \in Nat /\ g.to[s] \in Nat
        BY <1>1, <1>4
      <4>2. g.to[s] = g.from[p]
        BY <2>5, <1>5
      <4> HIDE DEF r
      <4> QED BY <2>2, <4>1, <4>2
    <3>4. r # NoPage => h.from[r] = g.from[r] /\ h.lo[r] = g.lo[r]
      <4> HIDE DEF r
      <4> QED BY <2>3, <3>3, <1>4
    <3> QED BY <2>2, <2>3, <3>2, <3>4
  <2> QED BY <2>4, <2>5
<1>14. ASSUME NEW q \in h.nodes, leaf(q), q = suc(p)
       PROVE  IF pre(p) = NoPage THEN h.from[q] = 0
              ELSE pre(p) \in h.nodes /\ leaf(pre(p)) /\ h.to[pre(p)] = h.from[q]
  <2>1. q \in g.nodes /\ g.from[q] = g.to[p]
    BY <1>1, <1>4, <1>7, <1>8, <1>14
  <2> DEFINE r == pre(p)
  <2>2. /\ r = NoPage => g.from[p] = 0
        /\ r # NoPage => r \in g.nodes /\ leaf(r) /\ g.to[r] = g.from[p]
    BY <1>1, <1>8
  <2>3. r # NoPage => r \in h.nodes
    <3>1. g.from[p] < g.to[p] /\ g.from[p] \in Nat /\ g.to[p] \in Nat
      BY <1>1, <1>4
    <3> HIDE DEF r
    <3>2. r # NoPage => r # p
      BY <2>2, <3>1
    <3> QED BY <2>2, <3>2, <1>4
  <2>4. CASE z = x
    <3>1. q = s
      BY <2>4, <1>5, <1>14
    <3>2. h.from[q] = g.from[p]
      BY <2>4, <3>1, <1>4
    <3>3. r # NoPage => r # s
      <4>1. /\ g.from[p] < g.to[p] /\ g.from[p] \in Nat /\ g.to[p] \in Nat
            /\ g.from[s] < g.to[s] /\ g.from[s] \in Nat /\ g.to[s] \in Nat
        BY <1>1, <1>4
      <4>2. g.from[s] = g.to[p]
        BY <2>4, <1>5
      <4> HIDE DEF r
      <4> QED BY <2>2, <4>1, <4>2
    <3>4. r # NoPage => h.to[r] = g.to[r]
      <4> HIDE DEF r
      <4> QED BY <2>3, <3>3, <1>4
    <3> QED BY <2>2, <2>3, <3>2, <3>4
  <2>5. CASE z # x
    <3>1. r = s
      BY <2>5, <1>5
    <3>2. q # s
      <4>1. /\ g.from[p] < g.to[p] /\ g.from[p] \in Nat /\ g.to[p] \in Nat
            /\ g.from[s] < g.to[s] /\ g.from[s] \in Nat /\ g.to[s] \in Nat
        BY <1>1, <1>4
      <4>2. g.to[s] = g.from[p]
        BY <2>5, <1>5
      <4> QED BY <2>1, <4>1, <4>2
    <3>3. h.from[q] = g.from[q] /\ h.to[s] = g.to[p]
      BY <2>5, <3>2, <1>4, <1>14
    <3>4. s # NoPage
      BY <1>1, <1>7
    <3> QED BY <2>1, <3>1, <3>3, <3>4, <1>1, <1>4
  <2> QED BY <2>4, <2>5
<1>15. ASSUME NEW q \in h.nodes, u.node[q].is_leaf
       PROVE  /\ IF u.node[q].suc_leaf = NoPage THEN h.to[q] = h.to[u.root] /\ h.hi[q] = INDEX_KEY_MAX
                 ELSE /\ u.node[q].suc_leaf \in h.nodes /\ u.node[u.node[q].suc_leaf].is_leaf
                      /\ h.from[u.node[q].suc_leaf] = h.to[q] /\ h.lo[u.node[q].suc_leaf] = h.hi[q]
              /\ IF u.node[q].pre_leaf = NoPage THEN h.from[q] = 0
                 ELSE /\ u.node[q].pre_leaf \in h.nodes /\ u.node[u.node[q].pre_leaf].is_leaf
                      /\ h.to[u.node[q].pre_leaf] = h.from[q]
  <2>1. /\ leaf(q)
        /\ u.node[q].suc_leaf = IF q = pre(p) THEN suc(p) ELSE suc(q)
        /\ u.node[q].pre_leaf = IF q = suc(p) THEN pre(p) ELSE pre(q)
    BY <1>3, <1>4, <1>15
  <2>2. \A r \in h.nodes : leaf(r) => u.node[r].is_leaf
    BY <1>3, <1>4
  <2> DEFINE a == u.node[q].suc_leaf
             b == u.node[q].pre_leaf
  <2>3. IF a = NoPage THEN h.to[q] = g.to[root] /\ h.hi[q] = INDEX_KEY_MAX
        ELSE a \in h.nodes /\ leaf(a) /\ h.from[a] = h.to[q] /\ h.lo[a] = h.hi[q]
    <3>1. CASE q = pre(p)
      BY <2>1, <3>1, <1>13
    <3>2. CASE q # pre(p)
      BY <2>1, <3>2, <1>11
    <3> QED BY <3>1, <3>2
  <2>4. IF b = NoPage THEN h.from[q] = 0 ELSE b \in h.nodes /\ leaf(b) /\ h.to[b] = h.from[q]
    <3>1. CASE q = suc(p)
      BY <2>1, <3>1, <1>14
    <3>2. CASE q # suc(p)
      BY <2>1, <3>2, <1>12
    <3> QED BY <3>1, <3>2
  <2> HIDE DEF a, b, leaf
  <2>5. (a # NoPage => u.node[a].is_leaf) /\ (b # NoPage => u.node[b].is_leaf)
    BY <2>2, <2>3, <2>4
  <2> QED BY <2>3, <2>4, <2>5, <1>6 DEF a, b
<1> QED BY <1>15 DEF Chained
-----------------------------------------------------------------------------
\* ... and a key in each leaf.
LEMMA DropLeavesFull ==
  ASSUME NEW t, NEW g, NEW p, NEW P, NEW s, NEW x, NEW z, Drops(t, g, p, P, s, x, z),
         NEW u, Dropped(t, u, g.nodes, p, P, x, z), NEW h, Taken(g, h, p, s, x, z)
  PROVE  LeavesFull(u, h, TRUE)
<1>1. P \in g.nodes /\ p # P /\ ~ t.node[P].is_leaf
  BY DropsIs
<1>2. LeavesFull(t, g, TRUE)
  BY Zenon DEF Drops, Shape
<1>3. /\ u.root = t.root
      /\ \A q \in g.nodes \ {p} : /\ u.node[q].is_leaf <=> t.node[q].is_leaf
                                  /\ q # P => u.node[q].list = t.node[q].list
  BY DEF Dropped
<1>4. h.nodes = g.nodes \ {p}
  BY DEF Taken
<1>5. ASSUME NEW q \in h.nodes, u.node[q].is_leaf, q # u.root PROVE key_num(u.node[q]) >= 1
  <2>1. q \in g.nodes \ {p} /\ t.node[q].is_leaf /\ q # t.root /\ u.node[q].list = t.node[q].list
    BY <1>1, <1>3, <1>4, <1>5
  <2>2. key_num(t.node[q]) >= 1
    BY <2>1, <1>2 DEF LeavesFull
  <2> QED BY <2>1, <2>2 DEF key_num
<1> QED BY <1>5 DEF LeavesFull

\* With a key to spare in the parent, the nodes have the sizes they are to have.
LEMMA DropSizes ==
  ASSUME NEW t, NEW g, NEW p, NEW P, NEW s, NEW x, NEW z, Drops(t, g, p, P, s, x, z),
         NEW u, Dropped(t, u, g.nodes, p, P, x, z), NEW h, Taken(g, h, p, s, x, z),
         Sizes(t, g, NoPage), key_num(t.node[P]) > IF P = t.root THEN 1 ELSE Mid - 1
  PROVE  Sizes(u, h, NoPage)
<1> USE IndexFileAssumption
<1>1. /\ P \in g.nodes /\ p # P /\ ~ t.node[P].is_leaf
      /\ Len(t.node[P].list) \in Nat /\ Len(t.node[P].list) >= 2
  BY DropsIs
<1>2. /\ u.root = t.root
      /\ \A q \in g.nodes \ {p} : /\ u.node[q].is_leaf <=> t.node[q].is_leaf
                                  /\ q # P => u.node[q].list = t.node[q].list
      /\ Len(u.node[P].list) = Len(t.node[P].list) - 1
  BY DEF Dropped
<1>3. h.nodes = g.nodes \ {p}
  BY DEF Taken
<1>4. \A q \in g.nodes : q # NoPage
  BY DEF Drops, Shape, Placed, NodeIds, NoPage
<1>5. /\ \A q \in g.nodes : key_num(t.node[q]) <= M - 1
      /\ \A q \in g.nodes : ~ t.node[q].is_leaf => key_num(t.node[q]) >= IF q = t.root THEN 1 ELSE Mid - 1
  BY <1>4 DEF Sizes
<1>6. \A q \in h.nodes : q # P => key_num(u.node[q]) = key_num(t.node[q])
  BY <1>2, <1>3 DEF key_num
<1>7. key_num(u.node[P]) = key_num(t.node[P]) - 1 /\ key_num(t.node[P]) \in Int
  BY <1>1, <1>2 DEF key_num
<1>8. \A q \in h.nodes : key_num(u.node[q]) <= M - 1
  <2> SUFFICES ASSUME NEW q \in h.nodes PROVE key_num(u.node[q]) <= M - 1
    OBVIOUS
  <2>1. CASE q = P
    BY <2>1, <1>1, <1>5, <1>7
  <2>2. CASE q # P
    BY <2>2, <1>3, <1>5, <1>6
  <2> QED BY <2>1, <2>2
<1>9. \A q \in h.nodes : ~ u.node[q].is_leaf => key_num(u.node[q]) >= IF q = u.root THEN 1 ELSE Mid - 1
  <2> SUFFICES ASSUME NEW q \in h.nodes, ~ u.node[q].is_leaf
               PROVE  key_num(u.node[q]) >= IF q = t.root THEN 1 ELSE Mid - 1
    BY <1>2
  <2>1. CASE q = P
    <3>1. Mid \in Int
      BY MidIs
    <3> QED BY <2>1, <3>1, <1>7
  <2>2. CASE q # P
    BY <2>2, <1>2, <1>3, <1>5, <1>6
  <2> QED BY <2>1, <2>2
<1>10. \A q \in h.nodes : q # NoPage
  BY <1>3, <1>4
<1> QED BY <1>8, <1>9, <1>10 DEF Sizes

\* The entries of the leaves that stay are at the places they were.
LEMMA DropMoved ==
  ASSUME NEW t, NEW g, NEW p, NEW P, NEW s, NEW x, NEW z, Drops(t, g, p, P, s, x, z),
         NEW u, Dropped(t, u, g.nodes, p, P, x, z), key_num(t.node[p]) = 1
  PROVE  Moved([a \in Places(u, g.nodes \ {p}) |-> a], t, g.nodes, u, g.nodes \ {p}, <<p, 1>>)
<1> DEFINE Y == Places(u, g.nodes \ {p})
           X == Places(t, g.nodes)
           c == <<p, 1>>
           f == [a \in Y |-> a]
<1>1. P \in g.nodes /\ p # P /\ ~ t.node[P].is_leaf
  BY DropsIs
<1>2. \A q \in g.nodes \ {p} : /\ u.node[q].is_leaf <=> t.node[q].is_leaf
                               /\ q # P => u.node[q].list = t.node[q].list
  BY DEF Dropped
<1>3. ASSUME NEW a \in Y PROVE a \in X \ {c} /\ EntryAt(u, a[1], a[2]) = EntryAt(t, a[1], a[2])
  <2>1. /\ a \in (g.nodes \ {p}) \X (1 .. M) /\ a[1] \in g.nodes \ {p} /\ u.node[a[1]].is_leaf
        /\ a[2] <= key_num(u.node[a[1]])
    BY DEF Places
  <2>2. t.node[a[1]].is_leaf /\ u.node[a[1]].list = t.node[a[1]].list
    BY <2>1, <1>1, <1>2
  <2>3. a \in X
    BY <2>1, <2>2 DEF Places, key_num
  <2>4. a # c
    BY <2>1
  <2> QED BY <2>2, <2>3, <2>4 DEF EntryAt
<1>4. ASSUME NEW b \in X \ {c} PROVE b \in Y
  <2>1. b \in g.nodes \X (1 .. M) /\ t.node[b[1]].is_leaf /\ b[2] <= key_num(t.node[b[1]])
    BY DEF Places
  <2>2. b[1] # p
    <3> SUFFICES ASSUME b[1] = p PROVE FALSE
      OBVIOUS
    <3>1. b[2] = 1 /\ b = <<b[1], b[2]>>
      BY <2>1
    <3> QED BY <3>1
  <2>3. b[1] \in g.nodes \ {p} /\ u.node[b[1]].is_leaf /\ u.node[b[1]].list = t.node[b[1]].list
    BY <2>1, <2>2, <1>1, <1>2
  <2> QED BY <2>1, <2>3 DEF Places, key_num
<1> HIDE DEF X, Y, c
<1>5. \A a \in Y : f[a] = a
  OBVIOUS
<1>6. f \in [Y -> X \ {c}]
  BY <1>3
<1> HIDE DEF f
<1> QED BY <1>3, <1>4, <1>5, <1>6, Zenon DEF Moved, X, Y, c, f

\* A leaf with one entry leaves the tree, and with it the entry.
LEMMA DropKeeps ==
  ASSUME NEW t, NEW g, NEW p, NEW P, NEW s, NEW x, NEW z, Drops(t, g, p, P, s, x, z),
         NEW u, Dropped(t, u, g.nodes, p, P, x, z), Grows(t, g, TRUE), key_num(t.node[p]) = 1,
         key_num(t.node[P]) > IF P = t.root THEN 1 ELSE Mid - 1
  PROVE  Loses(t, g, u, p, 1)
<1> USE IndexFileAssumption
<1> DEFINE h == [nodes |-> g.nodes \ {p}, lev |-> g.lev,
                 from |-> [q \in g.nodes |-> IF q = s /\ z = x THEN g.from[p] ELSE g.from[q]],
                 to   |-> [q \in g.nodes |-> IF q = s /\ z # x THEN g.to[p] ELSE g.to[q]],
                 lo   |-> [q \in g.nodes |-> IF q = s /\ z = x THEN g.lo[p] ELSE g.lo[q]],
                 hi   |-> [q \in g.nodes |-> IF q = s /\ z # x THEN g.hi[p] ELSE g.hi[q]]]
<1>1. Taken(g, h, p, s, x, z)
  BY DEF Taken
<1> HIDE DEF h
<1>2. Shape(t, g, TRUE) /\ Fits(t, g) /\ Sizes(t, g, NoPage) /\ Apart(t, g.nodes)
  BY Zenon DEF Grows
<1>3. Placed(u, h) /\ AllKeysBetween(u, h, TRUE) /\ AllHaveChildren(u, h)
  BY <1>1, DropPlaced, DropKeys, DropChildren, Zenon
<1>4. AllAreChildren(u, h) /\ InOrder(u, h)
  BY <1>1, DropAreChildren, DropInOrder
<1>5. Chained(u, h) /\ LeavesFull(u, h, TRUE)
  BY <1>1, DropChained, DropLeavesFull, Zenon
<1>6. Shape(u, h, TRUE)
  BY <1>3, <1>4, <1>5, Zenon DEF Shape
<1>7. Sizes(u, h, NoPage)
  BY <1>1, <1>2, DropSizes
<1>8. Fits(u, h)
  <2>1. /\ h.nodes = g.nodes \ {p} /\ t.root \in h.nodes /\ t.root # s
        /\ \A q \in h.nodes : h.lev[q] = g.lev[q]
        /\ \A q \in h.nodes \ {s} : h.to[q] = g.to[q]
    BY <1>1, TakenIs, DropsIs
  <2>2. u.root = t.root /\ u.num = t.num
    BY DEF Dropped
  <2> QED BY <2>1, <2>2, <1>2 DEF Fits
<1> DEFINE f == [a \in Places(u, g.nodes \ {p}) |-> a]
           c == <<p, 1>>
<1>9. h.nodes = g.nodes \ {p}
  BY <1>1 DEF Taken
<1>10. Moved(f, t, g.nodes, u, h.nodes, c)
  <2>1. Moved(f, t, g.nodes, u, g.nodes \ {p}, c)
    BY DropMoved, Zenon
  <2> HIDE DEF f, c
  <2> QED BY <2>1, <1>9
<1>11. c \in Places(t, g.nodes)
  <2>1. p \in g.nodes /\ t.node[p].is_leaf
    BY DropsIs
  <2>2. 1 \in 1 .. M /\ 1 <= key_num(t.node[p])
    OBVIOUS
  <2> QED BY <2>1, <2>2 DEF Places
<1>12. c[1] = p /\ c[2] = 1
  OBVIOUS
<1> HIDE DEF f, c
<1>13. Apart(u, h.nodes) /\ Content(u, h.nodes) = Content(t, g.nodes) \ {EntryAt(t, c[1], c[2])}
  <2>1. /\ Shape(t, g, TRUE) /\ Sizes(t, g, NoPage) /\ Apart(t, g.nodes)
        /\ Shape(u, h, TRUE) /\ Sizes(u, h, NoPage)
    BY <1>2, <1>6, <1>7, Zenon
  <2>2. c \in Places(t, g.nodes) /\ Moved(f, t, g.nodes, u, h.nodes, c)
    BY <1>10, <1>11
  <2>3. Apart(u, h.nodes)
    BY <2>1, <2>2, MovedContent, Zenon
  <2>4. LosesEntry(t, g.nodes, u, h.nodes, c)
    BY <2>1, <2>2, MovedContent, Zenon
  <2> QED BY <2>3, <2>4 DEF LosesEntry
<1> QED BY <1>6, <1>7, <1>8, <1>12, <1>13, Zenon DEF Grows, Loses
=============================================================================
