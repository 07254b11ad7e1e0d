--------------------------- MODULE IndexSplit_proofs --------------------------
(***************************************************************************)
(* insert_record of IndexFile: overflow, GrowRoot and the loop are splits, *)
(* and the record is the one entry the tree has more.                      *)
(***************************************************************************)
EXTENDS IndexShape_proofs

-----------------------------------------------------------------------------
\* A split leaves a key in each leaf ...
LEMMA SplitLeavesFull ==
  ASSUME NEW t, NEW g, NEW p, NEW new, NEW P, NEW i, NEW strict, Halved(t, g, p, new, P, i, strict),
         NEW u, Split(t, u, g.nodes, p, new, P, i), NEW f, NEW cut,
         NEW h, Widened(g, h, p, new, t.node[p].list[Mid].key, f, cut)
  PROVE  LeavesFull(u, h, strict)
<1> DEFINE L     == t.node[p].list
           over  == L[Mid].key
           left  == u.node[p].list
           right == u.node[new].list
<1>1. /\ p \in g.nodes /\ new \notin g.nodes /\ p # t.root
      /\ L \in Seq(Pair) \ {<< >>} /\ Len(L) = M + 1
  BY HalvedIs
<1>2. LeavesFull(t, g, strict)
  BY DEF Halved, Shape
<1>3. /\ u.node[p].is_leaf <=> t.node[p].is_leaf
      /\ u.node[new].is_leaf <=> t.node[p].is_leaf
      /\ ~ u.node[P].is_leaf /\ u.root = t.root
      /\ \A q \in g.nodes \ {p, P} : /\ u.node[q].is_leaf <=> t.node[q].is_leaf
                                     /\ u.node[q].list = t.node[q].list
      /\ LeftPart(left, L, t.node[p].is_leaf) /\ RightPart(right, L)
  BY DEF Split
<1>4. /\ h.nodes = g.nodes \cup {new}
      /\ \A r \in g.nodes : r # p => h.hi[r] = g.hi[r]
      /\ h.hi[p] = over /\ h.hi[new] = g.hi[p]
  BY <1>1 DEF Widened
<1>5. t.node[p].is_leaf => Len(left) = Mid + 1 /\ left[Mid] = L[Mid]
  BY <1>3, MidIs DEF LeftPart
<1>6. Len(right) = M - Mid + 1 /\ right[M - Mid] = L[M]
  <2>1. Len(right) = M - Mid + 1 /\ \A j \in 1 .. M - Mid + 1 : right[j] = L[j + Mid]
    BY <1>3 DEF RightPart
  <2>2. M - Mid \in 1 .. M - Mid + 1 /\ (M - Mid) + Mid = M
    BY MidIs
  <2> HIDE DEF right, L
  <2> QED BY <2>1, <2>2
<1>7. key_num(t.node[p]) = M
  BY <1>1, MidIs DEF key_num
<1>8. key_num(u.node[p]) = Len(left) - 1 /\ key_num(u.node[new]) = Len(right) - 1
  BY DEF key_num
<1> HIDE DEF L, left, right
<1>9. ASSUME NEW q \in h.nodes, u.node[q].is_leaf
      PROVE  /\ q # u.root => key_num(u.node[q]) >= 1
             /\ ~ strict /\ h.hi[q] < INDEX_KEY_MAX
                  => key_num(u.node[q]) >= 1 /\ u.node[q].list[key_num(u.node[q])].key = h.hi[q]
  <2>1. CASE q = p
    <3>1. t.node[p].is_leaf
      BY <2>1, <1>3, <1>9
    <3>2. key_num(u.node[p]) = Mid
      BY <3>1, <1>5, <1>8, MidIs
    <3>3. u.node[p].list[Mid].key = h.hi[p]
      BY <3>1, <1>4, <1>5 DEF left
    <3> QED BY <2>1, <3>2, <3>3, MidIs
  <2>2. CASE q = new
    <3>1. t.node[p].is_leaf
      BY <2>2, <1>3, <1>9
    <3>2. key_num(u.node[new]) = M - Mid
      BY <1>6, <1>8, MidIs
    <3>3. ~ strict /\ g.hi[p] < INDEX_KEY_MAX => L[M].key = g.hi[p]
      BY <3>1, <1>1, <1>2, <1>7 DEF LeavesFull, L
    <3>4. ~ strict /\ h.hi[new] < INDEX_KEY_MAX => u.node[new].list[M - Mid].key = h.hi[new]
      BY <3>3, <1>4, <1>6 DEF right
    <3> QED BY <2>2, <3>2, <3>4, MidIs
  <2>3. CASE q \in g.nodes \ {p}
    <3>1. q # P
      BY <1>3, <1>9
    <3>2. t.node[q].is_leaf /\ u.node[q].list = t.node[q].list /\ h.hi[q] = g.hi[q]
      BY <2>3, <3>1, <1>3, <1>4, <1>9
    <3>3. key_num(u.node[q]) = key_num(t.node[q])
      BY <3>2 DEF key_num
    <3> QED BY <2>3, <3>2, <3>3, <1>2, <1>3 DEF LeavesFull
  <2> QED BY <2>1, <2>2, <2>3, <1>4
<1> QED BY <1>9 DEF LeavesFull

\* ... and each node the number of keys it may have, the parent perhaps one too many.
LEMMA SplitSizes ==
  ASSUME NEW t, NEW g, NEW p, NEW new, NEW P, NEW i, NEW strict, Halved(t, g, p, new, P, i, strict),
         NEW u, Split(t, u, g.nodes, p, new, P, i), NEW f, NEW cut,
         NEW h, Widened(g, h, p, new, t.node[p].list[Mid].key, f, cut),
         \A q \in g.nodes : key_num(t.node[q]) <= IF q = p THEN M ELSE M - 1,
         \A q \in g.nodes : ~ t.node[q].is_leaf /\ (q = t.root => q # P)
           => key_num(t.node[q]) >= IF q = t.root THEN 1 ELSE Mid - 1
  PROVE  Sizes(u, h, P) /\ key_num(u.node[P]) = key_num(t.node[P]) + 1
<1> DEFINE L     == t.node[p].list
           up    == t.node[P].list
           left  == u.node[p].list
           right == u.node[new].list
<1>1. /\ p \in g.nodes /\ P \in g.nodes /\ P # p /\ new \notin g.nodes /\ p # t.root /\ new # t.root
      /\ ~ t.node[P].is_leaf
      /\ up \in Seq(Pair) \ {<< >>}
  BY HalvedIs
<1>3. /\ u.node[p].is_leaf <=> t.node[p].is_leaf
      /\ u.node[new].is_leaf <=> t.node[p].is_leaf
      /\ u.root = t.root
      /\ \A q \in g.nodes \ {p, P} : /\ u.node[q].is_leaf <=> t.node[q].is_leaf
                                     /\ u.node[q].list = t.node[q].list
      /\ LeftPart(left, L, t.node[p].is_leaf) /\ RightPart(right, L)
      /\ Len(u.node[P].list) = Len(up) + 1
  BY DEF Split, Hooked
<1>4. h.nodes = g.nodes \cup {new}
  BY DEF Widened
<1>5. /\ t.node[p].is_leaf => key_num(u.node[p]) = Mid
      /\ ~ t.node[p].is_leaf => key_num(u.node[p]) = Mid - 1
      /\ key_num(u.node[new]) = M - Mid
  BY <1>3, MidIs DEF LeftPart, RightPart, key_num
<1>6. key_num(u.node[P]) = key_num(t.node[P]) + 1 /\ key_num(t.node[P]) \in Nat
  BY <1>1, <1>3 DEF key_num
<1>7. \A q \in g.nodes \ {p, P} : key_num(u.node[q]) = key_num(t.node[q])
  BY <1>3 DEF key_num
<1>8. ASSUME NEW q \in h.nodes
      PROVE  /\ key_num(u.node[q]) <= IF q = P THEN M ELSE M - 1
             /\ ~ u.node[q].is_leaf => key_num(u.node[q]) >= IF q = u.root THEN 1 ELSE Mid - 1
  <2>1. CASE q = p
    BY <2>1, <1>1, <1>3, <1>5, MidIs
  <2>2. CASE q = new
    BY <2>2, <1>1, <1>3, <1>5, MidIs
  <2>3. CASE q = P
    <3>1. key_num(t.node[P]) <= M - 1
      BY <1>1
    <3>2. P # t.root => key_num(t.node[P]) >= Mid - 1
      BY <1>1
    <3> QED BY <2>3, <3>1, <3>2, <1>1, <1>3, <1>6, MidIs
  <2>4. CASE q \in g.nodes \ {p, P}
    BY <2>4, <1>3, <1>7
  <2> QED BY <2>1, <2>2, <2>3, <2>4, <1>4
<1> QED BY <1>6, <1>8 DEF Sizes

\* There is room for the new node: between two leaves, or between two children.
LEMMA WidensExists ==
  ASSUME NEW t, NEW g, NEW p, NEW new, NEW P, NEW i, NEW strict, Halved(t, g, p, new, P, i, strict)
  PROVE  \E f, cut : Widens(f, t, g, p, cut) /\ f[g.to[t.root]] <= g.to[t.root] + 1
<1>1. p \in g.nodes /\ t.root \in g.nodes
  BY HalvedIs DEF Halved, Shape, Placed
<1>2. \A r \in g.nodes : /\ g.from[r] \in Nat /\ g.to[r] \in Nat /\ g.from[r] < g.to[r]
  BY DEF Halved, Shape, Placed
<1>4. CASE t.node[p].is_leaf
  <2> DEFINE cut == g.to[p]
             f == [x \in Nat |-> IF x < cut THEN x ELSE x + 1]
  <2>1. cut \in Nat /\ cut > g.from[p] /\ g.from[p] \in Nat
    BY <1>1, <1>2
  <2>2. f \in [Nat -> Nat] /\ f[0] = 0 /\ \A x, y \in Nat : x < y => f[x] < f[y]
    BY <2>1
  <2>3. f[g.from[p]] = g.from[p] /\ f[g.to[p]] = cut + 1
    BY <2>1
  <2>5. f[g.to[t.root]] <= g.to[t.root] + 1
    BY <1>1, <1>2, <2>1
  <2>6. Widens(f, t, g, p, cut)
    <3> HIDE DEF f, cut
    <3>1. cut \in Nat /\ f[g.from[p]] < cut /\ cut < f[g.to[p]]
      BY <2>1, <2>3
    <3> QED BY <3>1, <2>2, <1>4 DEF Widens
  <2> QED BY <2>5, <2>6
<1>5. CASE ~ t.node[p].is_leaf
  <2> DEFINE cut == g.to[Child(t.node[p], Mid)]
             f == [x \in Nat |-> x]
             L == t.node[p].list
  <2>1. L \in Seq(Pair) /\ Len(L) = M + 1 /\ HasChildren(t, g, p)
    <3>1. L \in Seq(Pair) \ {<< >>} /\ Len(L) = M + 1
      BY HalvedIs
    <3>3. HasChildren(t, g, p)
      BY <1>1, <1>5 DEF Halved, Shape, AllHaveChildren
    <3> QED BY <3>1, <3>3
  <2> HIDE DEF L
  <2>2. /\ \A j \in 1 .. M + 1 : ChildAt(t, g, p, L, j)
        /\ \A j, k \in 1 .. M + 1 : j < k => g.to[L[j].value] <= g.from[L[k].value]
    BY <2>1, ChildrenAre DEF L
  <2>3. \A j \in 1 .. M + 1 : L[j].value \in g.nodes
    BY <2>2 DEF ChildAt
  <2> DEFINE a == L[1].value
             b == L[Mid].value
             c == L[M + 1].value
  <2>4. 1 \in 1 .. M + 1 /\ Mid \in 1 .. M + 1 /\ M + 1 \in 1 .. M + 1 /\ 1 < Mid /\ Mid < M + 1
    BY MidIs
  <2>5. a \in g.nodes /\ b \in g.nodes /\ c \in g.nodes
    BY <2>3, <2>4
  <2>6. g.to[a] <= g.from[b] /\ g.to[b] <= g.from[c]
    BY <2>2, <2>4
  <2>7. g.from[a] = g.from[p] /\ g.to[c] = g.to[p]
    <3>1. ChildAt(t, g, p, L, 1) /\ ChildAt(t, g, p, L, M + 1)
      BY <2>2, <2>4
    <3> QED BY <3>1, <2>1 DEF ChildAt
  <2> HIDE DEF a, b, c
  <2>8. cut = g.to[b]
    BY DEF Child, b, L
  <2>9. cut \in Nat /\ g.from[p] < cut /\ cut < g.to[p] /\ g.from[p] \in Nat /\ g.to[p] \in Nat
    BY <2>5, <2>6, <2>7, <2>8, <1>1, <1>2
  <2>10. f \in [Nat -> Nat] /\ f[0] = 0 /\ \A x, y \in Nat : x < y => f[x] < f[y]
    OBVIOUS
  <2>11. \A x \in Nat : f[x] = x
    OBVIOUS
  <2> HIDE DEF f
  <2>13. f[g.to[t.root]] <= g.to[t.root] + 1
    BY <1>1, <1>2, <2>11
  <2>14. cut = f[g.to[Child(t.node[p], Mid)]]
    BY <2>9, <2>11
  <2>15. f[g.from[p]] < cut /\ cut < f[g.to[p]]
    BY <2>9, <2>11
  <2>16. Widens(f, t, g, p, cut)
    <3> HIDE DEF cut
    <3> QED BY <1>5, <2>9, <2>10, <2>14, <2>15 DEF Widens
  <2> QED BY <2>13, <2>16
<1> QED BY <1>4, <1>5

\* A split keeps the shape of the tree; its parent may have a key too many then.
LEMMA SplitKeepsShape ==
  ASSUME NEW t, NEW g, NEW p, NEW new, NEW P, NEW i, NEW strict, Halved(t, g, p, new, P, i, strict),
         NEW u, Split(t, u, g.nodes, p, new, P, i),
         \A q \in g.nodes : key_num(t.node[q]) <= IF q = p THEN M ELSE M - 1,
         \A q \in g.nodes : ~ t.node[q].is_leaf /\ (q = t.root => q # P)
           => key_num(t.node[q]) >= IF q = t.root THEN 1 ELSE Mid - 1
  PROVE  \E h : /\ Shape(u, h, strict) /\ Sizes(u, h, P)
                /\ h.nodes = g.nodes \cup {new} /\ P \in h.nodes
                /\ h.lev[u.root] = g.lev[t.root] /\ h.lev[P] = g.lev[p] + 1
                /\ h.to[u.root] <= g.to[t.root] + 1
<1> DEFINE over == t.node[p].list[Mid].key
<1>1. PICK f, cut : Widens(f, t, g, p, cut) /\ f[g.to[t.root]] <= g.to[t.root] + 1
  BY WidensExists
<1>2. p \in g.nodes /\ P \in g.nodes /\ new \notin g.nodes /\ p # t.root /\ g.lev[P] = g.lev[p] + 1
  BY HalvedIs
<1>3. g.nodes \subseteq NodeIds /\ new \in NodeIds /\ t.root \in g.nodes /\ u.root = t.root
  BY Zenon DEF Halved, Shape, Placed, Split
<1> DEFINE h == [nodes |-> g.nodes \cup {new},
                 lev   |-> [q \in NodeIds |-> IF q = new THEN g.lev[p] ELSE g.lev[q]],
                 from  |-> [q \in NodeIds |-> IF q = new THEN cut ELSE f[g.from[q]]],
                 to    |-> [q \in NodeIds |-> IF q = new THEN f[g.to[p]] ELSE IF q = p THEN cut ELSE f[g.to[q]]],
                 lo    |-> [q \in NodeIds |-> IF q = new THEN over ELSE g.lo[q]],
                 hi    |-> [q \in NodeIds |-> IF q = new THEN g.hi[p] ELSE IF q = p THEN over ELSE g.hi[q]]]
<1>4. Widened(g, h, p, new, over, f, cut)
  <2>1. \A q \in g.nodes : q \in NodeIds /\ q # new
    BY <1>2, <1>3
  <2>2. /\ \A q \in g.nodes : /\ h.lev[q] = g.lev[q] /\ h.from[q] = f[g.from[q]] /\ h.lo[q] = g.lo[q]
                              /\ h.to[q] = IF q = p THEN cut ELSE f[g.to[q]]
                              /\ h.hi[q] = IF q = p THEN over ELSE g.hi[q]
    <3> HIDE DEF over
    <3> QED BY <2>1
  <2>3. /\ h.lev[new] = g.lev[p] /\ h.from[new] = cut /\ h.to[new] = f[g.to[p]]
        /\ h.lo[new] = over /\ h.hi[new] = g.hi[p]
    <3> HIDE DEF over
    <3> QED BY <1>3
  <2> QED BY <2>2, <2>3, Zenon DEF Widened
<1>5. /\ h.nodes = g.nodes \cup {new} /\ h.lev[t.root] = g.lev[t.root] /\ h.lev[P] = g.lev[P]
      /\ h.to[t.root] = f[g.to[t.root]]
  <2> HIDE DEF h
  <2> QED BY <1>2, <1>3, <1>4 DEF Widened
<1> HIDE DEF h
<1>6. Placed(u, h)
  BY <1>1, <1>4, SplitPlaced
<1>7. AllKeysBetween(u, h, strict)
  BY <1>4, SplitKeys
<1>8. AllHaveChildren(u, h)
  BY <1>1, <1>4, SplitChildren
<1>9. AllAreChildren(u, h)
  BY <1>4, <1>8, SplitAreChildren
<1>10. InOrder(u, h)
  BY <1>1, <1>4, SplitInOrder
<1>11. Chained(u, h)
  BY <1>1, <1>4, SplitChained
<1>12. LeavesFull(u, h, strict)
  BY <1>4, SplitLeavesFull
<1>13. Sizes(u, h, P)
  BY <1>4, SplitSizes
<1>14. Shape(u, h, strict)
  BY <1>6, <1>7, <1>8, <1>9, <1>10, <1>11, <1>12 DEF Shape
<1> QED BY <1>1, <1>2, <1>3, <1>5, <1>13, <1>14

\* The entries of a tree with these nodes.
Content(t, nodes) == UNION {PairsOf(t.node[p]) : p \in {q \in nodes : t.node[q].is_leaf}}

\* The entry at place i of leaf p.
EntryAt(t, p, i) == <<t.node[p].list[i].key, t.node[p].list[i].value>>

\* No two places of the leaves have the same entry.
Apart(t, nodes) ==
  \A p, q \in nodes : t.node[p].is_leaf /\ t.node[q].is_leaf
    => \A i \in 1 .. key_num(t.node[p]), j \in 1 .. key_num(t.node[q]) :
         EntryAt(t, p, i) = EntryAt(t, q, j) => p = q /\ i = j

\* Tree u with the nodes `more' has the entries of tree t with `nodes', none of them twice
\* unless t has it twice.
SameContent(t, nodes, u, more) ==
  Content(u, more) = Content(t, nodes) /\ (Apart(t, nodes) => Apart(u, more))

\* A split moves entries and doubles none.
LEMMA SplitKeepsApart ==
  ASSUME NEW t, NEW g, NEW p, NEW new, NEW P, NEW i, NEW strict, Halved(t, g, p, new, P, i, strict),
         NEW u, Split(t, u, g.nodes, p, new, P, i), Apart(t, g.nodes)
  PROVE  Apart(u, g.nodes \cup {new})
<1> DEFINE L     == t.node[p].list
           left  == u.node[p].list
           right == u.node[new].list
           Home(q) == IF q = new THEN p ELSE q
           Place(q, j) == IF q = new THEN j + Mid ELSE j
<1>1. /\ p \in g.nodes /\ P \in g.nodes /\ P # p /\ new \notin g.nodes
      /\ ~ t.node[P].is_leaf /\ L \in Seq(Pair) \ {<< >>} /\ Len(L) = M + 1
  BY HalvedIs
<1>2. /\ u.node[p].is_leaf <=> t.node[p].is_leaf
      /\ u.node[new].is_leaf <=> t.node[p].is_leaf
      /\ ~ u.node[P].is_leaf
      /\ \A q \in g.nodes \ {p, P} : /\ u.node[q].is_leaf <=> t.node[q].is_leaf
                                     /\ u.node[q].list = t.node[q].list
      /\ LeftPart(left, L, t.node[p].is_leaf) /\ RightPart(right, L)
  BY DEF Split
<1>3. ASSUME NEW q \in g.nodes \cup {new}, u.node[q].is_leaf, NEW j \in 1 .. key_num(u.node[q])
      PROVE  /\ Home(q) \in g.nodes /\ t.node[Home(q)].is_leaf
             /\ Place(q, j) \in 1 .. key_num(t.node[Home(q)])
             /\ EntryAt(u, q, j) = EntryAt(t, Home(q), Place(q, j))
             /\ q = p => Place(q, j) <= Mid
             /\ q = new => Place(q, j) > Mid
  <2>1. CASE q = new
    <3>1. /\ Home(q) = p /\ Place(q, j) = j + Mid /\ t.node[p].is_leaf
          /\ q # p
      BY <2>1, <1>1, <1>2, <1>3
    <3>2. Len(right) = M - Mid + 1 /\ \A k \in 1 .. M - Mid + 1 : right[k] = L[k + Mid]
      BY <1>2 DEF RightPart
    <3>3. key_num(u.node[q]) = M - Mid /\ key_num(t.node[p]) = M
      BY <2>1, <3>2, <1>1, MidIs DEF key_num
    <3> HIDE DEF L, right, Home, Place
    <3>4. j \in 1 .. M - Mid
      BY <3>3
    <3>5. j \in 1 .. M - Mid + 1 /\ j + Mid \in 1 .. M /\ j + Mid > Mid
      BY <3>4, MidIs
    <3>6. right[j] = L[j + Mid]
      BY <3>2, <3>5
    <3>7. EntryAt(u, q, j) = EntryAt(t, p, j + Mid)
      BY <3>6, <2>1 DEF EntryAt, L, right
    <3> QED BY <3>1, <3>3, <3>5, <3>7, <1>1
  <2>2. CASE q = p
    <3>1. /\ Home(q) = p /\ Place(q, j) = j /\ t.node[p].is_leaf /\ q # new
      BY <2>2, <1>1, <1>2, <1>3
    <3>2. Len(left) = Mid + 1 /\ \A k \in 1 .. Mid : left[k] = L[k]
      BY <3>1, <1>2, MidIs DEF LeftPart
    <3>3. key_num(u.node[q]) = Mid /\ key_num(t.node[p]) = M
      BY <2>2, <3>2, <1>1, MidIs DEF key_num
    <3> HIDE DEF L, left, Home, Place
    <3>4. j \in 1 .. Mid /\ j \in 1 .. M /\ j <= Mid
      BY <3>3, MidIs
    <3>6. left[j] = L[j]
      BY <3>2, <3>4
    <3>7. EntryAt(u, q, j) = EntryAt(t, p, j)
      BY <3>6, <2>2 DEF EntryAt, L, left
    <3> QED BY <3>1, <3>3, <3>4, <3>7, <1>1
  <2>3. CASE q # new /\ q # p
    <3>1. q # P /\ q \in g.nodes
      BY <2>3, <1>2, <1>3
    <3>2. t.node[q].is_leaf /\ u.node[q].list = t.node[q].list
      BY <3>1, <2>3, <1>2, <1>3
    <3>3. key_num(u.node[q]) = key_num(t.node[q]) /\ EntryAt(u, q, j) = EntryAt(t, q, j)
      BY <3>2 DEF key_num, EntryAt
    <3> QED BY <3>1, <3>2, <3>3, <2>3
  <2> QED BY <2>1, <2>2, <2>3
<1> HIDE DEF L, left, right
<1>4. ASSUME NEW q \in g.nodes \cup {new}, NEW r \in g.nodes \cup {new},
             u.node[q].is_leaf, u.node[r].is_leaf,
             NEW j \in 1 .. key_num(u.node[q]), NEW k \in 1 .. key_num(u.node[r]),
             EntryAt(u, q, j) = EntryAt(u, r, k)
      PROVE  q = r /\ j = k
  <2>1. /\ Home(q) \in g.nodes /\ t.node[Home(q)].is_leaf
        /\ Place(q, j) \in 1 .. key_num(t.node[Home(q)])
        /\ EntryAt(u, q, j) = EntryAt(t, Home(q), Place(q, j))
        /\ q = p => Place(q, j) <= Mid
        /\ q = new => Place(q, j) > Mid
    BY <1>3, <1>4
  <2>2. /\ Home(r) \in g.nodes /\ t.node[Home(r)].is_leaf
        /\ Place(r, k) \in 1 .. key_num(t.node[Home(r)])
        /\ EntryAt(u, r, k) = EntryAt(t, Home(r), Place(r, k))
        /\ r = p => Place(r, k) <= Mid
        /\ r = new => Place(r, k) > Mid
    BY <1>3, <1>4
  <2>3. Home(q) = Home(r) /\ Place(q, j) = Place(r, k)
    <3> DEFINE a == Home(q)
               b == Home(r)
               x == Place(q, j)
               y == Place(r, k)
    <3>1. /\ a \in g.nodes /\ t.node[a].is_leaf /\ x \in 1 .. key_num(t.node[a])
          /\ b \in g.nodes /\ t.node[b].is_leaf /\ y \in 1 .. key_num(t.node[b])
      <4> HIDE DEF Home, Place
      <4> QED BY <2>1, <2>2
    <3>2. EntryAt(t, a, x) = EntryAt(t, b, y)
      <4> HIDE DEF Home, Place
      <4> QED BY <2>1, <2>2, <1>4
    <3> HIDE DEF a, b, x, y
    <3>3. a = b /\ x = y
      BY <3>1, <3>2 DEF Apart
    <3> QED BY <3>3 DEF a, b, x, y
  <2>4. Place(q, j) \in Int /\ Mid \in Int
    BY <2>1, MidIs
  <2>5. q = r
    <3> HIDE DEF Place
    <3>1. q = r \/ (q = new /\ r = p) \/ (q = p /\ r = new)
      BY <2>3
    <3> QED BY <3>1, <2>1, <2>2, <2>3, <2>4
  <2>6. j = k
    <3>1. j + Mid = k + Mid => j = k
      BY MidIs
    <3> QED BY <2>3, <2>5, <3>1
  <2> QED BY <2>5, <2>6
<1> QED BY <1>4 DEF Apart

\* A split moves entries and loses none.
LEMMA SplitKeepsContent ==
  ASSUME NEW t, NEW g, NEW p, NEW new, NEW P, NEW i, NEW strict, Halved(t, g, p, new, P, i, strict),
         NEW u, Split(t, u, g.nodes, p, new, P, i)
  PROVE  SameContent(t, g.nodes, u, g.nodes \cup {new})
<1> DEFINE L     == t.node[p].list
           left  == u.node[p].list
           right == u.node[new].list
<1>1. /\ p \in g.nodes /\ P \in g.nodes /\ P # p /\ new \notin g.nodes
      /\ ~ t.node[P].is_leaf /\ L \in Seq(Pair) \ {<< >>} /\ Len(L) = M + 1
  BY HalvedIs
<1>3. /\ u.node[p].is_leaf <=> t.node[p].is_leaf
      /\ u.node[new].is_leaf <=> t.node[p].is_leaf
      /\ ~ u.node[P].is_leaf
      /\ \A q \in g.nodes \ {p, P} : /\ u.node[q].is_leaf <=> t.node[q].is_leaf
                                     /\ u.node[q].list = t.node[q].list
      /\ LeftPart(left, L, t.node[p].is_leaf) /\ RightPart(right, L)
  BY DEF Split
<1>4. \A q \in g.nodes \ {p, P} : PairsOf(u.node[q]) = PairsOf(t.node[q])
  BY <1>3, Zenon DEF PairsOf, key_num
<1>5. ASSUME t.node[p].is_leaf
      PROVE  PairsOf(t.node[p]) = PairsOf(u.node[p]) \cup PairsOf(u.node[new])
  <2>1. Len(left) = Mid + 1 /\ \A j \in 1 .. Mid : left[j] = L[j]
    BY <1>3, <1>5, MidIs DEF LeftPart
  <2>2. Len(right) = M - Mid + 1 /\ \A j \in 1 .. M - Mid + 1 : right[j] = L[j + Mid]
    BY <1>3 DEF RightPart
  <2>3. PairsOf(t.node[p]) = {<<L[j].key, L[j].value>> : j \in 1 .. M}
    <3>1. key_num(t.node[p]) = M
      BY <1>1, MidIs DEF key_num
    <3> QED BY <3>1 DEF PairsOf
  <2>4. PairsOf(u.node[p]) = {<<left[j].key, left[j].value>> : j \in 1 .. Mid}
    BY <2>1, MidIs DEF PairsOf, key_num
  <2>5. PairsOf(u.node[new]) = {<<right[j].key, right[j].value>> : j \in 1 .. M - Mid}
    BY <2>2, MidIs DEF PairsOf, key_num
  <2> HIDE DEF L, left, right
  <2>6. ASSUME NEW j \in 1 .. M
        PROVE  <<L[j].key, L[j].value>> \in PairsOf(u.node[p]) \cup PairsOf(u.node[new])
    <3>1. CASE j <= Mid
      <4>1. j \in 1 .. Mid /\ left[j] = L[j]
        BY <3>1, <2>1
      <4> QED BY <4>1, <2>4
    <3>2. CASE ~ (j <= Mid)
      <4>1. j - Mid \in 1 .. M - Mid /\ (j - Mid) + Mid = j
        BY <3>2, MidIs
      <4>2. right[j - Mid] = L[j]
        BY <4>1, <2>2, MidIs
      <4> QED BY <4>1, <4>2, <2>5
    <3> QED BY <3>1, <3>2
  <2>7. ASSUME NEW j \in 1 .. Mid PROVE <<left[j].key, left[j].value>> \in PairsOf(t.node[p])
    BY <2>1, <2>3, MidIs
  <2>8. ASSUME NEW j \in 1 .. M - Mid PROVE <<right[j].key, right[j].value>> \in PairsOf(t.node[p])
    <3>1. j + Mid \in 1 .. M /\ right[j] = L[j + Mid]
      BY <2>2, MidIs
    <3> QED BY <3>1, <2>3
  <2> QED BY <2>3, <2>4, <2>5, <2>6, <2>7, <2>8
<1> HIDE DEF L, left, right
<1>6. ASSUME NEW e, e \in Content(u, g.nodes \cup {new}) PROVE e \in Content(t, g.nodes)
  <2>1. PICK q \in g.nodes \cup {new} : u.node[q].is_leaf /\ e \in PairsOf(u.node[q])
    BY <1>6 DEF Content
  <2>2. CASE q = p \/ q = new
    <3>1. t.node[p].is_leaf /\ e \in PairsOf(t.node[p])
      BY <2>1, <2>2, <1>3, <1>5
    <3> QED BY <3>1, <1>1 DEF Content
  <2>3. CASE q \in g.nodes \ {p}
    <3>1. q # P
      BY <2>1, <1>3
    <3>2. t.node[q].is_leaf /\ e \in PairsOf(t.node[q])
      BY <2>1, <2>3, <3>1, <1>3, <1>4
    <3> QED BY <2>3, <3>2 DEF Content
  <2> QED BY <2>1, <2>2, <2>3
<1>7. ASSUME NEW e, e \in Content(t, g.nodes) PROVE e \in Content(u, g.nodes \cup {new})
  <2>1. PICK q \in g.nodes : t.node[q].is_leaf /\ e \in PairsOf(t.node[q])
    BY <1>7 DEF Content
  <2>2. CASE q = p
    <3>1. u.node[p].is_leaf /\ u.node[new].is_leaf /\ (e \in PairsOf(u.node[p]) \/ e \in PairsOf(u.node[new]))
      BY <2>1, <2>2, <1>3, <1>5
    <3> QED BY <3>1, <1>1 DEF Content
  <2>3. CASE q # p
    <3>1. q # P
      BY <2>1, <1>1
    <3>2. u.node[q].is_leaf /\ e \in PairsOf(u.node[q])
      BY <2>1, <2>3, <3>1, <1>3, <1>4
    <3> QED BY <2>1, <3>2 DEF Content
  <2> QED BY <2>2, <2>3
<1>8. Apart(t, g.nodes) => Apart(u, g.nodes \cup {new})
  BY SplitKeepsApart
<1> QED BY <1>6, <1>7, <1>8, Zenon DEF SameContent
-----------------------------------------------------------------------------
\* What overflow makes of node p and the nodes around it; nodes are those of the tree.
Overflown(t, u, nodes, p) ==
  LET n     == t.node[p]
      new   == t.num + 1
      moved == {n.list[j].value : j \in Mid + 1 .. M + 1}
  IN  /\ u \in Trees /\ u.root = t.root /\ u.num = new
      /\ \A q \in nodes \cup {new} : u.node[q] \in Node
      /\ u.node[p].is_leaf <=> n.is_leaf
      /\ u.node[new].is_leaf <=> n.is_leaf
      /\ u.node[p].parent = n.parent /\ u.node[new].parent = n.parent
      /\ LeftPart(u.node[p].list, n.list, n.is_leaf)
      /\ RightPart(u.node[new].list, n.list)
      /\ n.is_leaf => /\ u.node[p].pre_leaf = n.pre_leaf /\ u.node[p].suc_leaf = new
                      /\ u.node[new].pre_leaf = p /\ u.node[new].suc_leaf = n.suc_leaf
      /\ \A q \in nodes \ {p} :
            /\ u.node[q].is_leaf <=> t.node[q].is_leaf
            /\ u.node[q].list = t.node[q].list
            /\ u.node[q].suc_leaf = t.node[q].suc_leaf
            /\ u.node[q].parent = IF ~ n.is_leaf /\ q \in moved THEN new ELSE t.node[q].parent
            /\ u.node[q].pre_leaf = IF n.is_leaf /\ q = n.suc_leaf THEN new ELSE t.node[q].pre_leaf

\* The nodes create_node makes.
MadeOf(n, is_leaf, parent, list, rightmost) ==
  /\ n \in Node /\ (n.is_leaf <=> is_leaf) /\ n.parent = parent
  /\ n.pre_leaf = NoPage /\ n.suc_leaf = NoPage
  /\ n.list = Append(list, pair(INDEX_KEY_MAX, rightmost))

\* What create_node makes is a node.
LEMMA NewNodeIs ==
  ASSUME NEW is_leaf \in BOOLEAN, NEW parent \in Nat, NEW list \in Seq(Pair), NEW rightmost \in Nat
  PROVE  MadeOf(NewNode(is_leaf, parent, list, rightmost), is_leaf, parent, list, rightmost)
<1> USE IndexFileAssumption
<1>1. pair(INDEX_KEY_MAX, rightmost) \in Pair
  BY DEF pair, Pair
<1> DEFINE s == Append(list, pair(INDEX_KEY_MAX, rightmost))
           n == NewNode(is_leaf, parent, list, rightmost)
<1>2. s \in Seq(Pair) \ {<< >>}
  BY <1>1
<1>3. n = [is_leaf |-> is_leaf, parent |-> parent, pre_leaf |-> NoPage, suc_leaf |-> NoPage, list |-> s]
  BY DEF NewNode
<1> HIDE DEF s, n
<1>4. n \in Node /\ n.parent = parent /\ n.pre_leaf = NoPage /\ n.suc_leaf = NoPage /\ n.list = s
  BY <1>2, <1>3 DEF Node, NoPage
<1>5. n.is_leaf <=> is_leaf
  BY <1>3
<1> QED BY <1>4, <1>5 DEF s, n, MadeOf

\* The lists of the two parts.
LEMMA PartsAre ==
  ASSUME NEW L \in Seq(Pair) \ {<< >>}, Len(L) = M + 1, L[M + 1].key = INDEX_KEY_MAX
  PROVE  /\ SubSeq(L, Mid + 1, M) \in Seq(Pair)
         /\ RightPart(Append(SubSeq(L, Mid + 1, M), pair(INDEX_KEY_MAX, L[M + 1].value)), L)
         /\ SubSeq(L, 1, Mid) \in Seq(Pair)
         /\ LeftPart(Append(SubSeq(L, 1, Mid), pair(INDEX_KEY_MAX, 0)), L, TRUE)
         /\ SubSeq(L, 1, Mid - 1) \in Seq(Pair)
         /\ LeftPart(Append(SubSeq(L, 1, Mid - 1), pair(INDEX_KEY_MAX, L[Mid].value)), L, FALSE)
<1> USE IndexFileAssumption
<1>1. /\ L \in Seq(Pair) /\ \A j \in 1 .. M + 1 : L[j] \in Pair /\ L[j].value \in Nat
      /\ Mid \in 1 .. M /\ Mid \in Nat /\ M \in Nat
  BY ListIs, MidIs
<1>2. \A v \in Nat : pair(INDEX_KEY_MAX, v) \in Pair
  BY DEF pair, Pair
<1>3. /\ SubSeq(L, Mid + 1, M) \in Seq(Pair) /\ SubSeq(L, 1, Mid) \in Seq(Pair)
      /\ SubSeq(L, 1, Mid - 1) \in Seq(Pair)
  BY <1>1
<1>4. RightPart(Append(SubSeq(L, Mid + 1, M), pair(INDEX_KEY_MAX, L[M + 1].value)), L)
  <2> DEFINE e == pair(INDEX_KEY_MAX, L[M + 1].value)
             s == Append(SubSeq(L, Mid + 1, M), e)
  <2>1. e = L[M + 1] /\ e \in Pair
    <3>1. L[M + 1] \in Pair
      BY <1>1
    <3> QED BY <3>1 DEF pair, Pair
  <2>2. Mid + 1 \in Nat \ {0} /\ M <= Len(L) /\ Mid + 1 <= M + 1 /\ M - (Mid + 1) + 2 = M - Mid + 1
        /\ M - (Mid + 1) + 1 = M - Mid
    BY <1>1
  <2> HIDE DEF e
  <2>3. /\ Len(s) = M - (Mid + 1) + 2
        /\ \A j \in 1 .. M - (Mid + 1) + 1 : s[j] = L[j + (Mid + 1) - 1]
        /\ s[M - (Mid + 1) + 2] = e
    BY <1>1, <2>1, <2>2, PartIs
  <2> HIDE DEF s
  <2>4. ASSUME NEW j \in 1 .. M - Mid + 1 PROVE s[j] = L[j + Mid]
    <3>1. CASE j = M - Mid + 1
      <4>1. j + Mid = M + 1
        BY <3>1, <1>1
      <4> QED BY <3>1, <4>1, <2>1, <2>2, <2>3
    <3>2. CASE j # M - Mid + 1
      <4>1. j \in 1 .. M - (Mid + 1) + 1 /\ j + (Mid + 1) - 1 = j + Mid
        BY <3>2, <1>1
      <4> QED BY <4>1, <2>3
    <3> QED BY <3>1, <3>2
  <2> QED BY <2>2, <2>3, <2>4 DEF RightPart, s, e
<1>5. LeftPart(Append(SubSeq(L, 1, Mid), pair(INDEX_KEY_MAX, 0)), L, TRUE)
  <2> DEFINE e == pair(INDEX_KEY_MAX, 0)
             s == Append(SubSeq(L, 1, Mid), e)
  <2>1. e \in Pair /\ e.key = INDEX_KEY_MAX
    BY <1>2 DEF pair
  <2> HIDE DEF e
  <2>2. Mid <= Len(L) /\ 1 <= Mid + 1
    BY <1>1
  <2>3. Len(s) = Mid - 1 + 2 /\ (\A j \in 1 .. Mid - 1 + 1 : s[j] = L[j + 1 - 1]) /\ s[Mid - 1 + 2] = e
    BY <1>1, <2>1, <2>2, PartIs
  <2> HIDE DEF s
  <2>4. Len(s) = Mid + 1 /\ s[Mid + 1] = e /\ \A j \in 1 .. Mid : s[j] = L[j]
    BY <2>3, <1>1
  <2>5. Len(s) - 1 = Mid
    BY <2>4, <1>1
  <2> QED BY <2>1, <2>4, <2>5, Zenon DEF LeftPart, s, e
<1>6. LeftPart(Append(SubSeq(L, 1, Mid - 1), pair(INDEX_KEY_MAX, L[Mid].value)), L, FALSE)
  <2> DEFINE e == pair(INDEX_KEY_MAX, L[Mid].value)
             s == Append(SubSeq(L, 1, Mid - 1), e)
  <2>1. e \in Pair /\ e.key = INDEX_KEY_MAX /\ e.value = L[Mid].value
    <3>1. L[Mid].value \in Nat
      BY <1>1
    <3> QED BY <3>1, <1>2 DEF pair
  <2> HIDE DEF e
  <2>2. Mid - 1 \in Nat /\ Mid - 1 <= Len(L) /\ 1 <= (Mid - 1) + 1
    BY <1>1
  <2>3. /\ Len(s) = (Mid - 1) - 1 + 2 /\ s[(Mid - 1) - 1 + 2] = e
        /\ \A j \in 1 .. (Mid - 1) - 1 + 1 : s[j] = L[j + 1 - 1]
    BY <1>1, <2>1, <2>2, PartIs
  <2> HIDE DEF s
  <2>4. Len(s) = Mid /\ s[Mid] = e /\ \A j \in 1 .. Mid - 1 : s[j] = L[j]
    BY <2>3, <1>1
  <2> QED BY <2>1, <2>4, Zenon DEF LeftPart, s, e
<1> QED BY <1>3, <1>4, <1>5, <1>6, Zenon

\* A node is split in two: the other nodes keep their pairs.
LEMMA OverflowIs ==
  ASSUME NEW t \in Trees, NEW S \in SUBSET NodeIds, \A q \in S : t.node[q] \in Node, NEW p \in S,
         t.num + 1 \in NodeIds \ S, Len(t.node[p].list) = M + 1, t.node[p].list[M + 1].key = INDEX_KEY_MAX,
         t.node[p].is_leaf => t.node[p].suc_leaf \in {NoPage} \cup (S \ {p}),
         ~ t.node[p].is_leaf => \A j \in Mid + 1 .. M + 1 : t.node[p].list[j].value \in S \ {p}
  PROVE  Overflown(t, overflow(t, p), S, p)
<1> USE IndexFileAssumption
<1> DEFINE n     == t.node[p]
           L     == n.list
           new   == t.num + 1
           right == NewNode(n.is_leaf, n.parent, SubSeq(L, Mid + 1, M), L[M + 1].value)
           left  == IF n.is_leaf THEN NewNode(TRUE, n.parent, SubSeq(L, 1, Mid), 0)
                    ELSE NewNode(FALSE, n.parent, SubSeq(L, 1, Mid - 1), L[Mid].value)
           split == [t EXCEPT !.num = new, !.node[p] = left, !.node[new] = right]
           u     == overflow(t, p)
           moved == {L[j].value : j \in Mid + 1 .. M + 1}
<1>1. /\ n \in Node /\ L \in Seq(Pair) \ {<< >>} /\ Len(L) = M + 1 /\ key_num(n) = M /\ Sentinel(n) = L[M + 1]
      /\ n.is_leaf \in BOOLEAN /\ n.parent \in Nat /\ n.pre_leaf \in Nat /\ n.suc_leaf \in Nat
      /\ L[M + 1].key = INDEX_KEY_MAX
  <2>1. n \in Node
    OBVIOUS
  <2>2. M + 1 - 1 = M
    BY MidIs
  <2> QED BY <2>1, <2>2 DEF Node, key_num, Sentinel
<1>2. /\ new \in NodeIds /\ new # p /\ new \notin S /\ p \in NodeIds /\ NodeIds \subseteq Nat /\ NoPage \notin NodeIds
  BY DEF NodeIds, NoPage
<1>3. L[M + 1].value \in Nat /\ L[Mid].value \in Nat /\ M \in Nat /\ Mid \in Nat /\ Mid < M /\ 2 <= Mid
  <2>1. M \in Nat /\ Mid \in Nat /\ Mid < M /\ 2 <= Mid
    BY MidIs
  <2>2. \A j \in 1 .. M + 1 : L[j].value \in Nat
    BY <1>1, ListIs
  <2> QED BY <2>1, <2>2
<1>4. /\ SubSeq(L, Mid + 1, M) \in Seq(Pair) /\ SubSeq(L, 1, Mid) \in Seq(Pair)
      /\ SubSeq(L, 1, Mid - 1) \in Seq(Pair)
  <2> HIDE DEF L
  <2> QED BY <1>1, PartsAre, Zenon
<1>5. /\ right \in Node /\ (right.is_leaf <=> n.is_leaf) /\ right.parent = n.parent
      /\ RightPart(right.list, L)
      /\ right.pre_leaf = NoPage /\ right.suc_leaf = NoPage
  <2> DEFINE s == SubSeq(L, Mid + 1, M)
             v == L[M + 1].value
  <2> HIDE DEF L
  <2>1. RightPart(Append(s, pair(INDEX_KEY_MAX, v)), L) /\ s \in Seq(Pair) /\ v \in Nat
    BY <1>1, <1>3, PartsAre, Zenon
  <2> HIDE DEF s, v
  <2>2. MadeOf(right, n.is_leaf, n.parent, s, v)
    <3>1. MadeOf(NewNode(n.is_leaf, n.parent, s, v), n.is_leaf, n.parent, s, v)
      BY <1>1, <2>1, NewNodeIs
    <3> QED BY <3>1 DEF s, v
  <2> HIDE DEF right
  <2> QED BY <2>1, <2>2 DEF MadeOf
<1>6. /\ left \in Node /\ (left.is_leaf <=> n.is_leaf) /\ left.parent = n.parent
      /\ LeftPart(left.list, L, n.is_leaf)
  <2> HIDE DEF L
  <2>1. CASE n.is_leaf
    <3> DEFINE s == SubSeq(L, 1, Mid)
    <3>1. LeftPart(Append(s, pair(INDEX_KEY_MAX, 0)), L, TRUE) /\ s \in Seq(Pair)
      BY <1>1, PartsAre, Zenon
    <3> HIDE DEF s
    <3>2. MadeOf(left, TRUE, n.parent, s, 0)
      <4>1. MadeOf(NewNode(TRUE, n.parent, s, 0), TRUE, n.parent, s, 0)
        BY <1>1, <3>1, NewNodeIs, Zenon
      <4>2. left = NewNode(TRUE, n.parent, s, 0)
        BY <2>1 DEF s
      <4> HIDE DEF left
      <4> QED BY <4>1, <4>2, Zenon
    <3>3. n.is_leaf = TRUE
      BY <2>1, <1>1
    <3> HIDE DEF left
    <3> QED BY <3>1, <3>2, <3>3, Zenon DEF MadeOf
  <2>2. CASE ~ n.is_leaf
    <3> DEFINE s == SubSeq(L, 1, Mid - 1)
               v == L[Mid].value
    <3>1. LeftPart(Append(s, pair(INDEX_KEY_MAX, v)), L, FALSE) /\ s \in Seq(Pair) /\ v \in Nat
      BY <1>1, <1>3, PartsAre, Zenon
    <3> HIDE DEF s, v
    <3>2. MadeOf(left, FALSE, n.parent, s, v)
      <4>1. MadeOf(NewNode(FALSE, n.parent, s, v), FALSE, n.parent, s, v)
        BY <1>1, <3>1, NewNodeIs, Zenon
      <4>2. left = NewNode(FALSE, n.parent, s, v)
        BY <2>2 DEF s, v
      <4> HIDE DEF left
      <4> QED BY <4>1, <4>2, Zenon
    <3>3. n.is_leaf = FALSE
      BY <2>2, <1>1
    <3> HIDE DEF left
    <3> QED BY <3>1, <3>2, <3>3, Zenon DEF MadeOf
  <2> QED BY <2>1, <2>2, Zenon
<1> HIDE DEF left, right
<1>7. /\ split \in Trees /\ split.root = t.root /\ split.num = new
      /\ split.node \in [NodeIds -> Node \cup {Nil}]
      /\ split.node[p] = left /\ split.node[new] = right
      /\ \A q \in NodeIds \ {p, new} : split.node[q] = t.node[q]
  <2> DEFINE N == [t.node EXCEPT ![p] = left, ![new] = right]
             a == [t EXCEPT !.num = new]
  <2>1. t.node \in [NodeIds -> Node \cup {Nil}]
    BY DEF Trees
  <2>2. /\ N \in [NodeIds -> Node \cup {Nil}] /\ N[p] = left /\ N[new] = right
        /\ \A q \in NodeIds \ {p, new} : N[q] = t.node[q]
    BY <2>1, <1>2, <1>5, <1>6
  <2>3. a \in Trees /\ a.root = t.root /\ a.num = new /\ a.node = t.node
    BY <1>2, Zenon DEF Trees
  <2>4. split = [a EXCEPT !.node = N]
    BY Zenon
  <2> HIDE DEF N, split, a
  <2>5. split \in Trees /\ split.root = a.root /\ split.num = a.num /\ split.node = N
    BY <2>2, <2>3, <2>4, Zenon DEF Trees
  <2> QED BY <2>2, <2>3, <2>5
<1>8. ASSUME NEW x \in [NodeIds -> Node \cup {Nil}], u = [split EXCEPT !.node = x]
      PROVE  u \in Trees /\ u.root = t.root /\ u.num = new /\ u.node = x
  <2> HIDE DEF split, u
  <2> QED BY <1>7, <1>8 DEF Trees
<1>9. \A q \in S : t.node[q] \in Node /\ q \in NodeIds
  OBVIOUS
<1>10. CASE ~ n.is_leaf
  <2> DEFINE x == [q \in NodeIds |-> IF q \in moved THEN [split.node[q] EXCEPT !.parent = new] ELSE split.node[q]]
  <2>1. ValuesOf(right.list) = moved
    <3>1. Len(right.list) = M - Mid + 1 /\ \A j \in 1 .. M - Mid + 1 : right.list[j] = L[j + Mid]
      BY <1>5 DEF RightPart
    <3>2. DOMAIN right.list = 1 .. M - Mid + 1
      <4>1. right.list \in Seq(Pair)
        BY <1>5 DEF Node
      <4> QED BY <4>1, <3>1
    <3>3. ASSUME NEW j \in Mid + 1 .. M + 1 PROVE j - Mid \in 1 .. M - Mid + 1 /\ (j - Mid) + Mid = j
      BY <1>3
    <3>4. \A j \in Mid + 1 .. M + 1 : \E k \in 1 .. M - Mid + 1 : right.list[k] = L[j]
      BY <3>1, <3>3
    <3>5. \A j \in 1 .. M - Mid + 1 : j + Mid \in Mid + 1 .. M + 1
      BY <1>3
    <3>6. \A v : v \in ValuesOf(right.list) <=> \E k \in 1 .. M - Mid + 1 : right.list[k].value = v
      BY <3>2 DEF ValuesOf
    <3>7. \A v : v \in moved <=> \E j \in Mid + 1 .. M + 1 : L[j].value = v
      OBVIOUS
    <3> HIDE DEF moved, L
    <3>8. \A v \in ValuesOf(right.list) : v \in moved
      BY <3>1, <3>5, <3>6, <3>7
    <3>9. \A v \in moved : v \in ValuesOf(right.list)
      BY <3>4, <3>6, <3>7
    <3> QED BY <3>8, <3>9, Zenon
  <2>2. u = [split EXCEPT !.node = x]
    <3>1. u = Adopt(split, new, ValuesOf(right.list))
      BY <1>10, <1>1 DEF overflow, left, right
    <3> HIDE DEF split, moved
    <3> QED BY <3>1, <2>1 DEF Adopt
  <2>3. moved \subseteq S \ {p} /\ new \notin moved /\ p \notin moved
    BY <1>10, <1>2
  <2>4. ASSUME NEW q \in NodeIds \ moved PROVE x[q] = split.node[q]
    OBVIOUS
  <2>5. ASSUME NEW q \in moved
        PROVE  /\ x[q] \in Node /\ x[q].list = t.node[q].list /\ (x[q].is_leaf <=> t.node[q].is_leaf)
               /\ x[q].suc_leaf = t.node[q].suc_leaf /\ x[q].pre_leaf = t.node[q].pre_leaf
               /\ x[q].parent = new
    <3>1. q \in NodeIds /\ t.node[q] \in Node /\ split.node[q] = t.node[q]
      BY <2>3, <1>7, <1>9
    <3>2. x[q] = [t.node[q] EXCEPT !.parent = new]
      BY <3>1, Zenon
    <3>3. new \in Nat
      BY <1>2, Zenon
    <3> HIDE DEF x
    <3> QED BY <3>1, <3>2, <3>3, Zenon DEF Node
  <2>6. x \in [NodeIds -> Node \cup {Nil}]
    <3>1. \A q \in NodeIds : x[q] \in Node \cup {Nil}
      BY <2>4, <2>5, <1>7, Zenon
    <3> QED BY <3>1, Zenon
  <2> HIDE DEF x, moved
  <2>7. /\ u \in Trees /\ u.root = t.root /\ u.num = new /\ u.node = x
    BY <1>8, <2>2, <2>6, Zenon
  <2>8. x[p] = left /\ x[new] = right
    BY <2>3, <2>4, <1>2, <1>7
  <2>9. ASSUME NEW q \in S \ {p}
        PROVE  /\ x[q] \in Node /\ x[q].list = t.node[q].list /\ (x[q].is_leaf <=> t.node[q].is_leaf)
               /\ x[q].suc_leaf = t.node[q].suc_leaf /\ x[q].pre_leaf = t.node[q].pre_leaf
               /\ x[q].parent = IF q \in moved THEN new ELSE t.node[q].parent
    <3>1. CASE q \in moved
      BY <3>1, <2>5
    <3>2. CASE q \notin moved
      <4>1. x[q] = t.node[q]
        BY <3>2, <2>4, <1>2, <1>7, <1>9
      <4> QED BY <3>2, <4>1, <1>9
    <3> QED BY <3>1, <3>2
  <2>10. \A q \in S \cup {new} : u.node[q] \in Node
    BY <2>7, <2>8, <2>9, <1>5, <1>6
  <2>11. /\ u.node[p].is_leaf <=> n.is_leaf
         /\ u.node[new].is_leaf <=> n.is_leaf
         /\ u.node[p].parent = n.parent /\ u.node[new].parent = n.parent
         /\ LeftPart(u.node[p].list, L, n.is_leaf)
         /\ RightPart(u.node[new].list, L)
    BY <2>7, <2>8, <1>5, <1>6
  <2> HIDE DEF u, L
  <2>12. ASSUME NEW q \in S \ {p}
         PROVE  /\ u.node[q].is_leaf <=> t.node[q].is_leaf
                /\ u.node[q].list = t.node[q].list
                /\ u.node[q].suc_leaf = t.node[q].suc_leaf
                /\ u.node[q].parent = IF ~ n.is_leaf /\ q \in moved THEN new ELSE t.node[q].parent
                /\ u.node[q].pre_leaf = IF n.is_leaf /\ q = n.suc_leaf THEN new ELSE t.node[q].pre_leaf
    BY <2>7, <2>9, <1>10
  <2> QED BY <2>7, <2>10, <2>11, <2>12, <1>10 DEF Overflown, u, L, moved
<1>11. CASE n.is_leaf
  <2> DEFINE x == [q \in NodeIds |->
                     IF q = p THEN [left EXCEPT !.pre_leaf = n.pre_leaf, !.suc_leaf = new]
                     ELSE IF q = new THEN [right EXCEPT !.pre_leaf = p, !.suc_leaf = n.suc_leaf]
                     ELSE IF q = n.suc_leaf THEN [split.node[q] EXCEPT !.pre_leaf = new]
                     ELSE split.node[q]]
  <2>1. u = [split EXCEPT !.node = x]
    BY <1>11, <1>1 DEF overflow, left, right
  <2>2. n.suc_leaf # p /\ (n.suc_leaf \in NodeIds => n.suc_leaf \in S)
    BY <1>11, <1>2
  <2>3. /\ x[p] \in Node /\ x[p].list = left.list /\ (x[p].is_leaf <=> left.is_leaf) /\ x[p].parent = left.parent
        /\ x[p].pre_leaf = n.pre_leaf /\ x[p].suc_leaf = new
    <3>1. x[p] = [left EXCEPT !.pre_leaf = n.pre_leaf, !.suc_leaf = new]
      BY <1>2
    <3>2. new \in Nat
      BY <1>2, Zenon
    <3> HIDE DEF x
    <3> QED BY <3>1, <3>2, <1>1, <1>6, Zenon DEF Node
  <2>4. /\ x[new] \in Node /\ x[new].list = right.list /\ (x[new].is_leaf <=> right.is_leaf)
        /\ x[new].parent = right.parent
        /\ x[new].pre_leaf = p /\ x[new].suc_leaf = n.suc_leaf
    <3>1. x[new] = [right EXCEPT !.pre_leaf = p, !.suc_leaf = n.suc_leaf]
      BY <1>2
    <3>2. p \in Nat
      BY <1>2
    <3> HIDE DEF x
    <3> QED BY <3>1, <3>2, <1>1, <1>5, Zenon DEF Node
  <2>5. ASSUME NEW q \in S \ {p}
        PROVE  /\ x[q] \in Node /\ x[q].list = t.node[q].list /\ (x[q].is_leaf <=> t.node[q].is_leaf)
               /\ x[q].suc_leaf = t.node[q].suc_leaf
               /\ x[q].pre_leaf = IF q = n.suc_leaf THEN new ELSE t.node[q].pre_leaf
               /\ x[q].parent = t.node[q].parent
    <3>1. q \in NodeIds /\ q # new /\ t.node[q] \in Node /\ split.node[q] = t.node[q] /\ new \in Nat
      BY <1>2, <1>7, <1>9
    <3>2. x[q] = IF q = n.suc_leaf THEN [t.node[q] EXCEPT !.pre_leaf = new] ELSE t.node[q]
      BY <3>1
    <3> HIDE DEF x
    <3>3. CASE q = n.suc_leaf
      <4> DEFINE m == t.node[q]
      <4>1. m \in Node
        BY <3>1
      <4>2. x[q] = [m EXCEPT !.pre_leaf = new]
        BY <3>2, <3>3
      <4> HIDE DEF m
      <4>3. /\ x[q] \in Node /\ x[q].list = m.list /\ (x[q].is_leaf <=> m.is_leaf)
            /\ x[q].suc_leaf = m.suc_leaf /\ x[q].pre_leaf = new /\ x[q].parent = m.parent
        BY <4>1, <4>2, <3>1, Zenon DEF Node
      <4> QED BY <4>3, <3>3 DEF m
    <3>4. CASE q # n.suc_leaf
      <4>1. x[q] = t.node[q]
        BY <3>2, <3>4
      <4> QED BY <4>1, <3>1, <3>4
    <3> QED BY <3>3, <3>4
  <2>6. x \in [NodeIds -> Node \cup {Nil}]
    <3>1. ASSUME NEW q \in NodeIds \ (S \cup {new}) PROVE x[q] = split.node[q]
      BY <2>2
    <3>2. \A q \in NodeIds : split.node[q] \in Node \cup {Nil}
      BY <1>7
    <3>3. ASSUME NEW q \in NodeIds PROVE x[q] \in Node \cup {Nil}
      <4> HIDE DEF x, split
      <4>1. CASE q \in S \cup {new}
        BY <2>3, <2>4, <2>5, <4>1
      <4>2. CASE q \notin S \cup {new}
        BY <3>1, <3>2, <4>2
      <4> QED BY <4>1, <4>2
    <3> QED BY <3>3, Zenon
  <2> HIDE DEF x
  <2>7. /\ u \in Trees /\ u.root = t.root /\ u.num = new /\ u.node = x
    BY <1>8, <2>1, <2>6, Zenon
  <2>10. \A q \in S \cup {new} : u.node[q] \in Node
    BY <2>7, <2>3, <2>4, <2>5
  <2>11. /\ u.node[p].is_leaf <=> n.is_leaf
         /\ u.node[new].is_leaf <=> n.is_leaf
         /\ u.node[p].parent = n.parent /\ u.node[new].parent = n.parent
         /\ LeftPart(u.node[p].list, L, n.is_leaf)
         /\ RightPart(u.node[new].list, L)
         /\ u.node[p].pre_leaf = n.pre_leaf /\ u.node[p].suc_leaf = new
         /\ u.node[new].pre_leaf = p /\ u.node[new].suc_leaf = n.suc_leaf
    BY <2>7, <2>3, <2>4, <1>5, <1>6
  <2> HIDE DEF u, L
  <2>12. ASSUME NEW q \in S \ {p}
         PROVE  /\ u.node[q].is_leaf <=> t.node[q].is_leaf
                /\ u.node[q].list = t.node[q].list
                /\ u.node[q].suc_leaf = t.node[q].suc_leaf
                /\ u.node[q].parent = IF ~ n.is_leaf /\ q \in moved THEN new ELSE t.node[q].parent
                /\ u.node[q].pre_leaf = IF n.is_leaf /\ q = n.suc_leaf THEN new ELSE t.node[q].pre_leaf
    BY <2>7, <2>5, <1>11
  <2> QED BY <2>7, <2>10, <2>11, <2>12, <1>11 DEF Overflown, u, L, moved
<1> QED BY <1>10, <1>11

\* insert_key_with_lrvalue: the first pair from key on, split in two.
LEMMA HookIs ==
  ASSUME NEW t \in Trees, NEW P \in NodeIds, t.node[P] \in Node,
         t.node[P].list[Len(t.node[P].list)].key = INDEX_KEY_MAX,
         NEW key \in 0 .. INDEX_KEY_MAX, NEW left \in Nat, NEW right \in Nat
  PROVE  \E list \in Seq(Pair) \ {<< >>} :
           /\ insert_key_with_lrvalue(t, P, key, left, right) = WithList(t, P, list)
           /\ Hooked(list, t.node[P].list, FirstFrom(t.node[P], key), key, left, right)
<1> USE IndexFileAssumption
<1> DEFINE n    == t.node[P]
           L    == n.list
           i    == FirstFrom(n, key)
           up   == [L EXCEPT ![i].value = right]
           list == InsertAt(up, i, pair(key, left))
           t1   == [t EXCEPT !.node[P].list[i].value = right]
<1>1. /\ L \in Seq(Pair) \ {<< >>} /\ L \in Seq(Pair) /\ Len(L) \in Nat \ {0}
      /\ \A j \in 1 .. Len(L) : L[j] \in Pair /\ L[j].key \in 0 .. INDEX_KEY_MAX
  <2>1. L \in Seq(Pair) \ {<< >>}
    BY DEF Node
  <2> HIDE DEF L
  <2> QED BY <2>1, ListIs
<1>2. i \in 1 .. Len(L)
  BY FirstFromIs
<1>3. /\ up \in Seq(Pair) /\ up # << >> /\ Len(up) = Len(L) /\ up[i] = pair(L[i].key, right)
      /\ \A j \in 1 .. Len(L) : j # i => up[j] = L[j]
  <2> HIDE DEF i, L
  <2>1. [L[i] EXCEPT !.value = right] = pair(L[i].key, right) /\ pair(L[i].key, right) \in Pair
    <3>1. L[i] \in Pair
      BY <1>1, <1>2
    <3>2. ASSUME NEW m \in Pair
          PROVE  [m EXCEPT !.value = right] = pair(m.key, right) /\ pair(m.key, right) \in Pair
      <4>1. m = [key |-> m.key, value |-> m.value] /\ m.key \in 0 .. INDEX_KEY_MAX
        BY DEF Pair
      <4>2. pair(m.key, right) \in Pair
        BY <4>1 DEF pair, Pair
      <4>3. [m EXCEPT !.value = right] \in Pair /\ [m EXCEPT !.value = right].key = m.key
            /\ [m EXCEPT !.value = right].value = right
        BY Zenon DEF Pair
      <4>4. pair(m.key, right).key = m.key /\ pair(m.key, right).value = right
        BY DEF pair
      <4>5. \A a, b \in Pair : a.key = b.key /\ a.value = b.value => a = b
        BY DEF Pair
      <4> QED BY <4>2, <4>3, <4>4, <4>5, Zenon
    <3> QED BY <3>1, <3>2
  <2>2. up = [L EXCEPT ![i] = pair(L[i].key, right)]
    BY <2>1, Zenon
  <2> HIDE DEF up
  <2>3. \A e \in Pair : [L EXCEPT ![i] = e] \in Seq(Pair) /\ Len([L EXCEPT ![i] = e]) = Len(L)
                        /\ [L EXCEPT ![i] = e][i] = e
                        /\ \A j \in 1 .. Len(L) : j # i => [L EXCEPT ![i] = e][j] = L[j]
    BY <1>1, <1>2
  <2> QED BY <2>1, <2>2, <2>3, <1>1
<1>4. pair(key, left) \in Pair
  BY DEF pair, Pair
<1>5. /\ list \in Seq(Pair) /\ Len(list) = Len(up) + 1
      /\ \A j \in 1 .. Len(up) + 1 : list[j] = IF j < i THEN up[j]
                                               ELSE IF j = i THEN pair(key, left) ELSE up[j - 1]
  <2> DEFINE e == pair(key, left)
  <2>1. i \in 1 .. Len(up) /\ e \in Pair
    BY <1>2, <1>3, <1>4
  <2> HIDE DEF up, i, e
  <2>2. /\ InsertAt(up, i, e) \in Seq(Pair) /\ Len(InsertAt(up, i, e)) = Len(up) + 1
        /\ \A j \in 1 .. Len(up) + 1 : InsertAt(up, i, e)[j] = IF j < i THEN up[j]
                                                               ELSE IF j = i THEN e ELSE up[j - 1]
    BY <1>3, <2>1, InsertAtIs
  <2> QED BY <2>2 DEF e
<1>6. Hooked(list, L, i, key, left, right) /\ list # << >>
  <2> HIDE DEF list, up, L, i
  <2>1. Len(list) = Len(L) + 1
    BY <1>3, <1>5
  <2>2. ASSUME NEW j \in 1 .. Len(L) + 1
        PROVE  list[j] = IF j < i THEN L[j] ELSE IF j = i THEN pair(key, left)
                         ELSE IF j = i + 1 THEN pair(L[i].key, right) ELSE L[j - 1]
    <3>1. CASE j < i
      <4>1. j \in 1 .. Len(L) /\ j # i /\ j \in 1 .. Len(up) + 1
        BY <3>1, <1>1, <1>2, <1>3
      <4> QED BY <3>1, <4>1, <1>3, <1>5, Zenon
    <3>2. CASE j = i
      <4>1. j \in 1 .. Len(up) + 1 /\ ~ (j < i)
        BY <3>2, <1>1, <1>2, <1>3
      <4> QED BY <3>2, <4>1, <1>5
    <3>3. CASE j = i + 1
      <4>1. j \in 1 .. Len(up) + 1 /\ ~ (j < i) /\ j # i /\ j - 1 = i
        BY <3>3, <1>1, <1>2, <1>3
      <4>2. list[j] = up[i]
        BY <4>1, <1>5
      <4> QED BY <3>3, <4>1, <4>2, <1>3
    <3>4. CASE j > i + 1
      <4>1. j - 1 \in 1 .. Len(L) /\ j - 1 # i /\ ~ (j < i) /\ j # i /\ j # i + 1
        BY <3>4, <1>1, <1>2
      <4>2. list[j] = up[j - 1]
        BY <4>1, <1>3, <1>5
      <4> QED BY <4>1, <4>2, <1>3
    <3> QED BY <3>1, <3>2, <3>3, <3>4, <1>1, <1>2
  <2> QED BY <2>1, <2>2, <1>1 DEF Hooked
<1>7. insert_key_with_lrvalue(t, P, key, left, right) = WithList(t, P, list)
  <2>1. insert_key_with_lrvalue(t, P, key, left, right) = insert_key(t1, P, i, key, left)
    BY DEF insert_key_with_lrvalue
  <2>2. t1 = WithList(t, P, up)
    BY DEF WithList
  <2>3. t1.node[P].list = up /\ t1 \in Trees /\ t1.root = t.root /\ t1.num = t.num
        /\ t1.node[P] = Relisted(n, up) /\ t1.node \in [NodeIds -> Node \cup {Nil}]
        /\ \A q \in NodeIds : q # P => t1.node[q] = t.node[q]
    <3> HIDE DEF up, t1
    <3>1. up \in Seq(Pair) \ {<< >>}
      BY <1>3
    <3> QED BY <3>1, <2>2, WithListIs DEF Trees
  <2>4. insert_key(t1, P, i, key, left) = WithList(t1, P, list)
    <3> HIDE DEF up, t1, i
    <3> QED BY <2>3 DEF insert_key, WithList
  <2>5. WithList(t1, P, list) = WithList(t, P, list)
    <3> DEFINE v == WithList(t1, P, list)
               w == WithList(t, P, list)
    <3>1. list \in Seq(Pair) \ {<< >>}
      BY <1>5, <1>6
    <3> HIDE DEF list, up, t1
    <3>2. /\ w \in Trees /\ w.root = t.root /\ w.num = t.num /\ w.node[P] = Relisted(n, list)
          /\ \A q \in NodeIds : q # P => w.node[q] = t.node[q]
      BY <3>1, WithListIs
    <3>3. /\ v \in Trees /\ v.root = t1.root /\ v.num = t1.num /\ v.node[P] = Relisted(t1.node[P], list)
          /\ \A q \in NodeIds : q # P => v.node[q] = t1.node[q]
      <4>1. t1.node[P] \in Node
        <5>1. up \in Seq(Pair) \ {<< >>}
          BY <1>3
        <5> QED BY <5>1, <2>2, WithListIs
      <4> QED BY <3>1, <4>1, <2>3, WithListIs
    <3>4. Relisted(t1.node[P], list) = Relisted(n, list)
      <4>1. Relisted(Relisted(n, up), list) = Relisted(n, list)
        BY Zenon DEF Relisted, Node
      <4> QED BY <4>1, <2>3
    <3> HIDE DEF v, w
    <3>5. \A q \in NodeIds : v.node[q] = w.node[q]
      BY <3>2, <3>3, <3>4, <2>3
    <3>6. v.node = w.node
      BY <3>2, <3>3, <3>5 DEF Trees
    <3>7. v = [root |-> v.root, num |-> v.num, node |-> v.node] /\ w = [root |-> w.root, num |-> w.num, node |-> w.node]
      BY <3>2, <3>3 DEF Trees
    <3> QED BY <3>2, <3>3, <3>6, <3>7, <2>3 DEF v, w
  <2> QED BY <2>1, <2>4, <2>5
<1> QED
  <2>1. list \in Seq(Pair) \ {<< >>}
    BY <1>5, <1>6
  <2> HIDE DEF list
  <2> QED BY <2>1, <1>6, <1>7

\* FirstFrom has but one value.
LEMMA PlaceIsFirst ==
  ASSUME NEW n \in Node, NEW key \in 0 .. INDEX_KEY_MAX, n.list[Len(n.list)].key = INDEX_KEY_MAX,
         NEW i, PlaceFor(n.list, i, key)
  PROVE  FirstFrom(n, key) = i
<1> USE IndexFileAssumption
<1> DEFINE j == FirstFrom(n, key)
           L == n.list
<1>1. j \in 1 .. Len(L) /\ L[j].key >= key /\ \A k \in 1 .. j - 1 : L[k].key < key
  BY FirstFromIs
<1>2. i \in 1 .. Len(L) /\ L[i].key >= key /\ \A k \in 1 .. i - 1 : L[k].key < key
  BY DEF PlaceFor
<1>3. Len(L) \in Nat /\ \A k \in 1 .. Len(L) : L[k].key \in Int
  <2>1. L \in Seq(Pair) \ {<< >>}
    BY DEF Node
  <2> HIDE DEF L
  <2> QED BY <2>1, ListIs
<1> HIDE DEF j, L
<1>4. j \in Int /\ i \in Int /\ key \in Int
  BY <1>1, <1>2
<1>5. ~ (j < i) /\ ~ (i < j)
  <2>1. ASSUME j < i PROVE FALSE
    <3>1. j \in 1 .. i - 1
      BY <2>1, <1>1, <1>4
    <3>2. L[j].key < key
      BY <3>1, <1>2
    <3>3. L[j].key \in Int
      BY <1>1, <1>3
    <3> QED BY <3>2, <3>3, <1>1, <1>4
  <2>2. ASSUME i < j PROVE FALSE
    <3>1. i \in 1 .. j - 1
      BY <2>2, <1>2, <1>4
    <3>2. L[i].key < key
      BY <3>1, <1>1
    <3>3. L[i].key \in Int
      BY <1>2, <1>3
    <3> QED BY <3>2, <3>3, <1>2, <1>4
  <2> QED BY <2>1, <2>2
<1> QED BY <1>4, <1>5 DEF j

\* What overflow is told of a node of the tree with a key too many.
LEMMA OverflowOfNode ==
  ASSUME NEW t, NEW g, NEW strict, Shape(t, g, strict), NEW p \in g.nodes, key_num(t.node[p]) = M,
         t.num + 1 \in NodeIds \ g.nodes
  PROVE  Overflown(t, overflow(t, p), g.nodes, p)
<1> USE IndexFileAssumption
<1>1. /\ Placed(t, g) /\ AllKeysBetween(t, g, strict) /\ AllHaveChildren(t, g) /\ Chained(t, g)
  BY DEF Shape
<1>2. /\ t \in Trees /\ g.nodes \in SUBSET NodeIds /\ \A q \in g.nodes : t.node[q] \in Node
  BY <1>1 DEF Placed
<1>3. Len(t.node[p].list) = M + 1 /\ Len(t.node[p].list) \in Nat /\ t.node[p].list \in Seq(Pair)
  <2>1. Len(t.node[p].list) \in Nat /\ t.node[p].list \in Seq(Pair)
    BY <1>1, NodeIs
  <2>2. Len(t.node[p].list) - 1 = M
    BY DEF key_num
  <2> QED BY <2>1, <2>2, MidIs
<1>4. t.node[p].list[M + 1].key = INDEX_KEY_MAX
  BY <1>1, <1>3 DEF AllKeysBetween, KeysBetween
<1>5. ASSUME t.node[p].is_leaf PROVE t.node[p].suc_leaf \in {NoPage} \cup (g.nodes \ {p})
  <2> DEFINE q == t.node[p].suc_leaf
  <2>1. q = NoPage \/ (q \in g.nodes /\ g.from[q] = g.to[p])
    BY <1>1, <1>5 DEF Chained
  <2>2. g.from[p] < g.to[p] /\ g.from[p] \in Nat /\ g.to[p] \in Nat
    BY <1>1 DEF Placed
  <2> HIDE DEF q
  <2>3. q = NoPage \/ (q \in g.nodes /\ q # p)
    BY <2>1, <2>2
  <2> QED BY <2>3 DEF q
<1>6. ASSUME ~ t.node[p].is_leaf, NEW j \in Mid + 1 .. M + 1
      PROVE  t.node[p].list[j].value \in g.nodes \ {p}
  <2> DEFINE c == t.node[p].list[j].value
  <2>1. j \in DOMAIN t.node[p].list
    BY <1>3, MidIs
  <2>2. c \in g.nodes /\ g.lev[c] + 1 = g.lev[p]
    BY <1>1, <1>6, <2>1, Zenon DEF AllHaveChildren, HasChildren, Child
  <2>3. g.lev[p] \in Nat
    BY <1>1 DEF Placed
  <2> HIDE DEF c
  <2>4. c \in g.nodes \ {p}
    BY <2>2, <2>3
  <2> QED BY <2>4 DEF c
<1> QED BY <1>2, <1>3, <1>4, <1>5, <1>6, OverflowIs, Zenon

\* insert_record's loop splits a node below the root.
LEMMA SplitBelowRoot ==
  ASSUME NEW t, NEW g, NEW p, NEW P, NEW i, NEW strict, Halved(t, g, p, t.num + 1, P, i, strict)
  PROVE  LET s == SplitRound(t, p)
         IN  Split(t, s.tree, g.nodes, p, t.num + 1, P, i) /\ s.page = P /\ s.tree.num = t.num + 1
<1> USE IndexFileAssumption
<1> DEFINE new  == t.num + 1
           n    == t.node[p]
           L    == n.list
           up   == t.node[P].list
           over == L[Mid].key
           v    == overflow(t, p)
           u    == insert_key_with_lrvalue(v, P, over, p, new)
<1>1. /\ p \in g.nodes /\ P \in g.nodes /\ P # p /\ new \notin g.nodes /\ p # t.root /\ new # t.root
      /\ ~ t.node[P].is_leaf
      /\ over \in 0 .. INDEX_KEY_MAX - 1
      /\ up \in Seq(Pair) \ {<< >>} /\ i \in 1 .. Len(up) /\ PlaceFor(up, i, over)
  BY HalvedIs
<1>2. /\ Shape(t, g, strict) /\ P = t.node[p].parent /\ key_num(t.node[p]) = M /\ new \in NodeIds \ g.nodes
  BY DEF Halved
<1>3. Overflown(t, v, g.nodes, p)
  BY <1>1, <1>2, OverflowOfNode
<1>4. /\ t \in Trees /\ g.nodes \subseteq NodeIds /\ NodeIds \subseteq Nat
      /\ up[Len(up)].key = INDEX_KEY_MAX
  <2>1. Placed(t, g) /\ AllKeysBetween(t, g, strict)
    BY <1>2 DEF Shape
  <2>2. up[Len(up)].key = INDEX_KEY_MAX
    BY <2>1, <1>1 DEF AllKeysBetween, KeysBetween
  <2> QED BY <2>1, <2>2 DEF Placed, NodeIds
<1> HIDE DEF v, up, over
<1>5. /\ v \in Trees /\ v.root = t.root /\ v.num = new
      /\ \A q \in g.nodes \cup {new} : v.node[q] \in Node
      /\ v.node[p].parent = P /\ v.node[P].list = up
  BY <1>1, <1>2, <1>3 DEF Overflown, up
<1>6. over \in 0 .. INDEX_KEY_MAX /\ FirstFrom(v.node[P], over) = i
  <2>1. over \in 0 .. INDEX_KEY_MAX
    BY <1>1
  <2>2. v.node[P] \in Node
    BY <1>1, <1>5
  <2> QED BY <2>1, <2>2, <1>1, <1>4, <1>5, PlaceIsFirst, Zenon
<1>7. PICK list \in Seq(Pair) \ {<< >>} : u = WithList(v, P, list) /\ Hooked(list, up, i, over, p, new)
  <2>1. P \in NodeIds /\ v.node[P] \in Node /\ p \in Nat /\ new \in Nat
    BY <1>1, <1>2, <1>4, <1>5, Zenon
  <2>2. \E list \in Seq(Pair) \ {<< >>} :
          /\ insert_key_with_lrvalue(v, P, over, p, new) = WithList(v, P, list)
          /\ Hooked(list, v.node[P].list, FirstFrom(v.node[P], over), over, p, new)
    BY <2>1, <1>4, <1>5, <1>6, HookIs, Zenon
  <2> QED BY <2>2, <1>5, <1>6
<1>8. SplitRound(t, p) = [tree |-> u, page |-> P]
  <2>1. p # t.root /\ v.node[p].parent = P
    BY <1>1, <1>5
  <2> QED BY <2>1 DEF SplitRound, v, over
<1> HIDE DEF u
<1>9. /\ u \in Trees /\ u.root = v.root /\ u.num = v.num
      /\ u.node[P] \in Node
      /\ u.node[P].list = list /\ u.node[P].is_leaf = v.node[P].is_leaf
      /\ u.node[P].parent = v.node[P].parent
      /\ \A q \in NodeIds : q # P => u.node[q] = v.node[q]
  <2>1. P \in NodeIds /\ v.node[P] \in Node
    BY <1>1, <1>4, <1>5
  <2> QED BY <2>1, <1>5, <1>7, WithListIs
<1> DEFINE moved == {n.list[j].value : j \in Mid + 1 .. M + 1}
<1>10. P \notin moved \/ n.is_leaf
  <2>1. ASSUME ~ n.is_leaf, NEW j \in Mid + 1 .. M + 1 PROVE n.list[j].value # P
    <3>1. Placed(t, g) /\ AllHaveChildren(t, g)
      BY <1>2 DEF Shape
    <3>2. g.lev[P] = g.lev[p] + 1 /\ g.lev[p] \in Nat /\ L \in Seq(Pair) /\ Len(L) = M + 1
      BY <1>1, <3>1, HalvedIs DEF Placed
    <3>3. j \in DOMAIN n.list
      BY <3>2, MidIs
    <3>4. g.lev[n.list[j].value] + 1 = g.lev[p] /\ n.list[j].value \in g.nodes
      BY <3>1, <3>3, <2>1, <1>1, Zenon DEF AllHaveChildren, HasChildren, Child
    <3>5. g.lev[n.list[j].value] \in Nat
      BY <3>1, <3>4 DEF Placed
    <3> DEFINE c == n.list[j].value
    <3>6. g.lev[P] = g.lev[c] + 2 /\ g.lev[c] \in Nat
      <4> HIDE DEF c
      <4>1. g.lev[P] = g.lev[p] + 1 /\ g.lev[c] + 1 = g.lev[p] /\ g.lev[c] \in Nat /\ g.lev[p] \in Nat
        BY <3>2, <3>4, <3>5 DEF c
      <4> QED BY <4>1
    <3> HIDE DEF c
    <3>7. c # P
      BY <3>6
    <3> QED BY <3>7 DEF c
  <2> QED BY <2>1
<1>11. v.node[P].is_leaf = t.node[P].is_leaf /\ v.node[P].parent = t.node[P].parent
  <2>1. P \in g.nodes \ {p}
    BY <1>1
  <2>2. v.node[P].is_leaf <=> t.node[P].is_leaf
    BY <2>1, <1>3 DEF Overflown
  <2>3. v.node[P].parent = IF ~ n.is_leaf /\ P \in moved THEN new ELSE t.node[P].parent
    BY <2>1, <1>3 DEF Overflown
  <2>4. v.node[P].is_leaf \in BOOLEAN /\ t.node[P].is_leaf \in BOOLEAN
    <3>1. v.node[P] \in Node /\ t.node[P] \in Node
      <4>1. Placed(t, g)
        BY <1>2 DEF Shape
      <4> QED BY <4>1, <1>1, <1>5 DEF Placed
    <3> QED BY <3>1 DEF Node
  <2> HIDE DEF moved
  <2> QED BY <2>2, <2>3, <2>4, <1>10
<1>12. /\ \A q \in g.nodes \cup {new} : u.node[q] \in Node
       /\ u.node[p] = v.node[p] /\ u.node[new] = v.node[new]
       /\ \A q \in g.nodes \ {p, P} : u.node[q] = v.node[q]
  <2>1. \A q \in g.nodes \cup {new} : q \in NodeIds
    BY <1>2, <1>4
  <2>2. new # P /\ p # P
    BY <1>1
  <2> QED BY <2>1, <2>2, <1>1, <1>5, <1>9
<1>13. ASSUME NEW q \in g.nodes \ {p, P}
       PROVE  /\ u.node[q].is_leaf <=> t.node[q].is_leaf
              /\ u.node[q].list = t.node[q].list
              /\ u.node[q].suc_leaf = t.node[q].suc_leaf
              /\ u.node[q].parent = IF ~ n.is_leaf /\ q \in moved THEN new ELSE t.node[q].parent
              /\ u.node[q].pre_leaf = IF n.is_leaf /\ q = n.suc_leaf THEN new ELSE t.node[q].pre_leaf
  BY <1>3, <1>12 DEF Overflown
<1>14. /\ u.node[p].is_leaf <=> n.is_leaf
       /\ u.node[new].is_leaf <=> n.is_leaf
       /\ u.node[p].parent = P /\ u.node[new].parent = P
       /\ LeftPart(u.node[p].list, n.list, n.is_leaf)
       /\ RightPart(u.node[new].list, n.list)
       /\ n.is_leaf => /\ u.node[p].pre_leaf = n.pre_leaf /\ u.node[p].suc_leaf = new
                       /\ u.node[new].pre_leaf = p /\ u.node[new].suc_leaf = n.suc_leaf
  BY <1>2, <1>3, <1>12 DEF Overflown
<1>15. Hooked(u.node[P].list, t.node[P].list, i, n.list[Mid].key, p, new)
  BY <1>7, <1>9 DEF up, over
<1>16. ~ u.node[P].is_leaf /\ u.node[P].parent = t.node[P].parent /\ u.root = t.root /\ u.num = new
  BY <1>1, <1>5, <1>9, <1>11
<1> HIDE DEF n
<1>17. Split(t, u, g.nodes, p, new, P, i)
  BY <1>9, <1>12, <1>13, <1>14, <1>15, <1>16 DEF Split, n
<1> QED BY <1>8, <1>16, <1>17
-----------------------------------------------------------------------------
\* Node m is node n but for its parent.
Reparented(m, n, parent) ==
  /\ m \in Node /\ (m.is_leaf <=> n.is_leaf) /\ m.list = n.list /\ m.parent = parent
  /\ m.pre_leaf = n.pre_leaf /\ m.suc_leaf = n.suc_leaf

\* Tree u is t under a root r that leads to nothing else; h is g with it.
Lifted(t, g, r, u, h) ==
  /\ u \in Trees /\ u.root = r
  /\ u.node[r] \in Node /\ ~ u.node[r].is_leaf /\ u.node[r].parent = NoPage
  /\ u.node[r].list = <<pair(INDEX_KEY_MAX, t.root)>>
  /\ Reparented(u.node[t.root], t.node[t.root], r)
  /\ \A q \in g.nodes \ {t.root} : u.node[q] = t.node[q]
  /\ h.nodes = g.nodes \cup {r}
  /\ \A q \in g.nodes : /\ h.lev[q] = g.lev[q] /\ h.from[q] = g.from[q] /\ h.to[q] = g.to[q]
                        /\ h.lo[q] = g.lo[q] /\ h.hi[q] = g.hi[q]
  /\ h.lev[r] = g.lev[t.root] + 1 /\ h.from[r] = 0 /\ h.to[r] = g.to[t.root]
  /\ h.lo[r] = -1 /\ h.hi[r] = INDEX_KEY_MAX

\* A tree under such a root has its shape and its entries.
LEMMA LiftKeepsShape ==
  ASSUME NEW t, NEW g, NEW strict, Shape(t, g, strict), NEW r \in NodeIds \ g.nodes,
         key_num(t.node[t.root]) >= 1, NEW u, NEW h, Lifted(t, g, r, u, h)
  PROVE  Shape(u, h, strict) /\ SameContent(t, g.nodes, u, h.nodes)
<1> USE IndexFileAssumption
<1>1. /\ Placed(t, g) /\ AllKeysBetween(t, g, strict) /\ AllHaveChildren(t, g) /\ AllAreChildren(t, g)
      /\ InOrder(t, g) /\ Chained(t, g) /\ LeavesFull(t, g, strict)
  BY DEF Shape
<1>2. /\ t.root \in g.nodes /\ g.nodes \subseteq NodeIds /\ r \notin g.nodes /\ r # t.root
      /\ \A q \in g.nodes : /\ t.node[q] \in Node /\ t.node[q].is_leaf \in BOOLEAN
                            /\ g.lev[q] \in Nat /\ g.lev[q] <= g.lev[t.root]
                            /\ g.from[q] \in Nat /\ g.to[q] \in Nat /\ g.from[q] < g.to[q]
                            /\ g.to[q] <= g.to[t.root]
  <2>1. t.root \in g.nodes /\ g.nodes \subseteq NodeIds /\ r \notin g.nodes
    BY <1>1 DEF Placed
  <2>2. ASSUME NEW q \in g.nodes
        PROVE  /\ t.node[q] \in Node
               /\ g.lev[q] \in Nat /\ g.from[q] \in Nat /\ g.to[q] \in Nat /\ g.from[q] < g.to[q]
               /\ g.to[q] <= g.to[t.root] /\ (q # t.root => g.lev[q] < g.lev[t.root])
    BY <1>1 DEF Placed
  <2>3. \A q \in g.nodes : g.lev[q] <= g.lev[t.root]
    BY <2>1, <2>2
  <2>4. \A q \in g.nodes : t.node[q].is_leaf \in BOOLEAN
    BY <2>2 DEF Node
  <2> QED BY <2>1, <2>2, <2>3, <2>4
<1>3. ASSUME NEW q \in g.nodes
      PROVE  /\ u.node[q] \in Node /\ u.node[q].list = t.node[q].list
             /\ (u.node[q].is_leaf <=> t.node[q].is_leaf) /\ u.node[q].is_leaf = t.node[q].is_leaf
             /\ u.node[q].pre_leaf = t.node[q].pre_leaf /\ u.node[q].suc_leaf = t.node[q].suc_leaf
             /\ u.node[q].parent = IF q = t.root THEN r ELSE t.node[q].parent
             /\ q # r
  <2>1. CASE q = t.root
    <3>1. Reparented(u.node[q], t.node[q], r)
      BY <2>1 DEF Lifted
    <3>2. u.node[q].is_leaf \in BOOLEAN /\ t.node[q].is_leaf \in BOOLEAN
      BY <3>1, <1>2 DEF Reparented, Node
    <3> QED BY <2>1, <3>1, <3>2, <1>2 DEF Reparented
  <2>2. CASE q # t.root
    BY <2>2, <1>2 DEF Lifted
  <2> QED BY <2>1, <2>2
<1>4. /\ u \in Trees /\ u.root = r /\ h.nodes = g.nodes \cup {r}
      /\ u.node[r] \in Node /\ ~ u.node[r].is_leaf /\ u.node[r].parent = NoPage
      /\ u.node[r].list = <<pair(INDEX_KEY_MAX, t.root)>>
      /\ h.lev[r] = g.lev[t.root] + 1 /\ h.from[r] = 0 /\ h.to[r] = g.to[t.root]
      /\ h.lo[r] = -1 /\ h.hi[r] = INDEX_KEY_MAX
  BY DEF Lifted
<1>5. \A q \in g.nodes : /\ h.lev[q] = g.lev[q] /\ h.from[q] = g.from[q] /\ h.to[q] = g.to[q]
                         /\ h.lo[q] = g.lo[q] /\ h.hi[q] = g.hi[q]
  BY DEF Lifted
<1>6. /\ Len(u.node[r].list) = 1 /\ u.node[r].list[1].key = INDEX_KEY_MAX
      /\ u.node[r].list[1].value = t.root /\ DOMAIN u.node[r].list = {1}
  BY <1>4 DEF pair
<1>7. Placed(u, h)
  <2>1. h.nodes \subseteq NodeIds /\ u.root \in h.nodes
    BY <1>2, <1>4
  <2>2. \A q \in h.nodes : u.node[q] \in Node
    BY <1>3, <1>4
  <2>3. ASSUME NEW q \in h.nodes
        PROVE  /\ h.lev[q] \in Nat /\ h.from[q] \in Nat /\ h.to[q] \in Nat
               /\ h.lo[q] \in -1 .. INDEX_KEY_MAX - 1 /\ h.hi[q] \in 0 .. INDEX_KEY_MAX
               /\ h.from[q] < h.to[q] /\ h.to[q] <= h.to[r]
               /\ q # r => h.lev[q] < h.lev[r]
    <3>1. CASE q = r
      <4>1. /\ g.lev[t.root] \in Nat /\ g.to[t.root] \in Nat /\ g.from[t.root] < g.to[t.root]
            /\ g.from[t.root] = 0
            /\ g.lo[t.root] = -1 /\ g.hi[t.root] = INDEX_KEY_MAX
            /\ g.lo[t.root] \in -1 .. INDEX_KEY_MAX - 1 /\ g.hi[t.root] \in 0 .. INDEX_KEY_MAX
        BY <1>1, <1>2 DEF Placed
      <4> QED BY <3>1, <4>1, <1>4
    <3>2. CASE q # r
      <4>1. q \in g.nodes
        BY <3>2, <1>4
      <4>2. g.lo[q] \in -1 .. INDEX_KEY_MAX - 1 /\ g.hi[q] \in 0 .. INDEX_KEY_MAX
        BY <4>1, <1>1 DEF Placed
      <4> QED BY <4>1, <4>2, <3>2, <1>2, <1>4, <1>5
    <3> QED BY <3>1, <3>2
  <2> QED BY <2>1, <2>2, <2>3, <1>4 DEF Placed
<1>8. AllKeysBetween(u, h, strict)
  <2>1. ASSUME NEW q \in h.nodes
        PROVE  KeysBetween(u.node[q].list, u.node[q].is_leaf, h.lo[q], h.hi[q], strict)
    <3>1. CASE q = r
      BY <3>1, <1>6 DEF KeysBetween
    <3>2. CASE q # r
      <4>1. q \in g.nodes
        BY <3>2, <1>4
      <4>2. KeysBetween(t.node[q].list, t.node[q].is_leaf, g.lo[q], g.hi[q], strict)
        BY <4>1, <1>1 DEF AllKeysBetween
      <4> QED BY <4>1, <4>2, <1>3, <1>5
    <3> QED BY <3>1, <3>2
  <2> QED BY <2>1 DEF AllKeysBetween
<1>9. AllHaveChildren(u, h)
  <2>1. HasChildren(u, h, r)
    <3>1. /\ u.node[t.root].parent = r /\ h.lev[t.root] + 1 = h.lev[r]
          /\ h.from[t.root] = h.from[r] /\ h.to[t.root] = h.to[r]
          /\ h.lo[t.root] = h.lo[r] /\ h.hi[t.root] = h.hi[r] /\ t.root \in h.nodes
      BY <1>1, <1>2, <1>3, <1>4, <1>5 DEF Placed
    <3> QED BY <3>1, <1>6 DEF HasChildren, Child
  <2>2. ASSUME NEW q \in g.nodes, ~ t.node[q].is_leaf PROVE HasChildren(u, h, q)
    <3> DEFINE list == t.node[q].list
    <3>1. HasChildren(t, g, q) /\ list \in Seq(Pair) /\ u.node[q].list = list /\ u.node[q].list \in Seq(Pair)
      BY <2>2, <1>1, <1>2, <1>3 DEF AllHaveChildren, Node
    <3>2. /\ \A i \in 1 .. Len(list) : ChildAt(t, g, q, list, i)
          /\ \A i, j \in 1 .. Len(list) : i < j => g.to[list[i].value] <= g.from[list[j].value]
      BY <3>1, ChildrenAre
    <3>3. \A i \in 1 .. Len(list) : list[i].value \in g.nodes
      BY <3>2, Zenon DEF ChildAt
    <3>4. ASSUME NEW i \in 1 .. Len(list) PROVE ChildAt(u, h, q, list, i)
      <4> DEFINE c == list[i].value
      <4>1. c \in g.nodes /\ t.node[c].parent = q /\ g.lev[c] + 1 = g.lev[q]
        BY <3>2, Zenon DEF ChildAt
      <4>2. c # t.root
        <5> HIDE DEF c
        <5> QED BY <4>1, <1>2
      <4>3. u.node[c].parent = q
        BY <4>1, <4>2, <1>3
      <4>4. /\ h.lev[c] = g.lev[c] /\ h.from[c] = g.from[c] /\ h.to[c] = g.to[c]
            /\ h.lo[c] = g.lo[c] /\ h.hi[c] = g.hi[c]
        BY <4>1, <1>5, Zenon
      <4>5. i # 1 => h.to[list[i - 1].value] = g.to[list[i - 1].value]
        <5>1. i # 1 => i - 1 \in 1 .. Len(list)
          BY <3>1
        <5> HIDE DEF list
        <5> QED BY <5>1, <3>3, <1>5
      <4>6. /\ h.lev[q] = g.lev[q] /\ h.from[q] = g.from[q] /\ h.to[q] = g.to[q]
            /\ h.lo[q] = g.lo[q] /\ h.hi[q] = g.hi[q]
        BY <1>5
      <4>7. c \in h.nodes
        BY <4>1, <1>4
      <4>8. ChildAt(t, g, q, list, i)
        BY <3>2
      <4> HIDE DEF list
      <4> QED BY <4>3, <4>4, <4>5, <4>6, <4>7, <4>8 DEF ChildAt
    <3>5. ASSUME NEW i \in 1 .. Len(list), NEW j \in 1 .. Len(list), i < j
          PROVE  h.to[list[i].value] <= h.from[list[j].value]
      BY <3>2, <3>3, <3>5, <1>5, Zenon
    <3> QED BY <3>1, <3>4, <3>5, ChildrenAre, Zenon
  <2>3. ASSUME NEW q \in h.nodes, ~ u.node[q].is_leaf PROVE HasChildren(u, h, q)
    <3>1. CASE q = r
      BY <3>1, <2>1
    <3>2. CASE q # r
      <4>1. q \in g.nodes /\ ~ t.node[q].is_leaf
        BY <3>2, <2>3, <1>3, <1>4
      <4> QED BY <4>1, <2>2
    <3> QED BY <3>1, <3>2
  <2> QED BY <2>3 DEF AllHaveChildren
<1>10. AllAreChildren(u, h)
  <2>1. ASSUME NEW c \in h.nodes \ {r}
        PROVE  LET p == u.node[c].parent
               IN  p \in h.nodes /\ ~ u.node[p].is_leaf
                   /\ \E i \in DOMAIN u.node[p].list : Child(u.node[p], i) = c
    <3>1. c \in g.nodes
      BY <1>4
    <3>2. CASE c = t.root
      <4>1. u.node[c].parent = r
        BY <3>1, <3>2, <1>3
      <4> QED BY <4>1, <3>2, <1>4, <1>6 DEF Child
    <3>3. CASE c # t.root
      <4> DEFINE p == t.node[c].parent
      <4>1. p \in g.nodes /\ ~ t.node[p].is_leaf /\ \E i \in DOMAIN t.node[p].list : Child(t.node[p], i) = c
        BY <3>1, <3>3, <1>1 DEF AllAreChildren
      <4>2. u.node[c].parent = p
        BY <3>1, <3>3, <1>3
      <4> HIDE DEF p
      <4>3. p \in h.nodes /\ ~ u.node[p].is_leaf /\ u.node[p].list = t.node[p].list
        BY <4>1, <1>3, <1>4
      <4> QED BY <4>1, <4>2, <4>3 DEF Child
    <3> QED BY <3>2, <3>3
  <2> QED BY <2>1, <1>4 DEF AllAreChildren
<1>11. InOrder(u, h)
  <2>1. ASSUME NEW q \in h.nodes PROVE u.node[q].is_leaf <=> h.lev[q] = 0
    <3>1. CASE q = r
      BY <3>1, <1>2, <1>4
    <3>2. CASE q # r
      BY <3>2, <1>1, <1>3, <1>4, <1>5 DEF InOrder
    <3> QED BY <3>1, <3>2
  <2>3. \A q \in g.nodes : h.lev[q] # h.lev[r]
    BY <1>2, <1>4, <1>5
  <2>4. ASSUME NEW p \in h.nodes, NEW q \in h.nodes, p # q, h.lev[p] = h.lev[q]
        PROVE  p \in g.nodes /\ q \in g.nodes /\ g.lev[p] = g.lev[q]
    BY <2>3, <2>4, <1>4, <1>5
  <2>5. ASSUME NEW p \in h.nodes, NEW q \in h.nodes, p # q, h.lev[p] = h.lev[q]
        PROVE  h.to[p] <= h.from[q] \/ h.to[q] <= h.from[p]
    <3>1. p \in g.nodes /\ q \in g.nodes /\ g.lev[p] = g.lev[q]
      BY <2>4, <2>5
    <3>2. g.to[p] <= g.from[q] \/ g.to[q] <= g.from[p]
      BY <3>1, <2>5, <1>1 DEF InOrder
    <3> QED BY <3>1, <3>2, <1>5
  <2>6. ASSUME NEW p \in h.nodes, NEW q \in h.nodes, h.lev[p] = h.lev[q], h.to[p] <= h.from[q]
        PROVE  h.hi[p] <= h.lo[q]
    <3>1. p # q
      <4>1. h.from[p] < h.to[p] /\ h.from[p] \in Nat /\ h.to[p] \in Nat
        BY <1>7 DEF Placed
      <4> QED BY <4>1, <2>6
    <3>2. p \in g.nodes /\ q \in g.nodes /\ g.lev[p] = g.lev[q]
      BY <2>4, <2>6, <3>1
    <3>3. g.to[p] <= g.from[q]
      BY <2>6, <3>2, <1>5
    <3>4. g.hi[p] <= g.lo[q]
      BY <3>2, <3>3, <1>1 DEF InOrder
    <3> QED BY <3>2, <3>4, <1>5
  <2> QED BY <2>1, <2>5, <2>6 DEF InOrder
<1>12. Chained(u, h)
  <2>1. ASSUME NEW p \in h.nodes, u.node[p].is_leaf
        PROVE  /\ LET q == u.node[p].suc_leaf
                  IN  IF q = NoPage THEN h.to[p] = h.to[u.root] /\ h.hi[p] = INDEX_KEY_MAX
                      ELSE q \in h.nodes /\ u.node[q].is_leaf /\ h.from[q] = h.to[p] /\ h.lo[q] = h.hi[p]
               /\ LET q == u.node[p].pre_leaf
                  IN  IF q = NoPage THEN h.from[p] = 0
                      ELSE q \in h.nodes /\ u.node[q].is_leaf /\ h.to[q] = h.from[p]
    <3>1. p \in g.nodes /\ t.node[p].is_leaf
      BY <2>1, <1>3, <1>4
    <3> DEFINE a == t.node[p].suc_leaf
               b == t.node[p].pre_leaf
    <3>2. /\ IF a = NoPage THEN g.to[p] = g.to[t.root] /\ g.hi[p] = INDEX_KEY_MAX
             ELSE a \in g.nodes /\ t.node[a].is_leaf /\ g.from[a] = g.to[p] /\ g.lo[a] = g.hi[p]
          /\ IF b = NoPage THEN g.from[p] = 0
             ELSE b \in g.nodes /\ t.node[b].is_leaf /\ g.to[b] = g.from[p]
      BY <3>1, <1>1 DEF Chained
    <3>3. u.node[p].suc_leaf = a /\ u.node[p].pre_leaf = b
      BY <3>1, <1>3
    <3> HIDE DEF a, b
    <3>4. IF a = NoPage THEN h.to[p] = h.to[u.root] /\ h.hi[p] = INDEX_KEY_MAX
          ELSE a \in h.nodes /\ u.node[a].is_leaf /\ h.from[a] = h.to[p] /\ h.lo[a] = h.hi[p]
      BY <3>1, <3>2, <1>3, <1>4, <1>5
    <3>5. IF b = NoPage THEN h.from[p] = 0
          ELSE b \in h.nodes /\ u.node[b].is_leaf /\ h.to[b] = h.from[p]
      BY <3>1, <3>2, <1>3, <1>4, <1>5
    <3> QED BY <3>3, <3>4, <3>5
  <2> QED BY <2>1 DEF Chained
<1>13. LeavesFull(u, h, strict)
  <2>1. ASSUME NEW q \in h.nodes, u.node[q].is_leaf PROVE q \in g.nodes /\ key_num(u.node[q]) >= 1
    <3>1. q \in g.nodes /\ t.node[q].is_leaf /\ u.node[q].list = t.node[q].list
      BY <2>1, <1>3, <1>4
    <3>2. key_num(t.node[q]) >= 1
      BY <3>1, <1>1 DEF LeavesFull
    <3> QED BY <3>1, <3>2 DEF key_num
  <2>2. ASSUME NEW q \in h.nodes, ~ strict, u.node[q].is_leaf, h.hi[q] < INDEX_KEY_MAX
        PROVE  u.node[q].list[key_num(u.node[q])].key = h.hi[q]
    <3>1. q \in g.nodes /\ t.node[q].is_leaf /\ u.node[q].list = t.node[q].list /\ h.hi[q] = g.hi[q]
      BY <2>1, <2>2, <1>3, <1>5
    <3>2. t.node[q].list[key_num(t.node[q])].key = g.hi[q]
      BY <3>1, <2>2, <1>1 DEF LeavesFull
    <3> QED BY <3>1, <3>2 DEF key_num
  <2> QED BY <2>1, <2>2 DEF LeavesFull
<1>14. Content(u, h.nodes) = Content(t, g.nodes)
  <2>1. {q \in h.nodes : u.node[q].is_leaf} = {q \in g.nodes : t.node[q].is_leaf}
    BY <1>3, <1>4
  <2>2. \A q \in g.nodes : PairsOf(u.node[q]) = PairsOf(t.node[q])
    <3>1. ASSUME NEW m, NEW n, m.list = n.list PROVE PairsOf(m) = PairsOf(n)
      BY <3>1 DEF PairsOf, key_num
    <3>2. \A q \in g.nodes : u.node[q].list = t.node[q].list
      BY <1>3
    <3> QED BY <3>1, <3>2
  <2> DEFINE X == {q \in g.nodes : t.node[q].is_leaf}
  <2>3. Content(u, h.nodes) = UNION {PairsOf(u.node[q]) : q \in X}
    BY <2>1 DEF Content
  <2>4. Content(t, g.nodes) = UNION {PairsOf(t.node[q]) : q \in X}
    BY DEF Content
  <2>5. {PairsOf(u.node[q]) : q \in X} = {PairsOf(t.node[q]) : q \in X}
    BY <2>2
  <2> HIDE DEF X
  <2> QED BY <2>3, <2>4, <2>5, Zenon
<1>15. Apart(t, g.nodes) => Apart(u, h.nodes)
  <2>1. \A q \in h.nodes : u.node[q].is_leaf => q \in g.nodes /\ t.node[q].is_leaf
    BY <1>3, <1>4
  <2>2. \A q \in g.nodes : key_num(u.node[q]) = key_num(t.node[q])
                           /\ \A j \in 1 .. key_num(t.node[q]) : EntryAt(u, q, j) = EntryAt(t, q, j)
    BY <1>3 DEF key_num, EntryAt
  <2> QED BY <2>1, <2>2 DEF Apart
<1> QED BY <1>7, <1>8, <1>9, <1>10, <1>11, <1>12, <1>13, <1>14, <1>15 DEF Shape, SameContent

\* A node with another parent.
LEMMA ReparentedIs ==
  ASSUME NEW n \in Node, NEW parent \in Nat
  PROVE  Reparented([n EXCEPT !.parent = parent], n, parent)
BY DEF Reparented, Node

\* The new root above the two halves of the old one.
Grown(v, w, p, new, r) ==
  /\ w \in Trees /\ w.root = r /\ w.num = r
  /\ MadeOf(w.node[r], FALSE, NoPage, << >>, 0)
  /\ Reparented(w.node[p], v.node[p], r) /\ Reparented(w.node[new], v.node[new], r)
  /\ \A q \in NodeIds \ {p, new, r} : w.node[q] = v.node[q]

\* insert_record puts a new root above the two halves of the old one.
LEMMA GrowRootIs ==
  ASSUME NEW v \in Trees, NEW p \in NodeIds, NEW new \in NodeIds, new = v.num, p # new,
         v.node[p] \in Node, v.node[new] \in Node,
         NEW r \in NodeIds, r = new + 1, r # p
  PROVE  Grown(v, GrowRoot(v, p), p, new, r)
<1> USE IndexFileAssumption
<1> DEFINE top0 == NewNode(FALSE, NoPage, << >>, 0)
           w    == GrowRoot(v, p)
           a    == [v EXCEPT !.num = r, !.root = r]
           N    == [v.node EXCEPT ![r] = top0]
           top  == [a EXCEPT !.node = N]
           x    == [q \in NodeIds |-> IF q \in {p, new} THEN [N[q] EXCEPT !.parent = r] ELSE N[q]]
<1>1. r \in Nat /\ r # new /\ v.node \in [NodeIds -> Node \cup {Nil}]
  BY DEF NodeIds, Trees
<1>2. MadeOf(top0, FALSE, NoPage, << >>, 0)
  <2>1. FALSE \in BOOLEAN /\ NoPage \in Nat /\ << >> \in Seq(Pair) /\ 0 \in Nat
    BY DEF NoPage
  <2> QED BY <2>1, NewNodeIs, Zenon
<1>3. top0 \in Node
  BY <1>2, Zenon DEF MadeOf
<1> HIDE DEF top0
<1>4. /\ N \in [NodeIds -> Node \cup {Nil}] /\ N[r] = top0 /\ \A q \in NodeIds \ {r} : N[q] = v.node[q]
  BY <1>1, <1>3
<1>5. a \in Trees /\ a.root = r /\ a.num = r /\ a.node = v.node
  BY <1>1, Zenon DEF Trees
<1>6. top \in Trees /\ top.root = r /\ top.num = r /\ top.node = N
  <2> HIDE DEF a, N
  <2> QED BY <1>4, <1>5 DEF Trees
<1>7. w = [top EXCEPT !.node = x]
  <2>1. w = Adopt([v EXCEPT !.num = r, !.root = r, !.node[r] = top0], r, {p, new})
    BY DEF GrowRoot, top0
  <2>2. [v EXCEPT !.num = r, !.root = r, !.node[r] = top0] = top
    OBVIOUS
  <2>3. w = Adopt(top, r, {p, new})
    BY <2>1, <2>2, Zenon
  <2> HIDE DEF top, w, N
  <2> QED BY <2>3, <1>6 DEF Adopt
<1>8. x[p] = [v.node[p] EXCEPT !.parent = r] /\ x[new] = [v.node[new] EXCEPT !.parent = r]
      /\ \A q \in NodeIds \ {p, new} : x[q] = N[q]
  <2>1. N[p] = v.node[p] /\ N[new] = v.node[new]
    BY <1>1, <1>4
  <2> HIDE DEF N
  <2> QED BY <2>1
<1>9. Reparented(x[p], v.node[p], r) /\ Reparented(x[new], v.node[new], r)
  BY <1>1, <1>8, ReparentedIs
<1> HIDE DEF x, N, top
<1>10. x \in [NodeIds -> Node \cup {Nil}]
  <2>1. ASSUME NEW q \in NodeIds PROVE x[q] \in Node \cup {Nil}
    <3>1. CASE q \in {p, new}
      BY <3>1, <1>9 DEF Reparented
    <3>2. CASE q \notin {p, new}
      BY <3>2, <1>4, <1>8
    <3> QED BY <3>1, <3>2
  <2> QED BY <2>1 DEF x
<1> HIDE DEF w
<1>11. w \in Trees /\ w.root = r /\ w.num = r /\ w.node = x
  BY <1>6, <1>7, <1>10 DEF Trees
<1>12. x[r] = top0 /\ \A q \in NodeIds \ {p, new, r} : x[q] = v.node[q]
  BY <1>1, <1>4, <1>8
<1> QED BY <1>2, <1>9, <1>11, <1>12, Zenon DEF w, Grown

\* insert_record's loop splits the root: as below a root that led to it alone.
LEMMA SplitAtRoot ==
  ASSUME NEW t, NEW g, NEW strict, Shape(t, g, strict), strict \/ M % 2 = 1,
         key_num(t.node[t.root]) = M, g.nodes \subseteq 1 .. t.num,
         NEW new \in NodeIds, new = t.num + 1, NEW r \in NodeIds, r = t.num + 2,
         NEW u0, NEW h0, Lifted(t, g, r, u0, h0)
  PROVE  LET s == SplitRound(t, t.root)
         IN  /\ Halved(u0, h0, t.root, new, r, 1, strict)
             /\ Split(u0, s.tree, h0.nodes, t.root, new, r, 1) /\ s.page = r /\ s.tree.num = r
<1> USE IndexFileAssumption
<1> DEFINE p    == t.root
           n    == t.node[p]
           L    == n.list
           over == L[Mid].key
           v    == overflow(t, p)
           w    == GrowRoot(v, p)
           u    == insert_key_with_lrvalue(w, r, over, p, new)
           n0   == u0.node[p]
<1>1. /\ Placed(t, g) /\ AllKeysBetween(t, g, strict) /\ p \in g.nodes /\ g.nodes \subseteq NodeIds
      /\ t.node[p] \in Node
  BY DEF Shape, Placed
<1>2. /\ t.num \in Nat /\ new \notin g.nodes /\ r \notin g.nodes /\ r # new /\ new # p /\ r # p
  <2>1. t.num \in Nat
    BY <1>1 DEF Placed, Trees, NodeIds
  <2> QED BY <2>1, <1>1
<1>3. Shape(u0, h0, strict)
  <2>1. key_num(t.node[t.root]) >= 1
    BY MidIs
  <2> QED BY <2>1, <1>2, LiftKeepsShape
<1>4. /\ u0 \in Trees /\ u0.root = r /\ h0.nodes = g.nodes \cup {r}
      /\ ~ u0.node[r].is_leaf /\ u0.node[r].parent = NoPage
      /\ u0.node[r].list = <<pair(INDEX_KEY_MAX, p)>>
      /\ Reparented(n0, n, r)
      /\ \A q \in g.nodes \ {p} : u0.node[q] = t.node[q]
  BY DEF Lifted
<1>5. Halved(u0, h0, p, new, r, 1, strict)
  <2>1. p \in h0.nodes \ {u0.root} /\ u0.node[p].parent = r /\ new \in NodeIds \ h0.nodes
    BY <1>1, <1>2, <1>4 DEF Reparented
  <2>2. 1 \in DOMAIN u0.node[r].list /\ Child(u0.node[r], 1) = p
    BY <1>4 DEF Child, pair
  <2>3. key_num(u0.node[p]) = M
    BY <1>4 DEF Reparented, key_num
  <2> QED BY <2>1, <2>2, <2>3, <1>3 DEF Halved
<1>6. over \in 0 .. INDEX_KEY_MAX - 1
  <2>1. u0.node[p].list[Mid].key \in 0 .. INDEX_KEY_MAX - 1
    BY <1>5, HalvedIs
  <2> QED BY <2>1, <1>4 DEF Reparented
<1>7. Overflown(t, v, g.nodes, p)
  BY <1>1, <1>2, OverflowOfNode
<1> HIDE DEF v, over
<1>8. /\ v \in Trees /\ v.num = new /\ \A q \in g.nodes \cup {new} : v.node[q] \in Node
      /\ p \in NodeIds
  BY <1>1, <1>7 DEF Overflown
<1>9. /\ w \in Trees /\ w.root = r /\ w.num = r
      /\ MadeOf(w.node[r], FALSE, NoPage, << >>, 0)
      /\ Reparented(w.node[p], v.node[p], r) /\ Reparented(w.node[new], v.node[new], r)
      /\ \A q \in NodeIds \ {p, new, r} : w.node[q] = v.node[q]
  <2>1. v.node[p] \in Node /\ v.node[new] \in Node /\ r = new + 1
    BY <1>1, <1>2, <1>8
  <2>2. Grown(v, w, p, new, r)
    BY <2>1, <1>2, <1>8, GrowRootIs, Zenon
  <2> HIDE DEF w
  <2> QED BY <2>2, Zenon DEF Grown
<1> HIDE DEF w
<1>10. /\ w.node[r] \in Node /\ ~ w.node[r].is_leaf /\ w.node[r].parent = NoPage
       /\ w.node[r].list = <<pair(INDEX_KEY_MAX, 0)>> /\ Len(w.node[r].list) = 1
       /\ w.node[r].list[1].key = INDEX_KEY_MAX
  <2>1. Append(<< >>, pair(INDEX_KEY_MAX, 0)) = <<pair(INDEX_KEY_MAX, 0)>>
    OBVIOUS
  <2> QED BY <2>1, <1>9 DEF MadeOf, pair
<1>11. over \in 0 .. INDEX_KEY_MAX /\ FirstFrom(w.node[r], over) = 1
  <2>1. over \in 0 .. INDEX_KEY_MAX /\ PlaceFor(w.node[r].list, 1, over)
    BY <1>6, <1>10 DEF PlaceFor
  <2> QED BY <2>1, <1>10, PlaceIsFirst, Zenon
<1>12. PICK list \in Seq(Pair) \ {<< >>} :
         u = WithList(w, r, list) /\ Hooked(list, w.node[r].list, 1, over, p, new)
  <2>1. p \in Nat /\ new \in Nat /\ w.node[r].list[Len(w.node[r].list)].key = INDEX_KEY_MAX
    BY <1>8, <1>10 DEF NodeIds
  <2>2. \E list \in Seq(Pair) \ {<< >>} :
          /\ insert_key_with_lrvalue(w, r, over, p, new) = WithList(w, r, list)
          /\ Hooked(list, w.node[r].list, FirstFrom(w.node[r], over), over, p, new)
    BY <2>1, <1>9, <1>10, <1>11, HookIs, Zenon
  <2> QED BY <2>2, <1>11
<1>13. SplitRound(t, p) = [tree |-> u, page |-> r]
  <2>1. w.node[p].parent = r
    BY <1>9 DEF Reparented
  <2> QED BY <2>1 DEF SplitRound, v, w, over
<1> HIDE DEF u
<1>14. /\ u \in Trees /\ u.root = r /\ u.num = r
       /\ u.node[r] \in Node /\ u.node[r].list = list /\ ~ u.node[r].is_leaf
       /\ u.node[r].parent = NoPage
       /\ \A q \in NodeIds : q # r => u.node[q] = w.node[q]
  BY <1>9, <1>10, <1>12, WithListIs
<1>15. Hooked(u.node[r].list, u0.node[r].list, 1, n0.list[Mid].key, p, new)
  <2> DEFINE a == w.node[r].list
             b == u0.node[r].list
  <2>1. Len(a) = 1 /\ Len(b) = 1 /\ a[1].key = INDEX_KEY_MAX /\ b[1].key = INDEX_KEY_MAX
    BY <1>4, <1>10 DEF pair
  <2> HIDE DEF a, b
  <2>2. Len(list) = 2 /\ \A j \in 1 .. 2 : list[j] = IF j = 1 THEN pair(over, p) ELSE pair(a[1].key, new)
    BY <2>1, <1>12 DEF Hooked, a
  <2>3. Hooked(list, b, 1, over, p, new)
    BY <2>1, <2>2 DEF Hooked
  <2>4. n0.list[Mid].key = over
    BY <1>4 DEF Reparented, over
  <2> QED BY <2>3, <2>4, <1>14 DEF b
<1> DEFINE moved  == {n.list[j].value : j \in Mid + 1 .. M + 1}
           moved0 == {n0.list[j].value : j \in Mid + 1 .. M + 1}
<1>16. /\ moved0 = moved /\ n0.list = n.list /\ (n0.is_leaf <=> n.is_leaf)
       /\ n0.pre_leaf = n.pre_leaf /\ n0.suc_leaf = n.suc_leaf /\ n0.is_leaf = n.is_leaf
  <2>1. n0.is_leaf \in BOOLEAN /\ n.is_leaf \in BOOLEAN
    BY <1>1, <1>4, Zenon DEF Reparented, Node
  <2> QED BY <2>1, <1>4 DEF Reparented
<1>17. /\ \A q \in h0.nodes \cup {new} : u.node[q] \in Node
       /\ u.node[p] = w.node[p] /\ u.node[new] = w.node[new]
       /\ \A q \in g.nodes \ {p} : u.node[q] = v.node[q]
  <2>1. u.node[p] = w.node[p] /\ u.node[new] = w.node[new]
    BY <1>2, <1>8, <1>14, Zenon
  <2>2. ASSUME NEW q \in g.nodes \ {p} PROVE u.node[q] = v.node[q]
    <3>1. q \in NodeIds /\ q # r /\ q # new
      BY <1>1, <1>2
    <3> QED BY <3>1, <1>9, <1>14
  <2>3. w.node[p] \in Node /\ w.node[new] \in Node
    BY <1>9 DEF Reparented
  <2>4. \A q \in h0.nodes \cup {new} : q \in g.nodes \ {p} \/ q = p \/ q = new \/ q = r
    BY <1>4
  <2> QED BY <2>1, <2>2, <2>3, <2>4, <1>8, <1>14
<1>18. ASSUME NEW q \in h0.nodes \ {p, r}
       PROVE  /\ u.node[q].is_leaf <=> u0.node[q].is_leaf
              /\ u.node[q].list = u0.node[q].list
              /\ u.node[q].suc_leaf = u0.node[q].suc_leaf
              /\ u.node[q].parent = IF ~ n0.is_leaf /\ q \in moved0 THEN new ELSE u0.node[q].parent
              /\ u.node[q].pre_leaf = IF n0.is_leaf /\ q = n0.suc_leaf THEN new ELSE u0.node[q].pre_leaf
  <2>1. q \in g.nodes \ {p}
    BY <1>4
  <2>2. u.node[q] = v.node[q] /\ u0.node[q] = t.node[q]
    BY <2>1, <1>4, <1>17
  <2> HIDE DEF moved0
  <2>3. /\ v.node[q].is_leaf <=> t.node[q].is_leaf
        /\ v.node[q].list = t.node[q].list
        /\ v.node[q].suc_leaf = t.node[q].suc_leaf
        /\ v.node[q].parent = IF ~ n.is_leaf /\ q \in moved THEN new ELSE t.node[q].parent
        /\ v.node[q].pre_leaf = IF n.is_leaf /\ q = n.suc_leaf THEN new ELSE t.node[q].pre_leaf
    BY <2>1, <1>7, Zenon DEF Overflown
  <2> HIDE DEF moved
  <2> QED BY <2>2, <2>3, <1>16
<1>19. /\ u.node[p].is_leaf <=> n0.is_leaf
       /\ u.node[new].is_leaf <=> n0.is_leaf
       /\ u.node[p].parent = r /\ u.node[new].parent = r
       /\ LeftPart(u.node[p].list, n0.list, n0.is_leaf)
       /\ RightPart(u.node[new].list, n0.list)
       /\ n0.is_leaf => /\ u.node[p].pre_leaf = n0.pre_leaf /\ u.node[p].suc_leaf = new
                        /\ u.node[new].pre_leaf = p /\ u.node[new].suc_leaf = n0.suc_leaf
  <2>1. /\ v.node[p].is_leaf <=> n.is_leaf
        /\ v.node[new].is_leaf <=> n.is_leaf
        /\ LeftPart(v.node[p].list, n.list, n.is_leaf)
        /\ RightPart(v.node[new].list, n.list)
        /\ n.is_leaf => /\ v.node[p].pre_leaf = n.pre_leaf /\ v.node[p].suc_leaf = new
                        /\ v.node[new].pre_leaf = p /\ v.node[new].suc_leaf = n.suc_leaf
    BY <1>7 DEF Overflown
  <2>2. Reparented(u.node[p], v.node[p], r) /\ Reparented(u.node[new], v.node[new], r)
    BY <1>9, <1>17
  <2>3. /\ u.node[p].is_leaf <=> v.node[p].is_leaf
        /\ u.node[new].is_leaf <=> v.node[new].is_leaf
        /\ u.node[p].parent = r /\ u.node[new].parent = r
        /\ u.node[p].list = v.node[p].list /\ u.node[new].list = v.node[new].list
        /\ u.node[p].pre_leaf = v.node[p].pre_leaf /\ u.node[p].suc_leaf = v.node[p].suc_leaf
        /\ u.node[new].pre_leaf = v.node[new].pre_leaf /\ u.node[new].suc_leaf = v.node[new].suc_leaf
    BY <2>2 DEF Reparented
  <2> HIDE DEF n, n0
  <2> QED BY <2>1, <2>3, <1>16
<1>20. Split(u0, u, h0.nodes, p, new, r, 1)
  <2>1. u.root = u0.root /\ u.node[r].parent = u0.node[r].parent
    BY <1>4, <1>14
  <2> HIDE DEF n0
  <2> QED BY <2>1, <1>14, <1>15, <1>17, <1>18, <1>19, Zenon DEF Split, n0
<1> QED BY <1>5, <1>13, <1>14, <1>20

\* There is such a tree and such a placing.
LEMMA LiftExists ==
  ASSUME NEW t, NEW g, Placed(t, g), NEW r \in NodeIds \ g.nodes
  PROVE  \E u, h : Lifted(t, g, r, u, h)
<1> USE IndexFileAssumption
<1> DEFINE top  == NewNode(FALSE, NoPage, << >>, t.root)
           N    == [q \in NodeIds |-> IF q = r THEN top
                                      ELSE IF q = t.root THEN [t.node[q] EXCEPT !.parent = r] ELSE t.node[q]]
           u    == [root |-> r, num |-> r, node |-> N]
           all  == g.nodes \cup {r}
           With(f, x) == [q \in all |-> IF q = r THEN x ELSE f[q]]
           h    == [nodes |-> all, lev |-> With(g.lev, g.lev[t.root] + 1), from |-> With(g.from, 0),
                    to |-> With(g.to, g.to[t.root]), lo |-> With(g.lo, -1),
                    hi |-> With(g.hi, INDEX_KEY_MAX)]
<1>1. /\ t.node \in [NodeIds -> Node \cup {Nil}] /\ t.root \in g.nodes /\ g.nodes \subseteq NodeIds
      /\ \A q \in g.nodes : t.node[q] \in Node
      /\ r \notin g.nodes /\ r \in Nat /\ t.root \in Nat /\ t.root # r /\ t.root \in NodeIds
  BY DEF Placed, Trees, NodeIds
<1>2. MadeOf(top, FALSE, NoPage, << >>, t.root)
  <2>1. FALSE \in BOOLEAN /\ NoPage \in Nat /\ << >> \in Seq(Pair)
    BY DEF NoPage
  <2> QED BY <1>1, <2>1, NewNodeIs, Zenon
<1>3. top \in Node /\ ~ top.is_leaf /\ top.parent = NoPage /\ top.list = <<pair(INDEX_KEY_MAX, t.root)>>
  <2>1. Append(<< >>, pair(INDEX_KEY_MAX, t.root)) = <<pair(INDEX_KEY_MAX, t.root)>>
    OBVIOUS
  <2> HIDE DEF top
  <2> QED BY <1>2, <2>1 DEF MadeOf
<1> HIDE DEF top
<1>4. Reparented([t.node[t.root] EXCEPT !.parent = r], t.node[t.root], r)
  BY <1>1, ReparentedIs
<1>5. /\ N[r] = top /\ N[t.root] = [t.node[t.root] EXCEPT !.parent = r]
      /\ \A q \in NodeIds \ {r, t.root} : N[q] = t.node[q]
  BY <1>1
<1>6. N \in [NodeIds -> Node \cup {Nil}]
  <2>1. ASSUME NEW q \in NodeIds PROVE N[q] \in Node \cup {Nil}
    <3> HIDE DEF N
    <3>1. CASE q = r
      BY <3>1, <1>3, <1>5
    <3>2. CASE q = t.root
      BY <3>2, <1>4, <1>5 DEF Reparented
    <3>3. CASE q \notin {r, t.root}
      BY <3>3, <1>1, <1>5
    <3> QED BY <3>1, <3>2, <3>3
  <2> QED BY <2>1
<1> HIDE DEF N
<1>7. /\ u \in Trees /\ u.root = r /\ u.node = N
  BY <1>6 DEF Trees
<1>8. /\ u.node[r] \in Node /\ ~ u.node[r].is_leaf /\ u.node[r].parent = NoPage
      /\ u.node[r].list = <<pair(INDEX_KEY_MAX, t.root)>>
      /\ Reparented(u.node[t.root], t.node[t.root], r)
      /\ \A q \in g.nodes \ {t.root} : u.node[q] = t.node[q]
  BY <1>1, <1>3, <1>4, <1>5, <1>7
<1>9. /\ h.nodes = g.nodes \cup {r}
      /\ \A q \in g.nodes : /\ h.lev[q] = g.lev[q] /\ h.from[q] = g.from[q] /\ h.to[q] = g.to[q]
                            /\ h.lo[q] = g.lo[q] /\ h.hi[q] = g.hi[q]
      /\ h.lev[r] = g.lev[t.root] + 1 /\ h.from[r] = 0 /\ h.to[r] = g.to[t.root]
      /\ h.lo[r] = -1 /\ h.hi[r] = INDEX_KEY_MAX
  BY <1>1
<1> HIDE DEF u, h
<1>10. Lifted(t, g, r, u, h)
  BY <1>7, <1>8, <1>9 DEF Lifted
<1> QED BY <1>10

\* A round of insert_record's loop: the tree keeps its shape and its entries, and
\* the node with a key too many, if there still is one, is a level higher.
Rounded(t, g, p, s, h, strict) ==
  /\ Shape(s.tree, h, strict) /\ Sizes(s.tree, h, s.page) /\ s.page \in h.nodes /\ Fits(s.tree, h)
  /\ SameContent(t, g.nodes, s.tree, h.nodes)
  /\ IF p = t.root THEN s.tree.num = t.num + 2 /\ key_num(s.tree.node[s.page]) <= M - 1
     ELSE s.tree.num = t.num + 1 /\ h.lev[s.tree.root] = g.lev[t.root] /\ h.lev[s.page] = g.lev[p] + 1

\* A round of insert_record's loop does what Rounded says.
LEMMA SplitRoundIs ==
  ASSUME NEW t, NEW g, NEW strict, Shape(t, g, strict), strict \/ M % 2 = 1,
         NEW p \in g.nodes, Sizes(t, g, p), key_num(t.node[p]) > M - 1, Fits(t, g), t.num + 2 <= MaxPages
  PROVE  \E h : Rounded(t, g, p, SplitRound(t, p), h, strict)
<1> USE IndexFileAssumption
<1> DEFINE s   == SplitRound(t, p)
           new == t.num + 1
<1>1. /\ Placed(t, g) /\ AllAreChildren(t, g)
      /\ \A q \in g.nodes : key_num(t.node[q]) \in Nat
      /\ \A q \in g.nodes : key_num(t.node[q]) <= IF q = p THEN M ELSE M - 1
      /\ \A q \in g.nodes : ~ t.node[q].is_leaf => key_num(t.node[q]) >= IF q = t.root THEN 1 ELSE Mid - 1
  <2>1. Placed(t, g)
    BY DEF Shape
  <2>2. \A q \in g.nodes : key_num(t.node[q]) \in Nat
    BY <2>1, NodeIs DEF key_num
  <2> QED BY <2>1, <2>2 DEF Shape, Sizes
<1>2. key_num(t.node[p]) = M
  BY <1>1, MidIs
<1>3. /\ t.num \in Nat /\ new \in NodeIds \ g.nodes /\ g.nodes \subseteq 1 .. t.num /\ t.root \in g.nodes
      /\ g.to[t.root] <= t.num /\ g.lev[t.root] < t.num /\ g.lev[t.root] \in Nat /\ g.to[t.root] \in Nat
  <2>1. t.num \in Nat /\ MaxPages \in Nat
    BY <1>1 DEF Placed, Trees, NodeIds
  <2>2. new \in NodeIds
    BY <2>1 DEF NodeIds
  <2>3. g.nodes \subseteq 1 .. t.num
    BY DEF Fits
  <2>4. new \notin g.nodes
    BY <2>1, <2>3
  <2> QED BY <1>1, <2>1, <2>2, <2>3, <2>4 DEF Fits, Placed
<1>4. CASE p # t.root
  <2> DEFINE P == t.node[p].parent
  <2>1. PICK i \in DOMAIN t.node[P].list : Child(t.node[P], i) = p
    BY <1>1, <1>4 DEF AllAreChildren
  <2>2. Halved(t, g, p, new, P, i, strict)
    BY <1>2, <1>3, <1>4, <2>1 DEF Halved
  <2> HIDE DEF P
  <2>3. Split(t, s.tree, g.nodes, p, new, P, i) /\ s.page = P /\ s.tree.num = new
    BY <2>2, SplitBelowRoot
  <2> HIDE DEF s
  <2>4. PICK h : /\ Shape(s.tree, h, strict) /\ Sizes(s.tree, h, P)
                 /\ h.nodes = g.nodes \cup {new} /\ P \in h.nodes
                 /\ h.lev[s.tree.root] = g.lev[t.root] /\ h.lev[P] = g.lev[p] + 1
                 /\ h.to[s.tree.root] <= g.to[t.root] + 1
    BY <2>2, <2>3, <1>1, SplitKeepsShape
  <2>5. SameContent(t, g.nodes, s.tree, g.nodes \cup {new})
    BY <2>2, <2>3, SplitKeepsContent, Zenon
  <2>6. Fits(s.tree, h)
    <3>1. h.nodes \subseteq 1 .. new
      BY <2>4, <1>3
    <3>2. h.to[s.tree.root] \in Nat
      <4>1. Placed(s.tree, h)
        BY <2>4 DEF Shape
      <4> QED BY <4>1 DEF Placed
    <3> QED BY <3>1, <3>2, <2>3, <2>4, <1>3 DEF Fits
  <2>7. Rounded(t, g, p, s, h, strict)
    BY <2>3, <2>4, <2>5, <2>6, <1>4 DEF Rounded
  <2> QED BY <2>7 DEF s
<1>5. CASE p = t.root
  <2> DEFINE r == t.num + 2
  <2>1. r \in NodeIds \ g.nodes /\ r \in NodeIds
    BY <1>3 DEF NodeIds
  <2>2. PICK u0, h0 : Lifted(t, g, r, u0, h0)
    BY <1>1, <2>1, LiftExists
  <2> HIDE DEF s
  <2>3. /\ Halved(u0, h0, p, new, r, 1, strict)
        /\ Split(u0, s.tree, h0.nodes, p, new, r, 1) /\ s.page = r /\ s.tree.num = r
    <3> USE <1>5
    <3>1. new \in NodeIds /\ key_num(t.node[t.root]) = M
      BY <1>2, <1>3
    <3> HIDE DEF r
    <3>2. r = t.num + 2 /\ new = t.num + 1
      BY DEF r
    <3> HIDE DEF new
    <3>3. /\ Halved(u0, h0, t.root, new, r, 1, strict)
          /\ Split(u0, SplitRound(t, t.root).tree, h0.nodes, t.root, new, r, 1)
          /\ SplitRound(t, t.root).page = r /\ SplitRound(t, t.root).tree.num = r
      BY <3>1, <3>2, <2>1, <2>2, <1>3, SplitAtRoot
    <3> QED BY <3>3 DEF s
  <2>4. /\ SameContent(t, g.nodes, u0, h0.nodes)
        /\ u0.root = r /\ h0.nodes = g.nodes \cup {r}
        /\ u0.node[r].list = <<pair(INDEX_KEY_MAX, t.root)>>
        /\ h0.lev[r] = g.lev[t.root] + 1 /\ h0.to[r] = g.to[t.root]
        /\ h0.lev[p] = g.lev[p]
    <3>1. key_num(t.node[t.root]) >= 1
      BY <1>2, <1>5, MidIs
    <3>2. SameContent(t, g.nodes, u0, h0.nodes)
      BY <3>1, <2>1, <2>2, LiftKeepsShape
    <3> QED BY <3>2, <2>2 DEF Lifted
  <2>5. \A q \in g.nodes : u0.node[q].list = t.node[q].list /\ (u0.node[q].is_leaf <=> t.node[q].is_leaf)
    BY <2>2 DEF Lifted, Reparented
  <2>6. key_num(u0.node[r]) = 0 /\ Len(u0.node[r].list) = 1
    BY <2>4 DEF key_num
  <2>7. \A q \in h0.nodes : key_num(u0.node[q]) <= IF q = p THEN M ELSE M - 1
    <3>1. \A q \in g.nodes : key_num(u0.node[q]) = key_num(t.node[q])
      BY <2>5 DEF key_num
    <3> QED BY <3>1, <2>4, <2>6, <1>1, MidIs
  <2>8. \A q \in h0.nodes : ~ u0.node[q].is_leaf /\ (q = u0.root => q # r)
          => key_num(u0.node[q]) >= IF q = u0.root THEN 1 ELSE Mid - 1
    <3>1. ASSUME NEW q \in g.nodes, ~ u0.node[q].is_leaf PROVE key_num(u0.node[q]) >= Mid - 1 /\ q # r
      <4>1. key_num(u0.node[q]) = key_num(t.node[q]) /\ ~ t.node[q].is_leaf
        BY <2>5, <3>1 DEF key_num
      <4>2. q # r
        BY <2>1
      <4>3. CASE q = t.root
        BY <4>1, <4>2, <4>3, <1>2, <1>5, MidIs
      <4>4. CASE q # t.root
        BY <4>1, <4>2, <4>4, <1>1
      <4> QED BY <4>3, <4>4
    <3> HIDE DEF r
    <3> QED BY <3>1, <2>4
  <2> HIDE DEF r
  <2>9. PICK h : /\ Shape(s.tree, h, strict) /\ Sizes(s.tree, h, r)
                 /\ h.nodes = h0.nodes \cup {new} /\ r \in h.nodes
                 /\ h.lev[s.tree.root] = h0.lev[u0.root] /\ h.lev[r] = h0.lev[p] + 1
                 /\ h.to[s.tree.root] <= h0.to[u0.root] + 1
    BY <2>3, <2>7, <2>8, SplitKeepsShape
  <2>10. SameContent(u0, h0.nodes, s.tree, h0.nodes \cup {new})
    BY <2>3, SplitKeepsContent, Zenon
  <2>11. Fits(s.tree, h)
    <3>1. h.nodes \subseteq 1 .. r
      BY <2>4, <2>9, <1>3 DEF r
    <3>2. h.to[s.tree.root] \in Nat
      <4>1. Placed(s.tree, h)
        BY <2>9 DEF Shape
      <4> QED BY <4>1 DEF Placed
    <3>3. r \in Nat /\ r = t.num + 2
      BY <1>3 DEF r
    <3> QED BY <3>1, <3>2, <3>3, <2>3, <2>4, <2>9, <1>3 DEF Fits
  <2>12. key_num(s.tree.node[r]) <= M - 1
    <3>1. Len(s.tree.node[r].list) = Len(u0.node[r].list) + 1
      BY <2>3 DEF Split, Hooked
    <3> QED BY <3>1, <2>6, MidIs DEF key_num
  <2>14. SameContent(t, g.nodes, s.tree, h.nodes)
    BY <2>4, <2>9, <2>10 DEF SameContent
  <2>13. Rounded(t, g, p, s, h, strict)
    BY <2>3, <2>4, <2>9, <2>11, <2>12, <2>14, <1>5 DEF Rounded, r
  <2> QED BY <2>13 DEF s
<1> QED BY <1>4, <1>5
-----------------------------------------------------------------------------
\* What a round makes of the state s of insert_record's loop.
SplitStep(s) == IF key_num(s.tree.node[s.page]) > M - 1 THEN SplitRound(s.tree, s.page) ELSE s

\* The rounds of insert_record's loop.
SplitRounds(f, t, p, n) ==
  f = [k \in 0 .. n |-> IF k = 0 THEN [tree |-> t, page |-> p] ELSE SplitStep(f[k - 1])]

\* insert_record's loop is a sequence of rounds.
LEMMA SplitUpDef ==
  ASSUME NEW t, NEW p, t.num \in Nat
  PROVE  \E f : SplitRounds(f, t, p, t.num) /\ SplitUp(t, p) = f[t.num].tree
<1> DEFINE n == t.num
           x == [tree |-> t, page |-> p]
           S == {m \in 0 .. n : ~ \E f : SplitRounds(f, t, p, m)}
<1>1. S = {}
  <2> SUFFICES ASSUME S # {} PROVE FALSE
    OBVIOUS
  <2>1. PICK m \in S : \A j \in S : m <= j
    <3>1. S \subseteq Nat
      OBVIOUS
    <3> HIDE DEF S
    <3> QED BY <3>1, LeastExists, Zenon
  <2>2. m \in 0 .. n /\ ~ \E f : SplitRounds(f, t, p, m)
    BY <2>1
  <2>3. m # 0
    <3>1. SplitRounds([k \in 0 .. 0 |-> x], t, p, 0)
      BY DEF SplitRounds
    <3> QED BY <3>1, <2>2
  <2>4. m - 1 \in 0 .. n /\ m - 1 \notin S
    <3> HIDE DEF S
    <3> QED BY <2>1, <2>2, <2>3
  <2>5. PICK f : SplitRounds(f, t, p, m - 1)
    BY <2>4
  <2> DEFINE h == [k \in 0 .. m |-> IF k = m THEN SplitStep(f[m - 1]) ELSE f[k]]
  <2>6. SplitRounds(h, t, p, m)
    <3>1. \A k \in 0 .. m : h[k] = IF k = 0 THEN x ELSE SplitStep(h[k - 1])
      <4>1. h[0] = x
        BY <2>2, <2>3, <2>5 DEF SplitRounds
      <4>2. h[m] = SplitStep(h[m - 1]) /\ m - 1 \in 0 .. m
        BY <2>2, <2>3
      <4>3. ASSUME NEW k \in 0 .. m, k # 0, k # m PROVE h[k] = SplitStep(h[k - 1])
        <5>1. k \in 0 .. m - 1 /\ k - 1 \in 0 .. m - 1 /\ k - 1 # m
          BY <2>2, <4>3
        <5>2. f[k] = SplitStep(f[k - 1])
          BY <5>1, <4>3, <2>5, Zenon DEF SplitRounds
        <5> QED BY <5>1, <5>2, <4>3
      <4> HIDE DEF h
      <4> QED BY <4>1, <4>2, <4>3, <2>2, <2>3
    <3>2. h = [k \in 0 .. m |-> h[k]]
      OBVIOUS
    <3> HIDE DEF h
    <3> QED BY <3>1, <3>2, Zenon DEF SplitRounds
  <2> QED BY <2>2, <2>6
<1>2. \E f : SplitRounds(f, t, p, n)
  BY <1>1
<1> DEFINE g == CHOOSE f : SplitRounds(f, t, p, n)
<1>3. SplitRounds(g, t, p, n)
  BY <1>2
<1>4. SplitUp(t, p) = g[n].tree
  BY Zenon DEF SplitUp, SplitRounds, SplitStep
<1> QED BY <1>3, <1>4, Zenon

\* As long as there is a key too many, it is one level higher and one page more is used.
SplitSoFar(t, g, s, k, strict) ==
  \E h : /\ Shape(s.tree, h, strict) /\ Sizes(s.tree, h, s.page) /\ s.page \in h.nodes /\ Fits(s.tree, h)
         /\ SameContent(t, g.nodes, s.tree, h.nodes)
         /\ s.tree.num <= 2 * t.num + 1
         /\ key_num(s.tree.node[s.page]) > M - 1
              => s.tree.num = t.num + k /\ h.lev[s.tree.root] = g.lev[t.root] /\ h.lev[s.page] = k

\* insert_record's loop ends with a tree of its shape, with the entries it began with.
LEMMA SplitUpIs ==
  ASSUME NEW t, NEW g, NEW strict, Shape(t, g, strict), strict \/ M % 2 = 1,
         NEW p \in g.nodes, t.node[p].is_leaf, Sizes(t, g, p), Fits(t, g), 2 * t.num + 1 <= MaxPages
  PROVE  \E h : /\ Shape(SplitUp(t, p), h, strict) /\ Sizes(SplitUp(t, p), h, NoPage)
                /\ Fits(SplitUp(t, p), h)
                /\ SameContent(t, g.nodes, SplitUp(t, p), h.nodes)
<1> USE IndexFileAssumption
<1>1. /\ Placed(t, g) /\ g.lev[p] = 0 /\ t.num \in Nat /\ t.num >= 1 /\ MaxPages \in Nat
      /\ g.lev[t.root] < t.num /\ g.lev[t.root] \in Nat /\ NoPage \notin NodeIds
  BY DEF Shape, Placed, InOrder, Trees, NodeIds, Fits, NoPage
<1>2. PICK f : SplitRounds(f, t, p, t.num) /\ SplitUp(t, p) = f[t.num].tree
  BY <1>1, SplitUpDef
<1>3. f[0] = [tree |-> t, page |-> p] /\ \A k \in 1 .. t.num : f[k] = SplitStep(f[k - 1])
  BY <1>1, <1>2 DEF SplitRounds
<1> DEFINE Q(k) == SplitSoFar(t, g, f[k], k, strict)
<1>4. Q(0)
  <2>1. f[0].tree = t /\ f[0].page = p
    BY <1>3
  <2>2. SplitSoFar(t, g, f[0], 0, strict)
    BY <2>1, <1>1 DEF SplitSoFar, SameContent
  <2> QED BY <2>2
<1>5. ASSUME NEW k \in 1 .. t.num, Q(k - 1) PROVE Q(k)
  <2> DEFINE s == f[k - 1]
             r == f[k]
  <2>1. r = SplitStep(s)
    BY <1>3
  <2>2. PICK h : /\ Shape(s.tree, h, strict) /\ Sizes(s.tree, h, s.page) /\ s.page \in h.nodes /\ Fits(s.tree, h)
                 /\ SameContent(t, g.nodes, s.tree, h.nodes)
                 /\ s.tree.num <= 2 * t.num + 1
                 /\ key_num(s.tree.node[s.page]) > M - 1
                      => /\ s.tree.num = t.num + (k - 1) /\ h.lev[s.tree.root] = g.lev[t.root]
                         /\ h.lev[s.page] = k - 1
    BY <1>5 DEF SplitSoFar
  <2> HIDE DEF s, r
  <2>3. CASE ~ key_num(s.tree.node[s.page]) > M - 1
    <3>1. r = s
      BY <2>1, <2>3 DEF SplitStep
    <3>2. SplitSoFar(t, g, r, k, strict)
      BY <3>1, <2>2, <2>3 DEF SplitSoFar
    <3> QED BY <3>2 DEF r
  <2>4. CASE key_num(s.tree.node[s.page]) > M - 1
    <3>1. r = SplitRound(s.tree, s.page)
      BY <2>1, <2>4 DEF SplitStep
    <3>2. k - 1 <= g.lev[t.root]
      <4>1. h.lev[s.page] <= h.lev[s.tree.root]
        <5>1. Placed(s.tree, h)
          BY <2>2 DEF Shape
        <5>2. h.lev[s.tree.root] \in Nat /\ (s.page # s.tree.root => h.lev[s.page] < h.lev[s.tree.root])
          BY <5>1, <2>2 DEF Placed
        <5> QED BY <5>2, <2>2, <2>4
      <4> QED BY <4>1, <2>2, <2>4
    <3>3. s.tree.num + 2 <= 2 * t.num + 1 /\ s.tree.num + 2 <= MaxPages /\ s.tree.num = t.num + (k - 1)
      BY <3>2, <2>2, <2>4, <1>1
    <3>4. PICK h1 : Rounded(s.tree, h, s.page, r, h1, strict)
      BY <3>1, <3>3, <2>2, <2>4, SplitRoundIs
    <3>5. /\ Shape(r.tree, h1, strict) /\ Sizes(r.tree, h1, r.page) /\ r.page \in h1.nodes /\ Fits(r.tree, h1)
          /\ SameContent(s.tree, h.nodes, r.tree, h1.nodes)
          /\ IF s.page = s.tree.root THEN r.tree.num = s.tree.num + 2 /\ key_num(r.tree.node[r.page]) <= M - 1
             ELSE /\ r.tree.num = s.tree.num + 1 /\ h1.lev[r.tree.root] = h.lev[s.tree.root]
                  /\ h1.lev[r.page] = h.lev[s.page] + 1
      BY <3>4 DEF Rounded
    <3>6. key_num(r.tree.node[r.page]) \in Nat
      <4>1. Placed(r.tree, h1)
        BY <3>5 DEF Shape
      <4> QED BY <4>1, <3>5, NodeIs DEF key_num
    <3>7. r.tree.num <= 2 * t.num + 1
      BY <3>3, <3>5, <1>1
    <3>8. key_num(r.tree.node[r.page]) > M - 1
            => r.tree.num = t.num + k /\ h1.lev[r.tree.root] = g.lev[t.root] /\ h1.lev[r.page] = k
      <4>1. ASSUME key_num(r.tree.node[r.page]) > M - 1
            PROVE  r.tree.num = t.num + k /\ h1.lev[r.tree.root] = g.lev[t.root] /\ h1.lev[r.page] = k
        <5>1. s.page # s.tree.root
          BY <4>1, <3>5, <3>6, MidIs
        <5> QED BY <5>1, <3>3, <3>5, <2>2, <2>4, <1>1
      <4> QED BY <4>1
    <3>10. SameContent(t, g.nodes, r.tree, h1.nodes)
      BY <3>5, <2>2 DEF SameContent
    <3>9. SplitSoFar(t, g, r, k, strict)
      BY <3>5, <3>7, <3>8, <3>10 DEF SplitSoFar
    <3> QED BY <3>9 DEF r
  <2> QED BY <2>3, <2>4
<1>6. \A k \in 0 .. t.num : Q(k)
  <2> DEFINE S == {k \in 0 .. t.num : ~ Q(k)}
  <2> HIDE DEF Q
  <2>1. S = {}
    <3> SUFFICES ASSUME S # {} PROVE FALSE
      OBVIOUS
    <3>1. PICK k \in S : \A j \in S : k <= j
      <4>1. S \subseteq Nat
        BY <1>1
      <4> HIDE DEF S
      <4> QED BY <4>1, LeastExists, Zenon
    <3>2. k \in 0 .. t.num /\ ~ Q(k)
      BY <3>1
    <3>3. k # 0
      BY <3>2, <1>4
    <3>4. k - 1 \in 0 .. t.num /\ k - 1 \notin S
      <4> HIDE DEF S
      <4> QED BY <3>1, <3>2, <3>3, <1>1
    <3>5. Q(k - 1)
      BY <3>4
    <3> HIDE DEF S
    <3> QED BY <3>2, <3>3, <3>5, <1>1, <1>5
  <2> QED BY <2>1
<1>7. Q(t.num)
  <2> HIDE DEF Q
  <2> QED BY <1>1, <1>6
<1> DEFINE s == f[t.num]
<1>8. PICK h : /\ Shape(s.tree, h, strict) /\ Sizes(s.tree, h, s.page) /\ s.page \in h.nodes /\ Fits(s.tree, h)
               /\ SameContent(t, g.nodes, s.tree, h.nodes)
               /\ key_num(s.tree.node[s.page]) > M - 1
                    => h.lev[s.tree.root] = g.lev[t.root] /\ h.lev[s.page] = t.num
  BY <1>7 DEF SplitSoFar
<1> HIDE DEF s
<1>9. Placed(s.tree, h)
  BY <1>8 DEF Shape
<1>10. ~ key_num(s.tree.node[s.page]) > M - 1
  <2> SUFFICES ASSUME key_num(s.tree.node[s.page]) > M - 1 PROVE FALSE
    OBVIOUS
  <2>1. h.lev[s.tree.root] \in Nat /\ (s.page # s.tree.root => h.lev[s.page] < h.lev[s.tree.root])
    BY <1>8, <1>9 DEF Placed
  <2>2. h.lev[s.page] <= h.lev[s.tree.root]
    BY <2>1, <1>1, <1>8
  <2> QED BY <2>2, <1>1, <1>8
<1>11. Sizes(s.tree, h, NoPage)
  <2>1. \A q \in h.nodes : q # NoPage
    BY <1>1, <1>9 DEF Placed
  <2>2. key_num(s.tree.node[s.page]) <= M - 1
    <3>1. key_num(s.tree.node[s.page]) \in Nat
      BY <1>8, <1>9, NodeIs DEF key_num
    <3> QED BY <3>1, <1>10, MidIs
  <2> QED BY <2>1, <2>2, <1>8 DEF Sizes
<1>12. SplitUp(t, p) = s.tree
  BY <1>2 DEF s
<1> QED BY <1>8, <1>11, <1>12

\* A pair that is new does not double an entry.
LEMMA PairPutInApart ==
  ASSUME NEW t, NEW u, NEW nodes, NEW p \in nodes, NEW i, NEW key, NEW rid,
         PairPutIn(t, u, p, i, key, rid), t.node[p].is_leaf, u.node[p].is_leaf,
         \A q \in nodes \ {p} : u.node[q] = t.node[q],
         Apart(t, nodes), <<key, rid>> \notin Content(t, nodes)
  PROVE  Apart(u, nodes)
<1> DEFINE K == key_num(t.node[p])
           Place(q, j) == IF q = p /\ j > i THEN j - 1 ELSE j
           e == <<key, rid>>
<1>1. /\ K \in Nat /\ i \in 1 .. K + 1 /\ key_num(u.node[p]) = K + 1
      /\ \A j \in 1 .. K + 1 : u.node[p].list[j] = IF j < i THEN t.node[p].list[j]
                                                   ELSE IF j = i THEN pair(key, rid)
                                                   ELSE t.node[p].list[j - 1]
  BY DEF PairPutIn
<1> HIDE DEF K, e
<1>2. ASSUME NEW q \in nodes, t.node[q].is_leaf, NEW j \in 1 .. key_num(t.node[q]) PROVE EntryAt(t, q, j) # e
  <2>1. EntryAt(t, q, j) \in PairsOf(t.node[q])
    BY DEF EntryAt, PairsOf
  <2>2. EntryAt(t, q, j) \in Content(t, nodes)
    BY <2>1, <1>2 DEF Content
  <2> QED BY <2>2 DEF e
<1>3. ASSUME NEW q \in nodes, u.node[q].is_leaf, NEW j \in 1 .. key_num(u.node[q]), ~ (q = p /\ j = i)
      PROVE  /\ t.node[q].is_leaf /\ Place(q, j) \in 1 .. key_num(t.node[q])
             /\ EntryAt(u, q, j) = EntryAt(t, q, Place(q, j))
  <2>1. CASE q = p
    <3>1. j \in 1 .. K + 1 /\ j # i
      BY <2>1, <1>1, <1>3
    <3>2. CASE j < i
      <4>1. Place(q, j) = j /\ j \in 1 .. K /\ u.node[p].list[j] = t.node[p].list[j]
        BY <3>1, <3>2, <1>1
      <4> HIDE DEF Place
      <4> QED BY <4>1, <2>1 DEF EntryAt, K
    <3>3. CASE j > i
      <4>1. Place(q, j) = j - 1 /\ j - 1 \in 1 .. K /\ u.node[p].list[j] = t.node[p].list[j - 1]
        BY <3>1, <3>3, <2>1, <1>1
      <4> HIDE DEF Place
      <4> QED BY <4>1, <2>1 DEF EntryAt, K
    <3> QED BY <3>1, <3>2, <3>3, <1>1
  <2>2. CASE q # p
    <3>1. u.node[q] = t.node[q] /\ Place(q, j) = j
      BY <2>2
    <3> HIDE DEF Place
    <3> QED BY <3>1, <1>3 DEF EntryAt
  <2> QED BY <2>1, <2>2
<1>4. EntryAt(u, p, i) = e
  BY <1>1 DEF EntryAt, pair, e
<1>5. ASSUME NEW q \in nodes, NEW r \in nodes, u.node[q].is_leaf, u.node[r].is_leaf,
             NEW j \in 1 .. key_num(u.node[q]), NEW k \in 1 .. key_num(u.node[r]),
             EntryAt(u, q, j) = EntryAt(u, r, k)
      PROVE  q = r /\ j = k
  <2>1. CASE (q = p /\ j = i) /\ (r = p /\ k = i)
    BY <2>1
  <2>2. CASE (q = p /\ j = i) /\ ~ (r = p /\ k = i)
    <3>1. EntryAt(u, r, k) = e
      BY <2>2, <1>4, <1>5
    <3> HIDE DEF Place
    <3> QED BY <3>1, <2>2, <1>2, <1>3, <1>5
  <2>3. CASE ~ (q = p /\ j = i) /\ (r = p /\ k = i)
    <3>1. EntryAt(u, q, j) = e
      BY <2>3, <1>4, <1>5
    <3> HIDE DEF Place
    <3> QED BY <3>1, <2>3, <1>2, <1>3, <1>5
  <2>4. CASE ~ (q = p /\ j = i) /\ ~ (r = p /\ k = i)
    <3>1. /\ t.node[q].is_leaf /\ Place(q, j) \in 1 .. key_num(t.node[q])
          /\ t.node[r].is_leaf /\ Place(r, k) \in 1 .. key_num(t.node[r])
          /\ EntryAt(t, q, Place(q, j)) = EntryAt(t, r, Place(r, k))
      <4> HIDE DEF Place
      <4> QED BY <2>4, <1>3, <1>5
    <3>2. q = r /\ Place(q, j) = Place(r, k)
      <4> HIDE DEF Place
      <4> QED BY <3>1 DEF Apart
    <3>3. j = k
      <4>1. q = p => j \in 1 .. K + 1 /\ k \in 1 .. K + 1
        BY <3>2, <1>1
      <4> QED BY <3>2, <4>1, <2>4, <1>1
    <3> QED BY <3>2, <3>3
  <2> QED BY <2>1, <2>2, <2>3, <2>4
<1> QED BY <1>5 DEF Apart

\* IndexFile::insert_record: the tree keeps its shape, and has the record as well.
LEMMA InsertIs ==
  ASSUME NEW t, NEW g, NEW strict, Shape(t, g, strict), strict \/ M % 2 = 1,
         Sizes(t, g, NoPage), Fits(t, g), 2 * t.num + 1 <= MaxPages,
         NEW key \in 0 .. INDEX_KEY_MAX - 1, NEW rid \in Nat,
         strict => \A e \in Content(t, g.nodes) : e[1] # key
  PROVE  \E h : /\ Shape(insert_record(t, key, rid), h, strict)
                /\ Sizes(insert_record(t, key, rid), h, NoPage)
                /\ Fits(insert_record(t, key, rid), h)
                /\ Content(insert_record(t, key, rid), h.nodes)
                     = Content(t, g.nodes) \cup {<<key, rid>>}
                /\ Apart(t, g.nodes) /\ <<key, rid>> \notin Content(t, g.nodes)
                     => Apart(insert_record(t, key, rid), h.nodes)
<1> USE IndexFileAssumption
<1> DEFINE p == LeafFor(t, key)
           i == FirstFrom(t.node[p], key)
           u == insert_key(t, p, i, key, rid)
<1>1. /\ Placed(t, g) /\ AllKeysBetween(t, g, strict) /\ AllHaveChildren(t, g) /\ InOrder(t, g)
      /\ g.lev[t.root] < t.num /\ key \in 0 .. INDEX_KEY_MAX
  BY DEF Shape, Fits
<1>2. p \in g.nodes /\ t.node[p].is_leaf
  BY <1>1, LeafForIs
<1> HIDE DEF p
<1>3. strict => \A j \in 1 .. key_num(t.node[p]) : t.node[p].list[j].key # key
  <2>1. ASSUME strict, NEW j \in 1 .. key_num(t.node[p]) PROVE t.node[p].list[j].key # key
    <3> DEFINE e == <<t.node[p].list[j].key, t.node[p].list[j].value>>
    <3>1. e \in PairsOf(t.node[p])
      BY DEF PairsOf
    <3>2. e \in Content(t, g.nodes)
      <4> HIDE DEF e
      <4> QED BY <3>1, <1>2 DEF Content
    <3>3. e[1] # key
      BY <3>2, <2>1
    <3> QED BY <3>3
  <2> QED BY <2>1
<1>4. /\ Shape(u, g, strict) /\ Sizes(u, g, p)
      /\ u.root = t.root /\ u.num = t.num
      /\ PairsOf(u.node[p]) = PairsOf(t.node[p]) \cup {<<key, rid>>}
      /\ \A q \in NodeIds : q # p => u.node[q] = t.node[q]
      /\ u.node[p].is_leaf
      /\ PairPutIn(t, u, p, i, key, rid)
  BY <1>1, <1>3, KeyInserted DEF p
<1> HIDE DEF u, i
<1>5. Fits(u, g)
  BY <1>4 DEF Fits
<1>6. insert_record(t, key, rid) = SplitUp(u, p)
  BY DEF insert_record, location_at, u, i, p
<1>7. PICK h : /\ Shape(SplitUp(u, p), h, strict) /\ Sizes(SplitUp(u, p), h, NoPage)
               /\ Fits(SplitUp(u, p), h)
               /\ SameContent(u, g.nodes, SplitUp(u, p), h.nodes)
  BY <1>2, <1>4, <1>5, SplitUpIs
<1>8. Content(u, g.nodes) = Content(t, g.nodes) \cup {<<key, rid>>}
  <2>1. ASSUME NEW q \in g.nodes \ {p} PROVE u.node[q] = t.node[q]
    BY <1>1, <1>4 DEF Placed
  <2>2. ASSUME NEW e, e \in Content(u, g.nodes) PROVE e \in Content(t, g.nodes) \cup {<<key, rid>>}
    <3>1. PICK q \in g.nodes : u.node[q].is_leaf /\ e \in PairsOf(u.node[q])
      BY <2>2 DEF Content
    <3>2. CASE q = p
      <4>1. e \in PairsOf(t.node[p]) \/ e = <<key, rid>>
        BY <3>1, <3>2, <1>4
      <4> QED BY <4>1, <1>2 DEF Content
    <3>3. CASE q # p
      <4>1. t.node[q].is_leaf /\ e \in PairsOf(t.node[q])
        BY <3>1, <3>3, <2>1
      <4> QED BY <4>1 DEF Content
    <3> QED BY <3>2, <3>3
  <2>3. ASSUME NEW e, e \in Content(t, g.nodes) PROVE e \in Content(u, g.nodes)
    <3>1. PICK q \in g.nodes : t.node[q].is_leaf /\ e \in PairsOf(t.node[q])
      BY <2>3 DEF Content
    <3>2. u.node[q].is_leaf /\ e \in PairsOf(u.node[q])
      BY <3>1, <2>1, <1>4
    <3> QED BY <3>2 DEF Content
  <2>4. <<key, rid>> \in Content(u, g.nodes)
    BY <1>2, <1>4 DEF Content
  <2> QED BY <2>2, <2>3, <2>4
<1>9. Apart(t, g.nodes) /\ <<key, rid>> \notin Content(t, g.nodes) => Apart(u, g.nodes)
  <2> SUFFICES ASSUME Apart(t, g.nodes), <<key, rid>> \notin Content(t, g.nodes) PROVE Apart(u, g.nodes)
    OBVIOUS
  <2>1. \A q \in g.nodes \ {p} : u.node[q] = t.node[q]
    BY <1>1, <1>4 DEF Placed
  <2> QED BY <2>1, <1>2, <1>4, PairPutInApart
<1> QED BY <1>6, <1>7, <1>8, <1>9 DEF SameContent
=============================================================================
