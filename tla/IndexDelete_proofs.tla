------------------------- MODULE IndexDelete_proofs -------------------------
(***************************************************************************)
(* Deletions from the tree of IndexFile: a leaf that has a pair to spare   *)
(* loses it, one that has not borrows a pair of its brother or leaves the  *)
(* tree.  The theorems about an index.                                     *)
(***************************************************************************)
EXTENDS IndexFile_proofs

-----------------------------------------------------------------------------
\* Leaf p, which had one pair, has the first pair of the leaf behind it, s, which had
\* more, and the key between the two is that of the pair.
Borrows(t, g, p, P, s, x) ==
  Drops(t, g, p, P, s, x, x) /\ key_num(t.node[p]) = 1 /\ key_num(t.node[s]) > 1

\* The tree after leaf p took over the first pair of its right brother s.
Borrowed(t, u, nodes, p, P, s, x) ==
  LET first == t.node[s].list[1]
  IN  /\ u \in Trees /\ u.root = t.root /\ u.num = t.num
      /\ \A q \in nodes : /\ u.node[q] \in Node
                          /\ u.node[q].is_leaf <=> t.node[q].is_leaf
                          /\ u.node[q].parent = t.node[q].parent
                          /\ u.node[q].suc_leaf = t.node[q].suc_leaf
                          /\ u.node[q].pre_leaf = t.node[q].pre_leaf
                          /\ q \notin {p, s, P} => u.node[q].list = t.node[q].list
      /\ Len(u.node[p].list) = 2 /\ u.node[p].list[1] = first
      /\ u.node[p].list[2].key = INDEX_KEY_MAX
      /\ Len(u.node[s].list) = Len(t.node[s].list) - 1
      /\ \A j \in 1 .. Len(t.node[s].list) - 1 : u.node[s].list[j] = t.node[s].list[j + 1]
      /\ Len(u.node[P].list) = Len(t.node[P].list)
      /\ \A j \in 1 .. Len(t.node[P].list) :
            /\ u.node[P].list[j].value = t.node[P].list[j].value
            /\ u.node[P].list[j].key = IF j = x THEN first.key ELSE t.node[P].list[j].key

\* Where the nodes lie then: the bound between p and s has moved up to key.
Shifted(g, h, p, s, key) ==
  /\ h.nodes = g.nodes
  /\ \A q \in g.nodes : /\ h.lev[q] = g.lev[q] /\ h.from[q] = g.from[q] /\ h.to[q] = g.to[q]
                        /\ h.lo[q] = IF q = s THEN key ELSE g.lo[q]
                        /\ h.hi[q] = IF q = p THEN key ELSE g.hi[q]

\* The key that is to lie between the two leaves is above that which did, and below the
\* end of the right one.
BorrowFacts(t, g, p, P, s, x) ==
  LET key == t.node[s].list[1].key
      up  == t.node[P].list
  IN  /\ key \in 0 .. INDEX_KEY_MAX - 1 /\ key \in Int
      /\ g.lo[p] < g.hi[p] /\ g.hi[p] = g.lo[s] /\ g.lo[s] < key /\ key < g.hi[s]
      /\ g.hi[s] <= g.hi[P] /\ g.lo[P] <= g.lo[p]
      /\ t.node[s].list \in Seq(Pair) \ {<< >>} /\ Len(t.node[s].list) \in Nat
      /\ Len(t.node[s].list) >= 3
      /\ x \in 1 .. Len(up) - 1 /\ up[x].key = g.hi[p]
      /\ x + 1 < Len(up) => up[x + 1].key = g.hi[s]
      /\ KeysBetween(up, FALSE, g.lo[P], g.hi[P], TRUE)
      /\ KeysBetween(t.node[s].list, TRUE, g.lo[s], g.hi[s], TRUE)
      /\ \A q \in g.nodes : /\ g.from[q] \in Nat /\ g.to[q] \in Nat /\ g.from[q] < g.to[q]
                            /\ g.lo[q] \in Int /\ g.hi[q] \in Int

\* So it is with a leaf and the brother it borrows from.
LEMMA BorrowIs ==
  ASSUME NEW t, NEW g, NEW p, NEW P, NEW s, NEW x, Borrows(t, g, p, P, s, x)
  PROVE  BorrowFacts(t, g, p, P, s, x)
<1> USE IndexFileAssumption
<1> DEFINE L   == t.node[s].list
           up  == t.node[P].list
           n   == t.node[p]
           key == L[1].key
<1>1. Drops(t, g, p, P, s, x, x) /\ key_num(n) = 1 /\ key_num(t.node[s]) > 1
  BY DEF Borrows
<1>2. /\ p \in g.nodes /\ P \in g.nodes /\ s \in g.nodes
      /\ n.is_leaf /\ t.node[s].is_leaf /\ ~ t.node[P].is_leaf /\ HasChildren(t, g, P)
      /\ up \in Seq(Pair) \ {<< >>} /\ Len(up) \in Nat /\ Len(up) >= 2
      /\ x \in 1 .. Len(up) /\ x \in 1 .. Len(up) - 1
      /\ s = up[x + 1].value /\ up[x].value = p
  BY <1>1, DropsIs
<1>3. g.from[s] = g.to[p] /\ g.lo[s] = g.hi[p]
  BY <1>1, BrotherIs
<1>4. Placed(t, g) /\ AllKeysBetween(t, g, TRUE)
  BY <1>1, Zenon DEF Drops, Shape
<1>5. t.node[s].is_leaf = TRUE /\ n.is_leaf = TRUE /\ t.node[P].is_leaf = FALSE
  BY <1>2, <1>4, NodeIs
<1>6. /\ KeysBetween(up, FALSE, g.lo[P], g.hi[P], TRUE)
      /\ KeysBetween(L, TRUE, g.lo[s], g.hi[s], TRUE)
      /\ KeysBetween(n.list, TRUE, g.lo[p], g.hi[p], TRUE)
  BY <1>2, <1>4, <1>5, Zenon DEF AllKeysBetween
<1>7. L \in Seq(Pair) \ {<< >>} /\ n.list \in Seq(Pair) \ {<< >>}
  BY <1>2, <1>4, Zenon DEF Placed, Node
<1>8. Len(L) \in Nat /\ Len(L) >= 3 /\ Len(n.list) = 2
  <2>1. Len(L) \in Nat /\ Len(n.list) \in Nat
    BY <1>7
  <2>2. Len(L) - 1 > 1 /\ Len(n.list) - 1 = 1
    BY <1>1 DEF key_num
  <2> HIDE DEF L, n
  <2> QED BY <2>1, <2>2
<1>9. \A q \in g.nodes : /\ g.from[q] \in Nat /\ g.to[q] \in Nat /\ g.from[q] < g.to[q]
                         /\ g.lo[q] \in Int /\ g.hi[q] \in Int
  BY <1>4 DEF Placed
<1>10. /\ \A i \in 1 .. Len(L) : L[i].key \in 0 .. INDEX_KEY_MAX /\ L[i].key \in Int
       /\ \A i \in 1 .. Len(n.list) : n.list[i].key \in Int
       /\ \A i \in 1 .. Len(up) : up[i].key \in Int
  BY <1>2, <1>7, ListIs, Zenon
<1> HIDE DEF L, n
<1>11. key \in 0 .. INDEX_KEY_MAX - 1 /\ key \in Int /\ g.lo[s] < key /\ key < g.hi[s]
  <2>1. 1 \in 1 .. Len(L) - 1 /\ 2 \in 1 .. Len(L) - 1 /\ 1 \in 1 .. Len(L) /\ 2 \in 1 .. Len(L)
    BY <1>8
  <2>2. /\ L[1].key < INDEX_KEY_MAX /\ g.lo[s] < L[1].key
        /\ L[1].key < L[2].key /\ L[2].key <= g.hi[s]
    BY <2>1, <1>6 DEF KeysBetween
  <2>3. /\ L[1].key \in 0 .. INDEX_KEY_MAX /\ L[1].key \in Int /\ L[2].key \in Int
        /\ g.lo[s] \in Int /\ g.hi[s] \in Int
    BY <2>1, <1>2, <1>9, <1>10, Zenon
  <2>4. INDEX_KEY_MAX \in Nat
    OBVIOUS
  <2> QED BY <2>2, <2>3, <2>4
<1>12. g.lo[p] < g.hi[p]
  <2>1. 1 \in 1 .. Len(n.list) - 1 /\ n.list[1].key \in Int
    BY <1>8, <1>10
  <2>2. g.lo[p] < n.list[1].key /\ n.list[1].key <= g.hi[p]
    BY <2>1, <1>6 DEF KeysBetween
  <2>3. g.lo[p] \in Int /\ g.hi[p] \in Int
    BY <1>2, <1>9
  <2> QED BY ONLY <2>1, <2>2, <2>3
<1>13. \A j \in 1 .. Len(up) :
         /\ g.lo[up[j].value] = IF j = 1 THEN g.lo[P] ELSE up[j - 1].key
         /\ g.hi[up[j].value] = IF j = Len(up) THEN g.hi[P] ELSE up[j].key
  <2>1. DOMAIN up = 1 .. Len(up)
    BY <1>2
  <2>2. \A j \in DOMAIN up : /\ g.lo[up[j].value] = IF j = 1 THEN g.lo[P] ELSE up[j - 1].key
                             /\ g.hi[up[j].value] = IF j = Len(up) THEN g.hi[P] ELSE up[j].key
    BY <1>2, Zenon DEF HasChildren, Child
  <2> HIDE DEF up
  <2> QED BY <2>1, <2>2, Zenon
<1> HIDE DEF up
<1>14. /\ \A j \in 1 .. Len(up) - 1 : g.lo[P] <= up[j].key /\ up[j].key <= g.hi[P]
  BY <1>6 DEF KeysBetween
<1>15. up[x].key = g.hi[p] /\ (x + 1 < Len(up) => up[x + 1].key = g.hi[s])
  <2>1. x # Len(up) /\ x + 1 \in 1 .. Len(up) /\ (x + 1 < Len(up) => x + 1 # Len(up))
    BY <1>2
  <2> QED BY <2>1, <1>2, <1>13
<1>16. g.hi[s] <= g.hi[P]
  <2>1. CASE x + 1 < Len(up)
    <3>1. x + 1 \in 1 .. Len(up) - 1
      BY <2>1, <1>2
    <3> QED BY <2>1, <3>1, <1>14, <1>15
  <2>2. CASE ~ (x + 1 < Len(up))
    <3>1. x + 1 = Len(up) /\ x + 1 \in 1 .. Len(up)
      BY <2>2, <1>2
    <3>2. g.hi[s] = g.hi[P]
      BY <3>1, <1>2, <1>13
    <3> QED BY <3>2, <1>2, <1>9
  <2> QED BY <2>1, <2>2
<1>17. g.lo[P] <= g.lo[p]
  <2>1. CASE x = 1
    BY <2>1, <1>2, <1>9, <1>13
  <2>2. CASE x # 1
    <3>1. x - 1 \in 1 .. Len(up) - 1
      BY <2>2, <1>2
    <3> QED BY <2>2, <3>1, <1>2, <1>13, <1>14
  <2> QED BY <2>1, <2>2
<1>18. L \in Seq(Pair) \ {<< >>} /\ Len(L) \in Nat /\ Len(L) >= 3 /\ x \in 1 .. Len(up) - 1
  BY <1>2, <1>7, <1>8
<1> QED BY <1>2, <1>3, <1>6, <1>9, <1>11, <1>12, <1>15, <1>16, <1>17, <1>18, Zenon DEF BorrowFacts, L, up, n
-----------------------------------------------------------------------------
\* The keys lie between the bounds of their nodes when the bound of two leaves has moved.
LEMMA BorrowKeys ==
  ASSUME NEW t, NEW g, NEW p, NEW P, NEW s, NEW x, Borrows(t, g, p, P, s, x),
         NEW u, Borrowed(t, u, g.nodes, p, P, s, x),
         NEW h, Shifted(g, h, p, s, t.node[s].list[1].key)
  PROVE  AllKeysBetween(u, h, TRUE)
<1> USE IndexFileAssumption
<1> DEFINE L   == t.node[s].list
           up  == t.node[P].list
           key == L[1].key
           mine == u.node[p].list
           theirs == u.node[s].list
           list == u.node[P].list
<1>1. /\ p \in g.nodes /\ P \in g.nodes /\ s \in g.nodes /\ p # P /\ s # P /\ s # p
      /\ t.node[p].is_leaf /\ t.node[s].is_leaf /\ ~ t.node[P].is_leaf
      /\ up \in Seq(Pair) \ {<< >>} /\ Len(up) \in Nat /\ Len(up) >= 2
  BY DropsIs DEF Borrows
<1>2. /\ key \in 0 .. INDEX_KEY_MAX - 1 /\ key \in Int
      /\ g.lo[p] < g.hi[p] /\ g.hi[p] = g.lo[s] /\ g.lo[s] < key /\ key < g.hi[s]
      /\ g.hi[s] <= g.hi[P] /\ g.lo[P] <= g.lo[p]
      /\ L \in Seq(Pair) \ {<< >>} /\ Len(L) \in Nat /\ Len(L) >= 3
      /\ x \in 1 .. Len(up) - 1 /\ up[x].key = g.hi[p]
      /\ x + 1 < Len(up) => up[x + 1].key = g.hi[s]
      /\ KeysBetween(up, FALSE, g.lo[P], g.hi[P], TRUE)
      /\ KeysBetween(L, TRUE, g.lo[s], g.hi[s], TRUE)
      /\ \A q \in g.nodes : g.lo[q] \in Int /\ g.hi[q] \in Int
  <2>1. BorrowFacts(t, g, p, P, s, x)
    BY BorrowIs
  <2> QED BY <2>1, Zenon DEF BorrowFacts
<1>3. /\ \A q \in g.nodes : /\ u.node[q] \in Node
                            /\ u.node[q].is_leaf <=> t.node[q].is_leaf
                            /\ q \notin {p, s, P} => u.node[q].list = t.node[q].list
      /\ Len(mine) = 2 /\ mine[1] = L[1] /\ mine[2].key = INDEX_KEY_MAX
      /\ Len(theirs) = Len(L) - 1
      /\ \A j \in 1 .. Len(L) - 1 : theirs[j] = L[j + 1]
      /\ Len(list) = Len(up)
      /\ \A j \in 1 .. Len(up) : list[j].key = IF j = x THEN key ELSE up[j].key
  BY DEF Borrowed
<1>4. AllKeysBetween(t, g, TRUE)
  BY Zenon DEF Borrows, Drops, Shape
<1>5. /\ h.nodes = g.nodes
      /\ \A q \in g.nodes : /\ h.lo[q] = IF q = s THEN key ELSE g.lo[q]
                            /\ h.hi[q] = IF q = p THEN key ELSE g.hi[q]
  BY DEF Shifted
<1>6. KeysBetween(mine, u.node[p].is_leaf, h.lo[p], h.hi[p], TRUE)
  <2>1. h.lo[p] = g.lo[p] /\ h.hi[p] = key /\ u.node[p].is_leaf
    BY <1>1, <1>3, <1>5
  <2>2. mine[1].key = key
    BY <1>3
  <2>3. key < INDEX_KEY_MAX /\ g.lo[p] < key /\ g.lo[p] \in Int
    <3>1. g.lo[p] \in Int /\ g.hi[p] \in Int /\ key \in 0 .. INDEX_KEY_MAX - 1 /\ INDEX_KEY_MAX \in Nat
          /\ g.lo[p] < g.hi[p] /\ g.hi[p] < key
      BY <1>1, <1>2
    <3> HIDE DEF key
    <3> QED BY <3>1
  <2> HIDE DEF mine, key
  <2>4. Len(mine) = 2 /\ mine[2].key = INDEX_KEY_MAX /\ key \in Int
    BY <1>2, <1>3
  <2> QED BY <2>1, <2>2, <2>3, <2>4 DEF KeysBetween
<1>7. KeysBetween(theirs, u.node[s].is_leaf, h.lo[s], h.hi[s], TRUE)
  <2>1. h.lo[s] = key /\ h.hi[s] = g.hi[s] /\ u.node[s].is_leaf
    BY <1>1, <1>3, <1>5
  <2> DEFINE n == Len(L) - 2
  <2>2. n \in Nat /\ Len(L) - 1 = n + 1 /\ Len(L) = n + 2 /\ Len(theirs) = n + 1
    <3> HIDE DEF L, theirs
    <3>1. Len(L) \in Nat /\ Len(L) >= 3 /\ Len(theirs) = Len(L) - 1
      BY <1>2, <1>3
    <3> QED BY <3>1
  <2>3. /\ L[n + 2].key = INDEX_KEY_MAX
        /\ \A i \in 1 .. n + 1 : L[i].key < INDEX_KEY_MAX /\ L[i].key <= g.hi[s]
        /\ \A i, j \in 1 .. n + 1 : i < j => L[i].key <= L[j].key /\ L[i].key < L[j].key
    <3> HIDE DEF n
    <3> QED BY <2>2, <1>2, Zenon DEF KeysBetween
  <2>4. /\ \A j \in 1 .. n + 1 : theirs[j].key = L[j + 1].key
    BY <2>2, <1>3, Zenon
  <2>5. \A i \in 1 .. n + 2 : L[i].key \in Int
    BY <2>2, <1>2, ListIs, Zenon
  <2> HIDE DEF n, L, theirs
  <2>6. \A i \in 1 .. n : i + 1 \in 1 .. n + 1 /\ 1 < i + 1 /\ 1 \in 1 .. n + 1
    BY <2>2
  <2>7. \A i \in 1 .. n : key < L[i + 1].key
    BY <2>3, <2>6
  <2>8. theirs[n + 1].key = INDEX_KEY_MAX
    <3>1. n + 1 \in 1 .. n + 1 /\ (n + 1) + 1 = n + 2
      BY <2>2
    <3> QED BY <3>1, <2>3, <2>4
  <2>9. \A i \in 1 .. n : /\ theirs[i].key < INDEX_KEY_MAX /\ theirs[i].key <= g.hi[s]
                          /\ key < theirs[i].key /\ key <= theirs[i].key
    <3> SUFFICES ASSUME NEW i \in 1 .. n
                 PROVE  /\ theirs[i].key < INDEX_KEY_MAX /\ theirs[i].key <= g.hi[s]
                        /\ key < theirs[i].key /\ key <= theirs[i].key
      OBVIOUS
    <3>1. i + 1 \in 1 .. n + 1 /\ i + 1 \in 1 .. n + 2 /\ i \in 1 .. n + 1
      BY <2>2
    <3>2. theirs[i].key = L[i + 1].key /\ L[i + 1].key \in Int
      BY <3>1, <2>4, <2>5
    <3> HIDE DEF key
    <3> QED BY <3>1, <3>2, <2>3, <2>7, <1>2
  <2>10. \A i, j \in 1 .. n : i < j => theirs[i].key <= theirs[j].key /\ theirs[i].key < theirs[j].key
    <3> SUFFICES ASSUME NEW i \in 1 .. n, NEW j \in 1 .. n, i < j
                 PROVE  theirs[i].key <= theirs[j].key /\ theirs[i].key < theirs[j].key
      OBVIOUS
    <3>1. i + 1 \in 1 .. n + 1 /\ j + 1 \in 1 .. n + 1 /\ i + 1 < j + 1 /\ i \in 1 .. n + 1 /\ j \in 1 .. n + 1
      BY <2>2
    <3> QED BY <3>1, <2>3, <2>4
  <2>11. Len(theirs) - 1 = n
    BY <2>2
  <2> HIDE DEF key
  <2> QED BY <2>1, <2>2, <2>8, <2>9, <2>10, <2>11 DEF KeysBetween
<1>8. KeysBetween(list, u.node[P].is_leaf, h.lo[P], h.hi[P], TRUE)
  <2>1. h.lo[P] = g.lo[P] /\ h.hi[P] = g.hi[P] /\ ~ u.node[P].is_leaf
    BY <1>1, <1>3, <1>5
  <2> HIDE DEF up, list, key
  <2> DEFINE n == Len(up) - 1
  <2>2. n \in Nat /\ Len(up) = n + 1 /\ Len(list) = n + 1 /\ x \in 1 .. n /\ Len(list) - 1 = n
    BY <1>1, <1>2, <1>3
  <2>3. /\ up[n + 1].key = INDEX_KEY_MAX
        /\ \A i \in 1 .. n : up[i].key < INDEX_KEY_MAX /\ g.lo[P] <= up[i].key /\ up[i].key <= g.hi[P]
                             /\ g.lo[P] < up[i].key /\ up[i].key < g.hi[P]
        /\ \A i, j \in 1 .. n : i < j => up[i].key <= up[j].key /\ up[i].key < up[j].key
    <3> HIDE DEF n
    <3>1. Len(up) - 1 = n
      BY <2>2
    <3> QED BY <2>2, <3>1, <1>2 DEF KeysBetween
  <2>4. \A i \in 1 .. n + 1 : up[i].key \in Int
    BY <2>2, <1>1, ListIs
  <2>5. list[n + 1].key = INDEX_KEY_MAX /\ list[x].key = key
        /\ \A i \in 1 .. n : i # x => list[i].key = up[i].key
    BY <2>2, <2>3, <1>3
  <2> HIDE DEF n
  <2>6. /\ key < INDEX_KEY_MAX /\ g.lo[P] < key /\ key < g.hi[P] /\ key \in Int
        /\ up[x].key < key
        /\ g.lo[P] \in Int /\ g.hi[P] \in Int
    <3>1. /\ g.lo[P] \in Int /\ g.hi[P] \in Int /\ g.lo[p] \in Int /\ g.hi[p] \in Int
          /\ g.lo[s] \in Int /\ g.hi[s] \in Int
      BY <1>1, <1>2
    <3>2. key \in 0 .. INDEX_KEY_MAX - 1 /\ INDEX_KEY_MAX \in Nat
      BY <1>2
    <3>3. /\ g.lo[p] < g.hi[p] /\ g.hi[p] = g.lo[s] /\ g.lo[s] < key /\ key < g.hi[s]
          /\ g.hi[s] <= g.hi[P] /\ g.lo[P] <= g.lo[p] /\ up[x].key = g.hi[p]
      BY <1>2
    <3> QED BY <3>1, <3>2, <3>3
  <2>7. \A i \in 1 .. x - 1 : list[i].key < key
    <3> SUFFICES ASSUME NEW i \in 1 .. x - 1 PROVE list[i].key < key
      OBVIOUS
    <3>1. i \in 1 .. n /\ i # x /\ i < x /\ i \in 1 .. n + 1 /\ x \in 1 .. n + 1
      BY <2>2
    <3>2. list[i].key = up[i].key /\ up[i].key < up[x].key /\ up[i].key \in Int /\ up[x].key \in Int
      BY <3>1, <2>2, <2>3, <2>4, <2>5
    <3> QED BY <3>2, <2>6
  <2>8. \A i \in x + 1 .. n : key < list[i].key
    <3> SUFFICES ASSUME NEW i \in x + 1 .. n PROVE key < list[i].key
      OBVIOUS
    <3>1. i \in 1 .. n /\ i # x /\ x + 1 \in 1 .. n /\ i \in 1 .. n + 1 /\ x + 1 \in 1 .. n + 1 /\ x + 1 < Len(up)
      BY <2>2
    <3>2. up[x + 1].key <= up[i].key
      <4>1. i = x + 1 \/ x + 1 < i
        BY <2>2
      <4> QED BY <4>1, <3>1, <2>3, <2>4
    <3>3. up[x + 1].key = g.hi[s] /\ key < g.hi[s] /\ up[x + 1].key \in Int /\ up[i].key \in Int
      BY <3>1, <2>4, <1>2
    <3>4. list[i].key = up[i].key
      BY <3>1, <2>5
    <3> QED BY <3>2, <3>3, <3>4, <2>6
  <2>9. \A i \in 1 .. n : list[i].key < INDEX_KEY_MAX /\ g.lo[P] <= list[i].key /\ list[i].key <= g.hi[P]
                          /\ g.lo[P] < list[i].key /\ list[i].key < g.hi[P]
    <3> SUFFICES ASSUME NEW i \in 1 .. n
                 PROVE  list[i].key < INDEX_KEY_MAX /\ g.lo[P] <= list[i].key /\ list[i].key <= g.hi[P]
                        /\ g.lo[P] < list[i].key /\ list[i].key < g.hi[P]
      OBVIOUS
    <3>1. CASE i = x
      BY <3>1, <2>5, <2>6
    <3>2. CASE i # x
      BY <3>2, <2>3, <2>5
    <3> QED BY <3>1, <3>2
  <2>10. \A i, j \in 1 .. n : i < j => list[i].key <= list[j].key /\ list[i].key < list[j].key
    <3> SUFFICES ASSUME NEW i \in 1 .. n, NEW j \in 1 .. n, i < j
                 PROVE  list[i].key <= list[j].key /\ list[i].key < list[j].key
      OBVIOUS
    <3>1. CASE i # x /\ j # x
      BY <3>1, <2>3, <2>5
    <3>2. CASE i = x
      <4>1. j \in x + 1 .. n /\ j # x /\ j \in 1 .. n + 1
        BY <3>2, <2>2
      <4>2. key < list[j].key /\ list[j].key \in Int
        BY <4>1, <2>4, <2>5, <2>8
      <4> QED BY <3>2, <4>2, <2>5, <2>6
    <3>3. CASE j = x
      <4>1. i \in 1 .. x - 1 /\ i # x /\ i \in 1 .. n + 1
        BY <3>3, <2>2
      <4>2. list[i].key < key /\ list[i].key \in Int
        BY <4>1, <2>4, <2>5, <2>7
      <4> QED BY <3>3, <4>2, <2>5, <2>6
    <3> QED BY <3>1, <3>2, <3>3
  <2> QED BY <2>1, <2>2, <2>5, <2>9, <2>10 DEF KeysBetween
<1>9. ASSUME NEW q \in g.nodes, q \notin {p, s, P}
      PROVE  KeysBetween(u.node[q].list, u.node[q].is_leaf, h.lo[q], h.hi[q], TRUE)
  <2>1. KeysBetween(t.node[q].list, t.node[q].is_leaf, g.lo[q], g.hi[q], TRUE)
    BY <1>4, Zenon DEF AllKeysBetween
  <2>2. u.node[q].list = t.node[q].list /\ (u.node[q].is_leaf <=> t.node[q].is_leaf)
    BY <1>3, <1>9
  <2>3. h.lo[q] = g.lo[q] /\ h.hi[q] = g.hi[q]
    BY <1>5, <1>9
  <2> QED BY <2>1, <2>2, <2>3 DEF KeysBetween
<1> QED BY <1>5, <1>6, <1>7, <1>8, <1>9, Zenon DEF AllKeysBetween
-----------------------------------------------------------------------------
\* The children of a node are different nodes.
LEMMA ChildrenDiffer ==
  ASSUME NEW t, NEW g, Placed(t, g), NEW P \in g.nodes, HasChildren(t, g, P),
         NEW i \in 1 .. Len(t.node[P].list), NEW j \in 1 .. Len(t.node[P].list),
         t.node[P].list[i].value = t.node[P].list[j].value
  PROVE  i = j
<1> DEFINE up == t.node[P].list
<1>1. Len(up) \in Nat /\ DOMAIN up = 1 .. Len(up)
  <2>1. up \in Seq(Pair) /\ Len(up) \in Nat \ {0}
    BY NodeIs
  <2> HIDE DEF up
  <2> QED BY <2>1
<1>2. /\ \A a \in 1 .. Len(up) : up[a].value \in g.nodes
      /\ \A a, b \in 1 .. Len(up) : a < b => g.to[up[a].value] <= g.from[up[b].value]
  BY <1>1, Zenon DEF HasChildren, Child
<1>3. \A q \in g.nodes : g.from[q] \in Nat /\ g.to[q] \in Nat /\ g.from[q] < g.to[q]
  BY DEF Placed
<1> HIDE DEF up
<1>4. ASSUME NEW a \in 1 .. Len(up), NEW b \in 1 .. Len(up), up[a].value = up[b].value PROVE ~ (a < b)
  <2> DEFINE c == up[a].value
  <2>1. c \in g.nodes /\ (a < b => g.to[c] <= g.from[c])
    BY <1>2, <1>4
  <2> HIDE DEF c
  <2> QED BY <2>1, <1>3
<1>5. up[i].value = up[j].value /\ i \in 1 .. Len(up) /\ j \in 1 .. Len(up)
  BY DEF up
<1>6. ~ (i < j) /\ ~ (j < i)
  BY <1>4, <1>5
<1> QED BY <1>1, <1>5, <1>6

\* The bound between two leaves that moves leaves each other node in its place ...
LEMMA BorrowPlaced ==
  ASSUME NEW t, NEW g, NEW p, NEW P, NEW s, NEW x, Borrows(t, g, p, P, s, x),
         NEW u, Borrowed(t, u, g.nodes, p, P, s, x),
         NEW h, Shifted(g, h, p, s, t.node[s].list[1].key)
  PROVE  Placed(u, h)
<1> USE IndexFileAssumption
<1> DEFINE key == t.node[s].list[1].key
<1>1. p \in g.nodes /\ s \in g.nodes /\ p # t.root /\ s # t.root
  BY DropsIs DEF Borrows
<1>2. key \in 0 .. INDEX_KEY_MAX - 1
  BY BorrowIs, Zenon DEF BorrowFacts
<1>3. Placed(t, g)
  BY DEF Borrows, Drops, Shape
<1>4. u \in Trees /\ u.root = t.root /\ \A q \in g.nodes : u.node[q] \in Node
  BY DEF Borrowed
<1>5. /\ h.nodes = g.nodes
      /\ \A q \in g.nodes : /\ h.lev[q] = g.lev[q] /\ h.from[q] = g.from[q] /\ h.to[q] = g.to[q]
                            /\ h.lo[q] = IF q = s THEN key ELSE g.lo[q]
                            /\ h.hi[q] = IF q = p THEN key ELSE g.hi[q]
  BY DEF Shifted
<1> HIDE DEF key
<1>6. \A q \in g.nodes : h.lo[q] \in -1 .. INDEX_KEY_MAX - 1 /\ h.hi[q] \in 0 .. INDEX_KEY_MAX
  <2>1. key \in -1 .. INDEX_KEY_MAX - 1 /\ key \in 0 .. INDEX_KEY_MAX
    BY <1>2
  <2>2. \A q \in g.nodes : g.lo[q] \in -1 .. INDEX_KEY_MAX - 1 /\ g.hi[q] \in 0 .. INDEX_KEY_MAX
    BY <1>3 DEF Placed
  <2> QED BY <2>1, <2>2, <1>5
<1>7. t.root \in g.nodes /\ h.lo[t.root] = g.lo[t.root] /\ h.hi[t.root] = g.hi[t.root]
  BY <1>1, <1>3, <1>5 DEF Placed
<1> QED BY <1>3, <1>4, <1>5, <1>6, <1>7 DEF Placed

\* ... the inner nodes their children ...
LEMMA BorrowChildren ==
  ASSUME NEW t, NEW g, NEW p, NEW P, NEW s, NEW x, Borrows(t, g, p, P, s, x),
         NEW u, Borrowed(t, u, g.nodes, p, P, s, x),
         NEW h, Shifted(g, h, p, s, t.node[s].list[1].key)
  PROVE  AllHaveChildren(u, h)
<1> USE IndexFileAssumption
<1> DEFINE key == t.node[s].list[1].key
<1>1. /\ p \in g.nodes /\ P \in g.nodes /\ s \in g.nodes /\ p # P /\ s # P /\ s # p
      /\ t.node[p].is_leaf /\ t.node[s].is_leaf /\ ~ t.node[P].is_leaf
      /\ t.node[p].parent = P /\ t.node[s].parent = P /\ HasChildren(t, g, P)
      /\ t.node[P].list \in Seq(Pair)
      /\ x \in 1 .. Len(t.node[P].list) /\ x \in 1 .. Len(t.node[P].list) - 1
      /\ s = t.node[P].list[x + 1].value /\ t.node[P].list[x].value = p
  BY DropsIs DEF Borrows
<1>2. Placed(t, g) /\ AllHaveChildren(t, g)
  BY DEF Borrows, Drops, Shape
<1>3. /\ \A q \in g.nodes : /\ u.node[q] \in Node
                            /\ u.node[q].is_leaf <=> t.node[q].is_leaf
                            /\ u.node[q].parent = t.node[q].parent
                            /\ q \notin {p, s, P} => u.node[q].list = t.node[q].list
      /\ Len(u.node[P].list) = Len(t.node[P].list)
      /\ \A j \in 1 .. Len(t.node[P].list) :
            /\ u.node[P].list[j].value = t.node[P].list[j].value
            /\ u.node[P].list[j].key = IF j = x THEN key ELSE t.node[P].list[j].key
  BY DEF Borrowed
<1>4. /\ h.nodes = g.nodes
      /\ \A q \in g.nodes : /\ h.lev[q] = g.lev[q] /\ h.from[q] = g.from[q] /\ h.to[q] = g.to[q]
                            /\ h.lo[q] = IF q = s THEN key ELSE g.lo[q]
                            /\ h.hi[q] = IF q = p THEN key ELSE g.hi[q]
  BY DEF Shifted
<1> HIDE DEF key
<1>5. ASSUME NEW q \in g.nodes, q # P, ~ t.node[q].is_leaf PROVE HasChildren(u, h, q)
  <2> DEFINE list == t.node[q].list
  <2>1. list \in Seq(Pair) /\ u.node[q].list = list
    BY <1>1, <1>2, <1>3, <1>5, NodeIs, Zenon
  <2>2. HasChildren(t, g, q)
    BY <1>2, <1>5 DEF AllHaveChildren
  <2> HIDE DEF list
  <2>3. /\ \A i \in 1 .. Len(list) : ChildAt(t, g, q, list, i)
        /\ \A i, j \in 1 .. Len(list) : i < j => g.to[list[i].value] <= g.from[list[j].value]
    BY <2>1, <2>2, ChildrenAre, Zenon DEF list
  <2>4. \A i \in 1 .. Len(list) : ChildAt(u, h, q, list, i)
    <3> SUFFICES ASSUME NEW i \in 1 .. Len(list) PROVE ChildAt(u, h, q, list, i)
      OBVIOUS
    <3> DEFINE c == list[i].value
    <3>1. /\ c \in g.nodes /\ t.node[c].parent = q /\ g.lev[c] + 1 = g.lev[q]
          /\ g.from[c] = IF i = 1 THEN g.from[q] ELSE g.to[list[i - 1].value]
          /\ i = Len(list) => g.to[c] = g.to[q]
          /\ g.lo[c] = IF i = 1 THEN g.lo[q] ELSE list[i - 1].key
          /\ g.hi[c] = IF i = Len(list) THEN g.hi[q] ELSE list[i].key
      BY <2>3 DEF ChildAt
    <3>2. c # p /\ c # s /\ q # p /\ q # s
      BY <3>1, <1>1, <1>5, Zenon
    <3>3. i # 1 => list[i - 1].value \in g.nodes
      <4>1. i # 1 => i - 1 \in 1 .. Len(list)
        BY <2>1
      <4> QED BY <4>1, <2>3 DEF ChildAt
    <3>4. u.node[c].parent = q
      BY <3>1, <1>3
    <3>5. /\ h.lev[c] = g.lev[c] /\ h.lev[q] = g.lev[q] /\ h.from[c] = g.from[c] /\ h.from[q] = g.from[q]
          /\ h.to[c] = g.to[c] /\ h.to[q] = g.to[q]
          /\ h.lo[c] = g.lo[c] /\ h.lo[q] = g.lo[q] /\ h.hi[c] = g.hi[c] /\ h.hi[q] = g.hi[q]
          /\ i # 1 => h.to[list[i - 1].value] = g.to[list[i - 1].value]
      BY <3>1, <3>2, <3>3, <1>4, <1>5
    <3>6. c \in h.nodes
      BY <3>1, <1>4
    <3> QED BY <3>1, <3>4, <3>5, <3>6 DEF ChildAt
  <2>5. \A i, j \in 1 .. Len(list) : i < j => h.to[list[i].value] <= h.from[list[j].value]
    <3>1. \A i \in 1 .. Len(list) : list[i].value \in g.nodes
      BY <2>3 DEF ChildAt
    <3> QED BY <3>1, <2>3, <1>4
  <2> QED BY <2>1, <2>4, <2>5, ChildrenAre, Zenon
<1>6. HasChildren(u, h, P)
  <2> DEFINE up   == t.node[P].list
             list == u.node[P].list
  <2>1. up \in Seq(Pair) /\ Len(up) \in Nat /\ list \in Seq(Pair) /\ Len(list) = Len(up)
    <3>1. list \in Seq(Pair)
      BY <1>1, <1>3, Zenon DEF Node
    <3>2. Len(list) = Len(up) /\ up \in Seq(Pair)
      BY <1>1, <1>3, Zenon
    <3> HIDE DEF up, list
    <3> QED BY <3>1, <3>2
  <2>2. /\ \A j \in 1 .. Len(up) : /\ list[j].value = up[j].value
                                   /\ list[j].key = IF j = x THEN key ELSE up[j].key
        /\ x \in 1 .. Len(up) /\ x + 1 \in 1 .. Len(up) /\ x # Len(up)
        /\ up[x].value = p /\ up[x + 1].value = s
    <3>1. x \in 1 .. Len(up) /\ x \in 1 .. Len(up) - 1 /\ Len(up) \in Nat
      BY <1>1, <2>1, Zenon
    <3>2. x + 1 \in 1 .. Len(up) /\ x # Len(up)
      <4> HIDE DEF up
      <4> QED BY <3>1
    <3> QED BY <3>1, <3>2, <1>1, <1>3, Zenon
  <2>3. \A j \in 1 .. Len(up) : (up[j].value = p => j = x) /\ (up[j].value = s => j = x + 1)
    <3> SUFFICES ASSUME NEW j \in 1 .. Len(up)
                 PROVE  (up[j].value = p => j = x) /\ (up[j].value = s => j = x + 1)
      OBVIOUS
    <3>1. x \in 1 .. Len(up) /\ x + 1 \in 1 .. Len(up) /\ up[x].value = p /\ up[x + 1].value = s
      BY <2>2
    <3>2. CASE up[j].value = p
      <4>1. t.node[P].list[j].value = t.node[P].list[x].value
        BY <3>1, <3>2
      <4>2. /\ Placed(t, g) /\ P \in g.nodes /\ HasChildren(t, g, P)
            /\ j \in 1 .. Len(t.node[P].list) /\ x \in 1 .. Len(t.node[P].list)
        BY <1>1, <1>2, Zenon
      <4>3. j = x
        BY ONLY <4>1, <4>2, ChildrenDiffer
      <4> QED BY <3>1, <3>2, <4>3, <1>1
    <3>3. CASE up[j].value = s
      <4>1. t.node[P].list[j].value = t.node[P].list[x + 1].value
        BY <3>1, <3>3
      <4>2. /\ Placed(t, g) /\ P \in g.nodes /\ HasChildren(t, g, P)
            /\ j \in 1 .. Len(t.node[P].list) /\ x + 1 \in 1 .. Len(t.node[P].list)
        BY <1>1, <1>2, <3>1, Zenon
      <4>3. j = x + 1
        BY ONLY <4>1, <4>2, ChildrenDiffer
      <4> QED BY <3>1, <3>3, <4>3, <1>1
    <3> QED BY <3>2, <3>3
  <2>4. /\ \A i \in 1 .. Len(up) : ChildAt(t, g, P, up, i)
        /\ \A i, j \in 1 .. Len(up) : i < j => g.to[up[i].value] <= g.from[up[j].value]
    BY <1>1, <2>1, ChildrenAre, Zenon
  <2> HIDE DEF up, list
  <2>5. \A i \in 1 .. Len(up) : ChildAt(u, h, P, list, i)
    <3> SUFFICES ASSUME NEW i \in 1 .. Len(up) PROVE ChildAt(u, h, P, list, i)
      OBVIOUS
    <3> DEFINE c == up[i].value
    <3>1. /\ c \in g.nodes /\ t.node[c].parent = P /\ g.lev[c] + 1 = g.lev[P]
          /\ g.from[c] = IF i = 1 THEN g.from[P] ELSE g.to[up[i - 1].value]
          /\ i = Len(up) => g.to[c] = g.to[P]
          /\ g.lo[c] = IF i = 1 THEN g.lo[P] ELSE up[i - 1].key
          /\ g.hi[c] = IF i = Len(up) THEN g.hi[P] ELSE up[i].key
      BY <2>4 DEF ChildAt
    <3>2. (c = p <=> i = x) /\ (c = s <=> i = x + 1)
      BY <2>2, <2>3
    <3> HIDE DEF c
    <3>3. list[i].value = c
      BY <2>2 DEF c
    <3>4. i # 1 => /\ i - 1 \in 1 .. Len(up) /\ list[i - 1].value = up[i - 1].value
                   /\ up[i - 1].value \in g.nodes
                   /\ list[i - 1].key = IF i = x + 1 THEN key ELSE up[i - 1].key
      <4>1. i # 1 => i - 1 \in 1 .. Len(up) /\ (i - 1 = x <=> i = x + 1)
        BY <2>1, <2>2
      <4> QED BY <4>1, <2>2, <2>4 DEF ChildAt
    <3>5. u.node[c].parent = P /\ c \in h.nodes
      BY <3>1, <1>3, <1>4
    <3>6. /\ h.lev[c] = g.lev[c] /\ h.lev[P] = g.lev[P] /\ h.from[c] = g.from[c] /\ h.from[P] = g.from[P]
          /\ h.to[c] = g.to[c] /\ h.to[P] = g.to[P] /\ h.lo[P] = g.lo[P] /\ h.hi[P] = g.hi[P]
          /\ i # 1 => h.to[up[i - 1].value] = g.to[up[i - 1].value]
      BY <3>1, <3>4, <1>1, <1>4, Zenon
    <3>7. h.lo[c] = IF i = 1 THEN h.lo[P] ELSE list[i - 1].key
      <4>1. h.lo[c] = IF i = x + 1 THEN key ELSE g.lo[c]
        BY <3>1, <3>2, <1>4
      <4>2. i = x + 1 => i # 1
        BY <2>1, <2>2
      <4> QED BY <4>1, <4>2, <3>1, <3>4, <3>6
    <3>8. h.hi[c] = IF i = Len(up) THEN h.hi[P] ELSE list[i].key
      <4>1. h.hi[c] = IF i = x THEN key ELSE g.hi[c]
        BY <3>1, <3>2, <1>4
      <4>2. list[i].key = IF i = x THEN key ELSE up[i].key
        BY <2>2
      <4> QED BY <4>1, <4>2, <3>1, <3>6, <2>2
    <3>9. h.from[c] = IF i = 1 THEN h.from[P] ELSE h.to[list[i - 1].value]
      BY <3>1, <3>4, <3>6
    <3> QED BY <3>1, <3>3, <3>5, <3>6, <3>7, <3>8, <3>9, <2>1 DEF ChildAt
  <2>6. \A i, j \in 1 .. Len(up) : i < j => h.to[list[i].value] <= h.from[list[j].value]
    <3>1. \A i \in 1 .. Len(up) : up[i].value \in g.nodes /\ list[i].value = up[i].value
      BY <2>2, <2>4 DEF ChildAt
    <3> QED BY <3>1, <2>4, <1>4
  <2>7. /\ \A i \in 1 .. Len(list) : ChildAt(u, h, P, list, i)
        /\ \A i, j \in 1 .. Len(list) : i < j => h.to[list[i].value] <= h.from[list[j].value]
    BY <2>1, <2>5, <2>6
  <2> QED BY <2>1, <2>7, ChildrenAre, Zenon DEF list
<1> QED BY <1>3, <1>4, <1>5, <1>6 DEF AllHaveChildren
-----------------------------------------------------------------------------
\* ... each node its parent ...
LEMMA BorrowAreChildren ==
  ASSUME NEW t, NEW g, NEW p, NEW P, NEW s, NEW x, Borrows(t, g, p, P, s, x),
         NEW u, Borrowed(t, u, g.nodes, p, P, s, x),
         NEW h, Shifted(g, h, p, s, t.node[s].list[1].key)
  PROVE  AllAreChildren(u, h)
<1> USE IndexFileAssumption
<1>1. /\ p \in g.nodes /\ P \in g.nodes /\ s \in g.nodes /\ p # P /\ s # P
      /\ t.node[p].is_leaf /\ t.node[s].is_leaf /\ ~ t.node[P].is_leaf
  BY DropsIs DEF Borrows
<1>2. AllAreChildren(t, g)
  BY DEF Borrows, Drops, Shape
<1>3. /\ u.root = t.root
      /\ \A q \in g.nodes : /\ u.node[q] \in Node
                            /\ u.node[q].is_leaf <=> t.node[q].is_leaf
                            /\ u.node[q].parent = t.node[q].parent
                            /\ q \notin {p, s, P} => u.node[q].list = t.node[q].list
      /\ Len(u.node[P].list) = Len(t.node[P].list)
      /\ \A j \in 1 .. Len(t.node[P].list) : u.node[P].list[j].value = t.node[P].list[j].value
  BY DEF Borrowed
<1>4. h.nodes = g.nodes
  BY DEF Shifted
<1>5. Placed(t, g)
  BY DEF Borrows, Drops, Shape
<1>6. DOMAIN u.node[P].list = 1 .. Len(t.node[P].list) /\ DOMAIN t.node[P].list = 1 .. Len(t.node[P].list)
  <2> DEFINE up == t.node[P].list
             list == u.node[P].list
  <2>1. up \in Seq(Pair) /\ list \in Seq(Pair) /\ Len(list) = Len(up)
    <3>1. t.node[P] \in Node /\ u.node[P] \in Node
      BY <1>1, <1>3, <1>5, NodeIs
    <3> QED BY <3>1, <1>3 DEF Node
  <2> HIDE DEF up, list
  <2>2. DOMAIN list = 1 .. Len(up) /\ DOMAIN up = 1 .. Len(up)
    BY <2>1
  <2> QED BY <2>2 DEF up, list
<1> SUFFICES ASSUME NEW c \in g.nodes \ {t.root}
             PROVE  LET q == u.node[c].parent
                    IN  /\ q \in g.nodes /\ ~ u.node[q].is_leaf
                        /\ \E i \in DOMAIN u.node[q].list : Child(u.node[q], i) = c
  BY <1>3, <1>4 DEF AllAreChildren
<1> DEFINE q == t.node[c].parent
<1>7. u.node[c].parent = q
  BY <1>3
<1>8. q \in g.nodes /\ ~ t.node[q].is_leaf /\ \E i \in DOMAIN t.node[q].list : t.node[q].list[i].value = c
  BY <1>2 DEF AllAreChildren, Child
<1> HIDE DEF q
<1>9. ~ u.node[q].is_leaf /\ q # p /\ q # s
  BY <1>1, <1>3, <1>8
<1>10. \E i \in DOMAIN u.node[q].list : u.node[q].list[i].value = c
  <2>1. CASE q # P
    BY <2>1, <1>3, <1>8, <1>9
  <2>2. CASE q = P
    BY <2>2, <1>3, <1>6, <1>8, Zenon
  <2> QED BY <2>1, <2>2
<1> QED BY <1>7, <1>8, <1>9, <1>10 DEF Child

\* ... the nodes of a level side by side ...
LEMMA BorrowInOrder ==
  ASSUME NEW t, NEW g, NEW p, NEW P, NEW s, NEW x, Borrows(t, g, p, P, s, x),
         NEW u, Borrowed(t, u, g.nodes, p, P, s, x),
         NEW h, Shifted(g, h, p, s, t.node[s].list[1].key)
  PROVE  InOrder(u, h)
<1> USE IndexFileAssumption
<1> DEFINE key == t.node[s].list[1].key
<1>1. /\ p \in g.nodes /\ s \in g.nodes /\ s # p /\ t.node[p].is_leaf /\ t.node[s].is_leaf
      /\ Drops(t, g, p, P, s, x, x)
  BY DropsIs DEF Borrows
<1>2. InOrder(t, g)
  BY DEF Borrows, Drops, Shape
<1>3. \A q \in g.nodes : u.node[q].is_leaf <=> t.node[q].is_leaf
  BY DEF Borrowed
<1>4. /\ h.nodes = g.nodes
      /\ \A q \in g.nodes : /\ h.lev[q] = g.lev[q] /\ h.from[q] = g.from[q] /\ h.to[q] = g.to[q]
                            /\ h.lo[q] = IF q = s THEN key ELSE g.lo[q]
                            /\ h.hi[q] = IF q = p THEN key ELSE g.hi[q]
  BY DEF Shifted
<1>5. /\ key \in Int /\ g.lo[s] < key /\ key < g.hi[s]
      /\ \A q \in g.nodes : /\ g.from[q] \in Nat /\ g.to[q] \in Nat /\ g.from[q] < g.to[q]
                            /\ g.lo[q] \in Int /\ g.hi[q] \in Int
  BY BorrowIs, Zenon DEF BorrowFacts
<1> HIDE DEF key
<1>6. /\ \A q \in g.nodes : t.node[q].is_leaf <=> g.lev[q] = 0
      /\ \A q, r \in g.nodes : q # r /\ g.lev[q] = g.lev[r]
           => g.to[q] <= g.from[r] \/ g.to[r] <= g.from[q]
      /\ \A q, r \in g.nodes : g.lev[q] = g.lev[r] /\ g.to[q] <= g.from[r] => g.hi[q] <= g.lo[r]
  BY <1>2 DEF InOrder
<1>7. g.from[s] = g.to[p] /\ g.lo[s] = g.hi[p] /\ g.lev[p] = 0 /\ g.lev[s] = 0
  BY <1>1, <1>6, BrotherIs
<1>8. ASSUME NEW a \in g.nodes, NEW b \in g.nodes, g.lev[a] = g.lev[b], g.to[a] <= g.from[b]
      PROVE  h.hi[a] <= h.lo[b]
  <2>1. g.hi[a] <= g.lo[b]
    BY <1>6, <1>8
  <2>2. /\ g.from[a] \in Nat /\ g.to[a] \in Nat /\ g.from[a] < g.to[a] /\ g.lo[a] \in Int /\ g.hi[a] \in Int
        /\ g.from[b] \in Nat /\ g.to[b] \in Nat /\ g.from[b] < g.to[b] /\ g.lo[b] \in Int /\ g.hi[b] \in Int
        /\ g.from[p] \in Nat /\ g.to[p] \in Nat /\ g.from[p] < g.to[p] /\ g.lo[p] \in Int /\ g.hi[p] \in Int
        /\ g.from[s] \in Nat /\ g.to[s] \in Nat /\ g.from[s] < g.to[s] /\ g.lo[s] \in Int /\ g.hi[s] \in Int
    BY <1>1, <1>5
  <2>3. CASE a = p /\ b = s
    BY <2>3, <1>1, <1>4, <1>5
  <2>4. CASE a = p /\ b # s
    <3>1. g.to[s] <= g.from[b] \/ g.to[b] <= g.from[s]
      BY <2>4, <1>1, <1>6, <1>7, <1>8
    <3>2. g.to[s] <= g.from[b]
      BY <3>1, <2>2, <2>4, <1>7, <1>8
    <3>3. g.hi[s] <= g.lo[b]
      BY <3>2, <2>4, <1>1, <1>6, <1>7, <1>8
    <3>4. h.hi[a] = key /\ h.lo[b] = g.lo[b]
      BY <2>4, <1>4
    <3> QED BY <3>3, <3>4, <2>2, <1>5
  <2>5. CASE a # p /\ b = s
    <3>1. h.hi[a] = g.hi[a] /\ h.lo[b] = key
      BY <2>5, <1>4
    <3> QED BY <3>1, <2>1, <2>2, <2>5, <1>5
  <2>6. CASE a # p /\ b # s
    BY <2>6, <2>1, <1>4
  <2> QED BY <2>3, <2>4, <2>5, <2>6
<1>9. ASSUME NEW q \in g.nodes, NEW r \in g.nodes
      PROVE  /\ h.lev[q] = g.lev[q] /\ h.lev[r] = g.lev[r]
             /\ h.from[q] = g.from[q] /\ h.to[q] = g.to[q]
             /\ h.from[r] = g.from[r] /\ h.to[r] = g.to[r]
  BY <1>4
<1>10. \A q \in h.nodes : u.node[q].is_leaf <=> h.lev[q] = 0
  BY <1>3, <1>4, <1>6
<1>11. \A q, r \in h.nodes : q # r /\ h.lev[q] = h.lev[r]
           => h.to[q] <= h.from[r] \/ h.to[r] <= h.from[q]
  BY <1>4, <1>6, <1>9
<1>12. \A q, r \in h.nodes : h.lev[q] = h.lev[r] /\ h.to[q] <= h.from[r] => h.hi[q] <= h.lo[r]
  BY <1>4, <1>8, <1>9
<1> QED BY <1>10, <1>11, <1>12 DEF InOrder

\* ... the leaves linked from left to right ...
LEMMA BorrowChained ==
  ASSUME NEW t, NEW g, NEW p, NEW P, NEW s, NEW x, Borrows(t, g, p, P, s, x),
         NEW u, Borrowed(t, u, g.nodes, p, P, s, x),
         NEW h, Shifted(g, h, p, s, t.node[s].list[1].key)
  PROVE  Chained(u, h)
<1> USE IndexFileAssumption
<1> DEFINE key == t.node[s].list[1].key
<1>1. /\ p \in g.nodes /\ s \in g.nodes /\ s # p /\ t.node[p].is_leaf /\ t.node[s].is_leaf
      /\ p # t.root /\ s # t.root /\ Drops(t, g, p, P, s, x, x)
  BY DropsIs DEF Borrows
<1>2. Placed(t, g) /\ InOrder(t, g) /\ Chained(t, g)
  BY DEF Borrows, Drops, Shape
<1>3. /\ u.root = t.root
      /\ \A q \in g.nodes : /\ u.node[q].is_leaf <=> t.node[q].is_leaf
                            /\ u.node[q].suc_leaf = t.node[q].suc_leaf
                            /\ u.node[q].pre_leaf = t.node[q].pre_leaf
  BY DEF Borrowed
<1>4. /\ h.nodes = g.nodes
      /\ \A q \in g.nodes : /\ h.from[q] = g.from[q] /\ h.to[q] = g.to[q]
                            /\ h.lo[q] = IF q = s THEN key ELSE g.lo[q]
                            /\ h.hi[q] = IF q = p THEN key ELSE g.hi[q]
  BY DEF Shifted
<1> HIDE DEF key
<1>5. g.from[s] = g.to[p] /\ g.lo[s] = g.hi[p] /\ t.node[p].suc_leaf = s
  BY <1>1, BrotherIs
<1>6. t.root \in g.nodes /\ s # NoPage
  BY <1>1, <1>2 DEF Placed, NodeIds, NoPage
<1> SUFFICES ASSUME NEW q \in g.nodes, t.node[q].is_leaf
             PROVE  /\ IF u.node[q].suc_leaf = NoPage THEN h.to[q] = h.to[u.root] /\ h.hi[q] = INDEX_KEY_MAX
                       ELSE /\ u.node[q].suc_leaf \in h.nodes /\ u.node[u.node[q].suc_leaf].is_leaf
                            /\ h.from[u.node[q].suc_leaf] = h.to[q] /\ h.lo[u.node[q].suc_leaf] = h.hi[q]
                    /\ IF u.node[q].pre_leaf = NoPage THEN h.from[q] = 0
                       ELSE /\ u.node[q].pre_leaf \in h.nodes /\ u.node[u.node[q].pre_leaf].is_leaf
                            /\ h.to[u.node[q].pre_leaf] = h.from[q]
  BY <1>3, <1>4 DEF Chained
<1> DEFINE a == t.node[q].suc_leaf
           b == t.node[q].pre_leaf
<1>7. /\ a = NoPage => g.to[q] = g.to[t.root] /\ g.hi[q] = INDEX_KEY_MAX
      /\ a # NoPage => a \in g.nodes /\ t.node[a].is_leaf /\ g.from[a] = g.to[q] /\ g.lo[a] = g.hi[q]
      /\ b = NoPage => g.from[q] = 0
      /\ b # NoPage => b \in g.nodes /\ t.node[b].is_leaf /\ g.to[b] = g.from[q]
  BY <1>2 DEF Chained
<1>8. u.node[q].suc_leaf = a /\ u.node[q].pre_leaf = b
  BY <1>3
<1>9. q = p => a = s
  BY <1>5
<1> HIDE DEF a, b
<1>10. ASSUME a = s PROVE q = p
  <2>1. g.to[q] = g.to[p]
    BY <1>5, <1>6, <1>7, <1>10
  <2> QED BY <2>1, <1>1, <1>2, LeavesApart
<1>11. h.to[q] = g.to[q] /\ h.from[q] = g.from[q] /\ h.to[u.root] = g.to[t.root]
  BY <1>3, <1>4, <1>6
<1>12. IF a = NoPage THEN h.to[q] = h.to[u.root] /\ h.hi[q] = INDEX_KEY_MAX
       ELSE a \in h.nodes /\ u.node[a].is_leaf /\ h.from[a] = h.to[q] /\ h.lo[a] = h.hi[q]
  <2>1. CASE a = NoPage
    <3>1. q # p
      BY <2>1, <1>6, <1>9
    <3>2. h.hi[q] = g.hi[q]
      BY <3>1, <1>4
    <3> QED BY <2>1, <3>2, <1>7, <1>11
  <2>2. CASE a # NoPage /\ a = s
    <3>1. h.lo[a] = key /\ h.hi[q] = key
      BY <2>2, <1>1, <1>4, <1>10
    <3> QED BY <2>2, <3>1, <1>3, <1>4, <1>7, <1>11
  <2>3. CASE a # NoPage /\ a # s
    <3>1. q # p
      BY <2>3, <1>9
    <3>2. h.lo[a] = g.lo[a] /\ h.hi[q] = g.hi[q] /\ h.from[a] = g.from[a]
      BY <2>3, <3>1, <1>4, <1>7
    <3> QED BY <2>3, <3>2, <1>3, <1>4, <1>7, <1>11
  <2> QED BY <2>1, <2>2, <2>3
<1>13. IF b = NoPage THEN h.from[q] = 0
       ELSE b \in h.nodes /\ u.node[b].is_leaf /\ h.to[b] = h.from[q]
  BY <1>3, <1>4, <1>7, <1>11
<1> QED BY <1>8, <1>12, <1>13
-----------------------------------------------------------------------------
\* How many keys the nodes have when a pair has gone from s to p.
LEMMA BorrowNumbers ==
  ASSUME NEW t, NEW g, NEW p, NEW P, NEW s, NEW x, Borrows(t, g, p, P, s, x),
         NEW u, Borrowed(t, u, g.nodes, p, P, s, x)
  PROVE  /\ \A q \in g.nodes \ {s} : key_num(u.node[q]) = key_num(t.node[q])
         /\ key_num(u.node[s]) = key_num(t.node[s]) - 1
         /\ key_num(u.node[p]) = 1 /\ key_num(t.node[p]) = 1
         /\ key_num(t.node[s]) \in Int /\ key_num(t.node[s]) > 1
<1>1. /\ Len(u.node[p].list) = 2 /\ Len(u.node[s].list) = Len(t.node[s].list) - 1
      /\ Len(u.node[P].list) = Len(t.node[P].list)
      /\ \A q \in g.nodes : q \notin {p, s, P} => u.node[q].list = t.node[q].list
  BY DEF Borrowed
<1>2. key_num(t.node[p]) = 1 /\ key_num(t.node[s]) > 1
  BY DEF Borrows
<1>3. Len(t.node[s].list) \in Nat
  BY BorrowIs DEF BorrowFacts
<1>4. key_num(u.node[p]) = 1
  BY <1>1 DEF key_num
<1>5. key_num(u.node[s]) = key_num(t.node[s]) - 1 /\ key_num(t.node[s]) \in Int
  BY <1>1, <1>3 DEF key_num
<1>6. ASSUME NEW q \in g.nodes \ {s} PROVE key_num(u.node[q]) = key_num(t.node[q])
  <2>1. CASE q = p
    BY <2>1, <1>2, <1>4
  <2>2. CASE q = P
    BY <2>2, <1>1 DEF key_num
  <2>3. CASE q \notin {p, s, P}
    BY <2>3, <1>1 DEF key_num
  <2> QED BY <2>1, <2>2, <2>3
<1> QED BY <1>2, <1>4, <1>5, <1>6

\* ... and a key in each leaf, and no node has fewer keys than it is to have.
LEMMA BorrowSizes ==
  ASSUME NEW t, NEW g, NEW p, NEW P, NEW s, NEW x, Borrows(t, g, p, P, s, x),
         NEW u, Borrowed(t, u, g.nodes, p, P, s, x),
         NEW h, Shifted(g, h, p, s, t.node[s].list[1].key), Sizes(t, g, NoPage)
  PROVE  LeavesFull(u, h, TRUE) /\ Sizes(u, h, NoPage)
<1> USE IndexFileAssumption
<1>1. s \in g.nodes /\ t.node[s].is_leaf
  BY DropsIs DEF Borrows
<1>2. LeavesFull(t, g, TRUE) /\ Placed(t, g)
  BY Zenon DEF Borrows, Drops, Shape
<1>3. u.root = t.root /\ \A q \in g.nodes : u.node[q].is_leaf <=> t.node[q].is_leaf
  BY DEF Borrowed
<1>4. h.nodes = g.nodes
  BY DEF Shifted
<1>5. /\ \A q \in g.nodes \ {s} : key_num(u.node[q]) = key_num(t.node[q])
      /\ key_num(u.node[s]) = key_num(t.node[s]) - 1
      /\ key_num(t.node[s]) \in Int /\ key_num(t.node[s]) > 1
  BY BorrowNumbers
<1>6. /\ \A q \in g.nodes : key_num(t.node[q]) <= M - 1
      /\ \A q \in g.nodes : ~ t.node[q].is_leaf => key_num(t.node[q]) >= IF q = t.root THEN 1 ELSE Mid - 1
      /\ \A q \in g.nodes : q # NoPage
  BY <1>2 DEF Sizes, Placed, NodeIds, NoPage
<1>7. \A q \in g.nodes : u.node[q].is_leaf /\ q # u.root => key_num(u.node[q]) >= 1
  <2> SUFFICES ASSUME NEW q \in g.nodes, t.node[q].is_leaf, q # t.root PROVE key_num(u.node[q]) >= 1
    BY <1>3
  <2>1. CASE q = s
    BY <2>1, <1>5
  <2>2. CASE q # s
    BY <2>2, <1>2, <1>5 DEF LeavesFull
  <2> QED BY <2>1, <2>2
<1>8. \A q \in g.nodes : key_num(u.node[q]) <= M - 1
  <2> SUFFICES ASSUME NEW q \in g.nodes PROVE key_num(u.node[q]) <= M - 1
    OBVIOUS
  <2>1. CASE q = s
    <3>1. key_num(t.node[s]) <= M - 1
      BY <1>1, <1>6
    <3> QED BY <2>1, <3>1, <1>5
  <2>2. CASE q # s
    BY <2>2, <1>5, <1>6
  <2> QED BY <2>1, <2>2
<1>9. \A q \in g.nodes : ~ u.node[q].is_leaf => key_num(u.node[q]) >= IF q = u.root THEN 1 ELSE Mid - 1
  <2> SUFFICES ASSUME NEW q \in g.nodes, ~ t.node[q].is_leaf
               PROVE  key_num(u.node[q]) >= IF q = t.root THEN 1 ELSE Mid - 1
    BY <1>3
  <2>1. q # s
    BY <1>1
  <2> QED BY <2>1, <1>5, <1>6
<1>10. LeavesFull(u, h, TRUE)
  BY <1>4, <1>7 DEF LeavesFull
<1>11. Sizes(u, h, NoPage)
  BY <1>4, <1>6, <1>8, <1>9 DEF Sizes
<1> QED BY <1>10, <1>11, Zenon

\* Where an entry was before its leaf, or the leaf before, borrowed.
Lent(p, s, a) == IF a[1] = p THEN <<s, 1>> ELSE IF a[1] = s THEN <<s, a[2] + 1>> ELSE a

\* The entry of p is gone, the first of s is in p, and the others of s have moved up.
LEMMA BorrowMoved ==
  ASSUME NEW t, NEW g, NEW p, NEW P, NEW s, NEW x, Borrows(t, g, p, P, s, x),
         NEW u, Borrowed(t, u, g.nodes, p, P, s, x), Sizes(t, g, NoPage)
  PROVE  Moved([a \in Places(u, g.nodes) |-> Lent(p, s, a)], t, g.nodes, u, g.nodes, <<p, 1>>)
<1> USE IndexFileAssumption
<1> DEFINE Y == Places(u, g.nodes)
           X == Places(t, g.nodes)
           c == <<p, 1>>
           f == [a \in Y |-> Lent(p, s, a)]
           n == key_num(t.node[s])
<1>1. /\ p \in g.nodes /\ P \in g.nodes /\ s \in g.nodes /\ p # P /\ s # P /\ s # p
      /\ t.node[p].is_leaf /\ t.node[s].is_leaf /\ ~ t.node[P].is_leaf
  BY DropsIs DEF Borrows
<1>2. /\ \A q \in g.nodes : /\ u.node[q].is_leaf <=> t.node[q].is_leaf
                            /\ q \notin {p, s, P} => u.node[q].list = t.node[q].list
      /\ u.node[p].list[1] = t.node[s].list[1]
      /\ \A j \in 1 .. Len(t.node[s].list) - 1 : u.node[s].list[j] = t.node[s].list[j + 1]
  BY DEF Borrowed
<1>3. /\ \A q \in g.nodes \ {s} : key_num(u.node[q]) = key_num(t.node[q])
      /\ key_num(u.node[s]) = n - 1
      /\ key_num(u.node[p]) = 1 /\ key_num(t.node[p]) = 1
      /\ n \in Int /\ n > 1
  BY BorrowNumbers, Zenon
<1>4. n <= M - 1 /\ M \in Nat /\ n = Len(t.node[s].list) - 1
  <2>1. s # NoPage
    BY <1>1 DEF Borrows, Drops, Shape, Placed, NodeIds, NoPage
  <2>2. n <= M - 1
    <3> HIDE DEF n
    <3> QED BY <2>1, <1>1 DEF Sizes, n
  <2>3. M \in Nat
    OBVIOUS
  <2>4. n = Len(t.node[s].list) - 1
    BY DEF key_num
  <2> HIDE DEF n
  <2> QED BY <2>2, <2>3, <2>4
<1>5. /\ \A a : a \in X <=> /\ a \in g.nodes \X (1 .. M) /\ t.node[a[1]].is_leaf
                            /\ a[2] <= key_num(t.node[a[1]])
      /\ \A a : a \in Y <=> /\ a \in g.nodes \X (1 .. M) /\ u.node[a[1]].is_leaf
                            /\ a[2] <= key_num(u.node[a[1]])
  BY DEF Places
<1>6. \A a \in g.nodes \X (1 .. M) : a = <<a[1], a[2]>> /\ a[1] \in g.nodes /\ a[2] \in 1 .. M
  OBVIOUS
<1> HIDE DEF X, Y, n
\* An entry that is now in p, in s, or in another leaf.
<1>7. ASSUME NEW a \in Y, a[1] = p
      PROVE  /\ Lent(p, s, a) = <<s, 1>> /\ <<s, 1>> \in X \ {c} /\ a = c
             /\ EntryAt(u, a[1], a[2]) = EntryAt(t, s, 1)
  <2>1. a \in g.nodes \X (1 .. M) /\ a[2] <= 1 /\ a[2] \in 1 .. M
    BY <1>3, <1>5, <1>7
  <2>2. a[2] = 1
    BY <2>1
  <2>3. a = c
    BY <2>1, <2>2, <1>6, <1>7
  <2>4. <<s, 1>> \in X
    <3>1. 1 \in 1 .. M /\ 1 <= n
      BY <1>3, <1>4
    <3>2. <<s, 1>> \in g.nodes \X (1 .. M)
      BY <3>1, <1>1
    <3> QED BY <3>1, <3>2, <1>1, <1>5 DEF n
  <2>5. EntryAt(u, a[1], a[2]) = EntryAt(t, s, 1)
    BY <2>2, <1>2, <1>7 DEF EntryAt
  <2> QED BY <2>3, <2>4, <2>5, <1>1, <1>7 DEF Lent
<1>8. ASSUME NEW a \in Y, a[1] = s
      PROVE  /\ Lent(p, s, a) = <<s, a[2] + 1>> /\ <<s, a[2] + 1>> \in X \ {c}
             /\ a[2] \in Nat /\ a[2] >= 1 /\ a = <<s, a[2]>>
             /\ EntryAt(u, a[1], a[2]) = EntryAt(t, s, a[2] + 1)
  <2>1. a \in g.nodes \X (1 .. M) /\ a[2] <= n - 1 /\ a[2] \in 1 .. M
    BY <1>3, <1>5, <1>8
  <2>2. a[2] + 1 \in 1 .. M /\ a[2] + 1 <= n /\ a[2] \in 1 .. Len(t.node[s].list) - 1
    <3> DEFINE i == a[2]
               l == Len(t.node[s].list)
    <3>1. i <= n - 1 /\ i \in 1 .. M /\ n \in Int /\ n <= M - 1 /\ M \in Nat /\ n = l - 1 /\ l \in Nat
      <4>1. l \in Nat
        BY BorrowIs DEF BorrowFacts
      <4> QED BY <4>1, <2>1, <1>3, <1>4
    <3> HIDE DEF i, l
    <3>2. i + 1 \in 1 .. M /\ i + 1 <= n /\ i \in 1 .. l - 1
      BY ONLY <3>1
    <3> QED BY <3>2 DEF i, l
  <2>3. <<s, a[2] + 1>> \in X
    <3>1. <<s, a[2] + 1>> \in g.nodes \X (1 .. M)
      BY <2>2, <1>1
    <3> QED BY <2>2, <3>1, <1>1, <1>5 DEF n
  <2>4. <<s, a[2] + 1>> # c
    BY <1>1
  <2>5. EntryAt(u, a[1], a[2]) = EntryAt(t, s, a[2] + 1)
    BY <2>2, <1>2, <1>8, Zenon DEF EntryAt
  <2>6. a = <<s, a[2]>>
    BY <2>1, <1>6, <1>8
  <2> QED BY <2>1, <2>3, <2>4, <2>5, <2>6, <1>1, <1>8 DEF Lent
<1>9. ASSUME NEW a \in Y, a[1] # p, a[1] # s
      PROVE  Lent(p, s, a) = a /\ a \in X \ {c} /\ EntryAt(u, a[1], a[2]) = EntryAt(t, a[1], a[2])
  <2>1. /\ a \in g.nodes \X (1 .. M) /\ u.node[a[1]].is_leaf /\ a[2] <= key_num(u.node[a[1]])
        /\ a[1] \in g.nodes
    BY <1>5, <1>6
  <2>2. t.node[a[1]].is_leaf /\ a[1] # P /\ key_num(u.node[a[1]]) = key_num(t.node[a[1]])
    BY <2>1, <1>1, <1>2, <1>3, <1>9
  <2>3. a \in X
    BY <2>1, <2>2, <1>5
  <2>4. u.node[a[1]].list = t.node[a[1]].list
    BY <2>1, <2>2, <1>2, <1>9
  <2> QED BY <2>3, <2>4, <1>9 DEF EntryAt, Lent
<1>10. ASSUME NEW a \in Y
       PROVE  Lent(p, s, a) \in X \ {c} /\ EntryAt(u, a[1], a[2]) = EntryAt(t, Lent(p, s, a)[1], Lent(p, s, a)[2])
  <2>1. CASE a[1] = p
    <3>1. <<s, 1>>[1] = s /\ <<s, 1>>[2] = 1
      OBVIOUS
    <3> QED BY <2>1, <3>1, <1>7
  <2>2. CASE a[1] = s
    <3>1. <<s, a[2] + 1>>[1] = s /\ <<s, a[2] + 1>>[2] = a[2] + 1
      OBVIOUS
    <3> QED BY <2>2, <3>1, <1>8, Zenon
  <2>3. CASE a[1] # p /\ a[1] # s
    BY <2>3, <1>9
  <2> QED BY <2>1, <2>2, <2>3
<1>11. ASSUME NEW a \in Y, NEW b \in Y, Lent(p, s, a) = Lent(p, s, b) PROVE a = b
  <2>1. CASE a[1] = p
    <3>1. CASE b[1] = p
      BY <2>1, <3>1, <1>7
    <3>2. CASE b[1] = s
      <4>1. Lent(p, s, a) = <<s, 1>> /\ Lent(p, s, b) = <<s, b[2] + 1>> /\ b[2] \in Nat /\ b[2] >= 1
        BY <2>1, <3>2, <1>7, <1>8, Zenon
      <4>2. <<s, 1>> = <<s, b[2] + 1>>
        BY <4>1, <1>11
      <4>3. 1 = b[2] + 1
        BY <4>2
      <4> QED BY <4>1, <4>3
    <3>3. CASE b[1] # p /\ b[1] # s
      <4>1. b = <<s, 1>>
        BY <2>1, <3>3, <1>7, <1>9, <1>11
      <4> QED BY <4>1, <3>3
    <3> QED BY <3>1, <3>2, <3>3
  <2>2. CASE a[1] = s
    <3>1. CASE b[1] = p
      <4>1. Lent(p, s, b) = <<s, 1>> /\ Lent(p, s, a) = <<s, a[2] + 1>> /\ a[2] \in Nat /\ a[2] >= 1
        BY <2>2, <3>1, <1>7, <1>8, Zenon
      <4>2. <<s, 1>> = <<s, a[2] + 1>>
        BY <4>1, <1>11
      <4>3. 1 = a[2] + 1
        BY <4>2
      <4> QED BY <4>1, <4>3
    <3>2. CASE b[1] = s
      <4>1. /\ Lent(p, s, a) = <<s, a[2] + 1>> /\ a[2] \in Nat /\ a = <<s, a[2]>>
            /\ Lent(p, s, b) = <<s, b[2] + 1>> /\ b[2] \in Nat /\ b = <<s, b[2]>>
        BY <2>2, <3>2, <1>8, Zenon
      <4>2. <<s, a[2] + 1>> = <<s, b[2] + 1>>
        BY <4>1, <1>11
      <4>3. a[2] + 1 = b[2] + 1
        BY <4>2
      <4>4. a[2] = b[2]
        BY <4>1, <4>3
      <4> QED BY <4>1, <4>4
    <3>3. CASE b[1] # p /\ b[1] # s
      <4>1. b = <<s, a[2] + 1>>
        BY <2>2, <3>3, <1>8, <1>9, <1>11, Zenon
      <4> QED BY <4>1, <3>3
    <3> QED BY <3>1, <3>2, <3>3
  <2>3. CASE a[1] # p /\ a[1] # s
    <3>1. CASE b[1] = p
      <4>1. a = <<s, 1>>
        BY <2>3, <3>1, <1>7, <1>9, <1>11
      <4> QED BY <4>1, <2>3
    <3>2. CASE b[1] = s
      <4>1. a = <<s, b[2] + 1>>
        BY <2>3, <3>2, <1>8, <1>9, <1>11, Zenon
      <4> QED BY <4>1, <2>3
    <3>3. CASE b[1] # p /\ b[1] # s
      BY <2>3, <3>3, <1>9, <1>11
    <3> QED BY <3>1, <3>2, <3>3
  <2> QED BY <2>1, <2>2, <2>3
<1>12. ASSUME NEW b \in X \ {c} PROVE \E a \in Y : Lent(p, s, a) = b
  <2>1. /\ b \in g.nodes \X (1 .. M) /\ t.node[b[1]].is_leaf /\ b[2] <= key_num(t.node[b[1]])
        /\ b[1] \in g.nodes /\ b[2] \in 1 .. M /\ b = <<b[1], b[2]>>
    BY <1>5, <1>6
  <2>2. b[1] # p
    <3> SUFFICES ASSUME b[1] = p PROVE FALSE
      OBVIOUS
    <3>1. b[2] = 1
      BY <2>1, <1>3
    <3> QED BY <2>1, <3>1
  <2>3. CASE b[1] = s /\ b[2] = 1
    <3>1. c \in Y
      <4>1. c \in g.nodes \X (1 .. M) /\ c[1] = p /\ c[2] = 1
        BY <2>1, <2>3, <1>1
      <4> HIDE DEF c
      <4> QED BY <4>1, <1>1, <1>2, <1>3, <1>5
    <3>2. Lent(p, s, c) = b
      <4>1. Lent(p, s, c) = <<s, 1>>
        BY DEF Lent
      <4> QED BY <4>1, <2>1, <2>3
    <3> QED BY <3>1, <3>2
  <2>4. CASE b[1] = s /\ b[2] # 1
    <3> DEFINE a == <<s, b[2] - 1>>
    <3>1. b[2] - 1 \in 1 .. M /\ b[2] - 1 <= n - 1 /\ (b[2] - 1) + 1 = b[2]
      <4>1. b[2] \in 1 .. M /\ b[2] <= n /\ b[2] # 1 /\ n \in Int /\ n <= M - 1 /\ M \in Nat
        BY <2>1, <2>4, <1>3, <1>4 DEF n
      <4> DEFINE k == b[2]
      <4> HIDE DEF k, n
      <4>2. k \in 1 .. M /\ k <= n /\ k # 1
        BY <4>1 DEF k
      <4>3. k - 1 \in 1 .. M /\ k - 1 <= n - 1 /\ (k - 1) + 1 = k
        BY ONLY <4>1, <4>2
      <4> QED BY <4>3 DEF k
    <3>2. a \in Y
      <4>1. a \in g.nodes \X (1 .. M) /\ a[1] = s /\ a[2] = b[2] - 1
        BY <3>1, <1>1
      <4> HIDE DEF a
      <4> QED BY <3>1, <4>1, <1>1, <1>2, <1>3, <1>5
    <3>3. Lent(p, s, a) = b
      <4>1. Lent(p, s, a) = <<s, (b[2] - 1) + 1>>
        BY <1>1 DEF Lent
      <4> QED BY <4>1, <3>1, <2>1, <2>4
    <3> QED BY <3>2, <3>3
  <2>5. CASE b[1] # s
    <3>1. b \in Y
      <4>1. u.node[b[1]].is_leaf /\ key_num(u.node[b[1]]) = key_num(t.node[b[1]])
        BY <2>1, <2>5, <1>2, <1>3
      <4> QED BY <4>1, <2>1, <1>5
    <3>2. Lent(p, s, b) = b
      BY <2>2, <2>5 DEF Lent
    <3> QED BY <3>1, <3>2
  <2> QED BY <2>3, <2>4, <2>5
<1> HIDE DEF c
<1>13. \A a \in Y : f[a] = Lent(p, s, a)
  OBVIOUS
<1>14. f \in [Y -> X \ {c}]
  BY <1>10
<1> HIDE DEF f
<1>15. /\ \A a, b \in Y : f[a] = f[b] => a = b
       /\ \A b \in X \ {c} : \E a \in Y : f[a] = b
       /\ \A a \in Y : EntryAt(u, a[1], a[2]) = EntryAt(t, f[a][1], f[a][2])
  BY <1>10, <1>11, <1>12, <1>13
<1> QED BY <1>14, <1>15 DEF Moved, X, Y, c, f

\* A leaf with one entry that borrows another loses the entry it had.
LEMMA BorrowKeeps ==
  ASSUME NEW t, NEW g, NEW p, NEW P, NEW s, NEW x, Borrows(t, g, p, P, s, x),
         NEW u, Borrowed(t, u, g.nodes, p, P, s, x), Grows(t, g, TRUE)
  PROVE  Loses(t, g, u, p, 1)
<1> USE IndexFileAssumption
<1> DEFINE key == t.node[s].list[1].key
           h == [nodes |-> g.nodes, lev |-> g.lev, from |-> g.from, to |-> g.to,
                 lo |-> [q \in g.nodes |-> IF q = s THEN key ELSE g.lo[q]],
                 hi |-> [q \in g.nodes |-> IF q = p THEN key ELSE g.hi[q]]]
<1>1. Shifted(g, h, p, s, key)
  BY DEF Shifted
<1> HIDE DEF h
<1>2. Shape(t, g, TRUE) /\ Fits(t, g) /\ Sizes(t, g, NoPage) /\ Apart(t, g.nodes)
  BY Zenon DEF Grows
<1>3. Placed(u, h) /\ AllKeysBetween(u, h, TRUE) /\ AllHaveChildren(u, h)
  BY <1>1, BorrowPlaced, BorrowKeys, BorrowChildren, Zenon
<1>4. AllAreChildren(u, h) /\ InOrder(u, h)
  BY <1>1, BorrowAreChildren, BorrowInOrder
<1>5. Chained(u, h) /\ LeavesFull(u, h, TRUE) /\ Sizes(u, h, NoPage)
  BY <1>1, <1>2, BorrowChained, BorrowSizes, Zenon
<1>6. Shape(u, h, TRUE)
  BY <1>3, <1>4, <1>5, Zenon DEF Shape
<1>7. h.nodes = g.nodes /\ \A q \in g.nodes : h.lev[q] = g.lev[q] /\ h.to[q] = g.to[q]
  BY <1>1 DEF Shifted
<1>8. Fits(u, h)
  <2>1. t.root \in g.nodes /\ u.root = t.root /\ u.num = t.num
    BY <1>2 DEF Borrowed, Shape, Placed
  <2> QED BY <2>1, <1>2, <1>7 DEF Fits
<1> DEFINE f == [a \in Places(u, g.nodes) |-> Lent(p, s, a)]
           c == <<p, 1>>
<1>9. Moved(f, t, g.nodes, u, h.nodes, c)
  <2>1. Moved(f, t, g.nodes, u, g.nodes, c)
    BY <1>2, BorrowMoved
  <2> HIDE DEF f, c
  <2> QED BY <2>1, <1>7
<1>10. c \in Places(t, g.nodes) /\ c[1] = p /\ c[2] = 1
  <2>1. p \in g.nodes /\ t.node[p].is_leaf
    BY DropsIs DEF Borrows
  <2>2. 1 \in 1 .. M /\ 1 <= key_num(t.node[p])
    BY DEF Borrows
  <2> QED BY <2>1, <2>2 DEF Places
<1> HIDE DEF f, c
<1>11. Apart(u, h.nodes) /\ Content(u, h.nodes) = Content(t, g.nodes) \ {EntryAt(t, c[1], c[2])}
  <2>1. /\ Shape(t, g, TRUE) /\ Sizes(t, g, NoPage) /\ Apart(t, g.nodes)
        /\ Shape(u, h, TRUE) /\ Sizes(u, h, NoPage)
    BY <1>2, <1>5, <1>6, Zenon
  <2>2. Apart(u, h.nodes)
    BY <2>1, <1>9, <1>10, MovedContent, Zenon
  <2>3. LosesEntry(t, g.nodes, u, h.nodes, c)
    BY <2>1, <1>9, <1>10, MovedContent, Zenon
  <2> QED BY <2>2, <2>3 DEF LosesEntry
<1> QED BY <1>5, <1>6, <1>8, <1>10, <1>11, Zenon DEF Grows, Loses
-----------------------------------------------------------------------------
\* The root has two children left, the leaves p and s, and p is to leave the tree.
Collapses(t, g, p, P, s, x, z) == Drops(t, g, p, P, s, x, z) /\ P = t.root /\ key_num(t.node[P]) = 1

\* Leaf s has become the root.
Collapsed(t, u, p, s) ==
  LET n == u.node[s]
  IN  /\ u \in Trees /\ u.root = s /\ u.num = t.num
      /\ n \in Node /\ n.is_leaf /\ n.list = t.node[s].list
      /\ n.suc_leaf = IF s = t.node[p].pre_leaf THEN t.node[p].suc_leaf ELSE t.node[s].suc_leaf
      /\ n.pre_leaf = IF s = t.node[p].suc_leaf THEN t.node[p].pre_leaf ELSE t.node[s].pre_leaf

\* The tree is the root and these two leaves, and nothing lies beside them.
LEMMA CollapseIs ==
  ASSUME NEW t, NEW g, NEW p, NEW P, NEW s, NEW x, NEW z, Collapses(t, g, p, P, s, x, z),
         NEW u, Collapsed(t, u, p, s)
  PROVE  /\ g.nodes = {P, p, s}
         /\ u.node[s].suc_leaf = NoPage /\ u.node[s].pre_leaf = NoPage
<1> USE IndexFileAssumption
<1>0. Drops(t, g, p, P, s, x, z)
  BY DEF Collapses
<1> DEFINE up == t.node[P].list
           suc(q) == t.node[q].suc_leaf
           pre(q) == t.node[q].pre_leaf
<1>1. /\ p \in g.nodes /\ P \in g.nodes /\ s \in g.nodes /\ p # P /\ s # P /\ s # p
      /\ t.node[p].is_leaf /\ t.node[s].is_leaf /\ ~ t.node[P].is_leaf /\ HasChildren(t, g, P)
      /\ up \in Seq(Pair) /\ Len(up) \in Nat /\ x \in 1 .. Len(up) /\ z \in {x - 1, x}
      /\ z \in 1 .. Len(up) - 1
      /\ z = x => s = up[x + 1].value
      /\ z # x => s = up[x - 1].value /\ x = Len(up)
      /\ up[x].value = p
      /\ Drops(t, g, p, P, s, x, z)
  BY ONLY <1>0, DropsIs
<1>2. Len(up) = 2
  BY <1>1 DEF Collapses, key_num
<1>3. Placed(t, g) /\ AllAreChildren(t, g) /\ InOrder(t, g) /\ Chained(t, g)
  BY <1>1 DEF Drops, Shape
<1>4. /\ up[1].value \in {p, s} /\ up[2].value \in {p, s}
      /\ z = x => up[1].value = p /\ up[2].value = s
      /\ z # x => up[1].value = s /\ up[2].value = p
  <2>1. CASE z = x
    <3>1. x = 1
      BY <2>1, <1>1, <1>2
    <3> HIDE DEF up
    <3> QED BY <2>1, <3>1, <1>1
  <2>2. CASE z # x
    <3>1. x = 2 /\ x - 1 = 1
      BY <2>2, <1>1, <1>2
    <3> HIDE DEF up
    <3> QED BY <2>2, <3>1, <1>1
  <2> QED BY <2>1, <2>2
<1>5. DOMAIN up = 1 .. 2
  <2> HIDE DEF up
  <2> QED BY <1>1, <1>2
<1>6. P = t.root /\ \A q \in g.nodes : /\ g.lev[q] \in Nat /\ g.from[q] \in Nat /\ g.to[q] \in Nat
                                       /\ g.from[q] < g.to[q] /\ g.to[q] <= g.to[P]
                                       /\ q # P => g.lev[q] < g.lev[P]
                                       /\ q # NoPage
  BY <1>3 DEF Collapses, Placed, NodeIds, NoPage
<1>7. g.lev[up[1].value] + 1 = g.lev[P] /\ g.from[up[1].value] = g.from[P] /\ g.to[up[2].value] = g.to[P]
      /\ g.from[P] = 0
  <2>1. 1 \in DOMAIN up /\ 2 \in DOMAIN up
    BY <1>5
  <2>2. g.from[P] = 0
    BY <1>3, <1>6 DEF Placed
  <2> QED BY <2>1, <2>2, <1>1, <1>2, Zenon DEF HasChildren, Child
<1>8. g.lev[p] = 0 /\ g.lev[s] = 0
  BY <1>1, <1>3 DEF InOrder
<1>9. g.lev[P] = 1
  BY <1>4, <1>7, <1>8
<1>10. ASSUME NEW c \in g.nodes, c # P PROVE c \in {p, s}
  <2> DEFINE q == t.node[c].parent
  <2>1. q \in g.nodes /\ ~ t.node[q].is_leaf /\ \E i \in DOMAIN t.node[q].list : t.node[q].list[i].value = c
    BY <1>3, <1>6, <1>10 DEF AllAreChildren, Child
  <2> HIDE DEF q
  <2>2. g.lev[q] # 0 /\ g.lev[q] \in Nat /\ (q # P => g.lev[q] < g.lev[P])
    BY <2>1, <1>3, <1>6 DEF InOrder
  <2>3. q = P
    BY <2>2, <1>9
  <2>4. PICK i \in 1 .. 2 : up[i].value = c
    BY <2>1, <2>3, <1>5
  <2>5. i = 1 \/ i = 2
    OBVIOUS
  <2> HIDE DEF up
  <2> QED BY <2>4, <2>5, <1>4
<1>11. g.nodes = {P, p, s}
  BY <1>1, <1>10
<1>12. /\ \A q \in {p, s} : /\ suc(q) # NoPage => suc(q) \in g.nodes /\ g.from[suc(q)] = g.to[q]
                            /\ pre(q) # NoPage => pre(q) \in g.nodes /\ g.to[pre(q)] = g.from[q]
  BY <1>1, <1>3 DEF Chained
<1>13. \A q \in {p, s} : g.from[q] = 0 => pre(q) = NoPage
  <2> SUFFICES ASSUME NEW q \in {p, s}, g.from[q] = 0, pre(q) # NoPage PROVE FALSE
    OBVIOUS
  <2> DEFINE r == pre(q)
  <2>1. r \in g.nodes /\ g.to[r] = g.from[q]
    BY <1>12
  <2> HIDE DEF r
  <2>2. g.from[r] \in Nat /\ g.to[r] \in Nat /\ g.from[r] < g.to[r] /\ g.to[r] = 0
    BY <2>1, <1>6
  <2> QED BY <2>2
<1>14. \A q \in {p, s} : g.to[q] = g.to[P] => suc(q) = NoPage
  <2> SUFFICES ASSUME NEW q \in {p, s}, g.to[q] = g.to[P], suc(q) # NoPage PROVE FALSE
    OBVIOUS
  <2> DEFINE r == suc(q)
  <2>1. r \in g.nodes /\ g.from[r] = g.to[q]
    BY <1>12
  <2> HIDE DEF r
  <2>2. /\ g.from[r] \in Nat /\ g.to[r] \in Nat /\ g.from[r] < g.to[r] /\ g.to[r] <= g.to[P]
        /\ g.to[P] \in Nat /\ g.from[r] = g.to[P]
    BY <2>1, <1>1, <1>6
  <2> QED BY <2>2
<1>15. /\ u.node[s].suc_leaf = IF s = pre(p) THEN suc(p) ELSE suc(s)
       /\ u.node[s].pre_leaf = IF s = suc(p) THEN pre(p) ELSE pre(s)
  BY DEF Collapsed
<1>16. (z = x => suc(p) = s) /\ (z # x => pre(p) = s)
  BY <1>1, BrotherIs
<1>17. s # NoPage
  BY <1>1, <1>6
<1> HIDE DEF up, suc, pre
<1>18. CASE z = x
  <2>1. g.from[p] = 0 /\ g.to[s] = g.to[P]
    BY <1>18, <1>4, <1>7
  <2>2. pre(p) = NoPage /\ suc(s) = NoPage
    BY <2>1, <1>13, <1>14
  <2> QED BY <2>2, <1>11, <1>15, <1>16, <1>17, <1>18
<1>19. CASE z # x
  <2>1. g.from[s] = 0 /\ g.to[p] = g.to[P]
    BY <1>19, <1>4, <1>7
  <2>2. pre(s) = NoPage /\ suc(p) = NoPage
    BY <2>1, <1>13, <1>14
  <2> QED BY <2>2, <1>11, <1>15, <1>16, <1>17, <1>19
<1> QED BY <1>18, <1>19

\* The leaf that becomes the root is a tree, with the entries it had.
LEMMA CollapseKeeps ==
  ASSUME NEW t, NEW g, NEW p, NEW P, NEW s, NEW x, NEW z, Collapses(t, g, p, P, s, x, z),
         NEW u, Collapsed(t, u, p, s), Grows(t, g, TRUE), key_num(t.node[p]) = 1
  PROVE  Loses(t, g, u, p, 1)
<1> USE IndexFileAssumption
<1> DEFINE h == [nodes |-> {s}, lev |-> [q \in {s} |-> 0], from |-> [q \in {s} |-> 0],
                 to |-> [q \in {s} |-> 1], lo |-> [q \in {s} |-> -1],
                 hi |-> [q \in {s} |-> INDEX_KEY_MAX]]
           n == u.node[s]
           list == t.node[s].list
<1>1. /\ g.nodes = {P, p, s} /\ n.suc_leaf = NoPage /\ n.pre_leaf = NoPage
  BY CollapseIs
<1>2. /\ p # P /\ s # P /\ s # p /\ t.node[p].is_leaf /\ t.node[s].is_leaf /\ ~ t.node[P].is_leaf
      /\ p \in g.nodes /\ s \in g.nodes
  BY DropsIs DEF Collapses
<1>3. u \in Trees /\ u.root = s /\ u.num = t.num /\ n \in Node /\ n.is_leaf /\ n.list = list
  BY DEF Collapsed
<1>4. Shape(t, g, TRUE) /\ Fits(t, g) /\ Sizes(t, g, NoPage) /\ Apart(t, g.nodes)
  BY Zenon DEF Grows
<1>5. /\ h.nodes = {s} /\ h.lev[s] = 0 /\ h.from[s] = 0 /\ h.to[s] = 1 /\ h.lo[s] = -1
      /\ h.hi[s] = INDEX_KEY_MAX
  OBVIOUS
<1> HIDE DEF h
<1>6. KeysBetween(list, TRUE, -1, INDEX_KEY_MAX, TRUE)
  <2>1. KeysBetween(list, TRUE, g.lo[s], g.hi[s], TRUE)
    BY <1>2, <1>4, Zenon DEF Shape, AllKeysBetween
  <2>2. g.lo[s] \in -1 .. INDEX_KEY_MAX - 1 /\ g.hi[s] \in 0 .. INDEX_KEY_MAX
    BY <1>2, <1>4 DEF Shape, Placed
  <2>3. \A i \in 1 .. Len(list) - 1 : list[i].key \in Int
    <3>1. list \in Seq(Pair) /\ Len(list) \in Nat
      BY <1>2, <1>4, NodeIs DEF Shape
    <3> HIDE DEF list
    <3>2. ASSUME NEW i \in 1 .. Len(list) - 1 PROVE list[i].key \in Int
      <4>1. i \in 1 .. Len(list)
        BY <3>1
      <4>2. list[i] \in Pair
        BY <3>1, <4>1
      <4> QED BY <4>2 DEF Pair
    <3> QED BY <3>2
  <2> HIDE DEF list
  <2> QED BY <2>1, <2>2, <2>3 DEF KeysBetween
<1> HIDE DEF n, list
<1>7. Placed(u, h)
  <2>1. s \in NodeIds
    BY <1>2, <1>4, NodeIs DEF Shape
  <2> QED BY <2>1, <1>3, <1>5 DEF Placed, n
<1>8. AllKeysBetween(u, h, TRUE)
  <2>1. KeysBetween(u.node[s].list, u.node[s].is_leaf, h.lo[s], h.hi[s], TRUE)
    <3>1. u.node[s].list = list /\ u.node[s].is_leaf = TRUE
      BY <1>3 DEF n, Node
    <3> QED BY <3>1, <1>5, <1>6, Zenon
  <2> QED BY <2>1, <1>5, Zenon DEF AllKeysBetween
<1>9. AllHaveChildren(u, h) /\ AllAreChildren(u, h) /\ InOrder(u, h)
  BY <1>3, <1>5 DEF AllHaveChildren, AllAreChildren, InOrder, n
<1>10. Chained(u, h) /\ LeavesFull(u, h, TRUE)
  BY <1>1, <1>3, <1>5 DEF Chained, LeavesFull, n
<1>11. Shape(u, h, TRUE)
  BY <1>7, <1>8, <1>9, <1>10, Zenon DEF Shape
<1>12. Fits(u, h)
  <2>1. t.num \in Nat /\ s \in 1 .. t.num
    <3>1. t.num \in NodeIds
      BY <1>2, <1>4, NodeIs DEF Shape
    <3>2. s \in 1 .. t.num
      BY <1>2, <1>4 DEF Fits
    <3> QED BY <3>1, <3>2 DEF NodeIds
  <2> QED BY <2>1, <1>3, <1>5 DEF Fits
<1>13. Sizes(u, h, NoPage)
  <2>1. s # NoPage
    BY <1>2, <1>4 DEF Shape, Placed, NodeIds, NoPage
  <2>2. key_num(t.node[s]) <= M - 1
    BY <2>1, <1>2, <1>4 DEF Sizes
  <2>3. key_num(u.node[s]) = key_num(t.node[s])
    BY <1>3 DEF key_num, n, list
  <2> QED BY <2>1, <2>2, <2>3, <1>3, <1>5 DEF Sizes, n
<1> DEFINE Y == Places(u, {s})
           X == Places(t, g.nodes)
           c == <<p, 1>>
           f == [a \in Y |-> a]
<1>14. \A a \in Y : a \in X \ {c} /\ EntryAt(u, a[1], a[2]) = EntryAt(t, a[1], a[2])
  <2> SUFFICES ASSUME NEW a \in Y PROVE a \in X \ {c} /\ EntryAt(u, a[1], a[2]) = EntryAt(t, a[1], a[2])
    OBVIOUS
  <2>1. a \in {s} \X (1 .. M) /\ a[1] = s /\ a[2] <= key_num(u.node[s])
    BY DEF Places
  <2>2. key_num(u.node[s]) = key_num(t.node[s]) /\ u.node[s].list = t.node[s].list
    BY <1>3 DEF key_num, n, list
  <2>3. a \in g.nodes \X (1 .. M)
    BY <2>1, <1>2
  <2>4. a \in X
    BY <2>1, <2>2, <2>3, <1>2 DEF Places
  <2>5. a # c
    BY <2>1, <1>2
  <2> QED BY <2>1, <2>2, <2>4, <2>5 DEF EntryAt
<1>15. \A b \in X \ {c} : b \in Y
  <2> SUFFICES ASSUME NEW b \in X \ {c} PROVE b \in Y
    BY Zenon
  <2>1. b \in g.nodes \X (1 .. M) /\ t.node[b[1]].is_leaf /\ b[2] <= key_num(t.node[b[1]])
    BY DEF Places
  <2>2. b[1] # p
    <3> SUFFICES ASSUME b[1] = p PROVE FALSE
      OBVIOUS
    <3>1. b[2] = 1 /\ b = <<b[1], b[2]>>
      BY <2>1
    <3> QED BY <3>1
  <2>3. b[1] = s
    BY <2>1, <2>2, <1>1, <1>2
  <2>4. key_num(u.node[s]) = key_num(t.node[s]) /\ u.node[s].is_leaf
    BY <1>3 DEF key_num, n, list
  <2>5. b \in {s} \X (1 .. M)
    BY <2>1, <2>3
  <2> QED BY <2>1, <2>3, <2>4, <2>5 DEF Places
<1>16. c \in X /\ c[1] = p /\ c[2] = 1
  <2>1. 1 \in 1 .. M /\ 1 <= key_num(t.node[p])
    OBVIOUS
  <2> QED BY <2>1, <1>2 DEF Places
<1> HIDE DEF X, Y, c
<1>17. (\A a \in Y : f[a] = a) /\ f \in [Y -> X \ {c}]
  BY <1>14
<1> HIDE DEF f
<1>18. Moved(f, t, g.nodes, u, h.nodes, c)
  <2>1. Moved(f, t, g.nodes, u, {s}, c)
    BY <1>14, <1>15, <1>17, Zenon DEF Moved, X, Y
  <2> QED BY <2>1, <1>5
<1>19. Apart(u, h.nodes) /\ Content(u, h.nodes) = Content(t, g.nodes) \ {EntryAt(t, c[1], c[2])}
  <2>1. c \in Places(t, g.nodes)
    BY <1>16 DEF X
  <2>2. Apart(u, h.nodes)
    BY <2>1, <1>4, <1>11, <1>13, <1>18, MovedContent, Zenon
  <2>3. LosesEntry(t, g.nodes, u, h.nodes, c)
    BY <2>1, <1>4, <1>11, <1>13, <1>18, MovedContent, Zenon
  <2> QED BY <2>2, <2>3 DEF LosesEntry
<1> QED BY <1>11, <1>12, <1>13, <1>16, <1>19, Zenon DEF Grows, Loses
-----------------------------------------------------------------------------
\* A list is another one without the pair at place i, and lies between its bounds.
TakenOut(list, old, i, lo, hi) ==
  /\ list \in Seq(Pair) \ {<< >>} /\ Len(list) = Len(old) - 1 /\ Len(old) \in Nat
  /\ \A j \in 1 .. Len(old) - 1 : list[j] = IF j < i THEN old[j] ELSE old[j + 1]
  /\ KeysBetween(list, TRUE, lo, hi, TRUE)

\* A list without one of its pairs but the last lies between its bounds.
LEMMA KeyTakenOut ==
  ASSUME NEW old \in Seq(Pair) \ {<< >>}, NEW lo \in Int, NEW hi \in Int,
         KeysBetween(old, TRUE, lo, hi, TRUE),
         NEW i \in 1 .. Len(old) - 1, NEW list, list = RemoveAt(old, i)
  PROVE  TakenOut(list, old, i, lo, hi)
<1>1. Len(old) \in Nat /\ i \in 1 .. Len(old) /\ old \in Seq(Pair) /\ Len(old) >= 2
  BY ListIs
<1>2. /\ list \in Seq(Pair) /\ Len(list) = Len(old) - 1
      /\ \A j \in 1 .. Len(old) - 1 : list[j] = IF j < i THEN old[j] ELSE old[j + 1]
  BY <1>1, RemoveAtIs
<1>3. \A j \in 1 .. Len(old) - 1 : old[j].key \in Int
  <2> SUFFICES ASSUME NEW j \in 1 .. Len(old) - 1 PROVE old[j].key \in Int
    OBVIOUS
  <2>1. j \in 1 .. Len(old)
    BY <1>1
  <2>2. old[j] \in Pair
    BY <1>1, <2>1
  <2>3. old[j].key \in 0 .. INDEX_KEY_MAX
    BY <2>2, Zenon DEF Pair
  <2> QED BY ONLY <2>3
<1>4. /\ old[Len(old)].key = INDEX_KEY_MAX
      /\ \A j \in 1 .. Len(old) - 1 : old[j].key < INDEX_KEY_MAX /\ lo < old[j].key /\ old[j].key <= hi
      /\ \A j, k \in 1 .. Len(old) - 1 : j < k => old[j].key < old[k].key
  <2>1. TRUE \/ Mid <= i
    OBVIOUS
  <2> QED BY DEF KeysBetween
<1> DEFINE n == Len(old) - 2
           at(j) == IF j < i THEN j ELSE j + 1
<1>5. n \in Nat /\ Len(list) = n + 1 /\ Len(old) = n + 2 /\ i \in 1 .. n + 1
  BY <1>1, <1>2
<1> HIDE DEF n
<1>6. ASSUME NEW j \in 1 .. n PROVE at(j) \in 1 .. n + 1 /\ list[j] = old[at(j)]
  <2>1. j \in 1 .. Len(old) - 1
    BY <1>5
  <2>2. list[j] = IF j < i THEN old[j] ELSE old[j + 1]
    BY <1>2, <2>1
  <2>3. CASE j < i
    BY <2>2, <2>3, <1>5
  <2>4. CASE ~ (j < i)
    BY <2>2, <2>4, <1>5
  <2> QED BY <2>3, <2>4
<1>7. list[n + 1] = old[n + 2]
  <2>1. n + 1 \in 1 .. Len(old) - 1 /\ ~ (n + 1 < i) /\ (n + 1) + 1 = n + 2
    BY <1>5
  <2> QED BY <2>1, <1>2, Zenon
<1>8. \A j, k \in 1 .. n : j < k => at(j) < at(k)
  BY <1>5
<1> HIDE DEF at
<1>9. Len(old) - 1 = n + 1 /\ Len(list) - 1 = n
  BY <1>5
<1>10. ASSUME NEW j \in 1 .. n
       PROVE  list[j].key < INDEX_KEY_MAX /\ lo < list[j].key /\ list[j].key <= hi /\ list[j].key \in Int
  BY <1>3, <1>4, <1>6, <1>9
<1>11. ASSUME NEW j \in 1 .. n, NEW k \in 1 .. n, j < k
       PROVE  list[j].key < list[k].key /\ list[j].key \in Int /\ list[k].key \in Int
  <2>1. at(j) \in 1 .. n + 1 /\ at(k) \in 1 .. n + 1 /\ at(j) < at(k)
    BY <1>6, <1>8, <1>11
  <2>2. old[at(j)].key < old[at(k)].key
    BY <2>1, <1>4, <1>9, Zenon
  <2> QED BY <2>2, <1>6, <1>10, <1>11, Zenon
<1>12. KeysBetween(list, TRUE, lo, hi, TRUE)
  <2>1. list[Len(list)].key = INDEX_KEY_MAX
    BY <1>4, <1>5, <1>7
  <2>2. \A j \in 1 .. n : lo <= list[j].key
    BY <1>10
  <2>3. \A j, k \in 1 .. n : j < k => list[j].key <= list[k].key
    BY <1>11
  <2> QED BY <2>1, <2>2, <2>3, <1>9, <1>10, <1>11, Zenon DEF KeysBetween
<1>13. list # << >>
  BY <1>5
<1> QED BY <1>1, <1>2, <1>12, <1>13, Zenon DEF TakenOut

\* A leaf with a pair to spare, or the root, loses the pair at place i.
LEMMA LeafLoses ==
  ASSUME NEW t, NEW g, Grows(t, g, TRUE), NEW p \in g.nodes, t.node[p].is_leaf,
         key_num(t.node[p]) > 1 \/ p = t.root, NEW i \in 1 .. key_num(t.node[p]),
         NEW u, u = delete_key(t, p, i)
  PROVE  Loses(t, g, u, p, i)
<1> USE IndexFileAssumption
<1> DEFINE old  == t.node[p].list
           list == RemoveAt(old, i)
           n    == key_num(t.node[p])
<1>1. Shape(t, g, TRUE) /\ Fits(t, g) /\ Sizes(t, g, NoPage) /\ Apart(t, g.nodes)
  BY Zenon DEF Grows
<1>2. /\ Placed(t, g) /\ t \in Trees /\ p \in NodeIds /\ t.node[p] \in Node
      /\ old \in Seq(Pair) \ {<< >>} /\ p # NoPage
      /\ g.nodes \subseteq NodeIds
  BY <1>1 DEF Shape, Placed, Node, NodeIds, NoPage
<1>3. g.lo[p] \in Int /\ g.hi[p] \in Int
  <2>1. g.lo[p] \in -1 .. INDEX_KEY_MAX - 1 /\ g.hi[p] \in 0 .. INDEX_KEY_MAX
    BY <1>2 DEF Placed
  <2> QED BY <2>1
<1>4. n = Len(old) - 1
  BY DEF key_num
<1>5. t.node[p].is_leaf = TRUE
  BY <1>2 DEF Node
<1>6. KeysBetween(old, TRUE, g.lo[p], g.hi[p], TRUE)
  <2>1. KeysBetween(old, t.node[p].is_leaf, g.lo[p], g.hi[p], TRUE)
    BY <1>1, Zenon DEF Shape, AllKeysBetween
  <2> QED BY <2>1, <1>5, Zenon
<1>7. /\ list \in Seq(Pair) \ {<< >>} /\ Len(list) = Len(old) - 1 /\ Len(old) \in Nat
      /\ \A j \in 1 .. Len(old) - 1 : list[j] = IF j < i THEN old[j] ELSE old[j + 1]
      /\ KeysBetween(list, TRUE, g.lo[p], g.hi[p], TRUE)
  <2> HIDE DEF old
  <2> DEFINE new == RemoveAt(old, i)
  <2>1. i \in 1 .. Len(old) - 1
    BY <1>4
  <2>2. new = RemoveAt(old, i)
    OBVIOUS
  <2> HIDE DEF new
  <2>3. TakenOut(new, old, i, g.lo[p], g.hi[p])
    <3>1. old \in Seq(Pair) \ {<< >>} /\ g.lo[p] \in Int /\ g.hi[p] \in Int
      BY <1>2, <1>3
    <3> QED BY ONLY <3>1, <1>6, <2>1, <2>2, KeyTakenOut, Zenon
  <2> QED BY <2>2, <2>3, Zenon DEF TakenOut
<1>8. u = WithList(t, p, list)
  BY DEF delete_key, WithList
<1> HIDE DEF list, old
<1>9. /\ u.root = t.root /\ u.num = t.num /\ u.node[p].list = list /\ u.node[p].is_leaf = t.node[p].is_leaf
      /\ \A q \in NodeIds : q # p => u.node[q] = t.node[q]
  <2>1. t \in Trees /\ p \in NodeIds /\ t.node[p] \in Node /\ list \in Seq(Pair) \ {<< >>}
    BY <1>2, <1>7
  <2>2. u.root = t.root /\ u.num = t.num /\ u.node[p].list = list
    BY <2>1, <1>8, WithListIs
  <2>3. u.node[p] = Relisted(t.node[p], list)
    BY <2>1, <1>8, WithListIs
  <2>4. \A q \in NodeIds : q # p => u.node[q] = t.node[q]
    BY <2>1, <1>8, WithListIs
  <2>5. u.node[p].is_leaf = t.node[p].is_leaf
    BY <2>1, <2>3, Zenon DEF Relisted, Node
  <2> QED BY <2>2, <2>4, <2>5
<1>10. Len(list) >= 2 \/ p = t.root
  BY <1>4, <1>7
<1>11. Shape(u, g, TRUE)
  <2>1. KeysBetween(list, t.node[p].is_leaf, g.lo[p], g.hi[p], TRUE)
    BY <1>5, <1>7, Zenon
  <2>2. ~ TRUE /\ g.hi[p] < INDEX_KEY_MAX => Len(list) >= 2 /\ list[Len(list) - 1].key = g.hi[p]
    OBVIOUS
  <2>3. Shape(WithList(t, p, list), g, TRUE)
    BY <1>1, <1>7, <1>10, <2>1, <2>2, LeafRelisted, Zenon
  <2> QED BY <2>3, <1>8, Zenon
<1>12. /\ key_num(u.node[p]) = n - 1 /\ n \in Nat
       /\ \A q \in g.nodes : q # p => key_num(u.node[q]) = key_num(t.node[q])
       /\ \A q \in g.nodes : u.node[q].is_leaf <=> t.node[q].is_leaf
  <2>1. key_num(u.node[p]) = n - 1 /\ n \in Nat
    <3>1. key_num(u.node[p]) = Len(list) - 1
      BY <1>9 DEF key_num
    <3> QED BY <3>1, <1>4, <1>7
  <2>2. \A q \in g.nodes : q # p => u.node[q] = t.node[q]
    BY <1>2, <1>9
  <2> QED BY <2>1, <2>2, <1>9, Zenon
<1>13. Fits(u, g)
  BY <1>1, <1>9 DEF Fits
<1>14. n <= M - 1 /\ n = key_num(t.node[p])
  <2>1. key_num(t.node[p]) <= M - 1
    BY <1>1, <1>2 DEF Sizes
  <2> QED BY <2>1
<1> HIDE DEF n
<1>15. Sizes(u, g, NoPage)
  <2>1. /\ \A q \in g.nodes : key_num(t.node[q]) <= M - 1
        /\ \A q \in g.nodes : ~ t.node[q].is_leaf => key_num(t.node[q]) >= IF q = t.root THEN 1 ELSE Mid - 1
        /\ \A q \in g.nodes : q # NoPage
    BY <1>1, <1>2 DEF Sizes, NodeIds, NoPage
  <2>2. \A q \in g.nodes : key_num(u.node[q]) <= M - 1
    <3> SUFFICES ASSUME NEW q \in g.nodes PROVE key_num(u.node[q]) <= M - 1
      OBVIOUS
    <3>1. CASE q = p
      BY <3>1, <1>12, <1>14
    <3>2. CASE q # p
      BY <3>2, <1>12, <2>1
    <3> QED BY <3>1, <3>2
  <2>3. \A q \in g.nodes : ~ u.node[q].is_leaf => key_num(u.node[q]) >= IF q = u.root THEN 1 ELSE Mid - 1
    <3> SUFFICES ASSUME NEW q \in g.nodes, ~ u.node[q].is_leaf
                 PROVE  key_num(u.node[q]) >= IF q = t.root THEN 1 ELSE Mid - 1
      BY <1>9
    <3>1. ~ t.node[q].is_leaf /\ q # p
      BY <1>12
    <3> QED BY <3>1, <1>12, <2>1
  <2> QED BY <2>1, <2>2, <2>3 DEF Sizes
<1> DEFINE Y == Places(u, g.nodes)
           X == Places(t, g.nodes)
           c == <<p, i>>
           at(a) == IF a[1] = p /\ a[2] >= i THEN <<p, a[2] + 1>> ELSE a
           f == [a \in Y |-> at(a)]
<1>16. /\ \A a : a \in X <=> /\ a \in g.nodes \X (1 .. M) /\ t.node[a[1]].is_leaf
                             /\ a[2] <= key_num(t.node[a[1]])
       /\ \A a : a \in Y <=> /\ a \in g.nodes \X (1 .. M) /\ u.node[a[1]].is_leaf
                             /\ a[2] <= key_num(u.node[a[1]])
  BY DEF Places
<1>17. \A a \in g.nodes \X (1 .. M) : a = <<a[1], a[2]>> /\ a[1] \in g.nodes /\ a[2] \in 1 .. M
  OBVIOUS
<1>18. i \in 1 .. n /\ i \in Int
  BY <1>12, <1>14
<1> HIDE DEF X, Y
\* A place of u in p, and in another leaf.
<1>19. ASSUME NEW a \in Y, a[1] = p
       PROVE  /\ a = <<p, a[2]>> /\ a[2] \in 1 .. n - 1 /\ a[2] \in Int
              /\ a[2] < i => a \in X \ {c} /\ EntryAt(u, p, a[2]) = EntryAt(t, p, a[2])
              /\ ~ (a[2] < i) => <<p, a[2] + 1>> \in X \ {c} /\ EntryAt(u, p, a[2]) = EntryAt(t, p, a[2] + 1)
  <2> DEFINE j == a[2]
  <2>1. a \in g.nodes \X (1 .. M) /\ j <= n - 1 /\ j \in 1 .. M /\ a = <<p, j>>
    BY <1>12, <1>16, <1>17, <1>19
  <2> HIDE DEF j
  <2>2. j \in 1 .. n - 1 /\ j \in Int /\ j + 1 \in 1 .. M /\ j + 1 <= n /\ j <= n
    <3>1. M \in Int
      OBVIOUS
    <3> QED BY ONLY <3>1, <2>1, <1>12, <1>14
  <2>3. u.node[p].list[j] = IF j < i THEN t.node[p].list[j] ELSE t.node[p].list[j + 1]
    <3>1. j \in 1 .. Len(old) - 1
      BY <2>2, <1>4, <1>7, <1>12
    <3>2. list[j] = IF j < i THEN old[j] ELSE old[j + 1]
      BY <3>1, <1>7
    <3> QED BY <3>2, <1>9 DEF old
  <2>4. ASSUME j < i PROVE a \in X \ {c} /\ EntryAt(u, p, j) = EntryAt(t, p, j)
    <3>1. j # i
      BY <2>2, <2>4, <1>18
    <3>2. a # c
      BY <2>1, <3>1
    <3>3. a \in X
      BY <2>1, <2>2, <1>14, <1>16
    <3> QED BY <2>3, <2>4, <3>2, <3>3 DEF EntryAt
  <2>5. ASSUME ~ (j < i) PROVE <<p, j + 1>> \in X \ {c} /\ EntryAt(u, p, j) = EntryAt(t, p, j + 1)
    <3>1. j + 1 # i
      BY <2>2, <2>5, <1>18
    <3>2. <<p, j + 1>> # c
      BY <3>1
    <3>3. <<p, j + 1>> \in X
      <4>1. <<p, j + 1>> \in g.nodes \X (1 .. M) /\ <<p, j + 1>>[1] = p /\ <<p, j + 1>>[2] = j + 1
        BY <2>2
      <4> QED BY <4>1, <2>2, <1>14, <1>16
    <3> QED BY <2>3, <2>5, <3>2, <3>3 DEF EntryAt
  <2> QED BY <2>1, <2>2, <2>4, <2>5 DEF j
<1>20. ASSUME NEW a \in Y, a[1] # p
       PROVE  at(a) = a /\ a \in X \ {c} /\ EntryAt(u, a[1], a[2]) = EntryAt(t, a[1], a[2])
  <2>1. /\ a \in g.nodes \X (1 .. M) /\ u.node[a[1]].is_leaf /\ a[2] <= key_num(u.node[a[1]])
        /\ a[1] \in g.nodes
    BY <1>16, <1>17
  <2>2. u.node[a[1]] = t.node[a[1]]
    BY <2>1, <1>2, <1>9, <1>20
  <2>3. a \in X
    BY <2>1, <2>2, <1>16
  <2>4. a # c
    BY <1>20
  <2> QED BY <2>2, <2>3, <2>4, <1>20 DEF EntryAt
<1>21. ASSUME NEW a \in Y, a[1] = p
       PROVE  /\ a[2] < i => at(a) = a
              /\ ~ (a[2] < i) => at(a) = <<p, a[2] + 1>>
  <2>1. a[2] \in Int
    BY <1>19, <1>21, Zenon
  <2>2. a[2] < i => ~ (a[2] >= i)
    BY <2>1, <1>18
  <2>3. ~ (a[2] < i) => a[2] >= i
    BY <2>1, <1>18
  <2> QED BY <2>2, <2>3, <1>21
<1>22. ASSUME NEW a \in Y
       PROVE  at(a) \in X \ {c} /\ EntryAt(u, a[1], a[2]) = EntryAt(t, at(a)[1], at(a)[2])
  <2>1. CASE a[1] = p /\ a[2] < i
    BY <2>1, <1>19, <1>21
  <2>2. CASE a[1] = p /\ ~ (a[2] < i)
    <3>1. <<p, a[2] + 1>>[1] = p /\ <<p, a[2] + 1>>[2] = a[2] + 1
      OBVIOUS
    <3>2. at(a) = <<p, a[2] + 1>>
      BY <2>2, <1>21
    <3> HIDE DEF at
    <3> QED BY <2>2, <3>1, <3>2, <1>19
  <2>3. CASE a[1] # p
    BY <2>3, <1>20
  <2> QED BY <2>1, <2>2, <2>3
<1>23. ASSUME NEW a \in Y, NEW b \in Y, at(a) = at(b) PROVE a = b
  <2> HIDE DEF at
  <2>1. CASE a[1] # p /\ b[1] # p
    BY <2>1, <1>20, <1>23
  <2>2. CASE a[1] = p /\ b[1] # p
    <3>1. b = at(a)
      BY <2>2, <1>20, <1>23
    <3>2. at(a)[1] = p
      BY <2>2, <1>19, <1>21
    <3> QED BY <2>2, <3>1, <3>2
  <2>3. CASE a[1] # p /\ b[1] = p
    <3>1. a = at(b)
      BY <2>3, <1>20, <1>23
    <3>2. at(b)[1] = p
      BY <2>3, <1>19, <1>21
    <3> QED BY <2>3, <3>1, <3>2
  <2>4. CASE a[1] = p /\ b[1] = p
    <3> DEFINE j == a[2]
               k == b[2]
    <3>1. a = <<p, j>> /\ b = <<p, k>> /\ j \in Int /\ k \in Int
      BY <2>4, <1>19, Zenon
    <3>2. /\ at(a)[2] = IF j < i THEN j ELSE j + 1
          /\ at(b)[2] = IF k < i THEN k ELSE k + 1
      BY <2>4, <1>21
    <3> HIDE DEF j, k
    <3>3. j = k
      BY <3>1, <3>2, <1>18, <1>23
    <3> QED BY <3>1, <3>3
  <2> QED BY <2>1, <2>2, <2>3, <2>4
<1>24. ASSUME NEW b \in X \ {c} PROVE \E a \in Y : at(a) = b
  <2>1. /\ b \in g.nodes \X (1 .. M) /\ t.node[b[1]].is_leaf /\ b[2] <= key_num(t.node[b[1]])
        /\ b[1] \in g.nodes /\ b[2] \in 1 .. M /\ b = <<b[1], b[2]>>
    BY <1>16, <1>17
  <2>2. CASE b[1] # p
    <3>1. u.node[b[1]] = t.node[b[1]]
      BY <2>1, <2>2, <1>2, <1>9
    <3>2. b \in Y
      BY <2>1, <3>1, <1>16
    <3> QED BY <3>2, <2>2
  <2>3. CASE b[1] = p
    <3> DEFINE k == b[2]
               j == IF k < i THEN k ELSE k - 1
               a == <<p, j>>
    <3>1. k # i /\ k \in 1 .. n /\ k \in 1 .. M
      <4>1. k # i
        BY <2>1, <2>3
      <4>2. k <= n /\ k \in 1 .. M
        BY <2>1, <2>3, <1>14
      <4> HIDE DEF k
      <4> QED BY <4>1, <4>2, <1>12
    <3> HIDE DEF k
    <3>2. j \in 1 .. n - 1 /\ j \in 1 .. M /\ (j < i <=> k < i) /\ (~ (k < i) => j + 1 = k) /\ (k < i => j = k)
      BY <3>1, <1>12, <1>18
    <3> HIDE DEF j
    <3>3. a \in Y
      <4>1. a \in g.nodes \X (1 .. M) /\ a[1] = p /\ a[2] = j
        BY <3>2
      <4>2. j <= n - 1
        BY <3>2, <1>12
      <4> HIDE DEF a
      <4> QED BY <4>1, <4>2, <1>9, <1>12, <1>16
    <3>4. a[1] = p /\ a[2] = j
      OBVIOUS
    <3>5. b = <<p, k>>
      BY <2>1, <2>3 DEF k
    <3>6. at(a) = b
      <4>1. CASE k < i
        <5>1. a[2] < i
          BY <4>1, <3>2, <3>4
        <5>2. at(a) = a
          BY <5>1, <3>3, <3>4, <1>21
        <5> HIDE DEF at
        <5> QED BY <5>2, <4>1, <3>2, <3>5
      <4>2. CASE ~ (k < i)
        <5>1. ~ (a[2] < i)
          BY <4>2, <3>2, <3>4
        <5>2. at(a) = <<p, j + 1>>
          BY <5>1, <3>3, <3>4, <1>21
        <5> HIDE DEF at
        <5> QED BY <5>2, <4>2, <3>2, <3>5
      <4> QED BY <4>1, <4>2
    <3> QED BY <3>3, <3>6
  <2> QED BY <2>2, <2>3
<1>25. c \in X /\ c[1] = p /\ c[2] = i
  <2>1. c \in g.nodes \X (1 .. M) /\ c[1] = p /\ c[2] = i /\ i <= n
    <3>1. i \in 1 .. M /\ i <= n
      BY <1>12, <1>14, <1>18
    <3> QED BY <3>1
  <2> HIDE DEF c
  <2> QED BY <2>1, <1>14, <1>16
<1> HIDE DEF c, at
<1>26. (\A a \in Y : f[a] = at(a)) /\ f \in [Y -> X \ {c}]
  BY <1>22
<1> HIDE DEF f
<1>27. Moved(f, t, g.nodes, u, g.nodes, c)
  <2>1. /\ \A a, b \in Y : f[a] = f[b] => a = b
        /\ \A b \in X \ {c} : \E a \in Y : f[a] = b
        /\ \A a \in Y : EntryAt(u, a[1], a[2]) = EntryAt(t, f[a][1], f[a][2])
    BY <1>22, <1>23, <1>24, <1>26
  <2> QED BY <2>1, <1>26 DEF Moved, X, Y
<1>28. Apart(u, g.nodes) /\ Content(u, g.nodes) = Content(t, g.nodes) \ {EntryAt(t, c[1], c[2])}
  <2>1. c \in Places(t, g.nodes)
    BY <1>25 DEF X
  <2>2. Apart(u, g.nodes)
    BY <2>1, <1>1, <1>11, <1>15, <1>27, MovedContent, Zenon
  <2>3. LosesEntry(t, g.nodes, u, g.nodes, c)
    BY <2>1, <1>1, <1>11, <1>15, <1>27, MovedContent, Zenon
  <2> QED BY <2>2, <2>3 DEF LosesEntry
<1> QED BY <1>11, <1>13, <1>15, <1>25, <1>28, Zenon DEF Grows, Loses
-----------------------------------------------------------------------------
\* A round of delete_key_leaf's loop, which stands still once it has ended.
ShrinkStep(s) == IF s.more THEN ShrinkRound(s.tree, s.page, s.place) ELSE s

\* The first m rounds.
ShrinkRounds(f, t, p, i, m) ==
  f = [k \in 0 .. m |-> IF k = 0 THEN Shrinking(t, p, i, TRUE) ELSE ShrinkStep(f[k - 1])]

\* The recursive definition of the loop has a solution.
LEMMA ShrinkUpDef ==
  ASSUME NEW t, NEW p, NEW i, t.num \in Nat
  PROVE  \E f : ShrinkRounds(f, t, p, i, t.num) /\ ShrinkUp(t, p, i) = f[t.num].tree
<1> DEFINE n == t.num
           x == Shrinking(t, p, i, TRUE)
           S == {m \in 0 .. n : ~ \E f : ShrinkRounds(f, t, p, i, m)}
<1>1. S = {}
  <2> SUFFICES ASSUME S # {} PROVE FALSE
    OBVIOUS
  <2>1. PICK m \in S : \A j \in S : m <= j
    <3>1. S \subseteq Nat
      OBVIOUS
    <3> HIDE DEF S
    <3> QED BY <3>1, LeastExists, Zenon
  <2>2. m \in 0 .. n /\ ~ \E f : ShrinkRounds(f, t, p, i, m)
    BY <2>1
  <2>3. m # 0
    <3>1. ShrinkRounds([k \in 0 .. 0 |-> x], t, p, i, 0)
      BY DEF ShrinkRounds
    <3> QED BY <3>1, <2>2
  <2>4. m - 1 \in 0 .. n /\ m - 1 \notin S
    <3> HIDE DEF S
    <3> QED BY <2>1, <2>2, <2>3
  <2>5. PICK f : ShrinkRounds(f, t, p, i, m - 1)
    BY <2>4
  <2> DEFINE h == [k \in 0 .. m |-> IF k = m THEN ShrinkStep(f[m - 1]) ELSE f[k]]
  <2>6. ShrinkRounds(h, t, p, i, m)
    <3>1. \A k \in 0 .. m : h[k] = IF k = 0 THEN x ELSE ShrinkStep(h[k - 1])
      <4>1. h[0] = x
        <5>1. 0 \in 0 .. m - 1 /\ 0 \in 0 .. m /\ 0 # m
          BY <2>2, <2>3
        <5>2. f[0] = x
          BY <5>1, <2>5, Zenon DEF ShrinkRounds
        <5> QED BY <5>1, <5>2, Zenon
      <4>2. h[m] = ShrinkStep(h[m - 1]) /\ m - 1 \in 0 .. m
        BY <2>2, <2>3
      <4>3. ASSUME NEW k \in 0 .. m, k # 0, k # m PROVE h[k] = ShrinkStep(h[k - 1])
        <5>1. k \in 0 .. m - 1 /\ k - 1 \in 0 .. m - 1 /\ k - 1 # m
          BY <2>2, <4>3
        <5>2. f[k] = ShrinkStep(f[k - 1])
          BY <5>1, <4>3, <2>5, Zenon DEF ShrinkRounds
        <5> QED BY <5>1, <5>2, <4>3
      <4> HIDE DEF h
      <4> QED BY <4>1, <4>2, <4>3, <2>2, <2>3, Zenon
    <3>2. h = [k \in 0 .. m |-> h[k]]
      OBVIOUS
    <3> HIDE DEF h, x
    <3> QED BY <3>1, <3>2, Zenon DEF ShrinkRounds, x
  <2> QED BY <2>2, <2>6
<1>2. \E f : ShrinkRounds(f, t, p, i, n)
  BY <1>1
<1> DEFINE g == CHOOSE f : ShrinkRounds(f, t, p, i, n)
<1>3. ShrinkRounds(g, t, p, i, n)
  BY <1>2
<1>4. ShrinkUp(t, p, i) = g[n].tree
  BY Zenon DEF ShrinkUp, ShrinkRounds, ShrinkStep
<1> QED BY <1>3, <1>4, Zenon

\* The loop ends with the round after which nothing is left to do, here the first or the second.
LEMMA ShrinkUpIs ==
  ASSUME NEW t, NEW p, NEW i, t.num \in Nat,
         NEW m \in 1 .. 2, m <= t.num,
         NEW r, r = ShrinkRound(t, p, i),
         NEW s, IF m = 1 THEN s = r ELSE r.more /\ s = ShrinkRound(r.tree, r.page, r.place),
         ~ s.more
  PROVE  ShrinkUp(t, p, i) = s.tree
<1>1. PICK f : ShrinkRounds(f, t, p, i, t.num) /\ ShrinkUp(t, p, i) = f[t.num].tree
  BY ShrinkUpDef
<1> DEFINE n == t.num
<1>2. /\ f[0] = Shrinking(t, p, i, TRUE)
      /\ \A k \in 1 .. n : f[k] = ShrinkStep(f[k - 1])
  <2>1. \A k \in 0 .. n : f[k] = IF k = 0 THEN Shrinking(t, p, i, TRUE) ELSE ShrinkStep(f[k - 1])
    BY <1>1, Zenon DEF ShrinkRounds
  <2>2. 0 \in 0 .. n
    OBVIOUS
  <2>3. ASSUME NEW k \in 1 .. n PROVE f[k] = ShrinkStep(f[k - 1])
    <3>1. k \in 0 .. n /\ k # 0
      OBVIOUS
    <3> QED BY <3>1, <2>1, Zenon
  <2> QED BY <2>1, <2>2, <2>3, Zenon
<1>3. f[1] = r
  <2>1. 1 \in 1 .. n /\ 1 - 1 = 0
    OBVIOUS
  <2>2. f[1] = ShrinkStep(f[0])
    BY <2>1, <1>2, Zenon
  <2>3. /\ f[0].more = TRUE /\ f[0].tree = t /\ f[0].page = p /\ f[0].place = i
    BY <1>2 DEF Shrinking
  <2> QED BY <2>2, <2>3, Zenon DEF ShrinkStep
<1>4. f[m] = s
  <2>1. CASE m = 1
    BY <2>1, <1>3
  <2>2. CASE m = 2
    <3>1. 2 \in 1 .. n /\ 2 - 1 = 1
      BY <2>2
    <3>2. f[2] = ShrinkStep(r)
      BY <3>1, <1>2, <1>3
    <3> QED BY <2>2, <3>2 DEF ShrinkStep
  <2> QED BY <2>1, <2>2
<1> DEFINE S == {k \in 1 .. n : k >= m /\ f[k] # s}
<1>5. S = {}
  <2> SUFFICES ASSUME S # {} PROVE FALSE
    OBVIOUS
  <2>1. PICK k \in S : \A j \in S : k <= j
    <3>1. S \subseteq Nat
      OBVIOUS
    <3> HIDE DEF S
    <3> QED BY <3>1, LeastExists, Zenon
  <2>2. k \in 1 .. n /\ k >= m /\ f[k] # s
    BY <2>1
  <2>3. k # m
    BY <2>2, <1>4
  <2>4. k - 1 \in 1 .. n /\ k - 1 >= m
    BY <2>2, <2>3
  <2>5. k - 1 \notin S
    <3> HIDE DEF S
    <3> QED BY <2>1, <2>2
  <2>6. f[k - 1] = s
    BY <2>4, <2>5
  <2>7. f[k] = ShrinkStep(s)
    BY <2>2, <2>6, <1>2
  <2> QED BY <2>2, <2>7 DEF ShrinkStep
<1>6. n \in 1 .. n /\ n >= m
  OBVIOUS
<1>7. f[n] = s
  BY <1>5, <1>6
<1> QED BY <1>1, <1>7
-----------------------------------------------------------------------------
\* The pair of the parent that leads to a leaf is the first from a key of the leaf on.
LEMMA PlaceOfLeaf ==
  ASSUME NEW t, NEW g, NEW p, NEW P, NEW s, NEW x, NEW z, Drops(t, g, p, P, s, x, z),
         NEW key \in 0 .. INDEX_KEY_MAX - 1, g.lo[p] < key, key <= g.hi[p]
  PROVE  FirstFrom(t.node[P], key) = x
<1> USE IndexFileAssumption
<1> DEFINE up == t.node[P].list
<1>1. /\ P \in g.nodes /\ ~ t.node[P].is_leaf /\ HasChildren(t, g, P)
      /\ up \in Seq(Pair) \ {<< >>} /\ Len(up) \in Nat /\ x \in 1 .. Len(up) /\ up[x].value = p
  BY DropsIs
<1>2. Placed(t, g) /\ AllKeysBetween(t, g, TRUE)
  BY Zenon DEF Drops, Shape
<1>3. t.node[P] \in Node /\ KeysBetween(up, FALSE, g.lo[P], g.hi[P], TRUE)
  <2>1. t.node[P] \in Node
    BY <1>1, <1>2 DEF Placed
  <2>2. t.node[P].is_leaf = FALSE
    BY <2>1, <1>1 DEF Node
  <2>3. KeysBetween(up, t.node[P].is_leaf, g.lo[P], g.hi[P], TRUE)
    BY <1>1, <1>2, Zenon DEF AllKeysBetween
  <2> HIDE DEF up
  <2> QED BY <2>1, <2>2, <2>3, Zenon
<1>4. x \in DOMAIN up /\ up \in Seq(Pair)
  <2> HIDE DEF up
  <2> QED BY <1>1
<1>5. /\ g.lo[p] = IF x = 1 THEN g.lo[P] ELSE up[x - 1].key
      /\ g.hi[p] = IF x = Len(up) THEN g.hi[P] ELSE up[x].key
  BY <1>1, <1>4, Zenon DEF HasChildren, Child
<1>6. /\ \A j \in 1 .. Len(up) : up[j].key \in Int
      /\ up[Len(up)].key = INDEX_KEY_MAX
      /\ \A j, k \in 1 .. Len(up) - 1 : j < k => up[j].key <= up[k].key
  <2>1. \A j \in 1 .. Len(up) : up[j].key \in Int
    <3> HIDE DEF up
    <3> QED BY <1>1, ListIs
  <2> QED BY <2>1, <1>3 DEF KeysBetween
<1> HIDE DEF up
<1>7. up[x].key >= key
  <2>1. CASE x = Len(up)
    BY <2>1, <1>6
  <2>2. CASE x # Len(up)
    BY <2>2, <1>1, <1>5, <1>6
  <2> QED BY <2>1, <2>2
<1>8. ASSUME NEW j \in 1 .. x - 1 PROVE up[j].key < key
  <2>1. x # 1 /\ x - 1 \in 1 .. Len(up) - 1 /\ j \in 1 .. Len(up) - 1 /\ j <= x - 1
        /\ j \in 1 .. Len(up) /\ x - 1 \in 1 .. Len(up)
    BY <1>1
  <2>2. up[x - 1].key < key
    BY <2>1, <1>5
  <2>3. up[j].key <= up[x - 1].key
    <3>1. CASE j = x - 1
      BY <3>1, <2>1, <1>6
    <3>2. CASE j < x - 1
      BY <3>2, <2>1, <1>6, Zenon
    <3> QED BY <3>1, <3>2, <2>1
  <2>4. up[j].key \in Int /\ up[x - 1].key \in Int
    BY <2>1, <1>6
  <2> QED BY <2>2, <2>3, <2>4
<1>9. PlaceFor(t.node[P].list, x, key)
  BY <1>1, <1>7, <1>8 DEF PlaceFor, up
<1>10. t.node[P].list[Len(t.node[P].list)].key = INDEX_KEY_MAX /\ key \in 0 .. INDEX_KEY_MAX
  <2>1. t.node[P].list[Len(t.node[P].list)].key = INDEX_KEY_MAX
    BY <1>6 DEF up
  <2> QED BY <2>1
<1> QED BY <1>3, <1>9, <1>10, PlaceIsFirst, Zenon

\* A leaf out of the chain of leaves.
Unlinked(t, p) ==
  [t EXCEPT !.node = [q \in NodeIds |->
                        IF q = t.node[p].pre_leaf THEN [@[q] EXCEPT !.suc_leaf = t.node[p].suc_leaf]
                        ELSE IF q = t.node[p].suc_leaf THEN [@[q] EXCEPT !.pre_leaf = t.node[p].pre_leaf]
                        ELSE @[q]]]

\* The leaves before and behind it are linked with each other; no other node has changed.
UnlinkedFacts(t, u, nodes, p) ==
  /\ u \in Trees /\ u.root = t.root /\ u.num = t.num
  /\ \A q \in nodes :
       /\ u.node[q] \in Node
       /\ u.node[q].is_leaf = t.node[q].is_leaf
       /\ u.node[q].parent = t.node[q].parent
       /\ u.node[q].list = t.node[q].list
       /\ u.node[q].suc_leaf = IF q = t.node[p].pre_leaf THEN t.node[p].suc_leaf
                               ELSE t.node[q].suc_leaf
       /\ u.node[q].pre_leaf = IF q = t.node[p].suc_leaf THEN t.node[p].pre_leaf
                               ELSE t.node[q].pre_leaf

\* So when a leaf of the tree leaves the chain.
LEMMA UnlinkedIs ==
  ASSUME NEW t, NEW g, Shape(t, g, TRUE), NEW p \in g.nodes, t.node[p].is_leaf,
         NEW u, u = Unlinked(t, p)
  PROVE  UnlinkedFacts(t, u, g.nodes, p)
<1> USE IndexFileAssumption
<1> DEFINE a == t.node[p].pre_leaf
           b == t.node[p].suc_leaf
           A(n) == [n EXCEPT !.suc_leaf = b]
           B(n) == [n EXCEPT !.pre_leaf = a]
           f == [q \in NodeIds |-> IF q = a THEN A(t.node[q])
                                   ELSE IF q = b THEN B(t.node[q])
                                   ELSE t.node[q]]
<1>1. /\ t \in Trees /\ g.nodes \subseteq NodeIds /\ t.node[p] \in Node
      /\ \A q \in g.nodes : t.node[q] \in Node
  BY DEF Shape, Placed
<1>2. a \in Nat /\ b \in Nat
  BY <1>1 DEF Node
<1>3. /\ a # NoPage => a \in g.nodes /\ g.to[a] = g.from[p]
      /\ b # NoPage => b \in g.nodes /\ g.from[b] = g.to[p]
  BY DEF Shape, Chained
<1>4. a \notin NodeIds \/ a # b
  <2> SUFFICES ASSUME a \in NodeIds, a = b PROVE FALSE
    OBVIOUS
  <2>1. a # NoPage /\ b # NoPage
    BY DEF NodeIds, NoPage
  <2>2. g.to[a] = g.from[p] /\ g.from[a] = g.to[p] /\ a \in g.nodes
    BY <1>3, <2>1
  <2>3. /\ g.from[a] \in Nat /\ g.to[a] \in Nat /\ g.from[a] < g.to[a]
        /\ g.from[p] \in Nat /\ g.to[p] \in Nat /\ g.from[p] < g.to[p]
    BY <2>2 DEF Shape, Placed
  <2> HIDE DEF a
  <2> QED BY <2>2, <2>3
<1>5. /\ a \in NodeIds => t.node[a] \in Node
      /\ b \in NodeIds => t.node[b] \in Node
  BY <1>1, <1>3 DEF NodeIds, NoPage
<1> HIDE DEF a, b
<1>6. ASSUME NEW n \in Node
      PROVE  /\ A(n) \in Node /\ A(n).suc_leaf = b /\ A(n).pre_leaf = n.pre_leaf
             /\ A(n).is_leaf = n.is_leaf /\ A(n).parent = n.parent /\ A(n).list = n.list
  BY <1>2, Zenon DEF Node
<1>7. ASSUME NEW n \in Node
      PROVE  /\ B(n) \in Node /\ B(n).suc_leaf = n.suc_leaf /\ B(n).pre_leaf = a
             /\ B(n).is_leaf = n.is_leaf /\ B(n).parent = n.parent /\ B(n).list = n.list
  BY <1>2, Zenon DEF Node
<1>8. u = [t EXCEPT !.node = f]
  BY DEF Unlinked, a, b
<1> HIDE DEF A, B
<1>9. \A q \in NodeIds : f[q] = IF q = a THEN A(t.node[q])
                                ELSE IF q = b THEN B(t.node[q])
                                ELSE t.node[q]
  OBVIOUS
<1>10. f \in [NodeIds -> Node \cup {Nil}]
  <2>1. ASSUME NEW q \in NodeIds PROVE f[q] \in Node \cup {Nil}
    <3>1. t.node[q] \in Node \cup {Nil}
      BY <1>1 DEF Trees
    <3>2. CASE q = a
      BY <3>2, <1>5, <1>6, <1>9
    <3>3. CASE q # a /\ q = b
      BY <3>3, <1>5, <1>7, <1>9
    <3>4. CASE q # a /\ q # b
      BY <3>4, <3>1, <1>9
    <3> QED BY <3>2, <3>3, <3>4
  <2> QED BY <2>1
<1> HIDE DEF f
<1>11. u \in Trees /\ u.root = t.root /\ u.num = t.num /\ u.node = f
  BY <1>1, <1>8, <1>10 DEF Trees
<1>12. ASSUME NEW q \in g.nodes
       PROVE  /\ u.node[q] \in Node
              /\ u.node[q].is_leaf = t.node[q].is_leaf
              /\ u.node[q].parent = t.node[q].parent
              /\ u.node[q].list = t.node[q].list
              /\ u.node[q].suc_leaf = IF q = a THEN b ELSE t.node[q].suc_leaf
              /\ u.node[q].pre_leaf = IF q = b THEN a ELSE t.node[q].pre_leaf
  <2>1. q \in NodeIds /\ t.node[q] \in Node /\ u.node[q] = f[q]
    BY <1>1, <1>11
  <2>2. CASE q = a
    <3>1. q # b
      BY <2>1, <2>2, <1>4
    <3>2. u.node[q] = A(t.node[q])
      BY <2>1, <2>2, <1>9
    <3> QED BY <2>1, <2>2, <3>1, <3>2, <1>6
  <2>3. CASE q # a /\ q = b
    <3>1. u.node[q] = B(t.node[q])
      BY <2>1, <2>3, <1>9
    <3> QED BY <2>1, <2>3, <3>1, <1>7
  <2>4. CASE q # a /\ q # b
    BY <2>1, <2>4, <1>9
  <2> QED BY <2>2, <2>3, <2>4
<1> QED BY <1>11, <1>12 DEF UnlinkedFacts, a, b
-----------------------------------------------------------------------------
\* A leaf that is not the root has a parent with another child.
LEMMA LeafDrops ==
  ASSUME NEW t, NEW g, Grows(t, g, TRUE), NEW p \in g.nodes \ {t.root}, t.node[p].is_leaf,
         NEW P, P = t.node[p].parent
  PROVE  \E s, x, z : Drops(t, g, p, P, s, x, z)
<1> USE IndexFileAssumption
<1> DEFINE n == t.node[P]
<1>1. Shape(t, g, TRUE) /\ Sizes(t, g, NoPage) /\ AllAreChildren(t, g)
  BY Zenon DEF Grows, Shape
<1>2. P \in g.nodes /\ ~ n.is_leaf /\ \E i \in DOMAIN n.list : Child(n, i) = p
  BY <1>1 DEF AllAreChildren
<1>3. PICK x \in DOMAIN n.list : Child(n, x) = p
  BY <1>2
<1>4. key_num(n) >= 1
  <2>1. key_num(n) >= IF P = t.root THEN 1 ELSE Mid - 1
    BY <1>1, <1>2 DEF Sizes
  <2>2. key_num(n) \in Int
    BY <1>1, <1>2, NodeIs DEF key_num, Shape
  <2> HIDE DEF n
  <2> QED BY <2>1, <2>2, MidIs
<1>5. Len(n.list) \in Nat /\ x \in 1 .. Len(n.list)
  <2>1. n.list \in Seq(Pair) /\ Len(n.list) \in Nat
    BY <1>1, <1>2, NodeIs DEF Shape
  <2>2. x \in DOMAIN n.list
    BY <1>3
  <2> HIDE DEF n
  <2> QED BY ONLY <2>1, <2>2
<1> HIDE DEF n
<1>6. CASE x < Len(n.list)
  <2>1. Drops(t, g, p, P, Child(n, x + 1), x, x)
    BY <1>1, <1>2, <1>3, <1>4, <1>6, Zenon DEF Drops, n
  <2> QED BY <2>1
<1>7. CASE x = Len(n.list)
  <2>1. Drops(t, g, p, P, Child(n, x - 1), x, x - 1)
    BY <1>1, <1>2, <1>3, <1>4, <1>7, Zenon DEF Drops, n
  <2> QED BY <2>1
<1> QED BY <1>5, <1>6, <1>7

\* Tree u is tree t with another list of pairs in node p.
LEMMA ListPut ==
  ASSUME NEW t \in Trees, NEW p \in NodeIds, t.node[p] \in Node, NEW list \in Seq(Pair) \ {<< >>},
         NEW u, u = WithList(t, p, list)
  PROVE  /\ u \in Trees /\ u.root = t.root /\ u.num = t.num
         /\ u.node[p] \in Node
         /\ u.node[p].list = list /\ u.node[p].is_leaf = t.node[p].is_leaf
         /\ u.node[p].parent = t.node[p].parent /\ u.node[p].pre_leaf = t.node[p].pre_leaf
         /\ u.node[p].suc_leaf = t.node[p].suc_leaf
         /\ \A q \in NodeIds : q # p => u.node[q] = t.node[q]
  BY WithListIs

\* A list with another pair at place i.
LEMMA PairPut ==
  ASSUME NEW list \in Seq(Pair), NEW i \in 1 .. Len(list), NEW e \in Pair,
         NEW new, new = [list EXCEPT ![i] = e]
  PROVE  /\ new \in Seq(Pair) /\ Len(new) = Len(list) /\ new[i] = e
         /\ \A j \in 1 .. Len(list) : j # i => new[j] = list[j]
  OBVIOUS

\* A pair with another key, or another value.
LEMMA PairWith ==
  ASSUME NEW m \in Pair, NEW k \in 0 .. INDEX_KEY_MAX, NEW v \in Nat
  PROVE  /\ [m EXCEPT !.key = k] = pair(k, m.value) /\ pair(k, m.value) \in Pair
         /\ [m EXCEPT !.value = v] = pair(m.key, v) /\ pair(m.key, v) \in Pair
<1>1. m.key \in 0 .. INDEX_KEY_MAX /\ m.value \in Nat
  BY DEF Pair
<1>2. pair(m.key, v) \in Pair /\ pair(k, m.value) \in Pair
  BY <1>1 DEF pair, Pair
<1>3. /\ [m EXCEPT !.value = v] \in Pair /\ [m EXCEPT !.value = v].key = m.key
      /\ [m EXCEPT !.value = v].value = v
  BY Zenon DEF Pair
<1>4. /\ [m EXCEPT !.key = k] \in Pair /\ [m EXCEPT !.key = k].key = k
      /\ [m EXCEPT !.key = k].value = m.value
  BY Zenon DEF Pair
<1>5. /\ pair(m.key, v).key = m.key /\ pair(m.key, v).value = v
      /\ pair(k, m.value).key = k /\ pair(k, m.value).value = m.value
  BY DEF pair
<1>6. \A a, b \in Pair : a.key = b.key /\ a.value = b.value => a = b
  BY DEF Pair
<1> QED BY <1>2, <1>3, <1>4, <1>5, <1>6, Zenon

\* A leaf about to lose its only pair, where its parent is the one with this key below it.
LEMMA UnderflowPlace ==
  ASSUME NEW t, NEW g, NEW p, NEW P, NEW s, NEW x, NEW z, Drops(t, g, p, P, s, x, z),
         Grows(t, g, TRUE), key_num(t.node[p]) = 1
  PROVE  PlaceInParent(t, p, t.node[p].list[key_num(t.node[p])].key) = x
<1> DEFINE key == t.node[p].list[1].key
<1>1. p \in g.nodes /\ t.node[p].is_leaf /\ t.node[p].parent = P
  BY DropsIs
<1>2. AllKeysBetween(t, g, TRUE)
  BY Zenon DEF Grows, Shape
<1>3. KeysBetween(t.node[p].list, t.node[p].is_leaf, g.lo[p], g.hi[p], TRUE)
  BY <1>1, <1>2, Zenon DEF AllKeysBetween
<1>4. 1 \in 1 .. Len(t.node[p].list) - 1
  <2>1. Len(t.node[p].list) - 1 = 1
    BY Zenon DEF key_num
  <2> QED BY ONLY <2>1
<1>5. key < INDEX_KEY_MAX /\ g.lo[p] < key /\ key <= g.hi[p]
  BY <1>3, <1>4 DEF KeysBetween
<1>6. key \in 0 .. INDEX_KEY_MAX
  <2>1. 1 \in DOMAIN t.node[p].list
    <3>1. t.node[p].list \in Seq(Pair)
      BY <1>1, NodeIs DEF Grows, Shape
    <3>2. Len(t.node[p].list) \in Nat
      BY <3>1
    <3> QED BY <3>1, <3>2, <1>4
  <2>2. t.node[p].list[1].key \in 0 .. INDEX_KEY_MAX
    BY <1>1, <2>1, NodeIs DEF Grows, Shape
  <2> QED BY <2>2
<1> HIDE DEF key
<1>7. key \in 0 .. INDEX_KEY_MAX - 1
  BY <1>5, <1>6, IndexFileAssumption
<1>8. FirstFrom(t.node[P], key) = x
  BY <1>5, <1>7, PlaceOfLeaf
<1> QED BY <1>1, <1>8 DEF PlaceInParent, key
-----------------------------------------------------------------------------
\* Tree t where p, s and P have these lists.
Relisted3(t, p, s, P, pl, sl, Pl) == WithList(WithList(WithList(t, s, sl), p, pl), P, Pl)

\* Tree u is tree t but for the lists of p, s and P.
ListsAre(t, u, p, s, P, pl, sl, Pl) ==
  /\ u \in Trees /\ u.root = t.root /\ u.num = t.num
  /\ u.node[p].list = pl /\ u.node[s].list = sl /\ u.node[P].list = Pl
  /\ \A q \in NodeIds : q \notin {p, s, P} => u.node[q] = t.node[q]
  /\ \A q \in {p, s, P} : /\ u.node[q] \in Node /\ u.node[q].is_leaf = t.node[q].is_leaf
                          /\ u.node[q].parent = t.node[q].parent
                          /\ u.node[q].pre_leaf = t.node[q].pre_leaf
                          /\ u.node[q].suc_leaf = t.node[q].suc_leaf

\* Three nodes get another list, one after another.
LEMMA ListsPut ==
  ASSUME NEW t \in Trees, NEW p \in NodeIds, NEW s \in NodeIds, NEW P \in NodeIds,
         p # s, s # P, p # P, t.node[p] \in Node, t.node[s] \in Node, t.node[P] \in Node,
         NEW pl \in Seq(Pair) \ {<< >>}, NEW sl \in Seq(Pair) \ {<< >>}, NEW Pl \in Seq(Pair) \ {<< >>},
         NEW u, u = Relisted3(t, p, s, P, pl, sl, Pl)
  PROVE  ListsAre(t, u, p, s, P, pl, sl, Pl)
<1> DEFINE t1 == WithList(t, s, sl)
           t2 == WithList(t1, p, pl)
<1>1. /\ t1 \in Trees /\ t1.root = t.root /\ t1.num = t.num /\ t1.node[s] \in Node
      /\ t1.node[s].list = sl /\ t1.node[s].is_leaf = t.node[s].is_leaf
      /\ t1.node[s].parent = t.node[s].parent /\ t1.node[s].pre_leaf = t.node[s].pre_leaf
      /\ t1.node[s].suc_leaf = t.node[s].suc_leaf
      /\ \A q \in NodeIds : q # s => t1.node[q] = t.node[q]
  BY ListPut
<1> HIDE DEF t1
<1>2. t1.node[p] = t.node[p] /\ t1.node[P] = t.node[P]
  BY <1>1
<1>3. /\ t2 \in Trees /\ t2.root = t1.root /\ t2.num = t1.num /\ t2.node[p] \in Node
      /\ t2.node[p].list = pl /\ t2.node[p].is_leaf = t1.node[p].is_leaf
      /\ t2.node[p].parent = t1.node[p].parent /\ t2.node[p].pre_leaf = t1.node[p].pre_leaf
      /\ t2.node[p].suc_leaf = t1.node[p].suc_leaf
      /\ \A q \in NodeIds : q # p => t2.node[q] = t1.node[q]
  <2>1. t1.node[p] \in Node
    BY <1>2
  <2> QED BY <2>1, <1>1, ListPut
<1> HIDE DEF t2
<1>4. t2.node[P] = t.node[P] /\ t2.node[s] = t1.node[s]
  BY <1>2, <1>3
<1>5. u = WithList(t2, P, Pl)
  BY DEF Relisted3, t2, t1
<1>6. /\ u \in Trees /\ u.root = t2.root /\ u.num = t2.num /\ u.node[P] \in Node
      /\ u.node[P].list = Pl /\ u.node[P].is_leaf = t2.node[P].is_leaf
      /\ u.node[P].parent = t2.node[P].parent /\ u.node[P].pre_leaf = t2.node[P].pre_leaf
      /\ u.node[P].suc_leaf = t2.node[P].suc_leaf
      /\ \A q \in NodeIds : q # P => u.node[q] = t2.node[q]
  <2>1. t2.node[P] \in Node
    BY <1>4
  <2> QED BY <2>1, <1>3, <1>5, ListPut
<1>7. u.node[p] = t2.node[p] /\ u.node[s] = t1.node[s]
  BY <1>6, <1>4
<1>8. \A q \in NodeIds : q \notin {p, s, P} => u.node[q] = t.node[q]
  BY <1>1, <1>3, <1>6
<1> QED BY <1>1, <1>2, <1>3, <1>4, <1>6, <1>7, <1>8 DEF ListsAre

\* What the parent's list becomes when leaf p borrows: the key over p is another.
Rekeyed(list, x, key) == [list EXCEPT ![x].key = key]

\* underflow of a leaf whose right brother has a pair to spare.
LEMMA BorrowedIs ==
  ASSUME NEW t, NEW g, NEW p, NEW P, NEW s, NEW x, Borrows(t, g, p, P, s, x), Grows(t, g, TRUE)
  PROVE  \E u : /\ underflow_leaf(t, p) = Underflow(u, FALSE, x, NoPage)
                /\ Borrowed(t, u, g.nodes, p, P, s, x)
<1> USE IndexFileAssumption
<1> DEFINE up    == t.node[P].list
           L     == t.node[s].list
           n     == t.node[p]
           first == L[1]
           pl    == <<first, Sentinel(n)>>
           sl    == RemoveAt(L, 1)
           Pl    == Rekeyed(up, x, first.key)
           t1    == delete_key(t, s, 1)
           u     == [t1 EXCEPT !.node[p].list = pl, !.node[P].list[x].key = first.key]
<1>1. /\ p \in g.nodes /\ P \in g.nodes /\ s \in g.nodes
      /\ p # P /\ s # P /\ s # p /\ n.is_leaf /\ t.node[s].is_leaf /\ ~ t.node[P].is_leaf
      /\ n.parent = P
      /\ up \in Seq(Pair) \ {<< >>} /\ Len(up) \in Nat /\ Len(up) >= 2
      /\ x \in 1 .. Len(up) - 1 /\ s = up[x + 1].value
  BY DropsIs DEF Borrows
<1>2. /\ t \in Trees /\ g.nodes \subseteq NodeIds /\ \A q \in g.nodes : t.node[q] \in Node
  BY DEF Grows, Shape, Placed
<1>3. /\ L \in Seq(Pair) \ {<< >>} /\ n.list \in Seq(Pair) \ {<< >>}
      /\ L \in Seq(Pair) /\ n.list \in Seq(Pair) /\ Len(L) \in Nat /\ Len(n.list) \in Nat
  <2>1. L \in Seq(Pair) \ {<< >>} /\ n.list \in Seq(Pair) \ {<< >>}
    BY <1>1, <1>2, Zenon DEF Node
  <2> HIDE DEF L, n
  <2> QED BY <2>1
<1>4. Len(L) >= 3 /\ Len(n.list) = 2
  BY <1>3 DEF Borrows, key_num
<1>5. first \in Pair /\ Sentinel(n) \in Pair /\ first.key \in 0 .. INDEX_KEY_MAX
  <2>1. 1 \in 1 .. Len(L) /\ Len(n.list) \in 1 .. Len(n.list)
    BY <1>3, <1>4
  <2>2. first \in Pair /\ Sentinel(n) \in Pair
    <3> HIDE DEF L, n
    <3> QED BY <2>1, <1>3 DEF Sentinel
  <2> HIDE DEF first
  <2> QED BY <2>2 DEF Pair
<1>6. pl \in Seq(Pair) \ {<< >>} /\ Len(pl) = 2 /\ pl[1] = first /\ pl[2] = Sentinel(n)
  <2> HIDE DEF first
  <2> QED BY <1>5
<1>7. Sentinel(n).key = INDEX_KEY_MAX
  <2>1. AllKeysBetween(t, g, TRUE)
    BY Zenon DEF Grows, Shape
  <2> QED BY <2>1, <1>1, Zenon DEF AllKeysBetween, KeysBetween, Sentinel
<1>8. /\ sl \in Seq(Pair) \ {<< >>} /\ Len(sl) = Len(L) - 1
      /\ \A j \in 1 .. Len(L) - 1 : sl[j] = L[j + 1]
  <2> HIDE DEF L
  <2>1. 1 \in 1 .. Len(L)
    BY <1>3, <1>4
  <2>2. /\ sl \in Seq(Pair) /\ Len(sl) = Len(L) - 1
        /\ \A j \in 1 .. Len(L) - 1 : sl[j] = IF j < 1 THEN L[j] ELSE L[j + 1]
    BY <2>1, <1>3, RemoveAtIs
  <2> HIDE DEF sl
  <2>3. \A j \in 1 .. Len(L) - 1 : ~ (j < 1)
    OBVIOUS
  <2> QED BY <2>2, <2>3, <1>4
<1>9. x \in 1 .. Len(up) /\ up \in Seq(Pair) /\ up[x] \in Pair
  <2> HIDE DEF up
  <2> QED BY <1>1
<1>10. Pl = [up EXCEPT ![x] = pair(first.key, up[x].value)]
  <2>1. [up[x] EXCEPT !.key = first.key] = pair(first.key, up[x].value)
    <3>1. 0 \in Nat
      OBVIOUS
    <3> HIDE DEF first, up
    <3> QED BY <3>1, <1>5, <1>9, PairWith, Zenon
  <2>2. Pl = [up EXCEPT ![x] = [up[x] EXCEPT !.key = first.key]]
    <3> HIDE DEF up, first
    <3> QED BY Zenon DEF Rekeyed
  <2> QED BY <2>1, <2>2, Zenon
<1>11. /\ Pl \in Seq(Pair) \ {<< >>} /\ Len(Pl) = Len(up) /\ Pl[x] = pair(first.key, up[x].value)
       /\ \A j \in 1 .. Len(up) : j # x => Pl[j] = up[j]
  <2> DEFINE e == pair(first.key, up[x].value)
  <2>1. e \in Pair
    <3>1. 0 \in Nat
      OBVIOUS
    <3> HIDE DEF first, up
    <3> QED BY <3>1, <1>5, <1>9, PairWith, Zenon
  <2> HIDE DEF up, e, first
  <2>2. Pl = [up EXCEPT ![x] = e]
    BY <1>10 DEF e
  <2> HIDE DEF Pl
  <2>3. /\ Pl \in Seq(Pair) /\ Len(Pl) = Len(up) /\ Pl[x] = e
        /\ \A j \in 1 .. Len(up) : j # x => Pl[j] = up[j]
    BY <2>1, <2>2, <1>9, PairPut
  <2>4. Pl # << >>
    BY <2>3, <1>1
  <2> QED BY <2>3, <2>4 DEF e
<1>12. u = Relisted3(t, p, s, P, pl, sl, Pl)
  <2> DEFINE t2 == WithList(t1, p, pl)
  <2>1. t1 = WithList(t, s, sl)
    BY DEF delete_key, WithList
  <2>2. u = [t2 EXCEPT !.node[P].list[x].key = first.key]
    BY Zenon DEF WithList
  <2>3. t2.node[P].list = up
    <3>1. /\ p \in NodeIds /\ s \in NodeIds /\ P \in NodeIds
          /\ t.node[p] \in Node /\ t.node[s] \in Node
          /\ pl \in Seq(Pair) \ {<< >>} /\ sl \in Seq(Pair) \ {<< >>}
      BY <1>1, <1>2, <1>6, <1>8, Zenon
    <3> HIDE DEF sl, pl, t1
    <3>2. t1 \in Trees /\ \A q \in NodeIds : q # s => t1.node[q] = t.node[q]
      BY ONLY <2>1, <1>2, <3>1, ListPut
    <3>3. t1.node[P] = t.node[P] /\ t1.node[p] = t.node[p]
      BY <3>1, <3>2, <1>1
    <3> HIDE DEF t2
    <3>4. t2 = WithList(t1, p, pl)
      BY DEF t2
    <3>5. \A q \in NodeIds : q # p => t2.node[q] = t1.node[q]
      <4>1. t1.node[p] \in Node
        BY <3>1, <3>3
      <4> QED BY ONLY <4>1, <3>1, <3>2, <3>4, ListPut
    <3> QED BY <3>1, <3>3, <3>5, <1>1
  <2> HIDE DEF t2, first
  <2>4. u = WithList(t2, P, Rekeyed(t2.node[P].list, x, first.key))
    BY <2>2, Zenon DEF WithList, Rekeyed
  <2> QED BY <2>1, <2>3, <2>4 DEF Relisted3, t2
<1> HIDE DEF t1, u
<1>13. underflow_leaf(t, p) = Underflow(u, FALSE, x, NoPage)
  <2>1. PlaceInParent(t, p, n.list[key_num(n)].key) = x
    BY UnderflowPlace, Zenon DEF Borrows
  <2>2. x # Len(up) /\ key_num(t.node[s]) > 1
    <3>1. x # Len(up)
      <4> HIDE DEF up
      <4> QED BY ONLY <1>1
    <3> QED BY <3>1, Zenon DEF Borrows
  <2> QED BY <2>1, <2>2, <1>1, Zenon DEF underflow_leaf, u, t1
<1> HIDE DEF pl, sl, Pl
<1>14. /\ u \in Trees /\ u.root = t.root /\ u.num = t.num
       /\ u.node[p].list = pl /\ u.node[s].list = sl /\ u.node[P].list = Pl
       /\ \A q \in NodeIds : q \notin {p, s, P} => u.node[q] = t.node[q]
       /\ \A q \in {p, s, P} : /\ u.node[q] \in Node /\ u.node[q].is_leaf = t.node[q].is_leaf
                               /\ u.node[q].parent = t.node[q].parent
                               /\ u.node[q].pre_leaf = t.node[q].pre_leaf
                               /\ u.node[q].suc_leaf = t.node[q].suc_leaf
  <2>1. p \in NodeIds /\ s \in NodeIds /\ P \in NodeIds
    BY <1>1, <1>2
  <2>2. t.node[p] \in Node /\ t.node[s] \in Node /\ t.node[P] \in Node
    BY <1>1, <1>2
  <2>3. pl \in Seq(Pair) \ {<< >>} /\ sl \in Seq(Pair) \ {<< >>} /\ Pl \in Seq(Pair) \ {<< >>}
    BY <1>6, <1>8, <1>11
  <2>4. p # s /\ s # P /\ p # P
    BY <1>1
  <2>5. t \in Trees
    BY <1>2
  <2> HIDE DEF n, up, L, first
  <2>6. ListsAre(t, u, p, s, P, pl, sl, Pl)
    BY <2>1, <2>2, <2>3, <2>4, <2>5, <1>12, ListsPut, Zenon
  <2> QED BY <2>6 DEF ListsAre
<1>15. \A q \in g.nodes : /\ u.node[q] \in Node
                          /\ u.node[q].is_leaf <=> t.node[q].is_leaf
                          /\ u.node[q].parent = t.node[q].parent
                          /\ u.node[q].suc_leaf = t.node[q].suc_leaf
                          /\ u.node[q].pre_leaf = t.node[q].pre_leaf
                          /\ q \notin {p, s, P} => u.node[q].list = t.node[q].list
  BY <1>2, <1>14
<1>16. \A j \in 1 .. Len(up) : /\ Pl[j].value = up[j].value
                               /\ Pl[j].key = IF j = x THEN first.key ELSE up[j].key
  <2> HIDE DEF first, up
  <2>1. pair(first.key, up[x].value).value = up[x].value /\ pair(first.key, up[x].value).key = first.key
    BY DEF pair
  <2> QED BY <2>1, <1>11
<1>17. Borrowed(t, u, g.nodes, p, P, s, x)
  <2>1. Len(u.node[p].list) = 2 /\ u.node[p].list[1] = first /\ u.node[p].list[2].key = INDEX_KEY_MAX
    BY <1>6, <1>7, <1>14
  <2>2. Len(u.node[s].list) = Len(L) - 1 /\ \A j \in 1 .. Len(L) - 1 : u.node[s].list[j] = L[j + 1]
    BY <1>8, <1>14
  <2>3. /\ Len(u.node[P].list) = Len(up)
        /\ \A j \in 1 .. Len(up) : /\ u.node[P].list[j].value = up[j].value
                                   /\ u.node[P].list[j].key = IF j = x THEN first.key ELSE up[j].key
    BY <1>11, <1>14, <1>16
  <2> QED BY <2>1, <2>2, <2>3, <1>14, <1>15 DEF Borrowed
<1> QED BY <1>13, <1>17, Zenon
-----------------------------------------------------------------------------
\* Leaf p out of the chain; if it is the last child of P, its pair there leads to the brother.
Detached(t, p, P, x, z) ==
  IF z = x THEN Unlinked(t, p)
  ELSE [Unlinked(t, p) EXCEPT !.node[P].list[x].value = t.node[P].list[x - 1].value]

\* The list of the parent then.
DetachedList(up, x, z) == IF z = x THEN up ELSE [up EXCEPT ![x].value = up[x - 1].value]

\* Nothing else has changed in the parent.
DetachedListFacts(up, x, z, list) ==
  /\ list \in Seq(Pair) \ {<< >>} /\ Len(list) = Len(up)
  /\ \A j \in 1 .. Len(up) : /\ list[j].key = up[j].key
                             /\ list[j].value = IF j = x /\ z # x THEN up[x - 1].value ELSE up[j].value

\* So with each list of a parent.
LEMMA DetachedListIs ==
  ASSUME NEW up \in Seq(Pair) \ {<< >>}, NEW x \in 1 .. Len(up), NEW z \in {x - 1, x}, z = x \/ x # 1,
         NEW list, list = DetachedList(up, x, z)
  PROVE  DetachedListFacts(up, x, z, list)
<1> USE IndexFileAssumption
<1>1. up \in Seq(Pair) /\ Len(up) \in Nat /\ x \in Int
  OBVIOUS
<1>2. CASE z = x
  BY <1>2 DEF DetachedList, DetachedListFacts
<1>3. CASE z # x
  <2> DEFINE e == pair(up[x].key, up[x - 1].value)
  <2>1. x - 1 \in 1 .. Len(up)
    BY <1>1, <1>3
  <2>2. up[x] \in Pair /\ up[x - 1] \in Pair
    BY <2>1, <1>1
  <2>3. up[x - 1].value \in Nat
    BY <2>2 DEF Pair
  <2>4. [up[x] EXCEPT !.value = up[x - 1].value] = e /\ e \in Pair
    <3>1. 0 \in 0 .. INDEX_KEY_MAX
      BY DEF Pair
    <3> QED BY <3>1, <2>2, <2>3, PairWith, Zenon
  <2>5. list = [up EXCEPT ![x] = [up[x] EXCEPT !.value = up[x - 1].value]]
    BY <1>3, Zenon DEF DetachedList
  <2>6. list = [up EXCEPT ![x] = e]
    <3> HIDE DEF e
    <3> QED BY <2>4, <2>5, Zenon
  <2>7. e.key = up[x].key /\ e.value = up[x - 1].value
    BY DEF pair
  <2> HIDE DEF e
  <2>8. /\ list \in Seq(Pair) /\ Len(list) = Len(up) /\ list[x] = e
        /\ \A j \in 1 .. Len(up) : j # x => list[j] = up[j]
    BY <2>4, <2>6, <1>1, PairPut
  <2>9. list # << >>
    BY <2>8, <1>1
  <2> QED BY <2>7, <2>8, <2>9, <1>3 DEF DetachedListFacts
<1> QED BY <1>2, <1>3

\* The other pages after leaf p has left the chain.
DetachedFacts(t, u, nodes, p, P, x, z) ==
  /\ u \in Trees /\ u.root = t.root /\ u.num = t.num
  /\ \A q \in nodes :
       /\ u.node[q] \in Node
       /\ u.node[q].is_leaf <=> t.node[q].is_leaf
       /\ u.node[q].parent = t.node[q].parent
       /\ u.node[q].list = IF q = P THEN DetachedList(t.node[P].list, x, z) ELSE t.node[q].list
       /\ u.node[q].suc_leaf = IF q = t.node[p].pre_leaf THEN t.node[p].suc_leaf
                               ELSE t.node[q].suc_leaf
       /\ u.node[q].pre_leaf = IF q = t.node[p].suc_leaf THEN t.node[p].pre_leaf
                               ELSE t.node[q].pre_leaf

\* So when leaf p is out of the chain and, as the last child, has left its pair to the brother.
LEMMA DetachedIs ==
  ASSUME NEW t, NEW g, NEW p, NEW P, NEW s, NEW x, NEW z, Drops(t, g, p, P, s, x, z),
         NEW u, u = Detached(t, p, P, x, z)
  PROVE  DetachedFacts(t, u, g.nodes, p, P, x, z)
<1> DEFINE up == t.node[P].list
<1>1. /\ Shape(t, g, TRUE) /\ p \in g.nodes /\ P \in g.nodes /\ t.node[p].is_leaf
      /\ up \in Seq(Pair) \ {<< >>} /\ x \in 1 .. Len(up) /\ Len(up) \in Nat
      /\ z \in 1 .. Len(up) - 1 /\ z \in {x - 1, x}
  <2>1. Shape(t, g, TRUE)
    BY Zenon DEF Drops
  <2>2. /\ p \in g.nodes /\ P \in g.nodes /\ t.node[p].is_leaf
        /\ up \in Seq(Pair) \ {<< >>} /\ x \in 1 .. Len(up) /\ Len(up) \in Nat
        /\ z \in 1 .. Len(up) - 1 /\ z \in {x - 1, x}
    BY DropsIs
  <2> QED BY <2>1, <2>2, Zenon
<1> USE IndexFileAssumption
<1> DEFINE v  == Unlinked(t, p)
           list == DetachedList(up, x, z)
<1>6. UnlinkedFacts(t, v, g.nodes, p)
  <2> HIDE DEF v
  <2>1. v = Unlinked(t, p)
    BY DEF v
  <2>2. Shape(t, g, TRUE) /\ p \in g.nodes /\ t.node[p].is_leaf
    BY <1>1, Zenon
  <2> QED BY <2>1, <2>2, UnlinkedIs, Zenon
<1>3. list \in Seq(Pair) \ {<< >>}
  <2> HIDE DEF up
  <2>1. z = x \/ x # 1
    BY <1>1
  <2> HIDE DEF list
  <2>2. list = DetachedList(up, x, z)
    BY DEF list
  <2>3. up \in Seq(Pair) \ {<< >>} /\ x \in 1 .. Len(up) /\ z \in {x - 1, x}
    BY <1>1
  <2>4. DetachedListFacts(up, x, z, list)
    BY <2>1, <2>2, <2>3, DetachedListIs
  <2> QED BY <2>4, Zenon DEF DetachedListFacts
<1> HIDE DEF v
<1>2. /\ v \in Trees /\ v.root = t.root /\ v.num = t.num
      /\ \A q \in g.nodes :
           /\ v.node[q] \in Node
           /\ v.node[q].is_leaf = t.node[q].is_leaf
           /\ v.node[q].parent = t.node[q].parent
           /\ v.node[q].list = t.node[q].list
           /\ v.node[q].suc_leaf = IF q = t.node[p].pre_leaf THEN t.node[p].suc_leaf
                                   ELSE t.node[q].suc_leaf
           /\ v.node[q].pre_leaf = IF q = t.node[p].suc_leaf THEN t.node[p].pre_leaf
                                   ELSE t.node[q].pre_leaf
  BY <1>6 DEF UnlinkedFacts
<1>4. CASE z = x
  <2>1. u = v /\ list = up
    BY <1>4 DEF Detached, DetachedList, v
  <2> QED BY <2>1, <1>1, <1>2 DEF DetachedFacts
<1>5. CASE z # x
  <2>1. v.node[P].list = up /\ P \in NodeIds /\ v.node[P] \in Node
    <3>1. P \in NodeIds
      BY <1>1 DEF Shape, Placed
    <3> QED BY <3>1, <1>1, <1>2
  <2>2. u = WithList(v, P, list)
    <3>1. u = [v EXCEPT !.node[P].list[x].value = up[x - 1].value]
      BY <1>5 DEF Detached, v
    <3> HIDE DEF up
    <3>2. u = WithList(v, P, [v.node[P].list EXCEPT ![x].value = up[x - 1].value])
      BY <3>1, Zenon DEF WithList
    <3>3. list = [v.node[P].list EXCEPT ![x].value = up[x - 1].value]
      BY <1>5, <2>1 DEF DetachedList
    <3> QED BY <3>2, <3>3
  <2> HIDE DEF list
  <2>3. /\ u \in Trees /\ u.root = v.root /\ u.num = v.num
        /\ u.node[P] \in Node
        /\ u.node[P].list = list /\ u.node[P].is_leaf = v.node[P].is_leaf
        /\ u.node[P].parent = v.node[P].parent /\ u.node[P].pre_leaf = v.node[P].pre_leaf
        /\ u.node[P].suc_leaf = v.node[P].suc_leaf
        /\ \A q \in NodeIds : q # P => u.node[q] = v.node[q]
    BY <2>1, <2>2, <1>2, <1>3, ListPut
  <2>4. g.nodes \subseteq NodeIds
    BY <1>1 DEF Shape, Placed
  <2>5. ASSUME NEW q \in g.nodes
        PROVE  /\ u.node[q] \in Node
               /\ u.node[q].is_leaf = t.node[q].is_leaf
               /\ u.node[q].parent = t.node[q].parent
               /\ u.node[q].list = IF q = P THEN list ELSE t.node[q].list
               /\ u.node[q].suc_leaf = v.node[q].suc_leaf
               /\ u.node[q].pre_leaf = v.node[q].pre_leaf
    <3>1. CASE q = P
      BY <3>1, <2>3, <1>2
    <3>2. CASE q # P
      BY <3>2, <2>3, <2>4, <1>2
    <3> QED BY <3>1, <3>2
  <2> QED BY <2>3, <2>5, <1>2 DEF DetachedFacts, list
<1> QED BY <1>4, <1>5

\* underflow of leaf p takes it out of the tree: its parent P is to lose the pair z.
Detaches(t, p, P, s, x, z) == underflow_leaf(t, p) = Underflow(Detached(t, p, P, x, z), TRUE, z, s)

\* underflow does so where the brother has no pair to spare, or lies in front.
LEMMA DetachIs ==
  ASSUME NEW t, NEW g, NEW p, NEW P, NEW s, NEW x, NEW z, Drops(t, g, p, P, s, x, z),
         Grows(t, g, TRUE), key_num(t.node[p]) = 1, z # x \/ key_num(t.node[s]) <= 1
  PROVE  Detaches(t, p, P, s, x, z)
<1> SUFFICES underflow_leaf(t, p) = Underflow(Detached(t, p, P, x, z), TRUE, z, s)
  BY Zenon DEF Detaches
<1> DEFINE up == t.node[P].list
           n  == t.node[p]
<1>1. /\ p \in g.nodes /\ n.is_leaf /\ n.parent = P /\ s \in g.nodes
      /\ x \in 1 .. Len(up) /\ Len(up) \in Nat /\ z \in 1 .. Len(up) - 1 /\ z \in {x - 1, x}
      /\ z = x => s = up[x + 1].value
      /\ z # x => x = Len(up)
  BY DropsIs
<1>2. PlaceInParent(t, p, n.list[key_num(n)].key) = x
  BY UnderflowPlace, Zenon
<1>3. (z = x => n.suc_leaf = s) /\ (z # x => n.pre_leaf = s)
  BY BrotherIs
<1>4. CASE z = x
  <2>1. x # Len(up) /\ ~ (key_num(t.node[up[x + 1].value]) > 1)
    <3>1. Len(t.node[s].list) \in Nat
      BY <1>1, NodeIs DEF Drops, Shape
    <3>2. ~ (key_num(t.node[s]) > 1)
      BY <3>1, <1>4 DEF key_num
    <3>3. x # Len(up)
      BY <1>1, <1>4
    <3> QED BY <3>2, <3>3, <1>1, <1>4
  <2>2. Detached(t, p, P, x, z) = Unlinked(t, p)
    BY <1>4 DEF Detached
  <2> QED BY <2>1, <2>2, <1>1, <1>2, <1>3, <1>4, Zenon DEF underflow_leaf, Unlinked
<1>5. CASE z # x
  <2>1. x = Len(up) /\ z = x - 1
    BY <1>1, <1>5
  <2>2. Detached(t, p, P, x, z) = [Unlinked(t, p) EXCEPT !.node[P].list[x].value = up[x - 1].value]
    BY <1>5 DEF Detached
  <2> QED BY <2>1, <2>2, <1>1, <1>2, <1>3, <1>5, Zenon DEF underflow_leaf, Unlinked
<1> QED BY <1>4, <1>5, Zenon
-----------------------------------------------------------------------------
\* The parent loses the pair z: leaf p has left the tree.
LEMMA DroppedIs ==
  ASSUME NEW t, NEW g, NEW p, NEW P, NEW s, NEW x, NEW z, Drops(t, g, p, P, s, x, z),
         NEW u, u = delete_key(Detached(t, p, P, x, z), P, z)
  PROVE  Dropped(t, u, g.nodes, p, P, x, z)
<1> USE IndexFileAssumption
<1> DEFINE d  == Detached(t, p, P, x, z)
           up == t.node[P].list
           mid == DetachedList(up, x, z)
           list == RemoveAt(mid, z)
<1>1. /\ p \in g.nodes /\ P \in g.nodes /\ p # P
      /\ up \in Seq(Pair) \ {<< >>} /\ x \in 1 .. Len(up) /\ Len(up) \in Nat /\ Len(up) >= 2
      /\ z \in 1 .. Len(up) - 1 /\ z \in {x - 1, x} /\ (z # x => x = Len(up))
  BY DropsIs
<1>2. DetachedFacts(t, d, g.nodes, p, P, x, z)
  <2> HIDE DEF d
  <2>1. d = Detached(t, p, P, x, z)
    BY DEF d
  <2> QED BY <2>1, DetachedIs, Zenon
<1>3. g.nodes \subseteq NodeIds
  BY DEF Drops, Shape, Placed
<1> HIDE DEF d, up
<1>4. /\ mid \in Seq(Pair) \ {<< >>} /\ Len(mid) = Len(up)
      /\ \A j \in 1 .. Len(up) : /\ mid[j].key = up[j].key
                                 /\ mid[j].value = IF j = x /\ z # x THEN up[x - 1].value ELSE up[j].value
  <2>1. z = x \/ x # 1
    BY <1>1
  <2> HIDE DEF mid
  <2>2. mid = DetachedList(up, x, z)
    BY DEF mid
  <2>3. up \in Seq(Pair) \ {<< >>} /\ x \in 1 .. Len(up) /\ z \in {x - 1, x}
    BY <1>1
  <2>4. DetachedListFacts(up, x, z, mid)
    BY <2>1, <2>2, <2>3, DetachedListIs, Zenon
  <2> QED BY <2>4 DEF DetachedListFacts
<1>5. d.node[P].list = mid /\ d.node[P] \in Node
  BY <1>1, <1>2 DEF DetachedFacts, up
<1> HIDE DEF mid
<1>6. /\ list \in Seq(Pair) /\ Len(list) = Len(up) - 1 /\ list # << >>
      /\ \A j \in 1 .. Len(up) - 1 : list[j] = IF j < z THEN mid[j] ELSE mid[j + 1]
  <2>1. mid \in Seq(Pair) /\ z \in 1 .. Len(mid)
    BY <1>1, <1>4
  <2>2. /\ list \in Seq(Pair) /\ Len(list) = Len(mid) - 1
        /\ \A j \in 1 .. Len(mid) - 1 : list[j] = IF j < z THEN mid[j] ELSE mid[j + 1]
    BY <2>1, RemoveAtIs
  <2> HIDE DEF list
  <2>3. list # << >>
    BY <2>2, <1>1, <1>4
  <2> QED BY <2>2, <2>3, <1>4
<1>7. u = WithList(d, P, list)
  <2>1. u = delete_key(d, P, z)
    BY DEF d
  <2> QED BY <2>1, <1>5, Zenon DEF delete_key, WithList
<1> HIDE DEF list
<1>8. /\ u \in Trees /\ u.root = d.root /\ u.num = d.num
      /\ u.node[P] \in Node
      /\ u.node[P].list = list /\ u.node[P].is_leaf = d.node[P].is_leaf
      /\ u.node[P].parent = d.node[P].parent /\ u.node[P].pre_leaf = d.node[P].pre_leaf
      /\ u.node[P].suc_leaf = d.node[P].suc_leaf
      /\ \A q \in NodeIds : q # P => u.node[q] = d.node[q]
  <2>1. d \in Trees /\ P \in NodeIds /\ list \in Seq(Pair) \ {<< >>}
    BY <1>1, <1>2, <1>3, <1>6 DEF DetachedFacts
  <2> QED BY <2>1, <1>5, <1>7, ListPut
<1>9. ASSUME NEW j \in 1 .. Len(up) - 1
      PROVE  /\ list[j].value = up[IF j < x THEN j ELSE j + 1].value
             /\ list[j].key = up[IF j < z THEN j ELSE j + 1].key
  <2>1. j \in 1 .. Len(up) /\ j + 1 \in 1 .. Len(up) /\ j \in Int /\ x \in Int
    BY <1>1
  <2>2. CASE j < z
    <3>1. j < x /\ j # x
      BY <2>2, <1>1
    <3> QED BY <3>1, <2>1, <2>2, <1>4, <1>6
  <2>3. CASE ~ (j < z)
    <3>1. list[j] = mid[j + 1]
      BY <2>3, <1>6
    <3>2. CASE z = x
      <4>1. ~ (j < x)
        BY <3>2, <2>3
      <4> QED BY <3>1, <3>2, <4>1, <2>1, <2>3, <1>4
    <3>3. CASE z # x
      <4>1. j = x - 1 /\ j + 1 = x /\ j < x /\ x - 1 = j
        BY <3>3, <2>3, <2>1, <1>1
      <4> QED BY <3>1, <3>3, <4>1, <2>1, <2>3, <1>4
    <3> QED BY <3>2, <3>3
  <2> QED BY <2>2, <2>3
<1>10. ASSUME NEW q \in g.nodes
       PROVE  /\ u.node[q] \in Node
              /\ u.node[q].is_leaf <=> t.node[q].is_leaf
              /\ u.node[q].parent = t.node[q].parent
              /\ q # P => u.node[q].list = t.node[q].list
              /\ u.node[q].suc_leaf = IF q = t.node[p].pre_leaf THEN t.node[p].suc_leaf
                                      ELSE t.node[q].suc_leaf
              /\ u.node[q].pre_leaf = IF q = t.node[p].suc_leaf THEN t.node[p].pre_leaf
                                      ELSE t.node[q].pre_leaf
  <2>1. CASE q = P
    BY <2>1, <1>2, <1>8 DEF DetachedFacts
  <2>2. CASE q # P
    <3>1. u.node[q] = d.node[q]
      BY <2>2, <1>3, <1>8
    <3> QED BY <2>2, <3>1, <1>2 DEF DetachedFacts
  <2> QED BY <2>1, <2>2
<1>11. u.root = t.root /\ u.num = t.num
  BY <1>2, <1>8 DEF DetachedFacts
<1> QED BY <1>6, <1>8, <1>9, <1>10, <1>11, Zenon DEF Dropped, up

\* The brother becomes the root: the leaf and the parent have left the tree.
LEMMA CollapsedIs ==
  ASSUME NEW t, NEW g, NEW p, NEW P, NEW s, NEW x, NEW z, Drops(t, g, p, P, s, x, z),
         NEW u, u = [Detached(t, p, P, x, z) EXCEPT !.root = s, !.node[p].parent = NoPage]
  PROVE  Collapsed(t, u, p, s)
<1> USE IndexFileAssumption
<1> DEFINE d == Detached(t, p, P, x, z)
           m == [d.node[p] EXCEPT !.parent = NoPage]
           f == [d.node EXCEPT ![p] = m]
<1>1. /\ p \in g.nodes /\ P \in g.nodes /\ s \in g.nodes /\ p # P /\ s # p /\ s # P
      /\ t.node[s].is_leaf
  BY DropsIs
<1>2. DetachedFacts(t, d, g.nodes, p, P, x, z)
  <2> HIDE DEF d
  <2>1. d = Detached(t, p, P, x, z)
    BY DEF d
  <2> QED BY <2>1, DetachedIs, Zenon
<1>3. g.nodes \subseteq NodeIds /\ s \in NodeIds /\ p \in NodeIds
  BY <1>1 DEF Drops, Shape, Placed
<1>4. d \in Trees /\ d.num = t.num /\ d.node[p] \in Node /\ d.node[s] \in Node
  BY <1>1, <1>2 DEF DetachedFacts
<1>5. u = [d EXCEPT !.root = s, !.node = f]
  <2> HIDE DEF d
  <2>1. u = [d EXCEPT !.root = s, !.node[p].parent = NoPage]
    BY DEF d
  <2> QED BY <2>1, Zenon
<1> HIDE DEF d
<1>6. m \in Node
  BY <1>4, Zenon DEF Node, NoPage
<1> HIDE DEF m
<1>7. f \in [NodeIds -> Node \cup {Nil}] /\ f[s] = d.node[s]
  BY <1>1, <1>3, <1>4, <1>6 DEF Trees
<1> HIDE DEF f
<1>8. u \in Trees /\ u.root = s /\ u.num = d.num /\ u.node = f
  BY <1>3, <1>4, <1>5, <1>7, Zenon DEF Trees
<1>9. u.node[s] = d.node[s]
  BY <1>7, <1>8, Zenon
<1> QED BY <1>1, <1>2, <1>4, <1>8, <1>9 DEF Collapsed, DetachedFacts

\* The parent has the pair to spare that leaf p may take away, or is the root.
Spares(t, p) ==
  LET P == t.node[p].parent IN P = t.root \/ key_num(t.node[P]) >= Mid

\* delete_key_leaf's loop of one round.
LEMMA OneRound ==
  ASSUME NEW t \in Trees, NEW p, NEW i, NEW u, ShrinkRound(t, p, i) = Shrinking(u, p, i, FALSE)
  PROVE  ShrinkUp(t, p, i) = u
<1> DEFINE s == Shrinking(u, p, i, FALSE)
<1>1. t.num \in Nat /\ 1 \in 1 .. 2 /\ 1 <= t.num
  BY DEF Trees, NodeIds
<1>2. s.more = FALSE /\ s.tree = u
  BY DEF Shrinking
<1> HIDE DEF s
<1>3. s = ShrinkRound(t, p, i)
  BY DEF s
<1>4. ShrinkUp(t, p, i) = s.tree
  <2> DEFINE r == ShrinkRound(t, p, i)
             m == 1
  <2>1. t.num \in Nat /\ m \in 1 .. 2 /\ m <= t.num /\ r = ShrinkRound(t, p, i)
    BY <1>1
  <2>2. m = 1 /\ s = r /\ ~ s.more
    BY <1>2, <1>3, Zenon
  <2> HIDE DEF r, m
  <2>3. IF m = 1 THEN s = r ELSE r.more /\ s = ShrinkRound(r.tree, r.page, r.place)
    BY <2>2
  <2> QED BY <2>1, <2>2, <2>3, ShrinkUpIs, Zenon
<1> QED BY <1>2, <1>4

\* Of two rounds.
LEMMA TwoRounds ==
  ASSUME NEW t \in Trees, NEW p, NEW i, NEW d, NEW P, NEW z,
         ShrinkRound(t, p, i) = Shrinking(d, P, z, TRUE), t.num >= 2,
         NEW u, ShrinkRound(d, P, z) = Shrinking(u, P, z, FALSE)
  PROVE  ShrinkUp(t, p, i) = u
<1> DEFINE s == Shrinking(u, P, z, FALSE)
           r == Shrinking(d, P, z, TRUE)
           m == 2
<1>1. t.num \in Nat /\ m \in 1 .. 2 /\ m <= t.num /\ m # 1
  BY DEF Trees, NodeIds
<1>2. s.more = FALSE /\ s.tree = u
  BY DEF Shrinking
<1>3. r.more = TRUE /\ r.tree = d /\ r.page = P /\ r.place = z
  BY DEF Shrinking
<1>4. r = ShrinkRound(t, p, i) /\ s = ShrinkRound(d, P, z)
  OBVIOUS
<1> HIDE DEF s, r, m
<1>5. s = ShrinkRound(r.tree, r.page, r.place)
  BY <1>3, <1>4
<1>6. IF m = 1 THEN s = r ELSE r.more /\ s = ShrinkRound(r.tree, r.page, r.place)
  BY <1>1, <1>3, <1>5
<1>7. ShrinkUp(t, p, i) = s.tree
  <2>1. ~ s.more /\ t.num \in Nat /\ m \in 1 .. 2 /\ m <= t.num /\ r = ShrinkRound(t, p, i)
    BY <1>1, <1>2, <1>4, Zenon
  <2> QED BY ONLY <2>1, <1>6, ShrinkUpIs
<1> QED BY <1>2, <1>7

\* A leaf with one pair borrows another, or leaves the tree.
LEMMA LeafShrinks ==
  ASSUME NEW t, NEW g, Grows(t, g, TRUE), NEW p \in g.nodes \ {t.root}, t.node[p].is_leaf,
         key_num(t.node[p]) = 1, Spares(t, p) \/ ~ underflow_leaf(t, p).more, NEW i
  PROVE  Loses(t, g, ShrinkUp(t, p, i), p, 1)
<1> USE IndexFileAssumption
<1> DEFINE P == t.node[p].parent
<1>1. PICK s, x, z : Drops(t, g, p, P, s, x, z)
  <2> HIDE DEF P
  <2>1. P = t.node[p].parent
    BY DEF P
  <2> QED BY <2>1, LeafDrops, Zenon
<1>2. Shape(t, g, TRUE) /\ Placed(t, g) /\ InOrder(t, g) /\ Fits(t, g) /\ t \in Trees
  BY Zenon DEF Grows, Shape, Placed
<1>3. /\ p \in g.nodes /\ P \in g.nodes /\ p # P /\ ~ t.node[P].is_leaf /\ HasChildren(t, g, P)
      /\ t.node[P].list \in Seq(Pair) \ {<< >>} /\ Len(t.node[P].list) \in Nat
      /\ Len(t.node[P].list) >= 2
      /\ x \in 1 .. Len(t.node[P].list) /\ z \in 1 .. Len(t.node[P].list) - 1 /\ z \in {x - 1, x}
  <2> HIDE DEF P
  <2> QED BY <1>1, DropsIs
<1>4. t.node[p].is_leaf
  OBVIOUS
<1> HIDE DEF P
<1>5. CASE z = x /\ key_num(t.node[s]) > 1
  <2>1. Borrows(t, g, p, P, s, x)
    BY <1>1, <1>5 DEF Borrows
  <2>2. PICK u : underflow_leaf(t, p) = Underflow(u, FALSE, x, NoPage) /\ Borrowed(t, u, g.nodes, p, P, s, x)
    BY <2>1, BorrowedIs, Zenon
  <2>3. ~ underflow_leaf(t, p).more /\ underflow_leaf(t, p).t = u
    BY <2>2 DEF Underflow
  <2>4. ShrinkRound(t, p, i) = Shrinking(u, p, i, FALSE)
    BY <2>3, <1>4, Zenon DEF ShrinkRound
  <2>5. ShrinkUp(t, p, i) = u
    BY <2>4, <1>2, OneRound, Zenon
  <2>6. Loses(t, g, u, p, 1)
    BY <1>2, <2>1, <2>2, BorrowKeeps, Zenon
  <2> QED BY <2>5, <2>6
<1>6. CASE z # x \/ ~ (key_num(t.node[s]) > 1)
  <2> DEFINE d == Detached(t, p, P, x, z)
             u == delete_key(d, P, z)
             w == [d EXCEPT !.root = s, !.node[p].parent = NoPage]
  <2>1. underflow_leaf(t, p) = Underflow(d, TRUE, z, s)
    <3>1. z # x \/ key_num(t.node[s]) <= 1
      <4>1. Len(t.node[s].list) \in Nat
        <5>1. s \in g.nodes
          BY <1>1, DropsIs
        <5> QED BY <5>1, <1>2, NodeIs
      <4> QED BY <4>1, <1>6 DEF key_num
    <3> HIDE DEF d
    <3>2. d = Detached(t, p, P, x, z)
      BY DEF d
    <3>3. Detaches(t, p, P, s, x, z)
      <4> HIDE DEF P
      <4> QED BY <1>1, <3>1, DetachIs, Zenon
    <3> QED BY <3>2, <3>3, Zenon DEF Detaches
  <2>2. /\ underflow_leaf(t, p).more = TRUE /\ underflow_leaf(t, p).t = d
        /\ underflow_leaf(t, p).under = z /\ underflow_leaf(t, p).merge = s
    <3> HIDE DEF d
    <3> QED BY <2>1 DEF Underflow
  <2>3. DetachedFacts(t, d, g.nodes, p, P, x, z)
    <3> HIDE DEF d
    <3>1. d = Detached(t, p, P, x, z)
      BY DEF d
    <3> QED BY <3>1, <1>1, DetachedIs, Zenon
  <2>4. Dropped(t, u, g.nodes, p, P, x, z)
    <3> HIDE DEF u
    <3>1. u = delete_key(Detached(t, p, P, x, z), P, z)
      BY DEF u
    <3> QED BY <3>1, <1>1, DroppedIs, Zenon
  <2>5. Collapsed(t, w, p, s)
    <3> HIDE DEF w
    <3>1. w = [Detached(t, p, P, x, z) EXCEPT !.root = s, !.node[p].parent = NoPage]
      BY DEF w
    <3> QED BY <3>1, <1>1, CollapsedIs, Zenon
  <2> HIDE DEF d, u, w
  <2>6. /\ d.node[P].is_leaf = FALSE /\ d.root = t.root
        /\ Len(d.node[P].list) = Len(t.node[P].list)
        /\ d.node[P].list \in Seq(Pair) \ {<< >>}
    <3>1. /\ d.node[P].is_leaf <=> t.node[P].is_leaf
          /\ d.node[P] \in Node /\ d.root = t.root
          /\ d.node[P].list = DetachedList(t.node[P].list, x, z)
      BY <2>3, <1>3 DEF DetachedFacts
    <3>2. d.node[P].is_leaf \in BOOLEAN
      BY <3>1 DEF Node
    <3> DEFINE up == t.node[P].list
               list == d.node[P].list
    <3>3. list = DetachedList(up, x, z) /\ up \in Seq(Pair) \ {<< >>} /\ x \in 1 .. Len(up)
          /\ z \in {x - 1, x} /\ (z = x \/ x # 1)
      <4>1. z = x \/ x # 1
        BY <1>3
      <4> QED BY <4>1, <3>1, <1>3
    <3> HIDE DEF up, list
    <3>4. DetachedListFacts(up, x, z, list)
      BY <3>3, DetachedListIs, Zenon
    <3>5. Len(list) = Len(up) /\ list \in Seq(Pair) \ {<< >>}
      BY <3>4 DEF DetachedListFacts
    <3> QED BY <3>1, <3>2, <3>5, <1>3 DEF up, list
  <2>7. key_num(d.node[P]) = key_num(t.node[P]) /\ key_num(t.node[P]) \in Int /\ key_num(t.node[P]) >= 1
    BY <2>6, <1>3 DEF key_num
  <2>8. CASE P = t.root /\ key_num(t.node[P]) > 1
    <3>1. ShrinkRound(t, p, i) = Shrinking(u, p, i, FALSE)
      BY <2>8, <2>2, <2>7, <1>4, Zenon DEF ShrinkRound, P, u
    <3>2. ShrinkUp(t, p, i) = u
      BY <3>1, <1>2, OneRound, Zenon
    <3>3. Loses(t, g, u, p, 1)
      <4>1. key_num(t.node[P]) > IF P = t.root THEN 1 ELSE Mid - 1
        BY <2>8
      <4> QED BY <4>1, <2>4, <1>1, DropKeeps, Zenon
    <3> QED BY <3>2, <3>3
  <2>9. CASE P = t.root /\ ~ (key_num(t.node[P]) > 1)
    <3>1. ShrinkRound(t, p, i) = Shrinking(w, p, i, FALSE)
      BY <2>9, <2>2, <2>7, <1>4, Zenon DEF ShrinkRound, P, w
    <3>2. ShrinkUp(t, p, i) = w
      BY <3>1, <1>2, OneRound, Zenon
    <3>3. Loses(t, g, w, p, 1)
      <4>1. Collapses(t, g, p, P, s, x, z)
        BY <2>7, <2>9, <1>1 DEF Collapses
      <4> QED BY <4>1, <2>5, CollapseKeeps, Zenon
    <3> QED BY <3>2, <3>3
  <2>10. CASE P # t.root
    <3>1. key_num(t.node[P]) >= Mid
      BY <2>10, <2>2 DEF Spares, P
    <3>2. ShrinkRound(t, p, i) = Shrinking(d, P, z, TRUE)
      BY <2>10, <2>2, <1>4, Zenon DEF ShrinkRound, P
    <3>3. t.num >= 2
      <4>1. g.lev[P] < g.lev[t.root] /\ g.lev[t.root] < t.num /\ g.lev[P] \in Nat /\ g.lev[P] # 0
            /\ g.lev[t.root] \in Nat /\ t.num \in Int
        <5>1. t.num \in Int
          BY <1>2 DEF Trees, NodeIds
        <5> QED BY <5>1, <2>10, <1>2, <1>3, Zenon DEF Placed, Fits, InOrder
      <4> QED BY <4>1
    <3>4. Len(u.node[P].list) = Len(t.node[P].list) - 1
      BY <2>4 DEF Dropped
    <3>5. Len(u.node[P].list) - 1 >= (M + 1) \div 2 - 1
      <4>1. Len(t.node[P].list) \in Nat /\ Len(t.node[P].list) - 1 >= Mid
        BY <3>1, <1>3 DEF key_num
      <4>2. Mid = (M + 1) \div 2 /\ M \in Nat
        BY DEF Mid
      <4> QED BY ONLY <4>1, <4>2, <3>4
    <3> DEFINE v == underflow_inner(d, P, z)
    <3>6. v.more = FALSE /\ v.t = u
      <4> DEFINE k == PlaceInParent(d, P, d.node[P].list[z].key)
      <4>1. v = Underflow(u, FALSE, k, NoPage)
        BY <3>5, Zenon DEF underflow_inner, u
      <4> HIDE DEF v, k
      <4> QED BY <4>1 DEF Underflow
    <3>7. ShrinkRound(d, P, z) = Shrinking(u, P, z, FALSE)
      <4>1. d.node[P].is_leaf = FALSE
        BY <2>6
      <4> QED BY <4>1, <3>6, Zenon DEF ShrinkRound
    <3>8. ShrinkUp(t, p, i) = u
      BY <3>2, <3>3, <3>7, <1>2, TwoRounds, Zenon
    <3>9. Loses(t, g, u, p, 1)
      <4>1. key_num(t.node[P]) > IF P = t.root THEN 1 ELSE Mid - 1
        BY <2>10, <3>1, <2>7, MidIs
      <4> QED BY <4>1, <2>4, <1>1, DropKeeps, Zenon
    <3> QED BY <3>8, <3>9
  <2> QED BY <2>8, <2>9, <2>10
<1> QED BY <1>5, <1>6
-----------------------------------------------------------------------------
\* delete_record finds the one place of the record.
LEMMA DeleteFinds ==
  ASSUME NEW t, NEW g, Grows(t, g, TRUE), NEW key \in 0 .. INDEX_KEY_MAX - 1, NEW rid,
         <<key, rid>> \in Content(t, g.nodes)
  PROVE  \E c \in Places(t, g.nodes) : /\ EntryAt(t, c[1], c[2]) = <<key, rid>>
                                       /\ c[1] = LeafFor(t, key)
                                       /\ delete_record(t, key, rid) = delete_key_leaf(t, c)
<1> DEFINE X     == Places(t, g.nodes)
           e     == <<key, rid>>
           found == search(t, key, key)
           its   == {i \in DOMAIN found : PairAt(t, found[i]).value = rid}
<1>1. Shape(t, g, TRUE) /\ Fits(t, g) /\ Sizes(t, g, NoPage) /\ Apart(t, g.nodes)
  BY Zenon DEF Grows
<1>2. PICK c \in X : e = EntryAt(t, c[1], c[2])
  <2> HIDE DEF e
  <2>1. e \in Content(t, g.nodes)
    BY DEF e
  <2> QED BY <2>1, <1>1, EntriesAtPlaces, Zenon
<1>3. \A a \in X : EntryAt(t, a[1], a[2]) = e <=> PairAt(t, a).key = key /\ PairAt(t, a).value = rid
  BY DEF EntryAt, PairAt
<1>4. PairAt(t, c).key = key /\ PairAt(t, c).value = rid
  BY <1>2, <1>3
<1>5. \A a \in X : PairAt(t, a).key = key /\ PairAt(t, a).value = rid => a = c
  <2>1. \A a, b \in X : EntryAt(t, a[1], a[2]) = EntryAt(t, b[1], b[2]) => a = b
    BY <1>1, PlacesApart, Zenon
  <2> HIDE DEF X, e
  <2> QED BY <2>1, <1>2, <1>3
<1> DEFINE a == location_at(t, PairAt(t, c).key)
<1>6. a = c /\ a[2] <= key_num(t.node[a[1]])
  <2> HIDE DEF a, X
  <2>1. a = location_at(t, PairAt(t, c).key) /\ c \in Places(t, g.nodes)
    BY DEF a, X
  <2>2. a[2] <= key_num(t.node[a[1]])
    BY <2>1, <1>1, EntryReached, Zenon
  <2>3. a = c
    <3> DEFINE strict == TRUE
    <3>1. Shape(t, g, strict)
      BY <1>1, Zenon
    <3> HIDE DEF strict
    <3>2. Shape(t, g, strict) /\ Fits(t, g) /\ Sizes(t, g, NoPage)
      BY <3>1, <1>1
    <3>3. (a[2] <= key_num(t.node[a[1]])) /\ (strict => a = c)
      BY ONLY <2>1, <3>2, EntryReached
    <3> QED BY <3>3 DEF strict
  <2> QED BY <2>2, <2>3
<1>7. a = location_at(t, key)
  BY <1>4
<1>8. c[1] = LeafFor(t, key)
  BY <1>6, <1>7 DEF location_at
<1> HIDE DEF a
<1>9. Found(t, g, found, key, key)
  <2>1. LET b == location_at(t, key) IN ~ TRUE \/ b[2] <= key_num(t.node[b[1]])
    BY <1>6, <1>7
  <2> HIDE DEF found
  <2>2. found = search(t, key, key)
    BY DEF found
  <2> QED BY <2>1, <2>2, <1>1, SearchIs, Zenon
<1> HIDE DEF found, X
<1>10. PICK k \in DOMAIN found : c = found[k]
  <2>1. key <= PairAt(t, c).key /\ PairAt(t, c).key <= key
    BY <1>4
  <2> QED BY <2>1, <1>9 DEF Found, X
<1>11. k \in its
  BY <1>4, <1>10
<1>12. its \subseteq Nat
  BY <1>9 DEF Found
<1>13. \A i \in its : found[i] = c
  <2> SUFFICES ASSUME NEW i \in its PROVE found[i] = c
    OBVIOUS
  <2>1. i \in DOMAIN found /\ PairAt(t, found[i]).value = rid
    OBVIOUS
  <2> HIDE DEF its
  <2>2. found[i] \in X /\ key <= PairAt(t, found[i]).key /\ PairAt(t, found[i]).key <= key
    BY <2>1, <1>9 DEF Found, X
  <2> DEFINE b == found[i]
  <2>3. PairAt(t, found[i]).key \in Int
    <3>1. b \in Places(t, g.nodes)
      BY <2>2 DEF X
    <3> HIDE DEF b
    <3>2. PairAt(t, b).key \in 0 .. INDEX_KEY_MAX - 1
      BY <3>1, <1>1, PlaceIs, Zenon
    <3> QED BY <3>2, IndexFileAssumption DEF b
  <2>4. PairAt(t, found[i]).key = key
    BY <2>2, <2>3
  <2> QED BY <2>1, <2>2, <2>4, <1>5
<1> HIDE DEF its
<1>14. \E i \in its : \A j \in its : i <= j
  BY <1>11, <1>12, LeastExists, Zenon
<1>15. found[CHOOSE i \in its : \A j \in its : i <= j] = c
  BY <1>13, <1>14
<1>16. delete_record(t, key, rid) = delete_key_leaf(t, c)
  BY <1>11, <1>15, Zenon DEF delete_record, found, its
<1> QED BY <1>2, <1>8, <1>16 DEF X

\* The deletion of this key leaves the number of keys of the inner nodes but the root at half
\* or more: its leaf has a key to spare, or is the root, or borrows a pair of its brother, or
\* its parent has a key to spare, or is the root.
CalmIn(t, key) ==
  LET p == LeafFor(t, key)
  IN  \/ key_num(t.node[p]) > 1
      \/ p = t.root
      \/ Spares(t, p)
      \/ ~ underflow_leaf(t, p).more

\* Tree u is a tree with the entries of t but e.
Without(t, g, u, e) == \E h : Grows(u, h, TRUE) /\ Content(u, h.nodes) = Content(t, g.nodes) \ {e}

\* A calm deletion: the tree keeps its shape, and loses the record.
LEMMA DeleteIs ==
  ASSUME NEW t, NEW g, Grows(t, g, TRUE), NEW key \in 0 .. INDEX_KEY_MAX - 1, NEW rid,
         <<key, rid>> \in Content(t, g.nodes), CalmIn(t, key)
  PROVE  Without(t, g, delete_record(t, key, rid), <<key, rid>>)
<1>0. PICK c \in Places(t, g.nodes) : /\ EntryAt(t, c[1], c[2]) = <<key, rid>>
                                      /\ c[1] = LeafFor(t, key)
                                      /\ delete_record(t, key, rid) = delete_key_leaf(t, c)
  BY DeleteFinds, Zenon
<1> USE IndexFileAssumption
<1> DEFINE e == <<key, rid>>
           u == delete_record(t, key, rid)
<1>1. EntryAt(t, c[1], c[2]) = e /\ c[1] = LeafFor(t, key) /\ u = delete_key_leaf(t, c)
  BY <1>0, Zenon
<1> DEFINE p == c[1]
           i == c[2]
<1>2. /\ p \in g.nodes /\ t.node[p].is_leaf /\ i \in 1 .. key_num(t.node[p])
      /\ key_num(t.node[p]) \in Nat
  BY PlaceIs, Zenon DEF Grows
<1>3. CalmIn(t, key) /\ p = LeafFor(t, key)
  BY <1>1
<1>4. EntryAt(t, p, i) = e
  BY <1>1
<1>5. u = IF key_num(t.node[p]) > 1 \/ p = t.root THEN delete_key(t, p, i) ELSE ShrinkUp(t, p, i)
  BY <1>1 DEF delete_key_leaf
<1> HIDE DEF p, i, e, u
<1>6. CASE key_num(t.node[p]) > 1 \/ p = t.root
  <2>1. u = delete_key(t, p, i)
    BY <1>5, <1>6
  <2>2. Loses(t, g, u, p, i)
    BY <2>1, <1>2, <1>6, LeafLoses, Zenon
  <2> QED BY <2>2, <1>4, Zenon DEF Loses, Without, e, u
<1>7. CASE ~ (key_num(t.node[p]) > 1 \/ p = t.root)
  <2>1. key_num(t.node[p]) = 1 /\ i = 1 /\ p \in g.nodes \ {t.root}
    BY <1>2, <1>7
  <2>2. u = ShrinkUp(t, p, i)
    BY <1>5, <1>7
  <2>3. Spares(t, p) \/ ~ underflow_leaf(t, p).more
    BY <1>3, <1>7 DEF CalmIn
  <2>4. Loses(t, g, u, p, 1)
    BY <2>1, <2>2, <2>3, <1>2, LeafShrinks, Zenon
  <2> QED BY <2>1, <2>4, <1>4, Zenon DEF Loses, Without, e, u
<1> QED BY <1>6, <1>7
-----------------------------------------------------------------------------
\* The step of a calm deletion keeps the invariant, and takes the entry away.
LEMMA DeleteKeeps ==
  ASSUME IInv, NEW key \in Keys, NEW rid \in Rids, Delete(key, rid), CalmIn(Tree, key)
  PROVE  IInv' /\ Store!Delete(Entries, Entries')
<1> USE IndexFileAssumption
<1> DEFINE e == <<key, rid>>
           u == delete_record(Tree, key, rid)
<1>1. distinct = TRUE /\ e \in Entries /\ Become(u) /\ distinct' = distinct
  <2>1. distinct \in BOOLEAN
    BY DEF IInv
  <2> QED BY <2>1 DEF Delete
<1>2. PICK g : Grows(Tree, g, distinct)
  BY DEF IInv
<1>3. Grows(Tree, g, TRUE)
  BY <1>1, <1>2, Zenon
<1>4. Shape(Tree, g, TRUE) /\ Fits(Tree, g)
  BY <1>3, Zenon DEF Grows
<1>5. Entries = Content(Tree, g.nodes)
  BY <1>4, NodesAre, Zenon DEF Entries
<1>6. key \in 0 .. INDEX_KEY_MAX - 1
  OBVIOUS
<1> HIDE DEF u
<1>7. Without(Tree, g, u, e)
  BY <1>1, <1>3, <1>5, <1>6, DeleteIs, Zenon DEF u
<1> HIDE DEF e
<1>8. PICK h : Grows(u, h, TRUE) /\ Content(u, h.nodes) = Content(Tree, g.nodes) \ {e}
  BY <1>7, Zenon DEF Without
<1>9. Shape(u, h, TRUE) /\ Fits(u, h)
  BY <1>8, Zenon DEF Grows
<1>10. Tree' = u
  <2>1. u \in Trees
    BY <1>9 DEF Shape, Placed
  <2>2. u = [root |-> u.root, num |-> u.num, node |-> u.node]
    BY <2>1, TreeIs
  <2>3. root_page' = u.root /\ node_num' = u.num /\ node' = u.node
    BY <1>1 DEF Become
  <2> QED BY <2>2, <2>3, TreeIs
<1>11. Entries' = Entries \ {e}
  <2>1. EntriesOf(u) = Content(u, h.nodes)
    BY <1>9, NodesAre, Zenon
  <2>2. Entries' = EntriesOf(u)
    BY <1>10 DEF Entries
  <2> QED BY <2>1, <2>2, <1>5, <1>8
<1>12. IInv'
  <2>1. Grows(Tree', h, distinct')
    BY <1>1, <1>8, <1>10, Zenon
  <2>2. distinct' \in BOOLEAN
    BY <1>1
  <2>3. Entries' \subseteq Keys \X Rids
    BY <1>11 DEF IInv
  <2> QED BY <2>1, <2>2, <2>3 DEF IInv
<1>13. Store!Delete(Entries, Entries')
  BY <1>1, <1>11 DEF Store!Delete
<1> QED BY <1>12, <1>13
-----------------------------------------------------------------------------
\* A deletion in this step takes no inner node but the root below half of its keys.
CalmDeletion == \A key \in Keys, rid \in Rids : Delete(key, rid) => CalmIn(Tree, key)

\* Such a step keeps the invariant, and is one of the index's.
LEMMA StepKeeps == IInv /\ [Next]_vars /\ [CalmDeletion]_vars => IInv' /\ [Store!Next]_Store!vars
<1> SUFFICES ASSUME IInv, [Next]_vars, [CalmDeletion]_vars
             PROVE  IInv' /\ [Store!Next]_Store!vars
  OBVIOUS
<1>1. CASE UNCHANGED vars
  <2>1. Tree' = Tree /\ distinct' = distinct /\ Entries' = Entries
    BY <1>1 DEF vars, Tree, Entries
  <2>2. IInv'
    BY <2>1 DEF IInv
  <2>3. Store!vars' = Store!vars
    BY <2>1 DEF Store!vars
  <2> QED BY <2>2, <2>3
<1>2. CASE Next /\ CalmDeletion
  <2>1. PICK key \in Keys : Insert(key) \/ \E rid \in Rids : Delete(key, rid)
    BY <1>2 DEF Next
  <2>2. CASE Insert(key)
    <3>1. IInv' /\ Store!Insert(Entries, Entries')
      BY <2>2, InsertKeeps
    <3> QED BY <3>1 DEF Store!Next
  <2>3. CASE \E rid \in Rids : Delete(key, rid)
    <3>1. PICK rid \in Rids : Delete(key, rid)
      BY <2>3
    <3>2. CalmIn(Tree, key)
      BY <3>1, <1>2 DEF CalmDeletion
    <3>3. IInv' /\ Store!Delete(Entries, Entries')
      BY <3>1, <3>2, DeleteKeeps
    <3> QED BY <3>3 DEF Store!Next
  <2> QED BY <2>1, <2>2, <2>3
<1> QED BY <1>1, <1>2

\* While every deletion is calm the invariant holds.
LEMMA Invariance == Spec /\ [][CalmDeletion]_vars => []IInv
<1>1. Init => IInv
  BY InitGrows
<1>2. IInv /\ [Next]_vars /\ [CalmDeletion]_vars => IInv'
  BY StepKeeps
<1> QED BY <1>1, <1>2, PTL DEF Spec

\* While no inner node but the root falls below half of its keys, an index is the store it
\* promises to be: an insertion adds its record, whatever is split for it, a deletion takes
\* its own away, whichever leaf lends a pair or leaves the tree for it, and nothing else.
THEOREM ImplementsTheStore == Spec /\ [][CalmDeletion]_vars => ImplementsIndexStore
<1>1. Init => Store!Init
  BY InitGrows
<1>2. IInv /\ [Next]_vars /\ [CalmDeletion]_vars => [Store!Next]_Store!vars
  BY StepKeeps
<1> QED BY <1>1, <1>2, Invariance, PTL DEF Spec, ImplementsIndexStore, Store!Spec

\* Then every search finds the entries of its range, in order and each once, whatever the
\* order of the insertions and deletions, and with repeated keys where nothing is deleted.
THEOREM SearchesFindTheirRange == Spec /\ [][CalmDeletion]_vars => []SearchFindsRange
<1>1. IInv => SearchFindsRange
  BY InvariantSays
<1> QED BY <1>1, Invariance, PTL

\* Then every node is a node, and the pages used are there.
THEOREM TypesHold == Spec /\ [][CalmDeletion]_vars => []TypeOK
<1>1. IInv => TypeOK
  BY InvariantSays
<1> QED BY <1>1, Invariance, PTL

\* Then the chain of leaves visits them from left to right, back and forth, and every child
\* knows its parent: overflow and underflow change all the links a split, a loan and the
\* end of a leaf have to.
THEOREM LinksStayRight == Spec /\ [][CalmDeletion]_vars => []LinksFollowTree
<1>1. IInv => LinksFollowTree
  BY InvariantSays
<1> QED BY <1>1, Invariance, PTL

\* Then the nodes keep the numbers of keys IndexFileMeta.h states, for every order, and the
\* leaves lie equally deep.
THEOREM StaysBalanced == Spec /\ [][CalmDeletion]_vars => []Balanced
<1>1. IInv => Balanced
  BY InvariantSays
<1> QED BY <1>1, Invariance, PTL
=============================================================================
