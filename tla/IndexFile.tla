------------------------------ MODULE IndexFile ------------------------------
(***************************************************************************)
(* An index file (src/is): a B+ tree of pages over the integer keys below   *)
(* INDEX_KEY_MAX, whose leaves are linked from left to right.               *)
(*                                                                         *)
(* A node's `list' is the linked list of its key-value pairs in key order.  *)
(* Its last element is the pair with the number 0 that every page has from  *)
(* the start, with the key INDEX_KEY_MAX: in an inner node it holds the     *)
(* rightmost child.  A pair of an inner node leads to the keys up to its    *)
(* own.  The numbers of the other pairs only serve the linked list, and     *)
(* become positions in `list'.  A page is never freed: it keeps the node it *)
(* held when it leaves the tree.                                            *)
(***************************************************************************)
EXTENDS Integers, Sequences, FiniteSets, SequencesExt

CONSTANTS M,              \* meta.btree_m, at most M - 1 keys to a node
          INDEX_KEY_MAX,
          Keys,           \* the keys inserted
          RepeatedKeys,   \* those inserted more than once, when that is allowed
          MaxRecords,     \* the most records in the index: bounds the model
          MaxPages,       \* the most pages the file may take: bounds the model
          MaxPagesUsed,   \* the most with deletions, which free none: bounds the model
          Nil             \* a page that was never used

ASSUME IndexFileAssumption ==
  /\ M \in 3 .. 255
  /\ INDEX_KEY_MAX \in Nat /\ Keys \subseteq 0 .. INDEX_KEY_MAX - 1
  /\ RepeatedKeys \subseteq Keys
  /\ RepeatedKeys # {} => M % 2 = 1   \* as 255, the order of every index of the program
  /\ MaxRecords \in Nat /\ MaxPages \in Nat \ {0} /\ MaxPagesUsed \in 0 .. MaxPages

VARIABLES root_page, node_num, node,  \* the meta page, and the other pages
          distinct   \* whether the callers keep the contract of insert_record
                     \* (IndexFile.h): no two records with the same key

vars == <<root_page, node_num, node, distinct>>

Rids     == 1 .. MaxRecords   \* told apart, and nothing else
NodeIds  == 1 .. MaxPages
NoPage   == 0
Pair     == [key : 0 .. INDEX_KEY_MAX, value : Nat]
Node     == [is_leaf : BOOLEAN, parent : Nat, pre_leaf : Nat, suc_leaf : Nat,
             list : Seq(Pair) \ {<< >>}]

\* Every variable has its type: every node ends with the pair of number 0, and
\* the nodes fit the file.
TypeOK ==
  /\ root_page \in NodeIds
  /\ node_num \in NodeIds
  /\ node \in [NodeIds -> Node \cup {Nil}]
  /\ distinct \in BOOLEAN

\* The tree as the operations below pass it on.
Tree == [root |-> root_page, num |-> node_num, node |-> node]

pair(key, value) == [key |-> key, value |-> value]
key_num(n)       == Len(n.list) - 1
Sentinel(n)      == n.list[Len(n.list)]

\* NewNode without the pair of number 0.
NewNode_NoSentinel(is_leaf, parent, list, rightmost) ==
  [is_leaf |-> is_leaf, parent |-> parent, pre_leaf |-> NoPage, suc_leaf |-> NoPage,
   list |-> list]

\* create_node: the node of a new page.
NewNode(is_leaf, parent, list, rightmost) ==
  [is_leaf |-> is_leaf, parent |-> parent, pre_leaf |-> NoPage, suc_leaf |-> NoPage,
   list |-> Append(list, pair(INDEX_KEY_MAX, rightmost))]

\* IndexSystem::create_file: page 1 is the root and an empty leaf.
Init ==
  /\ root_page = 1
  /\ node_num = 1
  /\ node = [p \in NodeIds |-> IF p = 1 THEN NewNode(TRUE, NoPage, << >>, 0) ELSE Nil]
  /\ distinct \in BOOLEAN
-----------------------------------------------------------------------------
\* FirstFrom that passes over the pairs with this very key.
FirstFrom_Above(n, key) == CHOOSE i \in DOMAIN n.list : /\ n.list[i].key > key
                                                        /\ \A j \in 1 .. i - 1 : n.list[j].key <= key

\* The first pair of node n whose key is not below key.
FirstFrom(n, key) == CHOOSE i \in DOMAIN n.list : /\ n.list[i].key >= key
                                                  /\ \A j \in 1 .. i - 1 : n.list[j].key < key

\* The values a loop gives x: after k rounds, each of which makes next[y] of y.
Rounds(next, x, n) ==
  LET after[k \in 0 .. n] == IF k = 0 THEN x ELSE next[after[k - 1]] IN after

\* A round of location_at: from an inner node to the child that leads to key.
Toward(t, key) ==
  [p \in NodeIds |-> IF t.node[p].is_leaf THEN p
                     ELSE t.node[p].list[FirstFrom(t.node[p], key)].value]

\* The leaf the root leads to: no way down is longer than the tree has nodes.
LeafFor(t, key) == Rounds(Toward(t, key), t.root, t.num)[t.num]

\* IndexFile::location_at: the leaf for key, and the place in it.
location_at(t, key) ==
  LET leaf == LeafFor(t, key) IN <<leaf, FirstFrom(t.node[leaf], key)>>

\* insert_key_leaf and insert_key: a pair before the one at place i.
insert_key(t, p, i, key, value) ==
  [t EXCEPT !.node[p].list = InsertAt(@, i, pair(key, value))]

\* The node p leads to have p as their parent.
Adopt(t, p, children) ==
  [t EXCEPT !.node = [q \in NodeIds |-> IF q \in children THEN [@[q] EXCEPT !.parent = p]
                                        ELSE @[q]]]

ValuesOf(list) == {list[i].value : i \in DOMAIN list}

\* The pair a node is split at, m / 2 rounded down.
Mid_Early == M \div 2

\* The pair a node is split at, m / 2 rounded up.
Mid == (M + 1) \div 2

\* overflow that leaves the back link of the next leaf as it was.
overflow_NoBackLink(t, p) ==
  LET n     == t.node[p]
      new   == t.num + 1
      right == NewNode(n.is_leaf, n.parent, SubSeq(n.list, Mid + 1, key_num(n)), Sentinel(n).value)
      left  == IF n.is_leaf
                 THEN NewNode(TRUE, n.parent, SubSeq(n.list, 1, Mid), 0)
                 ELSE NewNode(FALSE, n.parent, SubSeq(n.list, 1, Mid - 1), n.list[Mid].value)
      split == [t EXCEPT !.num = new, !.node[p] = left, !.node[new] = right]
  IN  IF ~ n.is_leaf
        THEN Adopt(split, new, ValuesOf(right.list))
        ELSE [split EXCEPT !.node[p].pre_leaf = n.pre_leaf, !.node[p].suc_leaf = new,
                           !.node[new].pre_leaf = p, !.node[new].suc_leaf = n.suc_leaf]

\* overflow that takes the middle pair out of a leaf as it does out of an inner node.
overflow_LosesMiddle(t, p) ==
  LET n     == t.node[p]
      new   == t.num + 1
      right == NewNode(n.is_leaf, n.parent, SubSeq(n.list, Mid + 1, key_num(n)), Sentinel(n).value)
      left  == NewNode(n.is_leaf, n.parent, SubSeq(n.list, 1, Mid - 1), n.list[Mid].value)
      split == [t EXCEPT !.num = new, !.node[p] = left, !.node[new] = right]
  IN  IF ~ n.is_leaf
        THEN Adopt(split, new, ValuesOf(right.list))
        ELSE [split EXCEPT !.node[p].pre_leaf = n.pre_leaf, !.node[p].suc_leaf = new,
                           !.node[new].pre_leaf = p, !.node[new].suc_leaf = n.suc_leaf]

(***************************************************************************)
(* IndexFile::overflow: the pairs behind the middle one move to a new page, *)
(* as does the rightmost child of an inner node.  The middle pair stays in  *)
(* a leaf; in an inner node its child becomes the rightmost one.  The left  *)
(* part is put together in a second new page, which is given back.          *)
(***************************************************************************)
overflow(t, p) ==
  LET n     == t.node[p]
      new   == t.num + 1
      right == NewNode(n.is_leaf, n.parent, SubSeq(n.list, Mid + 1, key_num(n)), Sentinel(n).value)
      left  == IF n.is_leaf
                 THEN NewNode(TRUE, n.parent, SubSeq(n.list, 1, Mid), 0)
                 ELSE NewNode(FALSE, n.parent, SubSeq(n.list, 1, Mid - 1), n.list[Mid].value)
      split == [t EXCEPT !.num = new, !.node[p] = left, !.node[new] = right]
  IN  IF ~ n.is_leaf
        THEN Adopt(split, new, ValuesOf(right.list))
        ELSE [split EXCEPT
                !.node = [q \in NodeIds |->
                  IF q = p THEN [left EXCEPT !.pre_leaf = n.pre_leaf, !.suc_leaf = new]
                  ELSE IF q = new THEN [right EXCEPT !.pre_leaf = p, !.suc_leaf = n.suc_leaf]
                  ELSE IF q = n.suc_leaf THEN [@[q] EXCEPT !.pre_leaf = new]
                  ELSE @[q]]]

\* insert_record when the root was split: a new root above both halves.
GrowRoot(t, p) ==
  LET root == t.num + 1
      top  == [t EXCEPT !.num = root, !.root = root,
                        !.node[root] = NewNode(FALSE, NoPage, << >>, 0)]
  IN  Adopt(top, root, {p, t.num})

\* insert_key_with_lrvalue: key, with `left' below it and `right' behind it.
insert_key_with_lrvalue(t, p, key, left, right) ==
  LET i == FirstFrom(t.node[p], key)
  IN  insert_key([t EXCEPT !.node[p].list[i].value = right], p, i, key, left)

\* A round of insert_record's loop: node p is split, and its parent has one more pair.
SplitRound(t, p) ==
  LET over_key == t.node[p].list[Mid].key
      split    == overflow(t, p)
      new      == t.num + 1
      grown    == IF p = t.root THEN GrowRoot(split, p) ELSE split
      parent   == grown.node[p].parent
  IN  [tree |-> insert_key_with_lrvalue(grown, parent, over_key, p, new), page |-> parent]

\* The loop of insert_record, upward from node p while there are too many keys.
SplitUp(t, p) ==
  LET after[k \in 0 .. t.num] ==
        IF k = 0 THEN [tree |-> t, page |-> p]
        ELSE LET s == after[k - 1]
             IN  IF key_num(s.tree.node[s.page]) > M - 1 THEN SplitRound(s.tree, s.page) ELSE s
  IN  after[t.num].tree

\* IndexFile::insert_record.
insert_record(t, key, rid) ==
  LET at == location_at(t, key) IN SplitUp(insert_key(t, at[1], at[2], key, rid), at[1])
-----------------------------------------------------------------------------
PairAt(t, at) == t.node[at[1]].list[at[2]]

\* IndexScan::get_next_entry goes on: to the next pair, or the first of the next leaf.
NextPlace(t, at) ==
  LET n == t.node[at[1]]
  IN  IF at[2] + 1 < Len(n.list) THEN <<at[1], at[2] + 1>> ELSE <<n.suc_leaf, 1>>

(***************************************************************************)
(* IndexFile::search and IndexScan::get_next_entry: from the place of the   *)
(* lower bound on, through the leaves, up to the first key above the upper  *)
(* bound.  The places are <<page, place in the page>>.                      *)
(***************************************************************************)
search(t, lower_bound, upper_bound) ==
  LET next    == [at \in (0 .. MaxPages) \X (1 .. M) |-> NextPlace(t, at)]
      at      == Rounds(next, location_at(t, lower_bound), M * t.num)
      ends(k) == at[k][1] = NoPage \/ PairAt(t, at[k]).key > upper_bound
      found   == CHOOSE n \in 0 .. M * t.num : ends(n) /\ \A k \in 0 .. n - 1 : ~ ends(k)
  IN  [k \in 1 .. found |-> at[k - 1]]

\* IndexFile::delete_key.
delete_key(t, p, i) == [t EXCEPT !.node[p].list = RemoveAt(@, i)]

\* The pair of the parent under which a node with this key hangs.
PlaceInParent(t, p, key) == FirstFrom(t.node[t.node[p].parent], key)

Underflow(t, more, under, merge) == [t |-> t, more |-> more, under |-> under, merge |-> merge]

\* underflow of a leaf that borrows a pair and leaves the key above it as it was.
underflow_leaf_KeepsSeparator(t, p) ==
  LET n      == t.node[p]
      up     == t.node[n.parent].list
      k      == PlaceInParent(t, p, n.list[key_num(n)].key)
      bro    == up[k + 1].value
      unlinked == [t EXCEPT !.node = [q \in NodeIds |->
                     IF q = n.pre_leaf THEN [@[q] EXCEPT !.suc_leaf = n.suc_leaf]
                     ELSE IF q = n.suc_leaf THEN [@[q] EXCEPT !.pre_leaf = n.pre_leaf]
                     ELSE @[q]]]
  IN  IF k # Len(up) /\ key_num(t.node[bro]) > 1
        THEN Underflow([delete_key(t, bro, 1) EXCEPT
                          !.node[p].list = <<t.node[bro].list[1], Sentinel(n)>>], FALSE, k, NoPage)
      ELSE IF k # Len(up) THEN Underflow(unlinked, TRUE, k, n.suc_leaf)
      ELSE Underflow([unlinked EXCEPT !.node[n.parent].list[k].value = up[k - 1].value],
                     TRUE, k - 1, n.pre_leaf)

\* underflow of the last leaf that leaves the rightmost child as it was.
underflow_leaf_KeepsRightmost(t, p) ==
  LET n      == t.node[p]
      up     == t.node[n.parent].list
      k      == PlaceInParent(t, p, n.list[key_num(n)].key)
      bro    == up[k + 1].value
      first  == t.node[bro].list[1]
  IN  IF k # Len(up) /\ key_num(t.node[bro]) > 1
        THEN Underflow([delete_key(t, bro, 1) EXCEPT
                          !.node[p].list = <<first, Sentinel(n)>>,
                          !.node[n.parent].list[k].key = first.key], FALSE, k, NoPage)
      ELSE Underflow([t EXCEPT !.node = [q \in NodeIds |->
                        IF q = n.pre_leaf THEN [@[q] EXCEPT !.suc_leaf = n.suc_leaf]
                        ELSE IF q = n.suc_leaf THEN [@[q] EXCEPT !.pre_leaf = n.pre_leaf]
                        ELSE @[q]]],
                     TRUE, IF k # Len(up) THEN k ELSE k - 1,
                     IF k # Len(up) THEN n.suc_leaf ELSE n.pre_leaf)

(***************************************************************************)
(* IndexFile::underflow of a leaf that is to lose its only pair: it takes   *)
(* over the first pair of its right brother, or leaves the chain, and its   *)
(* parent is to lose a pair.                                                *)
(***************************************************************************)
underflow_leaf(t, p) ==
  LET n      == t.node[p]
      parent == n.parent
      up     == t.node[parent].list
      k      == PlaceInParent(t, p, n.list[key_num(n)].key)
      bro    == up[k + 1].value
      first  == t.node[bro].list[1]
      unlinked == [t EXCEPT !.node = [q \in NodeIds |->
                     IF q = n.pre_leaf THEN [@[q] EXCEPT !.suc_leaf = n.suc_leaf]
                     ELSE IF q = n.suc_leaf THEN [@[q] EXCEPT !.pre_leaf = n.pre_leaf]
                     ELSE @[q]]]
  IN  IF k # Len(up) /\ key_num(t.node[bro]) > 1
        THEN Underflow([delete_key(t, bro, 1) EXCEPT
                          !.node[p].list = <<first, Sentinel(n)>>,
                          !.node[parent].list[k].key = first.key], FALSE, k, NoPage)
      ELSE IF k # Len(up)
        THEN Underflow(unlinked, TRUE, k, n.suc_leaf)
      ELSE Underflow([unlinked EXCEPT !.node[parent].list[k].value = up[k - 1].value],
                     TRUE, k - 1, n.pre_leaf)

\* The pairs of node `right' go behind those of `left', with x between them.
Merged(t, left, right, x) ==
  LET l == t.node[left].list
      r == t.node[right].list
      list == SubSeq(l, 1, Len(l) - 1) \o <<pair(x, l[Len(l)].value)>>
              \o SubSeq(r, 1, Len(r) - 1) \o <<pair(l[Len(l)].key, r[Len(r)].value)>>
  IN  Adopt([t EXCEPT !.node[left].list = list], left,
            {l[Len(l)].value} \cup ValuesOf(r))

(***************************************************************************)
(* IndexFile::underflow of an inner node that loses pair i: below half, it  *)
(* takes over a pair from its right brother, or from its left one when it   *)
(* is the rightmost child, or is merged with it and its parent is to lose a *)
(* pair.  The key between the two is read from the pair that leads to it,   *)
(* the rightmost one when the brother is the left one.                      *)
(***************************************************************************)
underflow_inner(t, p, i) ==
  LET half   == (M + 1) \div 2 - 1
      parent == t.node[p].parent
      up     == t.node[parent].list
      k      == PlaceInParent(t, p, t.node[p].list[i].key)
      x      == up[k].key
      cut    == delete_key(t, p, i)
      mine   == cut.node[p].list
      right  == up[k + 1].value
      left   == up[k - 1].value
      theirs == t.node[IF k # Len(up) THEN right ELSE left].list
      last   == Len(theirs)
  IN  IF Len(mine) - 1 >= half
        THEN Underflow(cut, FALSE, k, NoPage)
      ELSE IF k # Len(up) /\ last - 2 >= half
        THEN Underflow(
               [delete_key(cut, right, 1) EXCEPT
                  !.node[p].list = SubSeq(mine, 1, Len(mine) - 1)
                                   \o <<pair(x, mine[Len(mine)].value),
                                        pair(mine[Len(mine)].key, theirs[1].value)>>,
                  !.node[parent].list[k].key = theirs[1].key], FALSE, k, NoPage)
      ELSE IF k # Len(up)
        THEN Underflow([Merged(cut, p, right, x) EXCEPT !.node[parent].list[k + 1].value = p],
                       TRUE, k, p)
      ELSE IF last - 2 >= half
        THEN Underflow(
               [cut EXCEPT
                  !.node[p].list = <<pair(x, theirs[last].value)>> \o mine,
                  !.node[left].list = SubSeq(theirs, 1, last - 2)
                                      \o <<pair(theirs[last].key, theirs[last - 1].value)>>,
                  !.node[parent].list[k].key = theirs[last - 1].key], FALSE, k, NoPage)
      ELSE Underflow([Merged(cut, left, p, x) EXCEPT !.node[parent].list[k].value = left],
                     TRUE, k - 1, left)

Shrinking(t, p, i, more) == [tree |-> t, page |-> p, place |-> i, more |-> more]

\* A round of delete_key_leaf's loop: node p underflows, and perhaps the one above it.
ShrinkRound(t, p, i) ==
  LET parent == t.node[p].parent
      u      == IF t.node[p].is_leaf THEN underflow_leaf(t, p) ELSE underflow_inner(t, p, i)
      done(tree) == Shrinking(tree, p, i, FALSE)
  IN  IF ~ u.more THEN done(u.t)
      ELSE IF parent # t.root THEN Shrinking(u.t, parent, u.under, TRUE)
      ELSE IF key_num(u.t.node[parent]) > 1 THEN done(delete_key(u.t, parent, u.under))
      ELSE done([u.t EXCEPT !.root = u.merge, !.node[p].parent = NoPage])

\* The loop of delete_key_leaf, upward from leaf p.
ShrinkUp(t, p, i) ==
  LET after[k \in 0 .. t.num] ==
        IF k = 0 THEN Shrinking(t, p, i, TRUE)
        ELSE LET s == after[k - 1] IN IF s.more THEN ShrinkRound(s.tree, s.page, s.place) ELSE s
  IN  after[t.num].tree

delete_key_leaf(t, at) ==
  IF key_num(t.node[at[1]]) > 1 \/ at[1] = t.root
    THEN delete_key(t, at[1], at[2])
    ELSE ShrinkUp(t, at[1], at[2])

\* IndexFile::delete_record: what a search for the key finds with this RID.
delete_record(t, key, rid) ==
  LET found == search(t, key, key)
      its   == {i \in DOMAIN found : PairAt(t, found[i]).value = rid}
  IN  IF its = {} THEN t
      ELSE delete_key_leaf(t, found[CHOOSE i \in its : \A j \in its : i <= j])
-----------------------------------------------------------------------------
Children(t, p) == IF t.node[p].is_leaf THEN {} ELSE ValuesOf(t.node[p].list)

\* The nodes k steps below the root, for every k.
Levels(t) ==
  Rounds([nodes \in SUBSET NodeIds |-> UNION {Children(t, p) : p \in nodes}], {t.root}, t.num)

\* The pages of the tree; a node that was merged away keeps its page.
NodesOf(t) == LET levels == Levels(t) IN UNION {levels[k] : k \in 0 .. t.num}

PairsOf(n) == {<<n.list[i].key, n.list[i].value>> : i \in 1 .. key_num(n)}

\* The entries of the index: those of the leaves the root leads to.
EntriesOf(t) == UNION {PairsOf(t.node[p]) : p \in {q \in NodesOf(t) : t.node[q].is_leaf}}

Entries == EntriesOf(Tree)

Become(t) ==
  /\ root_page' = t.root
  /\ node_num' = t.num
  /\ node' = t.node

\* A caller inserts a record that is not in the index, the least one of Rids.
\* (The pages fit the bound if every node is split and the root grows.)
Insert(key) ==
  /\ 2 * node_num + 1 <= (IF distinct THEN MaxPagesUsed ELSE MaxPages)
  /\ LET entries == Entries
         free    == Rids \ {e[2] : e \in entries}
     IN  /\ IF distinct THEN \A e \in entries : e[1] # key ELSE key \in RepeatedKeys
         /\ free # {}
         /\ Become(insert_record(Tree, key, CHOOSE r \in free : \A q \in free : r <= q))
  /\ UNCHANGED distinct

\* A caller that keeps the contract deletes a record of the index.
Delete(key, rid) ==
  /\ distinct
  /\ <<key, rid>> \in Entries
  /\ Become(delete_record(Tree, key, rid))
  /\ UNCHANGED distinct

Next == \E key \in Keys : Insert(key) \/ \E rid \in Rids : Delete(key, rid)

Spec == Init /\ [][Next]_vars
-----------------------------------------------------------------------------
Store == INSTANCE IndexStore WITH entries <- Entries

\* A split moves entries and loses or doubles none.
ImplementsIndexStore == Store!Spec

Scan(lower, upper) ==
  LET found == search(Tree, lower, upper)
  IN  [i \in DOMAIN found |-> <<PairAt(Tree, found[i]).key, PairAt(Tree, found[i]).value>>]

\* A search from lower to upper finds the entries of that range, each once
\* and in the order of their keys.
FindsRange(entries, lower, upper) ==
  LET found == Scan(lower, upper)
  IN  /\ ToSet(found) = {e \in entries : lower <= e[1] /\ e[1] <= upper}
      /\ \A i, j \in DOMAIN found : i < j => found[i][1] <= found[j][1] /\ found[i] # found[j]

InTree == NodesOf(Tree)

\* The first and the last leaf below node p.
Leftmost(t, p) ==
  Rounds([q \in NodeIds |-> IF t.node[q].is_leaf THEN q ELSE t.node[q].list[1].value],
         p, t.num)[t.num]
Rightmost(t, p) ==
  Rounds([q \in NodeIds |-> IF t.node[q].is_leaf THEN q ELSE Sentinel(t.node[q]).value],
         p, t.num)[t.num]

\* The leaf a search for key comes to has a key as large.
HasKeyFrom(key) ==
  LET place == location_at(Tree, key) IN place[2] <= key_num(node[place[1]])

(***************************************************************************)
(* A search finds all the entries of its range, each once and in the order  *)
(* of their keys (IndexFile.h): with repeated keys after splits, and, when  *)
(* leaves borrow pairs and are merged away, as the keys of the inner nodes  *)
(* still separate them.  The leaf a search for the key of an entry comes to *)
(* has it, so delete_record reaches what it is to delete.  (From the end of *)
(* a leaf that lost its largest key a search finds nothing: README.)        *)
(***************************************************************************)
SearchFindsRange ==
  LET entries == Entries
  IN  /\ \A e \in entries : HasKeyFrom(e[1])
      /\ \A lower, upper \in Keys : ~ distinct \/ HasKeyFrom(lower)
                                   => FindsRange(entries, lower, upper)

(***************************************************************************)
(* The links between the pages agree with the tree: the chain of leaves     *)
(* visits them from left to right, back and forth, and every child knows    *)
(* its parent.  overflow changes up to four pages for it, and one in each   *)
(* child that moves.  (A merged node that becomes the root keeps its old    *)
(* parent: README.)                                                         *)
(***************************************************************************)
LinksFollowTree ==
  /\ \A p \in InTree : \A c \in Children(Tree, p) : node[c].parent = p
  /\ \A p \in InTree : ~ node[p].is_leaf
       => \A i \in 1 .. key_num(node[p]) :
            LET before == Rightmost(Tree, node[p].list[i].value)
                behind == Leftmost(Tree, node[p].list[i + 1].value)
            IN  node[before].suc_leaf = behind /\ node[behind].pre_leaf = before
  /\ node[Leftmost(Tree, root_page)].pre_leaf = NoPage
  /\ node[Rightmost(Tree, root_page)].suc_leaf = NoPage

(***************************************************************************)
(* Every node but the root keeps the number of keys IndexFileMeta.h states  *)
(* for the order M, and all leaves lie equally deep.                        *)
(***************************************************************************)
Balanced ==
  /\ \A p \in InTree : key_num(node[p]) <= M - 1
  /\ \A p \in InTree : ~ node[p].is_leaf /\ p # root_page => key_num(node[p]) >= (M + 1) \div 2 - 1
  /\ \A k \in 0 .. node_num : \A p, q \in Levels(Tree)[k] : node[p].is_leaf = node[q].is_leaf
=============================================================================
