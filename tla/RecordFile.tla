----------------------------- MODULE RecordFile -----------------------------
(***************************************************************************)
(* A record file (src/rs): data pages, found through free space pages.      *)
(*                                                                         *)
(* The file is made of groups of one free space page and K = 2^DEPTH data   *)
(* pages.  A free space page is a binary tree in an array: node 1 is the    *)
(* root, the children of n are 2n and 2n+1, leaf K+i is the i-th page of    *)
(* the group, and every node holds the free space level below it, NewLevel  *)
(* for pages that were never used.  The roots are copied to the meta page.  *)
(* A RID is <<page, slot>>.                                                *)
(***************************************************************************)
EXTENDS RecordPage, Sequences

CONSTANTS DEPTH,        \* K = 2^DEPTH data pages to a group
          LEVEL_UNIT,   \* bytes to a level of free space
          MAX_FSP,      \* the most groups of a file: bounds the model
          Sizes,        \* sizes of records
          Nil           \* the content of a page that was never used

ASSUME RecordFileAssumption ==
  /\ DEPTH \in Nat /\ MAX_FSP \in Nat
  /\ LEVEL_UNIT \in 1 .. RECORD_PAGE_HEADER_SIZE /\ PAGE_SIZE % LEVEL_UNIT = 0
  /\ Sizes \subseteq 1 .. MaxFree
  /\ ~ IsPage(Nil)

VARIABLES page_cnt,  \* meta.page_cnt
          fsp_data,  \* meta.fsp_data, one root for each group (meta.fsp_cnt)
          fsp,       \* the free space page of each group
          page       \* the data pages

vars == <<page_cnt, fsp_data, fsp, page>>

Power[d \in 0 .. DEPTH] == IF d = 0 THEN 1 ELSE 2 * Power[d - 1]   \* 2^d
K        == Power[DEPTH]                                           \* PAGE_SIZE / 2
Levels   == PAGE_SIZE \div LEVEL_UNIT   \* the values of a byte of the tree
NewLevel == Levels - 1
Groups   == 0 .. Len(fsp_data) - 1
Nodes    == 1 .. 2 * K - 1

FspPage(g)     == g * (K + 1) + 1
DataPage(g, n) == 2 + g * (K + 1) + (n - K)      \* of leaf n of group g
Pages          == {DataPage(g, n) : g \in 0 .. MAX_FSP - 1, n \in K .. 2 * K - 1}
GroupOf(p)     == (p - 2) \div (K + 1)
LeafOf(p)      == ((p - 2) % (K + 1)) + K

Rids       == Pages \X (0 .. PAGE_SIZE)
RecordsOf(p) == IF page[p] = Nil THEN {}
                ELSE {<<p, s>> : s \in {i \in Slots(page[p]) : Valid(page[p], i)}}
Records    == UNION {RecordsOf(p) : p \in Pages}

\* Every variable has its type: levels fit a byte, and the bytes, slots and
\* sizes of a page fit a page.
TypeOK ==
  /\ page_cnt \in Nat
  /\ fsp_data \in Seq(0 .. NewLevel)
  /\ fsp \in [0 .. MAX_FSP - 1 -> [Nodes -> 0 .. NewLevel] \cup {Nil}]
  /\ DOMAIN page = Pages
  /\ \A p \in Pages : page[p] = Nil \/ IsPage(page[p])

\* RecordSystem::create_file.
Init ==
  /\ page_cnt = 1
  /\ fsp_data = << >>
  /\ fsp = [g \in 0 .. MAX_FSP - 1 |-> Nil]
  /\ page = [p \in Pages |-> Nil]
-----------------------------------------------------------------------------
\* The level a record asks for, with two bytes for its slot, in a byte.
RecordLevel(size) == ((size + SlotBytes + LEVEL_UNIT - 1) \div LEVEL_UNIT) % Levels

\* The level of a free space: what is left of a unit is not counted.
FreeLevel(bytes) == (bytes \div LEVEL_UNIT) % Levels

\* From the root to a leaf, to the left wherever that side is enough.
LeafFor(h, level) ==
  LET from[n \in Nodes] == IF n >= K THEN n
                           ELSE IF h[2 * n] >= level THEN from[2 * n]
                           ELSE from[2 * n + 1]
  IN  from[1]

Max2(a, b) == IF a >= b THEN a ELSE b

\* Raised that compares with the level of the parent: no node sinks.
Raised_NeverSinks(h, leaf, level) ==
  LET up[n \in Nodes] ==
        IF n = leaf THEN level
        ELSE IF n >= K \/ (up[2 * n] = h[2 * n] /\ up[2 * n + 1] = h[2 * n + 1]) THEN h[n]
        ELSE Max2(h[n], Max2(up[2 * n], up[2 * n + 1]))
  IN  up

(***************************************************************************)
(* The tree's part of fix_page_header: the leaf takes its level, and a node *)
(* above it the larger of its children's if one of them has changed: the    *)
(* walk to the root ends at the first node that has that level already.     *)
(***************************************************************************)
Raised(h, leaf, level) ==
  LET up[n \in Nodes] ==
        IF n = leaf THEN level
        ELSE IF n >= K \/ (up[2 * n] = h[2 * n] /\ up[2 * n + 1] = h[2 * n + 1]) THEN h[n]
        ELSE Max2(up[2 * n], up[2 * n + 1])
  IN  up

\* A data page changed to pg: the page, its leaf and what is above it, and the
\* copy of the root in the meta page if the walk came that far.
FixPage(p, pg, trees, roots) ==
  LET g    == GroupOf(p)
      tree == Raised(trees[g], LeafOf(p), FreeLevel(pg.free_size))
  IN  /\ page' = [page EXCEPT ![p] = pg]
      /\ fsp' = [trees EXCEPT ![g] = tree]
      /\ fsp_data' = IF tree[1] # trees[g][1] THEN [roots EXCEPT ![g + 1] = tree[1]] ELSE roots

\* The groups with room for a record of this level.
GroupsFor(level) == {g \in Groups : fsp_data[g + 1] >= level}

\* The leaf and the page alloc_vacancy takes when a group has room.
ChosenGroup(level) == First(GroupsFor(level))
ChosenLeaf(level)  == LeafFor(fsp[ChosenGroup(level)], level)
ChosenPage(level)  == DataPage(ChosenGroup(level), ChosenLeaf(level))
FoundLevel(level)  == fsp[ChosenGroup(level)][ChosenLeaf(level)]

\* The assertions of alloc_vacancy on its way to that page.
AllocAsserts(level) ==
  LET p == ChosenPage(level)
  IN  /\ fsp[ChosenGroup(level)][1] = fsp_data[ChosenGroup(level) + 1]
      /\ FoundLevel(level) >= level
      /\ FoundLevel(level) # NewLevel =>
           page[p] # Nil /\ page[p].free_size \div LEVEL_UNIT = FoundLevel(level)

\* insert_record into a page that has room already.
InsertIntoUsedPage(size) ==
  LET level == RecordLevel(size)
      p     == ChosenPage(level)
  IN  /\ GroupsFor(level) # {}
      /\ AllocAsserts(level)
      /\ FoundLevel(level) # NewLevel
      /\ FixPage(p, PutRecord(page[p], size), fsp, fsp_data)
      /\ UNCHANGED page_cnt

\* insert_record into a page of a group that was never used: the file ends
\* behind it from now on.
InsertIntoNewPage(size) ==
  LET level == RecordLevel(size)
      p     == ChosenPage(level)
  IN  /\ GroupsFor(level) # {}
      /\ AllocAsserts(level)
      /\ FoundLevel(level) = NewLevel
      /\ FixPage(p, PutRecord(NewPage, size), fsp, fsp_data)
      /\ page_cnt' = p + 1

\* InsertIntoNewGroup that counts the data page and not the free space page.
InsertIntoNewGroup_CountsOne(size) ==
  LET g == Len(fsp_data)
      p == DataPage(g, K)
  IN  /\ GroupsFor(RecordLevel(size)) = {}
      /\ g < MAX_FSP
      /\ FixPage(p, PutRecord(NewPage, size),
                 [fsp EXCEPT ![g] = [n \in Nodes |-> NewLevel]],
                 Append(fsp_data, NewLevel))
      /\ page_cnt' = page_cnt + 1

\* insert_record when no group has room: a new group and its first page.
InsertIntoNewGroup(size) ==
  LET g == Len(fsp_data)
      p == DataPage(g, K)
  IN  /\ GroupsFor(RecordLevel(size)) = {}
      /\ g < MAX_FSP
      /\ FixPage(p, PutRecord(NewPage, size),
                 [fsp EXCEPT ![g] = [n \in Nodes |-> NewLevel]],
                 Append(fsp_data, NewLevel))
      /\ page_cnt' = page_cnt + 2

Insert(size) == InsertIntoUsedPage(size) \/ InsertIntoNewPage(size) \/ InsertIntoNewGroup(size)

\* delete_record: callers pass the RID of a record they found.
Delete(r) ==
  /\ r \in Records
  /\ FixPage(r[1], RemoveRecord(page[r[1]], r[2]), fsp, fsp_data)
  /\ UNCHANGED page_cnt

Next == (\E size \in Sizes : Insert(size)) \/ (\E r \in Rids : Delete(r))

Spec == Init /\ [][Next]_vars

-----------------------------------------------------------------------------
\* Every page in use is sound: records disjoint, in order, the header true.
PagesSound == \A p \in Pages : page[p] # Nil => PageSound(page[p])

(***************************************************************************)
(* The free space pages tell the truth: a leaf has the level of its page,   *)
(* which is NewLevel (0xFF in the code) for a page that was never used and  *)
(* for no other, as alloc_vacancy starts such a page from nothing; an inner *)
(* node has the larger of its children, the meta page the roots.            *)
(* fix_page_header stops going up as soon as a node does not change, and    *)
(* alloc_vacancy asserts what it finds on its way down, whatever is         *)
(* inserted next.                                                           *)
(***************************************************************************)
FreeSpaceTreeTrue ==
  /\ \A g \in Groups :
       /\ fsp_data[g + 1] = fsp[g][1]
       /\ \A n \in 1 .. K - 1 : fsp[g][n] = Max2(fsp[g][2 * n], fsp[g][2 * n + 1])
       /\ \A n \in K .. 2 * K - 1 :
            LET pg == page[DataPage(g, n)]
            IN  IF pg = Nil THEN fsp[g][n] = NewLevel
                ELSE fsp[g][n] = FreeLevel(pg.free_size) /\ fsp[g][n] # NewLevel
  /\ \A size \in Sizes : GroupsFor(RecordLevel(size)) # {} => AllocAsserts(RecordLevel(size))

Before(r, s) == r[1] < s[1] \/ (r[1] = s[1] /\ r[2] < s[2])

\* find_from that skips the slots up to r's in every page.
find_from_SkipsSlots(r) ==
  LET found == {s \in Records : s[1] \in r[1] .. page_cnt - 1 /\ s[2] > r[2]}
  IN  IF found = {} THEN <<0, 0>>
      ELSE CHOOSE s \in found : \A t \in found : t = s \/ Before(s, t)

\* RecordFile::find_from: the pages from the one of r on that are data pages,
\* in the first the slots after r, in the others all.
find_from(r) ==
  LET found == {s \in Records : /\ s[1] \in r[1] .. page_cnt - 1
                                /\ s[1] >= 2 /\ s[1] % (K + 1) # 1
                                /\ s[1] = r[1] => s[2] > r[2]}
  IN  IF found = {} THEN <<0, 0>>
      ELSE CHOOSE s \in found : \A t \in found : t = s \/ Before(s, t)

(***************************************************************************)
(* A scan (find_first, then find_next) meets every record, in the order of  *)
(* the RIDs: from each record the next one, from the last one nothing.  The *)
(* file ends behind its last used page for it: a new group adds two to the  *)
(* page count, a new page assigns it, whatever it was.                      *)
(***************************************************************************)
ScanMeetsEveryRecord ==
  /\ page_cnt = IF fsp_data = << >> THEN 1
                ELSE 1 + (CHOOSE p \in Pages : /\ page[p] # Nil
                                               /\ \A q \in Pages : page[q] # Nil => q <= p)
  /\ \A r \in Records \cup {<<0, 0>>} :
       LET later == {s \in Records : Before(r, s)}
           next  == find_from(r)
       IN  IF later = {} THEN next = <<0, 0>>
           ELSE next \in later /\ \A s \in later : s = next \/ Before(next, s)

\* The records of the file, as the store it implements.
StoredRecords == [r \in Records |-> page[r[1]].slot[r[2]].size]

Store == INSTANCE RecordStore WITH records <- StoredRecords

\* A record keeps its RID and its content while others come and go, and no
\* insertion takes the RID of a record.
ImplementsRecordStore == Store!Spec
=============================================================================
