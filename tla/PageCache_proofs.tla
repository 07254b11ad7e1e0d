--------------------------- MODULE PageCache_proofs ---------------------------
(***************************************************************************)
(* Proofs about PageCache, for every number of files, pages, contents and  *)
(* frames.                                                                 *)
(***************************************************************************)
EXTENDS PageCache, FiniteSetTheorems, FunctionTheorems, TLAPS

NoRepetition(s) == \A i, j \in 1 .. Len(s) : s[i] = s[j] => i = j

\* In a list without repetition a member has one position.
LEMMA PositionOfMember ==
  ASSUME NEW S, NEW s \in Seq(S), NoRepetition(s), NEW k \in 1 .. Len(s)
  PROVE  PositionIn(s, s[k]) = k
BY DEF PositionIn, NoRepetition

\* Taking the member at position k out of a list.
LEMMA WithoutMember ==
  ASSUME NEW S, NEW s \in Seq(S), NoRepetition(s), NEW k \in 1 .. Len(s)
  PROVE  /\ Without(s, s[k]) \in Seq(S)
         /\ Len(Without(s, s[k])) = Len(s) - 1
         /\ \A i \in 1 .. Len(s) - 1 :
              Without(s, s[k])[i] = IF i < k THEN s[i] ELSE s[i + 1]
         /\ NoRepetition(Without(s, s[k]))
<1> DEFINE w == [i \in 1 .. Len(s) - 1 |-> IF i < k THEN s[i] ELSE s[i + 1]]
<1>1. Without(s, s[k]) = w
  BY PositionOfMember DEF Without
<1>2. Len(s) - 1 \in Nat
  OBVIOUS
<1>3. w \in [1 .. Len(s) - 1 -> S]
  OBVIOUS
<1>4. w \in Seq(S) /\ Len(w) = Len(s) - 1
  BY <1>2, <1>3
<1>5. NoRepetition(w)
  BY <1>4 DEF NoRepetition
<1> QED BY <1>1, <1>4, <1>5

\* Putting a member at the front of a list that does not hold it.
LEMMA PushFrontNew ==
  ASSUME NEW S, NEW s \in Seq(S), NoRepetition(s), NEW x \in S,
         \A i \in 1 .. Len(s) : s[i] # x
  PROVE  /\ PushFront(s, x) \in Seq(S)
         /\ Len(PushFront(s, x)) = Len(s) + 1
         /\ PushFront(s, x)[1] = x
         /\ \A i \in 2 .. Len(s) + 1 : PushFront(s, x)[i] = s[i - 1]
         /\ NoRepetition(PushFront(s, x))
<1>1. PushFront(s, x) \in [1 .. Len(s) + 1 -> S]
  BY DEF PushFront
<1>2. PushFront(s, x) \in Seq(S) /\ Len(PushFront(s, x)) = Len(s) + 1
  BY <1>1, Len(s) + 1 \in Nat
<1>3. NoRepetition(PushFront(s, x))
  BY <1>2 DEF NoRepetition, PushFront
<1> QED BY <1>2, <1>3 DEF PushFront

\* Where the member at position i of a list comes from, when the member at
\* position k has moved to the front, and where it goes.
From(k, i) == IF i = 1 THEN k ELSE IF i <= k THEN i - 1 ELSE i
To(k, i)   == IF i = k THEN 1 ELSE IF i < k THEN i + 1 ELSE i

\* Moving the member at position k to the front of a list.
LEMMA ToFrontMember ==
  ASSUME NEW S, NEW s \in Seq(S), NoRepetition(s), NEW k \in 1 .. Len(s)
  PROVE  /\ ToFront(s, s[k]) \in Seq(S)
         /\ Len(ToFront(s, s[k])) = Len(s)
         /\ \A i \in 1 .. Len(s) : /\ From(k, i) \in 1 .. Len(s)
                                  /\ ToFront(s, s[k])[i] = s[From(k, i)]
         /\ \A i \in 1 .. Len(s) : /\ To(k, i) \in 1 .. Len(s)
                                  /\ From(k, To(k, i)) = i
         /\ NoRepetition(ToFront(s, s[k]))
<1>0. /\ Without(s, s[k]) \in Seq(S)
      /\ Len(Without(s, s[k])) = Len(s) - 1
      /\ \A i \in 1 .. Len(s) - 1 :
           Without(s, s[k])[i] = IF i < k THEN s[i] ELSE s[i + 1]
      /\ NoRepetition(Without(s, s[k]))
  BY WithoutMember, Zenon
<1> DEFINE w == Without(s, s[k])
<1>1. /\ w \in Seq(S) /\ Len(w) = Len(s) - 1 /\ NoRepetition(w)
      /\ \A i \in 1 .. Len(s) - 1 : w[i] = IF i < k THEN s[i] ELSE s[i + 1]
  BY <1>0
<1>2. \A i \in 1 .. Len(w) : w[i] # s[k]
  BY <1>1 DEF NoRepetition
<1>3. s[k] \in S
  OBVIOUS
<1> HIDE DEF w
<1>4. /\ PushFront(w, s[k]) \in Seq(S)
      /\ Len(PushFront(w, s[k])) = Len(s)
      /\ PushFront(w, s[k])[1] = s[k]
      /\ \A i \in 2 .. Len(s) : PushFront(w, s[k])[i] = w[i - 1]
      /\ NoRepetition(PushFront(w, s[k]))
  <2>1. w \in Seq(S) /\ NoRepetition(w)
    BY <1>1
  <2>2. /\ PushFront(w, s[k]) \in Seq(S)
        /\ Len(PushFront(w, s[k])) = Len(w) + 1
        /\ PushFront(w, s[k])[1] = s[k]
        /\ \A i \in 2 .. Len(w) + 1 : PushFront(w, s[k])[i] = w[i - 1]
        /\ NoRepetition(PushFront(w, s[k]))
    BY <1>2, <1>3, <2>1, PushFrontNew, Zenon
  <2>3. Len(w) + 1 = Len(s)
    BY <1>1
  <2> QED BY <2>2, <2>3
<1>5. ToFront(s, s[k]) = PushFront(w, s[k])
  BY DEF ToFront, w
<1>6. \A i \in 2 .. Len(s) : w[i - 1] = s[From(k, i)]
  BY <1>1 DEF From
<1>7. \A i \in 1 .. Len(s) : PushFront(w, s[k])[i] = s[From(k, i)]
  BY <1>4, <1>6 DEF From
<1>8. \A i \in 1 .. Len(s) : /\ From(k, i) \in 1 .. Len(s)
                             /\ To(k, i) \in 1 .. Len(s)
                             /\ From(k, To(k, i)) = i
  BY DEF From, To
<1> QED BY <1>4, <1>5, <1>7, <1>8
-----------------------------------------------------------------------------
(***************************************************************************)
(* The inductive invariant.  A step that serves a page from the cache must  *)
(* find its frame (CacheCoherent), and the promise to the holder of a       *)
(* pointer rests on what the list of the cache says of the past: a page     *)
(* further back was asked for before every page in front of it, and a page  *)
(* that was evicted was asked for before BUFFER_MAX others.                 *)
(***************************************************************************)
RecencyOrder ==
  \A i, j \in 1 .. Len(pages) : i < j => PageOf(pages[i]) \in since[PageOf(pages[j])]

EvictedLongAgo ==
  \A x \in PageIds : InUse(x) /\ x \notin Cached => Cardinality(since[x]) >= BUFFER_MAX

HandleCurrent == \A x \in Cached : handle[x] = buffer_map[x]

FiniteHistory == \A x \in PageIds : IsFiniteSet(since[x])

StoppedHasNoFiles == phase \in {"down", "crashed"} => open = {}

IInv ==
  /\ TypeOK
  /\ CacheCoherent
  /\ CloseReachesEveryPage
  /\ RecencyOrder
  /\ EvictedLongAgo
  /\ HandleCurrent
  /\ FiniteHistory
  /\ StoppedHasNoFiles

\* The invariant gives the promise to the holder of a pointer.
LEMMA InvariantGivesPointers == IInv => PointerStaysGood
<1> SUFFICES ASSUME IInv, NEW x \in PageIds, InUse(x), UsedSoon(x)
             PROVE  x \in Cached /\ buffer_map[x] = handle[x]
  BY DEF PointerStaysGood
<1>1. Cardinality(since[x]) \in Nat
  BY FS_CardinalityType DEF IInv, FiniteHistory
<1>2. x \in Cached
  BY <1>1, BufferMaxAssumption DEF IInv, EvictedLongAgo, UsedSoon
<1> QED BY <1>2 DEF IInv, HandleCurrent

\* The invariant holds of an empty cache.
LEMMA InitInvariant == Init => IInv
<1> SUFFICES ASSUME Init PROVE IInv
  OBVIOUS
<1>1. pages = << >> /\ Len(pages) = 0 /\ Cached = {}
  BY DEF Init, Cached
<1>2. TypeOK
  BY <1>1 DEF Init, TypeOK, PageIds
<1>3. CacheCoherent
  BY <1>1, BufferMaxAssumption DEF Init, CacheCoherent, Frames
<1>4. CloseReachesEveryPage /\ RecencyOrder /\ HandleCurrent
  BY <1>1 DEF CloseReachesEveryPage, RecencyOrder, HandleCurrent
<1>5. EvictedLongAgo
  BY DEF Init, EvictedLongAgo, InUse
<1>6. FiniteHistory
  BY FS_EmptySet DEF Init, FiniteHistory
<1>7. StoppedHasNoFiles
  BY DEF Init, StoppedHasNoFiles
<1> QED BY <1>2, <1>3, <1>4, <1>5, <1>6, <1>7 DEF IInv

\* What get_page does besides finding or allocating the frame.
Requested(x) ==
  /\ x \in PageIds
  /\ phase = "up" /\ closing = Nil /\ x[1] \in open
  /\ used_pages' = [used_pages EXCEPT ![x[1]] = @ \cup {x[2]}]
  /\ since' = [y \in PageIds |-> IF y # x /\ InUse(y) THEN since[y] \cup {x} ELSE {}]
  /\ UNCHANGED <<open, closing, phase>>

\* A request is a hit, or fills a new frame or a recycled one.
LEMMA GetPageCases ==
  ASSUME NEW x \in PageIds, GetPage(x)
  PROVE  /\ Requested(x)
         /\ \/ Hit(x)
            \/ x \notin Cached /\ (AllocNew(x) \/ AllocEvict(x))
BY DEF GetPage, get_page, Requested, Hit

\* A request keeps the history and the pages in use.
LEMMA RequestHistory ==
  ASSUME IInv, NEW x, Requested(x)
  PROVE  /\ since' \in [PageIds -> SUBSET PageIds]
         /\ used_pages' \in [Files -> SUBSET PAGES]
         /\ FiniteHistory'
         /\ StoppedHasNoFiles'
         /\ InUse(x)'
         /\ \A y \in PageIds : y # x => (InUse(y)' <=> InUse(y))
         /\ since'[x] = {}
         /\ \A y \in PageIds : y # x /\ InUse(y) => since'[y] = since[y] \cup {x}
<1> USE DEF IInv, TypeOK, Requested, PageIds
<1>1. since' \in [PageIds -> SUBSET PageIds] /\ used_pages' \in [Files -> SUBSET PAGES]
  OBVIOUS
<1>2. FiniteHistory'
  BY FS_EmptySet, FS_AddElement DEF FiniteHistory
<1>3. InUse(x)' /\ \A y \in PageIds : y # x => (InUse(y)' <=> InUse(y))
  BY DEF InUse
<1>4. StoppedHasNoFiles'
  BY DEF StoppedHasNoFiles
<1> QED BY <1>1, <1>2, <1>3, <1>4

\* A page that was evicted stays so old.
LEMMA HistoryGrows ==
  ASSUME IInv, NEW x, Requested(x), NEW y \in PageIds, InUse(y)', y \notin Cached, y # x
  PROVE  Cardinality(since'[y]) >= BUFFER_MAX
<1>1. InUse(y) /\ since'[y] = since[y] \cup {x}
  BY RequestHistory
<1>2. IsFiniteSet(since[y]) /\ Cardinality(since[y]) >= BUFFER_MAX
  BY <1>1 DEF IInv, FiniteHistory, EvictedLongAgo
<1> DEFINE S == since[y]
           T == since[y] \cup {x}
<1>3. Cardinality(S) \in Nat
  BY <1>2, FS_CardinalityType
<1>4. Cardinality(T) = IF x \in S THEN Cardinality(S) ELSE Cardinality(S) + 1
  BY <1>2, FS_AddElement
<1>5. since'[y] = T /\ Cardinality(S) >= BUFFER_MAX
  BY <1>1, <1>2
<1> HIDE DEF S, T
<1> QED BY <1>3, <1>4, <1>5, BufferMaxAssumption

\* A page found in the cache: only the order of the list changes.
LEMMA HitInvariant ==
  ASSUME IInv, NEW x, Requested(x), Hit(x)
  PROVE  IInv'
<1>1. PICK k \in 1 .. Len(pages) : pages[k] = buffer_map[x]
  BY DEF Hit, IInv, CacheCoherent
<1>2. pages \in Seq(Frames) /\ NoRepetition(pages)
  BY DEF IInv, TypeOK, CacheCoherent, NoRepetition
<1>3. pages' = ToFront(pages, pages[k])
  BY <1>1 DEF Hit
<1>4. /\ pages' \in Seq(Frames) /\ Len(pages') = Len(pages) /\ NoRepetition(pages')
      /\ \A i \in 1 .. Len(pages) : From(k, i) \in 1 .. Len(pages)
                                   /\ pages'[i] = pages[From(k, i)]
      /\ \A i \in 1 .. Len(pages) : To(k, i) \in 1 .. Len(pages)
                                   /\ From(k, To(k, i)) = i
  <2>1. /\ ToFront(pages, pages[k]) \in Seq(Frames)
        /\ Len(ToFront(pages, pages[k])) = Len(pages)
        /\ NoRepetition(ToFront(pages, pages[k]))
    BY <1>2, ToFrontMember
  <2>2. \A i \in 1 .. Len(pages) : /\ From(k, i) \in 1 .. Len(pages)
                                  /\ ToFront(pages, pages[k])[i] = pages[From(k, i)]
    BY <1>2, ToFrontMember
  <2>3. \A i \in 1 .. Len(pages) : To(k, i) \in 1 .. Len(pages) /\ From(k, To(k, i)) = i
    BY <1>2, ToFrontMember
  <2> QED BY <1>3, <2>1, <2>2, <2>3
<1>5. \A i \in 1 .. Len(pages) : To(k, i) \in 1 .. Len(pages') /\ pages'[To(k, i)] = pages[i]
  BY <1>4
<1>6. /\ frame' = frame /\ buffer_map' = buffer_map /\ disk' = disk
      /\ handle' = [handle EXCEPT ![x] = buffer_map[x]] /\ x \in Cached
  BY DEF Hit
<1>7. TypeOK'
  <2>1. buffer_map[x] \in Frames
    BY <1>6 DEF IInv, TypeOK
  <2>2. handle' \in [PageIds -> Frames \cup {Nil}]
    BY <1>6, <2>1 DEF IInv, TypeOK
  <2>3. since' \in [PageIds -> SUBSET PageIds] /\ used_pages' \in [Files -> SUBSET PAGES]
    BY RequestHistory
  <2> QED BY <1>4, <1>6, <2>2, <2>3 DEF IInv, TypeOK, Requested, Cached
<1>8. CacheCoherent'
  <2>1. Len(pages') <= BUFFER_MAX
    BY <1>4 DEF IInv, CacheCoherent
  <2>2. \A i, j \in 1 .. Len(pages') : pages'[i] = pages'[j] => i = j
    BY <1>4 DEF NoRepetition
  <2>3. \A i \in 1 .. Len(pages') : /\ frame'[pages'[i]] # Nil
                                   /\ PageOf(pages[i])' \in Cached'
                                   /\ buffer_map'[PageOf(pages[i])'] = pages'[i]
    <3> TAKE i \in 1 .. Len(pages')
    <3> DEFINE g == pages[From(k, i)]
    <3>1. PageOf(pages[i])' = PageOf(g)
      BY <1>4, <1>6 DEF PageOf
    <3>2. From(k, i) \in 1 .. Len(pages) /\ pages'[i] = g /\ pages[i]' = g
      BY <1>4
    <3>3. frame[g] # Nil /\ PageOf(g) \in Cached /\ buffer_map[PageOf(g)] = g
      BY <3>2 DEF IInv, CacheCoherent
    <3>4. Cached' = Cached
      BY <1>6 DEF Cached
    <3> HIDE DEF g
    <3> QED BY <1>6, <3>1, <3>2, <3>3, <3>4
  <2>4. ASSUME NEW y \in Cached'
        PROVE  /\ \E i \in 1 .. Len(pages') : pages'[i] = buffer_map'[y]
               /\ PageOf(buffer_map[y])' = y
    <3>1. y \in Cached /\ buffer_map'[y] = buffer_map[y]
      BY <1>6 DEF Cached
    <3>2. PageOf(buffer_map[y])' = PageOf(buffer_map[y])
      BY <1>6 DEF PageOf
    <3>3. PageOf(buffer_map[y]) = y /\ \E i \in 1 .. Len(pages) : pages[i] = buffer_map[y]
      BY <3>1 DEF IInv, CacheCoherent
    <3> QED BY <1>5, <3>1, <3>2, <3>3
  <2>5. \A g \in Frames : frame'[g] # Nil => \E i \in 1 .. Len(pages') : pages'[i] = g
    BY <1>5, <1>6 DEF IInv, CacheCoherent
  <2> QED BY <2>1, <2>2, <2>3, <2>4, <2>5 DEF CacheCoherent
<1>9. CloseReachesEveryPage'
  BY <1>6, RequestHistory DEF IInv, TypeOK, CloseReachesEveryPage, Cached
<1>10. RecencyOrder'
  <2> SUFFICES ASSUME NEW i \in 1 .. Len(pages'), NEW j \in 1 .. Len(pages'), i < j
               PROVE  PageOf(pages[i])' \in since'[PageOf(pages[j])']
    BY DEF RecencyOrder
  <2> DEFINE a == From(k, i)
             b == From(k, j)
             v == PageOf(pages[b])
  <2>1. a \in 1 .. Len(pages) /\ b \in 1 .. Len(pages)
    BY <1>4
  <2>2. b # k /\ (a = k \/ a < b)
    <3>1. i \in 1 .. Len(pages) /\ j \in 1 .. Len(pages) /\ i < j /\ k \in 1 .. Len(pages)
      BY <1>4
    <3> QED BY <3>1 DEF From
  <2>3. PageOf(pages[i])' = PageOf(pages[a]) /\ PageOf(pages[j])' = v
    BY <1>4, <1>6 DEF PageOf
  <2>4. PageOf(pages[k]) = x
    BY <1>1, <1>6 DEF IInv, CacheCoherent
  <2>5. pages[b] # pages[k]
    BY <1>2, <2>1, <2>2 DEF NoRepetition
  <2>6. v \in Cached /\ buffer_map[v] = pages[b]
    BY <2>1 DEF IInv, CacheCoherent
  <2>7. v # x
    BY <1>1, <2>5, <2>6
  <2>8. v \in PageIds /\ InUse(v)
    BY <2>6 DEF IInv, TypeOK, CloseReachesEveryPage
  <2>9. since'[v] = since[v] \cup {x}
    BY <2>7, <2>8, RequestHistory
  <2>10. CASE a = k
    BY <2>3, <2>4, <2>9, <2>10
  <2>11. CASE a < b
    BY <2>1, <2>3, <2>9, <2>11 DEF IInv, RecencyOrder
  <2> QED BY <2>2, <2>10, <2>11
<1>11. EvictedLongAgo'
  BY <1>6, HistoryGrows DEF EvictedLongAgo, Cached
<1>12. HandleCurrent'
  BY <1>6 DEF IInv, TypeOK, HandleCurrent, Cached
<1>13. FiniteHistory' /\ StoppedHasNoFiles'
  BY RequestHistory
<1> QED BY <1>7, <1>8, <1>9, <1>10, <1>11, <1>12, <1>13 DEF IInv

\* A page read into a new frame.
LEMMA AllocNewInvariant ==
  ASSUME IInv, NEW x, Requested(x), x \notin Cached, AllocNew(x)
  PROVE  IInv'
<1>1. PICK fr \in Frames : /\ frame[fr] = Nil
                          /\ disk' = disk /\ read_page(x, fr)
                          /\ pages' = PushFront(pages, fr)
                          /\ buffer_map' = WithKey(buffer_map, x, fr)
                          /\ handle' = [handle EXCEPT ![x] = fr]
  BY DEF AllocNew, Unused
<1>2. PICK data \in Values :
        frame' = [frame EXCEPT ![fr] = [file |-> x[1], page |-> x[2],
                                        dirty |-> FALSE, data |-> data]]
  BY <1>1 DEF read_page
<1>3. x \in PageIds /\ x = <<x[1], x[2]>> /\ x[1] \in Files /\ x[2] \in PAGES
  BY DEF Requested, PageIds
<1>4. pages \in Seq(Frames) /\ NoRepetition(pages) /\ Len(pages) < BUFFER_MAX
  BY DEF IInv, TypeOK, CacheCoherent, NoRepetition, AllocNew
<1>5. \A i \in 1 .. Len(pages) : pages[i] # fr /\ pages[i] \in Frames
  BY <1>1, <1>4 DEF IInv, CacheCoherent
<1>6. /\ pages' \in Seq(Frames) /\ Len(pages') = Len(pages) + 1 /\ NoRepetition(pages')
      /\ pages'[1] = fr
      /\ \A i \in 2 .. Len(pages) + 1 : pages'[i] = pages[i - 1]
  <2>1. fr \in Frames /\ pages' = PushFront(pages, fr)
    BY <1>1
  <2>2. pages \in Seq(Frames) /\ NoRepetition(pages)
    BY <1>4
  <2>3. \A i \in 1 .. Len(pages) : pages[i] # fr
    BY <1>5
  <2>4. /\ PushFront(pages, fr) \in Seq(Frames)
        /\ Len(PushFront(pages, fr)) = Len(pages) + 1
        /\ PushFront(pages, fr)[1] = fr
        /\ \A i \in 2 .. Len(pages) + 1 : PushFront(pages, fr)[i] = pages[i - 1]
        /\ NoRepetition(PushFront(pages, fr))
    BY <2>1, <2>2, <2>3, PushFrontNew, Zenon
  <2> QED BY <2>1, <2>4
<1>7. \A g \in Frames : g # fr => frame'[g] = frame[g]
  BY <1>2 DEF IInv, TypeOK
<1>8. /\ frame' \in [Frames -> BufferPage \cup {Nil}]
      /\ frame'[fr] \in BufferPage /\ PageOf(fr)' = x
  BY <1>2, <1>3 DEF IInv, TypeOK, BufferPage, PageOf
<1>9. /\ Cached' = Cached \cup {x} /\ buffer_map'[x] = fr
      /\ \A y \in Cached : buffer_map'[y] = buffer_map[y]
      /\ buffer_map' \in [Cached' -> Frames]
  BY <1>1 DEF WithKey, Cached, IInv, TypeOK
<1>10. \A i \in 2 .. Len(pages') : PageOf(pages[i])' = PageOf(pages[i - 1])
  BY <1>4, <1>5, <1>6, <1>7 DEF PageOf
<1>11. TypeOK'
  <2>1. handle' \in [PageIds -> Frames \cup {Nil}]
    BY <1>1, <1>3 DEF IInv, TypeOK
  <2>2. since' \in [PageIds -> SUBSET PageIds] /\ used_pages' \in [Files -> SUBSET PAGES]
    BY RequestHistory
  <2>3. Cached' \subseteq PageIds
    BY <1>3, <1>9 DEF IInv, TypeOK
  <2> QED BY <1>1, <1>6, <1>8, <1>9, <2>1, <2>2, <2>3 DEF IInv, TypeOK, Requested
<1>12. CacheCoherent'
  <2>1. Len(pages') <= BUFFER_MAX
    BY <1>4, <1>6, BufferMaxAssumption
  <2>2. \A i, j \in 1 .. Len(pages') : pages'[i] = pages'[j] => i = j
    BY <1>6 DEF NoRepetition
  <2>3. \A i \in 1 .. Len(pages') : /\ frame'[pages'[i]] # Nil
                                   /\ PageOf(pages[i])' \in Cached'
                                   /\ buffer_map'[PageOf(pages[i])'] = pages'[i]
    <3> TAKE i \in 1 .. Len(pages')
    <3>1. CASE i = 1
      <4>1. PageOf(pages[i])' = x /\ pages'[i] = fr
        BY <1>6, <1>8, <3>1 DEF PageOf
      <4> QED BY <1>8, <1>9, <4>1, NilAssumption
    <3>2. CASE i > 1
      <4>1. i - 1 \in 1 .. Len(pages) /\ i \in 2 .. Len(pages')
        BY <1>4, <1>6, <3>2
      <4>2. pages'[i] = pages[i - 1] /\ PageOf(pages[i])' = PageOf(pages[i - 1])
        BY <1>6, <1>10, <4>1
      <4>3. frame'[pages'[i]] = frame[pages[i - 1]]
        BY <1>5, <1>7, <4>1, <4>2
      <4> QED BY <1>9, <4>1, <4>2, <4>3 DEF IInv, CacheCoherent
    <3> QED BY <1>6, <3>1, <3>2
  <2>4. \A i \in 1 .. Len(pages) : i + 1 \in 1 .. Len(pages') /\ pages'[i + 1] = pages[i]
    <3> TAKE i \in 1 .. Len(pages)
    <3>1. i + 1 \in 2 .. Len(pages) + 1 /\ (i + 1) - 1 = i /\ i + 1 \in 1 .. Len(pages')
      BY <1>4, <1>6
    <3>2. pages'[i + 1] = pages[(i + 1) - 1]
      BY <1>6, <3>1
    <3> QED BY <3>1, <3>2
  <2>5. \A y \in Cached' : /\ \E i \in 1 .. Len(pages') : pages'[i] = buffer_map'[y]
                          /\ PageOf(buffer_map[y])' = y
    <3> TAKE y \in Cached'
    <3>1. CASE y = x
      BY <1>6, <1>8, <1>9, <3>1, 1 \in 1 .. Len(pages') DEF PageOf
    <3>2. CASE y # x
      <4>1. y \in Cached /\ buffer_map'[y] = buffer_map[y]
        BY <1>9, <3>2
      <4>2. PICK i \in 1 .. Len(pages) : pages[i] = buffer_map[y]
        BY <4>1 DEF IInv, CacheCoherent
      <4>3. PageOf(buffer_map[y])' = PageOf(buffer_map[y])
        BY <1>5, <1>7, <4>1, <4>2 DEF PageOf
      <4> QED BY <2>4, <4>1, <4>2, <4>3 DEF IInv, CacheCoherent
    <3> QED BY <3>1, <3>2
  <2>6. \A g \in Frames : frame'[g] # Nil => \E i \in 1 .. Len(pages') : pages'[i] = g
    <3> TAKE g \in Frames
    <3>1. CASE g = fr
      BY <1>4, <1>6, <3>1, 1 \in 1 .. Len(pages')
    <3>2. CASE g # fr
      <4>1. frame'[g] = frame[g]
        BY <1>7, <3>2
      <4>2. frame[g] # Nil => \E i \in 1 .. Len(pages) : pages[i] = g
        BY DEF IInv, CacheCoherent
      <4> QED BY <2>4, <4>1, <4>2
    <3> QED BY <3>1, <3>2
  <2> QED BY <2>1, <2>2, <2>3, <2>5, <2>6 DEF CacheCoherent
<1>13. CloseReachesEveryPage'
  BY <1>9, RequestHistory DEF IInv, TypeOK, CloseReachesEveryPage
<1>14. RecencyOrder'
  <2> SUFFICES ASSUME NEW i \in 1 .. Len(pages'), NEW j \in 1 .. Len(pages'), i < j
               PROVE  PageOf(pages[i])' \in since'[PageOf(pages[j])']
    BY DEF RecencyOrder
  <2> DEFINE v == PageOf(pages[j - 1])
  <2>1. j - 1 \in 1 .. Len(pages) /\ j \in 2 .. Len(pages')
    BY <1>4, <1>6
  <2>2. v \in Cached /\ PageOf(pages[j])' = v
    BY <1>10, <2>1 DEF IInv, CacheCoherent
  <2>3. since'[v] = since[v] \cup {x}
    BY <2>2, RequestHistory DEF IInv, TypeOK, CloseReachesEveryPage
  <2>4. CASE i = 1
    <3>1. PageOf(pages[i])' = x
      BY <1>6, <1>8, <2>4 DEF PageOf
    <3> QED BY <2>2, <2>3, <3>1
  <2>5. CASE i > 1
    <3>1. i - 1 \in 1 .. Len(pages) /\ i \in 2 .. Len(pages') /\ i - 1 < j - 1
      BY <1>4, <1>6, <2>5
    <3>2. PageOf(pages[i])' = PageOf(pages[i - 1])
      BY <1>10, <3>1
    <3> QED BY <2>1, <2>2, <2>3, <3>1, <3>2 DEF IInv, RecencyOrder
  <2> QED BY <1>6, <2>4, <2>5
<1>15. EvictedLongAgo'
  BY <1>9, HistoryGrows DEF EvictedLongAgo
<1>16. HandleCurrent'
  BY <1>1, <1>3, <1>9 DEF IInv, TypeOK, HandleCurrent
<1>17. FiniteHistory' /\ StoppedHasNoFiles'
  BY RequestHistory
<1> QED BY <1>11, <1>12, <1>13, <1>14, <1>15, <1>16, <1>17 DEF IInv

\* A page read into the frame of the least recently used page.
LEMMA AllocEvictInvariant ==
  ASSUME IInv, NEW x, Requested(x), x \notin Cached, AllocEvict(x)
  PROVE  IInv'
<1> DEFINE k  == Len(pages)
           fr == pages[k]
           v  == PageOf(fr)
<1>1. pages \in Seq(Frames) /\ NoRepetition(pages) /\ Len(pages) = BUFFER_MAX
  BY DEF IInv, TypeOK, CacheCoherent, NoRepetition, AllocEvict
<1>2. k \in 1 .. Len(pages) /\ fr \in Frames
  BY <1>1, BufferMaxAssumption
<1>3. /\ read_page(x, fr)
      /\ pages' = ToFront(pages, pages[k])
      /\ buffer_map' = WithKey(WithoutKey(buffer_map, v), x, fr)
      /\ handle' = [handle EXCEPT ![x] = fr]
  BY DEF AllocEvict
<1>4. PICK data \in Values :
        frame' = [frame EXCEPT ![fr] = [file |-> x[1], page |-> x[2],
                                        dirty |-> FALSE, data |-> data]]
  BY <1>3 DEF read_page
<1>5. x \in PageIds /\ x = <<x[1], x[2]>> /\ x[1] \in Files /\ x[2] \in PAGES
  BY DEF Requested, PageIds
<1>6. v \in Cached /\ buffer_map[v] = fr /\ v # x /\ frame[fr] \in BufferPage
  BY <1>2 DEF IInv, CacheCoherent, TypeOK
<1>7. /\ pages' \in Seq(Frames) /\ Len(pages') = Len(pages) /\ NoRepetition(pages')
      /\ pages'[1] = fr
      /\ \A i \in 2 .. Len(pages) : i - 1 \in 1 .. Len(pages) /\ pages'[i] = pages[i - 1]
  <2>1. /\ ToFront(pages, pages[k]) \in Seq(Frames)
        /\ Len(ToFront(pages, pages[k])) = Len(pages)
        /\ NoRepetition(ToFront(pages, pages[k]))
    <3> HIDE DEF k
    <3> QED BY <1>1, <1>2, ToFrontMember
  <2>2. \A i \in 1 .. Len(pages) : /\ From(k, i) \in 1 .. Len(pages)
                                  /\ ToFront(pages, pages[k])[i] = pages[From(k, i)]
    <3>1. pages \in Seq(Frames) /\ NoRepetition(pages)
      BY <1>1
    <3> HIDE DEF k
    <3> QED BY <1>2, <3>1, ToFrontMember
  <2>3. From(k, 1) = k /\ \A i \in 2 .. Len(pages) : From(k, i) = i - 1
    BY <1>1 DEF From
  <2>4. ToFront(pages, pages[k])[1] = fr
    BY <1>2, <2>2, <2>3, 1 \in 1 .. Len(pages)
  <2>5. \A i \in 2 .. Len(pages) : /\ i - 1 \in 1 .. Len(pages)
                                  /\ ToFront(pages, pages[k])[i] = pages[i - 1]
    BY <1>1, <2>2, <2>3
  <2> QED BY <1>3, <2>1, <2>4, <2>5
<1>8. \A g \in Frames : g # fr => frame'[g] = frame[g]
  BY <1>4 DEF IInv, TypeOK
<1>9. /\ frame' \in [Frames -> BufferPage \cup {Nil}]
      /\ frame'[fr] \in BufferPage /\ <<frame'[fr].file, frame'[fr].page>> = x
  BY <1>2, <1>4, <1>5 DEF IInv, TypeOK, BufferPage
<1>10. /\ Cached' = (Cached \ {v}) \cup {x} /\ buffer_map'[x] = fr
       /\ \A y \in Cached \ {v} : buffer_map'[y] = buffer_map[y]
       /\ buffer_map' \in [Cached' -> Frames]
  BY <1>2, <1>3 DEF WithKey, WithoutKey, Cached, IInv, TypeOK
<1>11. \A i \in 2 .. Len(pages) : pages[i - 1] # fr /\ pages[i - 1] \in Frames
  BY <1>1, <1>2, <1>7 DEF NoRepetition
<1>12. \A i \in 2 .. Len(pages) : /\ PageOf(pages[i])' = PageOf(pages[i - 1])
                                  /\ PageOf(pages[i - 1]) \in Cached \ {v}
                                  /\ buffer_map[PageOf(pages[i - 1])] = pages[i - 1]
  <2> TAKE i \in 2 .. Len(pages)
  <2>1. PageOf(pages[i])' = PageOf(pages[i - 1])
    BY <1>7, <1>8, <1>11 DEF PageOf
  <2>2. /\ PageOf(pages[i - 1]) \in Cached
        /\ buffer_map[PageOf(pages[i - 1])] = pages[i - 1]
    BY <1>7 DEF IInv, CacheCoherent
  <2>3. PageOf(pages[i - 1]) # v
    BY <1>6, <1>11, <2>2
  <2> QED BY <2>1, <2>2, <2>3
<1>13. PageOf(pages[1])' = x
  BY <1>7, <1>9 DEF PageOf
<1>14. TypeOK'
  <2>1. handle' \in [PageIds -> Frames \cup {Nil}]
    BY <1>2, <1>3, <1>5 DEF IInv, TypeOK
  <2>2. since' \in [PageIds -> SUBSET PageIds] /\ used_pages' \in [Files -> SUBSET PAGES]
    BY RequestHistory
  <2>3. Cached' \subseteq PageIds
    BY <1>5, <1>10 DEF IInv, TypeOK
  <2>4. disk' \in [PageIds -> Values \cup {Absent}]
    <3>1. frame[fr].data \in Values /\ <<x[1], frame[fr].page>> \in PageIds
      BY <1>5, <1>6 DEF BufferPage, PageIds
    <3> QED BY <3>1 DEF AllocEvict, IInv, TypeOK
  <2> QED BY <1>7, <1>9, <1>10, <2>1, <2>2, <2>3, <2>4 DEF IInv, TypeOK, Requested
<1>15. CacheCoherent'
  <2>1. Len(pages') <= BUFFER_MAX
    BY <1>1, <1>7, BufferMaxAssumption
  <2>2. \A i, j \in 1 .. Len(pages') : pages'[i] = pages'[j] => i = j
    BY <1>7 DEF NoRepetition
  <2>3. \A i \in 1 .. Len(pages') : /\ frame'[pages'[i]] # Nil
                                   /\ PageOf(pages[i])' \in Cached'
                                   /\ buffer_map'[PageOf(pages[i])'] = pages'[i]
    <3> TAKE i \in 1 .. Len(pages')
    <3>1. CASE i = 1
      BY <1>7, <1>9, <1>10, <1>13, <3>1, NilAssumption
    <3>2. CASE i > 1
      <4>1. i \in 2 .. Len(pages)
        BY <1>1, <1>7, <3>2
      <4>2. pages'[i] = pages[i - 1] /\ frame'[pages'[i]] = frame[pages[i - 1]]
        BY <1>7, <1>8, <1>11, <4>1
      <4>3. frame[pages[i - 1]] # Nil
        BY <1>7, <4>1 DEF IInv, CacheCoherent
      <4> QED BY <1>10, <1>12, <4>1, <4>2, <4>3
    <3> QED BY <1>7, <3>1, <3>2
  <2>4. \A i \in 1 .. Len(pages) : pages[i] # fr =>
          i + 1 \in 1 .. Len(pages') /\ pages'[i + 1] = pages[i]
    <3> TAKE i \in 1 .. Len(pages)
    <3> HAVE pages[i] # fr
    <3>1. i + 1 \in 2 .. Len(pages) /\ (i + 1) - 1 = i
      BY <1>1
    <3> QED BY <1>1, <1>7, <3>1
  <2>5. \A y \in Cached' : /\ \E i \in 1 .. Len(pages') : pages'[i] = buffer_map'[y]
                          /\ PageOf(buffer_map[y])' = y
    <3> TAKE y \in Cached'
    <3>1. CASE y = x
      BY <1>1, <1>2, <1>7, <1>9, <1>10, <3>1, 1 \in 1 .. Len(pages') DEF PageOf
    <3>2. CASE y # x
      <4>1. y \in Cached \ {v} /\ buffer_map'[y] = buffer_map[y]
        BY <1>10, <3>2
      <4>2. PICK i \in 1 .. Len(pages) : pages[i] = buffer_map[y]
        BY <4>1 DEF IInv, CacheCoherent
      <4>3. PageOf(buffer_map[y]) = y
        BY <4>1 DEF IInv, CacheCoherent
      <4>4. buffer_map[y] # fr /\ buffer_map[y] \in Frames
        BY <4>1, <4>3 DEF IInv, TypeOK
      <4>5. PageOf(buffer_map[y])' = y
        BY <1>8, <4>1, <4>3, <4>4 DEF PageOf
      <4> QED BY <2>4, <4>1, <4>2, <4>4, <4>5
    <3> QED BY <3>1, <3>2
  <2>6. \A g \in Frames : frame'[g] # Nil => \E i \in 1 .. Len(pages') : pages'[i] = g
    <3> TAKE g \in Frames
    <3>1. CASE g = fr
      BY <1>1, <1>2, <1>7, <3>1, 1 \in 1 .. Len(pages')
    <3>2. CASE g # fr
      BY <1>8, <2>4, <3>2 DEF IInv, CacheCoherent
    <3> QED BY <3>1, <3>2
  <2> QED BY <2>1, <2>2, <2>3, <2>5, <2>6 DEF CacheCoherent
<1>16. CloseReachesEveryPage'
  BY <1>10, RequestHistory DEF IInv, TypeOK, CloseReachesEveryPage
<1>17. RecencyOrder'
  <2> SUFFICES ASSUME NEW i \in 1 .. Len(pages'), NEW j \in 1 .. Len(pages'), i < j
               PROVE  PageOf(pages[i])' \in since'[PageOf(pages[j])']
    BY DEF RecencyOrder
  <2> DEFINE u == PageOf(pages[j - 1])
  <2>1. j \in 2 .. Len(pages)
    BY <1>1, <1>7
  <2>2. u \in Cached /\ PageOf(pages[j])' = u
    BY <1>12, <2>1
  <2>3. since'[u] = since[u] \cup {x}
    BY <2>2, RequestHistory DEF IInv, TypeOK, CloseReachesEveryPage
  <2>4. CASE i = 1
    BY <1>13, <2>2, <2>3, <2>4
  <2>5. CASE i > 1
    <3>1. i \in 2 .. Len(pages) /\ i - 1 < j - 1
      BY <1>1, <1>7, <2>5
    <3>2. i - 1 \in 1 .. Len(pages) /\ j - 1 \in 1 .. Len(pages)
      BY <1>7, <2>1, <3>1
    <3>3. PageOf(pages[i])' = PageOf(pages[i - 1])
      BY <1>12, <3>1
    <3> QED BY <2>2, <2>3, <3>1, <3>2, <3>3 DEF IInv, RecencyOrder
  <2> QED BY <1>7, <2>4, <2>5
<1>18. EvictedLongAgo'
  <2> SUFFICES ASSUME NEW y \in PageIds, InUse(y)', y \notin Cached'
               PROVE  Cardinality(since'[y]) >= BUFFER_MAX
    BY DEF EvictedLongAgo
  <2>1. y # x
    BY <1>10
  <2>2. CASE y \notin Cached
    BY <2>1, <2>2, HistoryGrows
  <2>3. CASE y \in Cached
    <3>1. y = v /\ since'[v] = since[v] \cup {x}
      BY <1>10, <2>1, <2>3, RequestHistory
    <3> DEFINE f == [i \in 1 .. BUFFER_MAX |-> IF i = BUFFER_MAX THEN x ELSE PageOf(pages[i])]
    <3>2. \A i \in 1 .. BUFFER_MAX : f[i] \in since'[v]
      BY <1>1, <1>2, <3>1 DEF IInv, RecencyOrder
    <3>3. \A i, j \in 1 .. BUFFER_MAX : f[i] = f[j] => i = j
      <4>1. \A i \in 1 .. BUFFER_MAX : /\ PageOf(pages[i]) # x
                                     /\ buffer_map[PageOf(pages[i])] = pages[i]
        BY <1>1 DEF IInv, CacheCoherent
      <4>2. \A i, j \in 1 .. BUFFER_MAX : PageOf(pages[i]) = PageOf(pages[j]) => i = j
        BY <1>1, <4>1 DEF NoRepetition
      <4> QED BY <4>1, <4>2
    <3>4. f \in Injection(1 .. BUFFER_MAX, since'[v])
      BY <3>2, <3>3, Fun_IsInj
    <3>5. IsFiniteSet(since'[v])
      BY <3>1, RequestHistory DEF FiniteHistory
    <3>6. Cardinality(1 .. BUFFER_MAX) = BUFFER_MAX
      BY FS_Interval, BufferMaxAssumption
    <3>7. Cardinality(1 .. BUFFER_MAX) <= Cardinality(since'[v])
      BY <3>4, <3>5, FS_Injection
    <3>8. Cardinality(since'[v]) \in Nat
      BY <3>5, FS_CardinalityType
    <3> QED BY <3>1, <3>6, <3>7, <3>8, BufferMaxAssumption
  <2> QED BY <2>2, <2>3
<1>19. HandleCurrent'
  BY <1>3, <1>5, <1>10 DEF IInv, TypeOK, HandleCurrent
<1>20. FiniteHistory' /\ StoppedHasNoFiles'
  BY RequestHistory
<1> QED BY <1>14, <1>15, <1>16, <1>17, <1>18, <1>19, <1>20 DEF IInv

\* A page taken out of the cache while its file is closed.
LEMMA CloseNextPageInvariant ==
  ASSUME IInv, CloseNextPage
  PROVE  IInv'
<1>1. closing \in Files /\ closing \in open
  BY DEF IInv, TypeOK, CloseNextPage
<1>2. PICK p \in used_pages[closing] :
        LET x == <<closing, p>>
        IN  /\ IF x \in Cached
                 THEN LET fr == buffer_map[x]
                      IN  /\ disk' = IF frame[fr].dirty
                                       THEN [disk EXCEPT ![x] = frame[fr].data]
                                       ELSE disk
                          /\ pages' = Without(pages, fr)
                          /\ buffer_map' = WithoutKey(buffer_map, x)
                          /\ frame' = [frame EXCEPT ![fr] = Nil]
                 ELSE UNCHANGED <<disk, cache>>
            /\ used_pages' = [used_pages EXCEPT ![closing] = @ \ {p}]
            /\ handle' = [handle EXCEPT ![x] = Nil]
            /\ since' = [since EXCEPT ![x] = {}]
  BY DEF CloseNextPage
<1> DEFINE x == <<closing, p>>
<1>3. UNCHANGED <<open, closing, phase>>
  BY DEF CloseNextPage
<1>4. x \in PageIds
  BY <1>1 DEF IInv, TypeOK, PageIds
<1>5. /\ used_pages' \in [Files -> SUBSET PAGES]
      /\ handle' \in [PageIds -> Frames \cup {Nil}]
      /\ since' \in [PageIds -> SUBSET PageIds]
  BY <1>1, <1>2, <1>4 DEF IInv, TypeOK
<1>6. \A y \in PageIds : y # x => /\ InUse(y)' <=> InUse(y)
                                 /\ since'[y] = since[y]
                                 /\ handle'[y] = handle[y]
  <2> SUFFICES ASSUME NEW y \in PageIds, y # x
               PROVE  (InUse(y)' <=> InUse(y)) /\ since'[y] = since[y] /\ handle'[y] = handle[y]
    OBVIOUS
  <2>1. y = <<y[1], y[2]>> /\ y[1] \in Files
    BY DEF PageIds
  <2>2. CASE y[1] = closing
    BY <1>1, <1>2, <1>3, <1>4, <2>1, <2>2 DEF IInv, TypeOK, InUse
  <2>3. CASE y[1] # closing
    BY <1>1, <1>2, <1>3, <1>4, <2>1, <2>3 DEF IInv, TypeOK, InUse
  <2> QED BY <2>2, <2>3
<1>7. \A y \in PageIds : InUse(y)' => y # x
  BY <1>1, <1>2, <1>3 DEF IInv, TypeOK, InUse
<1>8. FiniteHistory'
  BY <1>2, <1>4, <1>6, FS_EmptySet DEF IInv, TypeOK, FiniteHistory
<1>11. StoppedHasNoFiles'
  BY <1>3 DEF IInv, StoppedHasNoFiles
<1>9. CASE x \notin Cached
  <2>1. UNCHANGED <<disk, cache>>
    BY <1>2, <1>9
  <2>2. TypeOK'
    BY <1>3, <1>5, <2>1 DEF IInv, TypeOK, cache, Cached
  <2>3. CacheCoherent'
    BY <2>1 DEF IInv, CacheCoherent, cache, Cached, PageOf
  <2>4. \A y \in Cached : y \in PageIds /\ y # x
    BY <1>9 DEF IInv, TypeOK
  <2>5. CloseReachesEveryPage' /\ HandleCurrent'
    BY <1>6, <2>1, <2>4 DEF IInv, CloseReachesEveryPage, HandleCurrent, cache, Cached
  <2>7. EvictedLongAgo'
    <3> SUFFICES ASSUME NEW y \in PageIds, InUse(y)', y \notin Cached'
                 PROVE  Cardinality(since'[y]) >= BUFFER_MAX
      BY DEF EvictedLongAgo
    <3>1. y # x /\ y \notin Cached
      BY <1>7, <2>1 DEF cache, Cached
    <3> QED BY <1>6, <3>1 DEF IInv, EvictedLongAgo
  <2>6. RecencyOrder'
    <3> SUFFICES ASSUME NEW i \in 1 .. Len(pages), NEW j \in 1 .. Len(pages), i < j
                 PROVE  PageOf(pages[i]) \in since'[PageOf(pages[j])]
      BY <2>1 DEF RecencyOrder, cache, PageOf
    <3>1. PageOf(pages[j]) \in PageIds /\ PageOf(pages[j]) # x
      BY <2>4 DEF IInv, CacheCoherent
    <3> QED BY <1>6, <3>1 DEF IInv, RecencyOrder
  <2> QED BY <1>8, <2>2, <2>3, <2>5, <2>6, <2>7, <1>11 DEF IInv
<1>10. CASE x \in Cached
  <2>1. PICK k \in 1 .. Len(pages) : pages[k] = buffer_map[x]
    BY <1>10 DEF IInv, CacheCoherent
  <2> DEFINE fr == pages[k]
  <2>2. pages \in Seq(Frames) /\ NoRepetition(pages)
    BY DEF IInv, TypeOK, CacheCoherent, NoRepetition
  <2>3. /\ disk' = IF frame[fr].dirty THEN [disk EXCEPT ![x] = frame[fr].data] ELSE disk
        /\ pages' = Without(pages, fr)
        /\ buffer_map' = WithoutKey(buffer_map, x)
        /\ frame' = [frame EXCEPT ![fr] = Nil]
    BY <1>2, <1>10, <2>1
  <2>4. /\ pages' \in Seq(Frames) /\ Len(pages') = Len(pages) - 1 /\ NoRepetition(pages')
        /\ \A i \in 1 .. Len(pages) - 1 : pages'[i] = IF i < k THEN pages[i] ELSE pages[i + 1]
    BY <2>2, <2>3, WithoutMember
  <2> DEFINE Old(i) == IF i < k THEN i ELSE i + 1
             New(i) == IF i < k THEN i ELSE i - 1
  <2>5. \A i \in 1 .. Len(pages') : /\ Old(i) \in 1 .. Len(pages) /\ Old(i) # k
                                   /\ pages'[i] = pages[Old(i)]
    BY <2>2, <2>4
  <2>6. \A i \in 1 .. Len(pages) : i # k => /\ New(i) \in 1 .. Len(pages')
                                          /\ pages'[New(i)] = pages[i]
    BY <2>2, <2>4
  <2>7. \A i, j \in 1 .. Len(pages') : i < j => Old(i) < Old(j)
    BY <2>2, <2>4
  <2> HIDE DEF Old, New
  <2>8. fr \in Frames /\ frame[fr] \in BufferPage
    BY <2>2 DEF IInv, TypeOK, CacheCoherent
  <2>9. frame' \in [Frames -> BufferPage \cup {Nil}] /\ frame'[fr] = Nil
    BY <2>3, <2>8 DEF IInv, TypeOK
  <2>10. \A g \in Frames : g # fr => frame'[g] = frame[g]
    BY <2>3 DEF IInv, TypeOK
  <2>11. /\ Cached' = Cached \ {x} /\ buffer_map' \in [Cached' -> Frames]
         /\ \A y \in Cached' : buffer_map'[y] = buffer_map[y]
    BY <2>3 DEF WithoutKey, Cached, IInv, TypeOK
  <2>12. \A i \in 1 .. Len(pages') :
           /\ frame'[pages'[i]] = frame[pages[Old(i)]]
           /\ PageOf(pages[i])' = PageOf(pages[Old(i)])
           /\ PageOf(pages[Old(i)]) \in Cached'
    <3> TAKE i \in 1 .. Len(pages')
    <3>1. pages[Old(i)] # fr /\ pages[Old(i)] \in Frames
      BY <2>2, <2>5 DEF NoRepetition
    <3>2. frame'[pages'[i]] = frame[pages[Old(i)]]
      BY <2>5, <2>10, <3>1
    <3>3. PageOf(pages[i])' = PageOf(pages[Old(i)])
      BY <3>2 DEF PageOf
    <3>4. /\ PageOf(pages[Old(i)]) \in Cached
          /\ buffer_map[PageOf(pages[Old(i)])] = pages[Old(i)]
      BY <2>5 DEF IInv, CacheCoherent
    <3>5. PageOf(pages[Old(i)]) # x
      BY <2>1, <3>1, <3>4
    <3> QED BY <2>11, <3>2, <3>3, <3>4, <3>5
  <2>13. TypeOK'
    <3>1. disk' \in [PageIds -> Values \cup {Absent}]
      BY <1>4, <2>3, <2>8 DEF IInv, TypeOK, BufferPage
    <3> QED BY <1>3, <1>5, <2>4, <2>9, <2>11, <3>1 DEF IInv, TypeOK
  <2>14. CacheCoherent'
    <3>1. Len(pages') <= BUFFER_MAX
      BY <2>2, <2>4, BufferMaxAssumption DEF IInv, CacheCoherent
    <3>2. \A i, j \in 1 .. Len(pages') : pages'[i] = pages'[j] => i = j
      BY <2>4 DEF NoRepetition
    <3>3. \A i \in 1 .. Len(pages') : /\ frame'[pages'[i]] # Nil
                                     /\ PageOf(pages[i])' \in Cached'
                                     /\ buffer_map'[PageOf(pages[i])'] = pages'[i]
      <4> TAKE i \in 1 .. Len(pages')
      <4>1. frame[pages[Old(i)]] # Nil /\ buffer_map[PageOf(pages[Old(i)])] = pages[Old(i)]
        BY <2>5 DEF IInv, CacheCoherent
      <4> QED BY <2>5, <2>11, <2>12, <4>1
    <3>4. \A y \in Cached' : /\ \E i \in 1 .. Len(pages') : pages'[i] = buffer_map'[y]
                            /\ PageOf(buffer_map[y])' = y
      <4> TAKE y \in Cached'
      <4>1. y \in Cached /\ y # x /\ buffer_map'[y] = buffer_map[y] /\ buffer_map[y] \in Frames
        BY <2>11 DEF IInv, TypeOK
      <4>2. PICK i \in 1 .. Len(pages) : pages[i] = buffer_map[y]
        BY <4>1 DEF IInv, CacheCoherent
      <4>3. PageOf(buffer_map[y]) = y /\ PageOf(buffer_map[x]) = x
        BY <1>10, <4>1 DEF IInv, CacheCoherent
      <4>4. i # k /\ buffer_map[y] # fr
        BY <2>1, <4>1, <4>2, <4>3
      <4>5. PageOf(buffer_map[y])' = y
        BY <2>10, <4>1, <4>3, <4>4 DEF PageOf
      <4> QED BY <2>6, <4>1, <4>2, <4>4, <4>5
    <3>5. \A g \in Frames : frame'[g] # Nil => \E i \in 1 .. Len(pages') : pages'[i] = g
      <4> SUFFICES ASSUME NEW g \in Frames, frame'[g] # Nil
                   PROVE  \E i \in 1 .. Len(pages') : pages'[i] = g
        OBVIOUS
      <4>1. g # fr /\ frame[g] # Nil
        BY <2>9, <2>10
      <4>2. PICK i \in 1 .. Len(pages) : pages[i] = g
        BY <4>1 DEF IInv, CacheCoherent
      <4> QED BY <2>6, <4>1, <4>2
    <3> QED BY <3>1, <3>2, <3>3, <3>4, <3>5 DEF CacheCoherent
  <2>15. CloseReachesEveryPage' /\ HandleCurrent'
    BY <1>6, <2>11 DEF IInv, TypeOK, CloseReachesEveryPage, HandleCurrent
  <2>16. EvictedLongAgo'
    <3> SUFFICES ASSUME NEW y \in PageIds, InUse(y)', y \notin Cached'
                 PROVE  Cardinality(since'[y]) >= BUFFER_MAX
      BY DEF EvictedLongAgo
    <3>1. y # x /\ y \notin Cached
      BY <1>7, <2>11
    <3> QED BY <1>6, <3>1 DEF IInv, EvictedLongAgo
  <2>17. RecencyOrder'
    <3> SUFFICES ASSUME NEW i \in 1 .. Len(pages'), NEW j \in 1 .. Len(pages'), i < j
                 PROVE  PageOf(pages[i])' \in since'[PageOf(pages[j])']
      BY DEF RecencyOrder
    <3>1. PageOf(pages[Old(i)]) \in since[PageOf(pages[Old(j)])]
      BY <2>5, <2>7 DEF IInv, RecencyOrder
    <3>2. PageOf(pages[Old(j)]) \in PageIds /\ PageOf(pages[Old(j)]) # x
      BY <2>11, <2>12 DEF IInv, TypeOK
    <3> QED BY <1>6, <2>12, <3>1, <3>2
  <2> QED BY <1>8, <1>11, <2>13, <2>14, <2>15, <2>16, <2>17 DEF IInv
<1> QED BY <1>9, <1>10
\* A caller's change of a page happens in the frame of that page.
LEMMA WritePageInvariant ==
  ASSUME IInv, NEW x \in PageIds, NEW v \in Values, WritePage(x, v)
  PROVE  /\ x \in Cached /\ handle[x] = buffer_map[x] /\ frame[buffer_map[x]] \in BufferPage
         /\ IInv'
<1> DEFINE fr == handle[x]
<1>1. x \in Cached /\ fr = buffer_map[x]
  BY InvariantGivesPointers DEF PointerStaysGood, WritePage
<1>2. fr \in Frames /\ frame[fr] \in BufferPage /\ PageOf(fr) = x
  <2>1. PICK i \in 1 .. Len(pages) : pages[i] = fr
    BY <1>1 DEF IInv, CacheCoherent
  <2>2. fr \in Frames /\ frame[fr] # Nil
    BY <1>1, <2>1 DEF IInv, CacheCoherent, TypeOK
  <2> QED BY <1>1, <2>2 DEF IInv, TypeOK, CacheCoherent
<1>3. frame' = [frame EXCEPT ![fr].data = v, ![fr].dirty = TRUE]
  BY DEF WritePage
<1>4. /\ frame' \in [Frames -> BufferPage \cup {Nil}]
      /\ frame'[fr] = [file |-> frame[fr].file, page |-> frame[fr].page,
                       dirty |-> TRUE, data |-> v]
      /\ \A g \in Frames : g # fr => frame'[g] = frame[g]
  BY <1>2, <1>3 DEF IInv, TypeOK, BufferPage
<1>5. /\ \A g \in Frames : frame'[g] # Nil <=> frame[g] # Nil
      /\ \A g \in Frames : PageOf(g)' = PageOf(g)
  <2> SUFFICES ASSUME NEW g \in Frames
               PROVE  (frame'[g] # Nil <=> frame[g] # Nil) /\ PageOf(g)' = PageOf(g)
    OBVIOUS
  <2>1. CASE g = fr
    <3>1. frame'[fr].file = frame[fr].file /\ frame'[fr].page = frame[fr].page
      BY <1>4
    <3>2. frame'[fr] \in BufferPage
      BY <1>2, <1>4 DEF BufferPage
    <3>3. fr' = fr
      BY DEF WritePage, client
    <3> QED BY <1>2, <2>1, <3>1, <3>2, <3>3, NilAssumption DEF PageOf
  <2>2. CASE g # fr
    BY <1>4, <2>2 DEF PageOf
  <2> QED BY <2>1, <2>2
<1>6. UNCHANGED <<disk, pages, buffer_map, open, used_pages, closing, phase, handle, since>>
  BY DEF WritePage, client
<1>7. TypeOK'
  BY <1>4, <1>6 DEF IInv, TypeOK, Cached
<1>8. \A i \in 1 .. Len(pages) : pages[i] \in Frames /\ PageOf(pages[i])' = PageOf(pages[i])
  BY <1>5, <1>6 DEF IInv, TypeOK, PageOf
<1>9. CacheCoherent'
  <2>1. \A y \in Cached : buffer_map[y] \in Frames /\ PageOf(buffer_map[y])' = PageOf(buffer_map[y])
    BY <1>5, <1>6 DEF IInv, TypeOK, PageOf
  <2> QED BY <1>5, <1>6, <1>8, <2>1 DEF IInv, CacheCoherent, Cached
<1>10. RecencyOrder'
  BY <1>6, <1>8 DEF IInv, RecencyOrder
<1>11. /\ CloseReachesEveryPage' /\ EvictedLongAgo' /\ HandleCurrent'
       /\ FiniteHistory' /\ StoppedHasNoFiles'
  BY <1>6 DEF IInv, CloseReachesEveryPage, EvictedLongAgo, HandleCurrent, FiniteHistory,
              StoppedHasNoFiles, InUse, Cached
<1> QED BY <1>1, <1>2, <1>7, <1>9, <1>10, <1>11 DEF IInv

\* The steps that change neither the cache nor the history.
LEMMA FileStepsInvariant ==
  ASSUME IInv,
         \/ \E n \in Files : OpenFile(n) \/ BeginClose(n)
         \/ EndClose \/ BeginExit \/ EndExit
  PROVE  IInv'
<1>1. UNCHANGED <<disk, frame, pages, buffer_map, handle, since>>
  BY DEF OpenFile, BeginClose, EndClose, BeginExit, EndExit, cache, client
<1>2. \A y \in PageIds : InUse(y)' => InUse(y)
  BY DEF OpenFile, BeginClose, EndClose, BeginExit, EndExit, IInv, TypeOK, InUse, PageIds
<1>3. TypeOK'
  <2>1. CASE \E n \in Files : OpenFile(n)
    BY <1>1, <2>1 DEF OpenFile, IInv, TypeOK, Cached
  <2>2. CASE \E n \in Files : BeginClose(n)
    BY <1>1, <2>2 DEF BeginClose, IInv, TypeOK, Cached
  <2>3. CASE EndClose
    BY <1>1, <2>3 DEF EndClose, IInv, TypeOK, Cached
  <2>4. CASE BeginExit \/ EndExit
    BY <1>1, <2>4 DEF BeginExit, EndExit, IInv, TypeOK, Cached
  <2> QED BY <2>1, <2>2, <2>3, <2>4
<1>4. CloseReachesEveryPage'
  <2> SUFFICES ASSUME NEW y \in Cached PROVE InUse(y)'
    BY <1>1 DEF CloseReachesEveryPage, Cached
  <2>1. InUse(y) /\ y \in PageIds
    BY DEF IInv, TypeOK, CloseReachesEveryPage
  <2>2. CASE \E n \in Files : OpenFile(n)
    BY <2>1, <2>2 DEF OpenFile, IInv, TypeOK, InUse, PageIds
  <2>3. CASE ~ \E n \in Files : OpenFile(n)
    BY <2>1, <2>3 DEF BeginClose, EndClose, BeginExit, EndExit, InUse, PageIds
  <2> QED BY <2>2, <2>3
<1>5. CacheCoherent' /\ RecencyOrder' /\ HandleCurrent' /\ FiniteHistory'
  BY <1>1 DEF IInv, CacheCoherent, RecencyOrder, HandleCurrent, FiniteHistory, Cached, PageOf
<1>6. EvictedLongAgo'
  BY <1>1, <1>2 DEF IInv, EvictedLongAgo, Cached
<1>7. StoppedHasNoFiles'
  BY DEF OpenFile, BeginClose, EndClose, BeginExit, EndExit, IInv, StoppedHasNoFiles
<1> QED BY <1>3, <1>4, <1>5, <1>6, <1>7 DEF IInv

\* A crash and a start leave an empty memory.
LEMMA MemoryLostInvariant ==
  ASSUME IInv, Crash \/ Start
  PROVE  IInv'
<1>1. /\ pages' = << >> /\ Len(pages') = 0 /\ Cached' = {} /\ open' = {}
      /\ buffer_map' = [y \in {} |-> 1] /\ disk' = disk
      /\ frame' = [fr \in Frames |-> Nil]
      /\ since' = [y \in PageIds |-> {}]
  BY DEF Crash, Start, EmptyMemory, Cached
<1>2. TypeOK'
  BY <1>1 DEF Crash, Start, EmptyMemory, IInv, TypeOK, PageIds
<1>3. CacheCoherent'
  BY <1>1, BufferMaxAssumption DEF CacheCoherent
<1>4. CloseReachesEveryPage' /\ RecencyOrder' /\ HandleCurrent' /\ StoppedHasNoFiles'
  BY <1>1 DEF CloseReachesEveryPage, RecencyOrder, HandleCurrent, StoppedHasNoFiles
<1>5. EvictedLongAgo'
  BY <1>1 DEF EvictedLongAgo, InUse
<1>6. FiniteHistory'
  BY <1>1, FS_EmptySet DEF FiniteHistory
<1> QED BY <1>2, <1>3, <1>4, <1>5, <1>6 DEF IInv

\* Every step keeps the invariant: the cases above, one for each action.
LEMMA NextInvariant == IInv /\ [Next]_vars => IInv'
<1> SUFFICES ASSUME IInv, [Next]_vars PROVE IInv'
  OBVIOUS
<1>1. ASSUME NEW x \in PageIds, GetPage(x) PROVE IInv'
  BY <1>1, GetPageCases, HitInvariant, AllocNewInvariant, AllocEvictInvariant
<1>2. ASSUME NEW x \in PageIds, NEW v \in Values, WritePage(x, v) PROVE IInv'
  BY <1>2, WritePageInvariant
<1>3. CASE \/ \E n \in Files : OpenFile(n) \/ BeginClose(n)
           \/ EndClose \/ BeginExit \/ EndExit
  BY <1>3, FileStepsInvariant
<1>4. CASE CloseNextPage
  BY <1>4, CloseNextPageInvariant
<1>5. CASE Crash \/ Start
  BY <1>5, MemoryLostInvariant
<1>6. CASE UNCHANGED vars
  BY <1>6 DEF vars, IInv, TypeOK, CacheCoherent, CloseReachesEveryPage, RecencyOrder,
              EvictedLongAgo, HandleCurrent, FiniteHistory, StoppedHasNoFiles,
              InUse, Cached, PageOf
<1> QED BY <1>1, <1>2, <1>3, <1>4, <1>5, <1>6 DEF Next

\* So it holds in every reachable state.
LEMMA Invariance == Spec => []IInv
BY InitInvariant, NextInvariant, PTL DEF Spec

(***************************************************************************)
(* The variables of the paged file system have the types the code gives     *)
(* them, in every reachable state (BufferManager, File, Filesystem).        *)
(***************************************************************************)
THEOREM TypeCorrect == Spec => []TypeOK
<1>1. IInv => TypeOK
  BY DEF IInv
<1> QED BY <1>1, Invariance, PTL

(***************************************************************************)
(* The list and the map of the BufferManager stay one cache, of at most     *)
(* BUFFER_MAX frames and no two for one page, for every pattern of          *)
(* requests, evictions and closes that keeps the contract of bypass_search. *)
(***************************************************************************)
THEOREM CacheStaysCoherent == Spec => []CacheCoherent
<1>1. IInv => CacheCoherent
  BY DEF IInv
<1> QED BY <1>1, Invariance, PTL

(***************************************************************************)
(* The pages File::close goes through are all the pages of the file that    *)
(* the cache holds.                                                         *)
(***************************************************************************)
THEOREM CloseMissesNothing == Spec => []CloseReachesEveryPage
<1>1. IInv => CloseReachesEveryPage
  BY DEF IInv
<1> QED BY <1>1, Invariance, PTL

(***************************************************************************)
(* A pointer from File::get_page is good until BUFFER_MAX other pages have  *)
(* been asked for: what "use it soon" in File.h amounts to.                 *)
(***************************************************************************)
THEOREM PointersStayGood == Spec => []PointerStaysGood
BY InvariantGivesPointers, Invariance, PTL
-----------------------------------------------------------------------------
(***************************************************************************)
(* Proof that the cache implements the page store, for a Filesystem whose   *)
(* files are one: then the file that asks for a frame is the file the frame *)
(* belongs to, and the write-back of an eviction lands in its place.        *)
(***************************************************************************)

OneFileOnly == \A m, n \in Files : m = n

SInv == IInv /\ CleanPageMatchesDisk

\* A page and its frame, when the page is cached.
LEMMA CachedFrame ==
  ASSUME IInv, NEW x \in Cached
  PROVE  /\ x \in PageIds
         /\ buffer_map[x] \in Frames
         /\ frame[buffer_map[x]] \in BufferPage
         /\ PageOf(buffer_map[x]) = x
<1>1. x \in PageIds /\ buffer_map[x] \in Frames /\ PageOf(buffer_map[x]) = x
  BY DEF IInv, TypeOK, CacheCoherent
<1>2. PICK i \in 1 .. Len(pages) : pages[i] = buffer_map[x]
  BY DEF IInv, CacheCoherent
<1>3. frame[buffer_map[x]] # Nil
  BY <1>2 DEF IInv, CacheCoherent
<1> QED BY <1>1, <1>3 DEF IInv, TypeOK

\* A frame that is read: what it holds afterwards.
LEMMA ReadPage ==
  ASSUME IInv, NEW x \in PageIds, NEW fr \in Frames, read_page(x, fr)
  PROVE  /\ ~ frame'[fr].dirty
         /\ disk'[x] # Absent => frame'[fr].data = disk'[x]
         /\ \A g \in Frames : g # fr => frame'[g] = frame[g]
BY DEF read_page, IInv, TypeOK

\* Serving a page without an eviction changes no content.
LEMMA FillStep ==
  ASSUME SInv, NEW x, Requested(x), Hit(x) \/ (x \notin Cached /\ AllocNew(x))
  PROVE  LastWritten' = LastWritten /\ disk' = disk /\ CleanPageMatchesDisk'
<1> USE DEF SInv
<1>1. x \in PageIds
  BY DEF Requested
<1>2. CASE Hit(x)
  BY <1>2 DEF Hit, LastWritten, CleanPageMatchesDisk, Cached
<1>3. CASE x \notin Cached /\ AllocNew(x)
  <2>1. PICK fr \in Frames : /\ frame[fr] = Nil /\ disk' = disk /\ read_page(x, fr)
                             /\ buffer_map' = WithKey(buffer_map, x, fr)
    BY <1>3 DEF AllocNew, Unused
  <2>2. /\ Cached' = Cached \cup {x} /\ buffer_map'[x] = fr
        /\ \A y \in Cached : buffer_map'[y] = buffer_map[y]
    BY <1>3, <2>1 DEF WithKey, Cached
  <2>3. \A y \in Cached : buffer_map[y] # fr /\ buffer_map[y] \in Frames
    BY <2>1, CachedFrame, NilAssumption
  <2>4. \A y \in Cached : frame'[buffer_map'[y]] = frame[buffer_map[y]]
    BY <1>1, <2>1, <2>2, <2>3, ReadPage
  <2>5. ~ frame'[fr].dirty /\ (disk'[x] # Absent => frame'[fr].data = disk'[x])
    BY <1>1, <2>1, ReadPage
  <2>6. LastWritten' = LastWritten
    BY <1>3, <2>1, <2>2, <2>4, <2>5 DEF LastWritten
  <2>7. CleanPageMatchesDisk'
    BY <2>1, <2>2, <2>4, <2>5 DEF CleanPageMatchesDisk
  <2> QED BY <2>1, <2>6, <2>7
<1> QED BY <1>2, <1>3

\* With one file an eviction writes the evicted page where it belongs.
LEMMA EvictStep ==
  ASSUME OneFileOnly, SInv, NEW x, Requested(x), x \notin Cached, AllocEvict(x)
  PROVE  /\ LastWritten' = LastWritten
         /\ CleanPageMatchesDisk'
         /\ \E v \in Cached : /\ Cached' = (Cached \ {v}) \cup {x}
                              /\ disk' = IF frame[buffer_map[v]].dirty
                                           THEN [disk EXCEPT ![v] = frame[buffer_map[v]].data]
                                           ELSE disk
<1> USE DEF SInv
<1> DEFINE fr == pages[Len(pages)]
           v  == PageOf(fr)
<1>1. x \in PageIds /\ x[1] \in Files
  BY DEF Requested, PageIds
<1>2. /\ v \in Cached /\ buffer_map[v] = fr /\ fr \in Frames
      /\ v \in PageIds /\ frame[fr] \in BufferPage /\ v # x
  <2>1. Len(pages) \in 1 .. Len(pages)
    BY BufferMaxAssumption DEF AllocEvict, IInv, TypeOK
  <2>2. v \in Cached /\ buffer_map[v] = fr
    BY <2>1 DEF IInv, CacheCoherent
  <2> QED BY <2>2, CachedFrame
<1>3. <<x[1], frame[fr].page>> = v
  BY <1>1, <1>2 DEF OneFileOnly, PageOf, BufferPage
<1>4. /\ disk' = IF frame[fr].dirty THEN [disk EXCEPT ![v] = frame[fr].data] ELSE disk
      /\ read_page(x, fr)
      /\ buffer_map' = WithKey(WithoutKey(buffer_map, v), x, fr)
  BY <1>3 DEF AllocEvict
<1>5. /\ Cached' = (Cached \ {v}) \cup {x} /\ buffer_map'[x] = fr
      /\ \A y \in Cached \ {v} : buffer_map'[y] = buffer_map[y]
  BY <1>4 DEF WithKey, WithoutKey, Cached
<1>6. \A y \in Cached \ {v} : buffer_map[y] # fr /\ buffer_map[y] \in Frames
  BY <1>2, CachedFrame
<1>7. \A y \in Cached \ {v} : frame'[buffer_map'[y]] = frame[buffer_map[y]]
  BY <1>1, <1>2, <1>4, <1>5, <1>6, ReadPage
<1>8. ~ frame'[fr].dirty /\ (disk'[x] # Absent => frame'[fr].data = disk'[x])
  BY <1>1, <1>2, <1>4, ReadPage
<1>9. \A y \in PageIds : y # v => disk'[y] = disk[y]
  BY <1>4 DEF IInv, TypeOK
<1>10. disk'[v] = IF frame[fr].dirty THEN frame[fr].data ELSE disk[v]
  BY <1>2, <1>4 DEF IInv, TypeOK
<1>11. LastWritten' = LastWritten
  <2> SUFFICES ASSUME NEW y \in PageIds PROVE LastWritten'[y] = LastWritten[y]
    BY DEF LastWritten
  <2>1. LastWritten'[y] = IF y \in Cached' /\ frame'[buffer_map'[y]].dirty
                            THEN frame'[buffer_map'[y]].data ELSE disk'[y]
    BY DEF LastWritten
  <2>2. LastWritten[y] = IF y \in Cached /\ frame[buffer_map[y]].dirty
                           THEN frame[buffer_map[y]].data ELSE disk[y]
    BY DEF LastWritten
  <2>3. CASE y = v
    BY <1>2, <1>5, <1>10, <2>1, <2>2, <2>3
  <2>4. CASE y = x
    BY <1>2, <1>5, <1>8, <1>9, <2>1, <2>2, <2>4
  <2>5. CASE y # v /\ y # x
    BY <1>5, <1>7, <1>9, <2>1, <2>2, <2>5
  <2> QED BY <2>3, <2>4, <2>5
<1>12. CleanPageMatchesDisk'
  <2> SUFFICES ASSUME NEW y \in Cached', ~ frame'[buffer_map'[y]].dirty, disk'[y] # Absent
               PROVE  frame'[buffer_map'[y]].data = disk'[y]
    BY DEF CleanPageMatchesDisk
  <2>1. CASE y = x
    BY <1>5, <1>8, <2>1
  <2>2. CASE y # x
    <3>1. y \in Cached \ {v} /\ y \in PageIds
      BY <1>5, <2>2, CachedFrame
    <3> QED BY <1>7, <1>9, <3>1 DEF CleanPageMatchesDisk
  <2> QED BY <2>1, <2>2
<1> QED BY <1>2, <1>4, <1>5, <1>11, <1>12

\* A caller's write changes the content of its page only.
LEMMA WriteStep ==
  ASSUME SInv, NEW x \in PageIds, NEW v \in Values, WritePage(x, v)
  PROVE  /\ LastWritten' = [LastWritten EXCEPT ![x] = v]
         /\ CleanPageMatchesDisk'
<1> USE DEF SInv
<1>1. x \in Cached /\ handle[x] = buffer_map[x]
  BY WritePageInvariant
<1>2. /\ buffer_map' = buffer_map /\ disk' = disk /\ Cached' = Cached
      /\ frame' = [frame EXCEPT ![buffer_map[x]].data = v, ![buffer_map[x]].dirty = TRUE]
  BY <1>1 DEF WritePage, Cached
<1>3. frame'[buffer_map[x]].dirty /\ frame'[buffer_map[x]].data = v
  <2>1. buffer_map[x] \in Frames /\ frame[buffer_map[x]] \in BufferPage
    BY <1>1, CachedFrame
  <2> QED BY <1>2, <2>1 DEF IInv, TypeOK, BufferPage
<1>4. \A y \in Cached : y # x => frame'[buffer_map[y]] = frame[buffer_map[y]]
  <2> SUFFICES ASSUME NEW y \in Cached, y # x
               PROVE  frame'[buffer_map[y]] = frame[buffer_map[y]]
    OBVIOUS
  <2>1. buffer_map[y] # buffer_map[x] /\ buffer_map[y] \in Frames
    BY <1>1, CachedFrame
  <2> QED BY <1>2, <2>1 DEF IInv, TypeOK
<1>5. LastWritten' = [LastWritten EXCEPT ![x] = v]
  <2> SUFFICES ASSUME NEW y \in PageIds
               PROVE  LastWritten'[y] = IF y = x THEN v ELSE LastWritten[y]
    BY DEF LastWritten
  <2>1. LastWritten'[y] = IF y \in Cached /\ frame'[buffer_map[y]].dirty
                            THEN frame'[buffer_map[y]].data ELSE disk[y]
    BY <1>2 DEF LastWritten
  <2>2. LastWritten[y] = IF y \in Cached /\ frame[buffer_map[y]].dirty
                           THEN frame[buffer_map[y]].data ELSE disk[y]
    BY DEF LastWritten
  <2> QED BY <1>1, <1>3, <1>4, <2>1, <2>2
<1>6. CleanPageMatchesDisk'
  <2> SUFFICES ASSUME NEW y \in Cached, ~ frame'[buffer_map[y]].dirty, disk[y] # Absent
               PROVE  frame'[buffer_map[y]].data = disk[y]
    BY <1>2 DEF CleanPageMatchesDisk
  <2>1. y # x
    BY <1>3
  <2> QED BY <1>4, <2>1 DEF CleanPageMatchesDisk
<1> QED BY <1>5, <1>6

\* One round of File::close writes a dirty page where it belongs.
LEMMA CloseStep ==
  ASSUME SInv, CloseNextPage
  PROVE  /\ LastWritten' = LastWritten
         /\ CleanPageMatchesDisk'
         /\ \E x \in PageIds :
              /\ Cached' = Cached \ {x}
              /\ disk' = IF x \in Cached /\ frame[buffer_map[x]].dirty
                           THEN [disk EXCEPT ![x] = frame[buffer_map[x]].data]
                           ELSE disk
<1> USE DEF SInv
<1>1. closing \in Files
  BY DEF IInv, TypeOK, CloseNextPage
<1>2. PICK p \in used_pages[closing] :
        LET x == <<closing, p>>
        IN  IF x \in Cached
              THEN LET fr == buffer_map[x]
                   IN  /\ disk' = IF frame[fr].dirty
                                    THEN [disk EXCEPT ![x] = frame[fr].data]
                                    ELSE disk
                       /\ buffer_map' = WithoutKey(buffer_map, x)
                       /\ frame' = [frame EXCEPT ![fr] = Nil]
              ELSE UNCHANGED <<disk, cache>>
  BY DEF CloseNextPage
<1> DEFINE x == <<closing, p>>
<1>3. x \in PageIds
  BY <1>1 DEF IInv, TypeOK, PageIds
<1>4. CASE x \notin Cached
  <2>1. UNCHANGED <<disk, frame, buffer_map>> /\ Cached' = Cached
    BY <1>2, <1>4 DEF cache, Cached
  <2>2. LastWritten' = LastWritten /\ CleanPageMatchesDisk'
    BY <2>1 DEF LastWritten, CleanPageMatchesDisk
  <2>3. Cached' = Cached \ {x} /\ disk' = disk
    BY <1>4, <2>1
  <2> QED BY <1>3, <1>4, <2>2, <2>3
<1>5. CASE x \in Cached
  <2> DEFINE fr == buffer_map[x]
  <2>1. /\ disk' = IF frame[fr].dirty THEN [disk EXCEPT ![x] = frame[fr].data] ELSE disk
        /\ Cached' = Cached \ {x}
        /\ \A y \in Cached' : buffer_map'[y] = buffer_map[y]
        /\ frame' = [frame EXCEPT ![fr] = Nil]
    BY <1>2, <1>5 DEF WithoutKey, Cached
  <2>2. \A y \in Cached' : /\ y \in PageIds /\ y # x
                           /\ frame'[buffer_map'[y]] = frame[buffer_map[y]]
    <3> SUFFICES ASSUME NEW y \in Cached'
                 PROVE  /\ y \in PageIds /\ y # x
                        /\ frame'[buffer_map'[y]] = frame[buffer_map[y]]
      OBVIOUS
    <3>1. y \in Cached /\ y # x /\ buffer_map'[y] = buffer_map[y]
      BY <2>1
    <3>2. buffer_map[y] # fr /\ buffer_map[y] \in Frames /\ y \in PageIds
      BY <1>5, <3>1, CachedFrame
    <3> QED BY <2>1, <3>1, <3>2 DEF IInv, TypeOK
  <2>3. /\ \A y \in PageIds : y # x => disk'[y] = disk[y]
        /\ disk'[x] = IF frame[fr].dirty THEN frame[fr].data ELSE disk[x]
    BY <1>3, <2>1 DEF IInv, TypeOK
  <2>4. LastWritten' = LastWritten
    <3> SUFFICES ASSUME NEW y \in PageIds PROVE LastWritten'[y] = LastWritten[y]
      BY DEF LastWritten
    <3>1. LastWritten'[y] = IF y \in Cached' /\ frame'[buffer_map'[y]].dirty
                              THEN frame'[buffer_map'[y]].data ELSE disk'[y]
      BY DEF LastWritten
    <3>2. LastWritten[y] = IF y \in Cached /\ frame[buffer_map[y]].dirty
                             THEN frame[buffer_map[y]].data ELSE disk[y]
      BY DEF LastWritten
    <3>3. CASE y = x
      BY <1>5, <2>1, <2>3, <3>1, <3>2, <3>3
    <3>4. CASE y # x
      BY <2>1, <2>2, <2>3, <3>1, <3>2, <3>4
    <3> QED BY <3>3, <3>4
  <2>5. CleanPageMatchesDisk'
    BY <2>1, <2>2, <2>3 DEF CleanPageMatchesDisk
  <2> QED BY <1>3, <1>5, <2>1, <2>4, <2>5
<1> QED BY <1>4, <1>5
-----------------------------------------------------------------------------
\* The steps that leave the cache and the disk alone.
LEMMA FileSteps ==
  ASSUME SInv,
         \/ \E n \in Files : OpenFile(n) \/ BeginClose(n)
         \/ EndClose \/ BeginExit \/ EndExit \/ UNCHANGED vars
  PROVE  UNCHANGED <<disk, frame, buffer_map>> /\ LastWritten' = LastWritten
         /\ CleanPageMatchesDisk'
<1>1. UNCHANGED <<disk, frame, buffer_map>>
  BY DEF OpenFile, BeginClose, EndClose, BeginExit, EndExit, vars, cache
<1> QED BY <1>1 DEF SInv, LastWritten, CleanPageMatchesDisk, Cached

\* A crash and a start leave an empty cache, and the disk.
LEMMA MemoryLostStep ==
  ASSUME SInv, Crash \/ Start
  PROVE  disk' = disk /\ LastWritten' = disk /\ CleanPageMatchesDisk'
<1>1. disk' = disk /\ Cached' = {}
  BY DEF Crash, Start, EmptyMemory, Cached
<1>2. CleanPageMatchesDisk'
  BY <1>1 DEF CleanPageMatchesDisk
<1>3. LastWritten' = disk
  BY <1>1 DEF SInv, IInv, TypeOK, LastWritten
<1> QED BY <1>1, <1>2, <1>3

\* Every step keeps the clean pages as the disk holds them.
LEMMA StoreInvariant ==
  ASSUME OneFileOnly
  PROVE  /\ Init => SInv
         /\ SInv /\ [Next]_vars => SInv'
<1>1. Init => SInv
  BY InitInvariant DEF Init, SInv, CleanPageMatchesDisk, Cached
<1>2. ASSUME SInv, [Next]_vars PROVE CleanPageMatchesDisk'
  <2>1. ASSUME NEW x \in PageIds, GetPage(x) PROVE CleanPageMatchesDisk'
    BY <1>2, <2>1, GetPageCases, FillStep, EvictStep
  <2>2. ASSUME NEW x \in PageIds, NEW v \in Values, WritePage(x, v)
        PROVE  CleanPageMatchesDisk'
    BY <1>2, <2>2, WriteStep
  <2>3. CASE CloseNextPage
    BY <1>2, <2>3, CloseStep
  <2>4. CASE Crash \/ Start
    BY <1>2, <2>4, MemoryLostStep
  <2>5. CASE \/ \E n \in Files : OpenFile(n) \/ BeginClose(n)
             \/ EndClose \/ BeginExit \/ EndExit \/ UNCHANGED vars
    BY <1>2, <2>5, FileSteps
  <2> QED BY <1>2, <2>1, <2>2, <2>3, <2>4, <2>5 DEF Next
<1> QED BY <1>1, <1>2, NextInvariant DEF SInv

\* Pages that reach the disk as they are: a step the store takes on its own.
LEMMA FlushStep ==
  ASSUME SInv, NEW S \in SUBSET PageIds, phase \in {"up", "exiting"},
         phase' = phase, LastWritten' = LastWritten,
         disk' = [x \in PageIds |-> IF x \in S THEN LastWritten[x] ELSE disk[x]]
  PROVE  Store!Next
BY DEF Store!Next, Store!Flush

\* One dirty page written to its place.
LEMMA WriteBack ==
  ASSUME SInv, NEW v \in Cached, phase \in {"up", "exiting"},
         phase' = phase, LastWritten' = LastWritten,
         disk' = IF frame[buffer_map[v]].dirty
                   THEN [disk EXCEPT ![v] = frame[buffer_map[v]].data] ELSE disk
  PROVE  [Store!Next]_Store!vars
<1>1. v \in PageIds
  BY CachedFrame DEF SInv
<1>2. CASE frame[buffer_map[v]].dirty
  <2>1. LastWritten[v] = frame[buffer_map[v]].data
    BY <1>1, <1>2 DEF LastWritten
  <2>2. disk' = [x \in PageIds |-> IF x \in {v} THEN LastWritten[x] ELSE disk[x]]
    BY <1>1, <1>2, <2>1 DEF SInv, IInv, TypeOK
  <2> QED BY <1>1, <2>2, FlushStep
<1>3. CASE ~ frame[buffer_map[v]].dirty
  BY <1>3 DEF Store!vars
<1> QED BY <1>2, <1>3

\* Every step is a step of the page store, or leaves it as it is.
LEMMA NextImplements ==
  ASSUME OneFileOnly, SInv, [Next]_vars
  PROVE  [Store!Next]_Store!vars
<1>1. ASSUME NEW x \in PageIds, GetPage(x) PROVE [Store!Next]_Store!vars
  <2>1. Requested(x) /\ (Hit(x) \/ (x \notin Cached /\ (AllocNew(x) \/ AllocEvict(x))))
    BY <1>1, GetPageCases
  <2>2. phase \in {"up", "exiting"} /\ phase' = phase
    BY <2>1 DEF Requested
  <2>3. CASE Hit(x) \/ (x \notin Cached /\ AllocNew(x))
    BY <2>1, <2>2, <2>3, FillStep DEF Store!vars
  <2>4. CASE x \notin Cached /\ AllocEvict(x)
    BY <2>1, <2>2, <2>4, EvictStep, WriteBack
  <2> QED BY <2>1, <2>3, <2>4
<1>2. ASSUME NEW x \in PageIds, NEW v \in Values, WritePage(x, v)
      PROVE  [Store!Next]_Store!vars
  <2>1. LastWritten' = [LastWritten EXCEPT ![x] = v]
    BY <1>2, WriteStep
  <2>2. Store!Write(x, v)
    BY <1>2, <2>1 DEF Store!Write, WritePage
  <2> QED BY <2>2 DEF Store!Next
<1>3. CASE CloseNextPage
  <2>1. PICK x \in PageIds :
          disk' = IF x \in Cached /\ frame[buffer_map[x]].dirty
                    THEN [disk EXCEPT ![x] = frame[buffer_map[x]].data] ELSE disk
    BY <1>3, CloseStep
  <2>2. LastWritten' = LastWritten /\ phase' = phase
    BY <1>3, CloseStep DEF CloseNextPage
  <2>3. phase \in {"up", "exiting"}
    BY <1>3 DEF CloseNextPage, SInv, IInv, TypeOK, StoppedHasNoFiles
  <2>4. CASE x \in Cached
    BY <2>1, <2>2, <2>3, <2>4, WriteBack
  <2>5. CASE x \notin Cached
    BY <2>1, <2>2, <2>5 DEF Store!vars
  <2> QED BY <2>4, <2>5
<1>4. CASE (\E n \in Files : OpenFile(n) \/ BeginClose(n)) \/ EndClose \/ UNCHANGED vars
  <2>1. phase' = phase
    BY <1>4 DEF OpenFile, BeginClose, EndClose, vars
  <2> QED BY <1>4, <2>1, FileSteps DEF Store!vars
<1>5. CASE BeginExit
  <2>1. LastWritten' = LastWritten /\ disk' = disk
    BY <1>5, FileSteps
  <2> QED BY <1>5, <2>1 DEF BeginExit, Store!Next, Store!BeginExit
<1>6. CASE EndExit
  <2>1. Cached = {}
    BY <1>6 DEF EndExit, SInv, IInv, CloseReachesEveryPage, InUse
  <2>2. LastWritten = disk
    BY <2>1 DEF LastWritten, SInv, IInv, TypeOK
  <2>3. LastWritten' = LastWritten /\ disk' = disk
    BY <1>6, FileSteps
  <2> QED BY <1>6, <2>2, <2>3 DEF EndExit, Store!Next, Store!EndExit
<1>7. CASE Crash
  BY <1>7, MemoryLostStep DEF Crash, Store!Next, Store!Crash
<1>8. CASE Start
  <2>1. Cached = {}
    BY <1>8 DEF Start, SInv, IInv, StoppedHasNoFiles, CloseReachesEveryPage, InUse
  <2>2. LastWritten = disk
    BY <2>1 DEF LastWritten, SInv, IInv, TypeOK
  <2> QED BY <1>8, <2>2, MemoryLostStep DEF Start, Store!Next, Store!Start
<1> QED BY <1>1, <1>2, <1>3, <1>4, <1>5, <1>6, <1>7, <1>8 DEF Next

(***************************************************************************)
(* With one file a cached page that is clean may be dropped: it is what the *)
(* disk holds, whatever was read, written, evicted or closed before.        *)
(***************************************************************************)
THEOREM CleanPagesMatchDisk ==
  ASSUME OneFileOnly
  PROVE  Spec => []CleanPageMatchesDisk
<1>1. SInv => CleanPageMatchesDisk
  BY DEF SInv
<1> QED BY <1>1, StoreInvariant, PTL DEF Spec

(***************************************************************************)
(* A Filesystem with one file implements the page store: whatever is        *)
(* cached, evicted, closed and opened again, a page keeps what was last     *)
(* written to it, and a clean exit leaves it on the disk (File::get_page,    *)
(* File::close, the destructor of Filesystem).                              *)
(***************************************************************************)
THEOREM OneFileImplementsPageStore ==
  ASSUME OneFileOnly
  PROVE  Spec => ImplementsPageStore
<1>1. Init => Store!Init
  BY DEF Init, Store!Init, LastWritten, Cached
<1>2. SInv /\ [Next]_vars => [Store!Next]_Store!vars
  BY NextImplements
<1> QED BY <1>1, <1>2, StoreInvariant, PTL DEF Spec, ImplementsPageStore, Store!Spec
(***************************************************************************)
(* With one file no dirty page leaves the cache unwritten: eviction and     *)
(* File::close write it where it belongs, only a crash drops it.            *)
(***************************************************************************)
THEOREM DirtyPagesAreWritten ==
  ASSUME OneFileOnly
  PROVE  Spec => DirtyPageReachesDisk
<1> DEFINE Written == \A x \in Cached : LET fr == buffer_map[x]
                                        IN  x \notin DOMAIN buffer_map' /\ phase' # "crashed" /\ frame[fr].dirty
                                              => disk'[x] = frame[fr].data
<1>1. ASSUME SInv, [Next]_vars PROVE [Written]_vars
  <2> SUFFICES ASSUME NEW y \in Cached, y \notin DOMAIN buffer_map', phase' # "crashed",
                      frame[buffer_map[y]].dirty
               PROVE  disk'[y] = frame[buffer_map[y]].data
    OBVIOUS
  <2>1. y \in PageIds /\ disk \in [PageIds -> Values \cup {Absent}]
    BY <1>1, CachedFrame DEF SInv, IInv, TypeOK
  <2>2. Cached' = DOMAIN buffer_map'
    BY DEF Cached
  <2>3. ASSUME NEW x \in PageIds, GetPage(x) PROVE disk'[y] = frame[buffer_map[y]].data
    <3>1. Requested(x) /\ (Hit(x) \/ (x \notin Cached /\ (AllocNew(x) \/ AllocEvict(x))))
      BY <2>3, GetPageCases
    <3>2. CASE Hit(x)
      BY <2>2, <3>2 DEF Hit, Cached
    <3>3. CASE AllocNew(x)
      BY <2>2, <3>3 DEF AllocNew, WithKey, Cached
    <3>4. CASE x \notin Cached /\ AllocEvict(x)
      <4>1. PICK v \in Cached : /\ Cached' = (Cached \ {v}) \cup {x}
                                /\ disk' = IF frame[buffer_map[v]].dirty
                                             THEN [disk EXCEPT ![v] = frame[buffer_map[v]].data]
                                             ELSE disk
        BY <1>1, <3>1, <3>4, EvictStep
      <4>2. y = v
        BY <2>2, <4>1
      <4> QED BY <2>1, <4>1, <4>2
    <3> QED BY <3>1, <3>2, <3>3, <3>4
  <2>4. CASE CloseNextPage
    <3>1. PICK x \in PageIds : /\ Cached' = Cached \ {x}
                               /\ disk' = IF x \in Cached /\ frame[buffer_map[x]].dirty
                                            THEN [disk EXCEPT ![x] = frame[buffer_map[x]].data]
                                            ELSE disk
      BY <1>1, <2>4, CloseStep
    <3>2. y = x
      BY <2>2, <3>1
    <3> QED BY <2>1, <3>1, <3>2
  <2>5. ASSUME NEW x \in PageIds, NEW v \in Values, WritePage(x, v) PROVE FALSE
    BY <2>2, <2>5 DEF WritePage, Cached
  <2>6. ASSUME \/ \E n \in Files : OpenFile(n) \/ BeginClose(n)
               \/ EndClose \/ BeginExit \/ EndExit \/ UNCHANGED vars
        PROVE  FALSE
    <3>1. buffer_map' = buffer_map
      BY <1>1, <2>6, FileSteps
    <3> QED BY <2>2, <3>1 DEF Cached
  <2>7. ASSUME Crash \/ Start PROVE FALSE
    <3>1. Start
      BY <2>7 DEF Crash
    <3>2. Cached = {}
      BY <1>1, <3>1 DEF Start, SInv, IInv, StoppedHasNoFiles, CloseReachesEveryPage, InUse
    <3> QED BY <3>2
  <2> QED BY <1>1, <2>3, <2>4, <2>5, <2>6, <2>7 DEF Next
<1> QED BY <1>1, StoreInvariant, PTL DEF Spec, DirtyPageReachesDisk
=============================================================================
