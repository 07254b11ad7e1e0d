-------------------------- MODULE RecordFile_proofs --------------------------
(***************************************************************************)
(* The data pages of a record file stay sound, for every size of page and   *)
(* header, every unit of free space and every number of groups, as long as  *)
(* no record takes a whole page (RoomBehindRecord).                         *)
(*                                                                         *)
(* A page is sound together with a fact the code relies on and states       *)
(* nowhere: behind the last record there is room for one more slot, so the  *)
(* subtraction of vacancy_at does not wrap around (RoomForASlot).  It is    *)
(* kept because alloc_vacancy asks for two bytes more than the record has,  *)
(* and the header's free size has left out two already.                     *)
(***************************************************************************)
EXTENDS RecordFile, SequenceTheorems, WellFoundedInduction, TLAPS

\* No record fills a page: a slot behind it finds its two bytes.
RoomBehindRecord == Sizes \subseteq 1 .. MaxFree - SlotBytes

RoomForASlot(pg) ==
  \A i \in Slots(pg) : Valid(pg, i) => End(pg, i) + (pg.slot_cnt + 1) * SlotBytes <= PAGE_SIZE

SoundRecords(pg) == IsPage(pg) /\ RecordsDisjoint(pg) /\ RoomForASlot(pg)

GoodPage(pg) == SoundRecords(pg) /\ FreePlaceIsFree(pg)

\* The pages are a function, and those in use are good.
GoodPages ==
  /\ page = [p \in Pages |-> page[p]]
  /\ \A p \in Pages : page[p] = Nil \/ GoodPage(page[p])
-----------------------------------------------------------------------------
\* A set of numbers that is not empty has its least member.
LEMMA FirstExists ==
  ASSUME NEW S, S \subseteq Nat, S # {}
  PROVE  First(S) \in S /\ \A k \in S : First(S) <= k
<1>1. PICK x \in S : \A y \in S : ~ (<<y, x>> \in OpToRel(<, Nat))
  BY WFMin, NatLessThanWellFounded
<1>2. \A y \in S : ~ (y < x)
  BY <1>1, Zenon DEF OpToRel
<1>3. \A y \in S : x <= y
  BY <1>2
<1> QED BY <1>3 DEF First

\* Numbers that are bounded have a greatest one.
LEMMA GreatestExists ==
  ASSUME NEW n \in Nat, NEW S, S # {}, NEW f, \A i \in S : f[i] \in 0 .. n
  PROVE  \E i \in S : \A j \in S : f[j] <= f[i]
<1> DEFINE T == {n - f[i] : i \in S}
<1>1. T \subseteq Nat /\ T # {}
  <2>1. ASSUME NEW i \in S PROVE n - f[i] \in Nat
    <3>1. f[i] \in 0 .. n
      OBVIOUS
    <3> QED BY <3>1
  <2> QED BY <2>1
<1>2. First(T) \in T /\ \A y \in T : First(T) <= y
  <2> HIDE DEF T
  <2> QED BY <1>1, FirstExists
<1>3. PICK i \in S : First(T) = n - f[i]
  BY <1>2
<1>4. \A j \in S : n - f[i] <= n - f[j]
  BY <1>2, <1>3
<1>5. \A j \in S : f[j] <= f[i]
  BY <1>4
<1> QED BY <1>5

\* What the fields of a page are.
LEMMA PageFields ==
  ASSUME NEW pg, IsPage(pg)
  PROVE  /\ pg.slot_cnt \in 0 .. PAGE_SIZE
         /\ Slots(pg) \subseteq Nat
         /\ pg.slot \in [Slots(pg) -> Slot]
         /\ pg.free_size \in 0 .. WORD - 1 /\ pg.free_offset \in Nat /\ pg.free_slot_id \in Nat
         /\ DOMAIN pg = {"slot_cnt", "slot", "free_size", "free_offset", "free_slot_id"}
         /\ pg = [x \in DOMAIN pg |-> pg[x]]
         /\ \A i \in Slots(pg) : /\ pg.slot[i].offset \in Nat /\ pg.slot[i].size \in Nat
                                 /\ End(pg, i) \in Nat
                                 /\ Valid(pg, i) => pg.slot[i].size > 0
<1> USE PageSizeAssumption
<1>1. PICK n \in 0 .. PAGE_SIZE :
        pg \in [slot_cnt : {n}, slot : [0 .. n - 1 -> Slot],
                free_size : 0 .. WORD - 1, free_offset : Nat, free_slot_id : Nat]
  BY DEF IsPage
<1>2. /\ pg.slot_cnt = n /\ pg.slot \in [0 .. n - 1 -> Slot]
      /\ pg.free_size \in 0 .. WORD - 1 /\ pg.free_offset \in Nat /\ pg.free_slot_id \in Nat
      /\ DOMAIN pg = {"slot_cnt", "slot", "free_size", "free_offset", "free_slot_id"}
      /\ pg = [x \in DOMAIN pg |-> pg[x]]
  BY <1>1
<1>3. \A e \in Slot : e.offset \in Nat /\ e.size \in Nat /\ e.offset + e.size \in Nat /\ (e.offset # 0 => e.size > 0)
  BY DEF Slot, NoRecord
<1> QED BY <1>2, <1>3 DEF Slots, End, Valid
-----------------------------------------------------------------------------
(***************************************************************************)
(* vacancy_at, for a slot an insertion may take: bytes that are free.       *)
(***************************************************************************)
FreeBytes(pg, i, size, offset) ==
  /\ size \in 0 .. PAGE_SIZE /\ offset \in Nat
  /\ size > 0 =>
       /\ offset >= RECORD_PAGE_HEADER_SIZE
       /\ offset + size + (IF i = pg.slot_cnt THEN i + 1 ELSE pg.slot_cnt) * SlotBytes <= PAGE_SIZE
       /\ \A j \in Slots(pg) : Valid(pg, j) =>
            /\ j < i => End(pg, j) <= offset
            /\ j > i => offset + size <= pg.slot[j].offset

\* The records before a slot end where the one next to it ends, or before.
LEMMA EndsGrow ==
  ASSUME NEW pg, IsPage(pg), RecordsDisjoint(pg), NEW i \in Slots(pg), Valid(pg, i)
  PROVE  \A j \in Slots(pg) : Valid(pg, j) /\ j <= i => End(pg, j) <= End(pg, i)
<1> SUFFICES ASSUME NEW j \in Slots(pg), Valid(pg, j), j <= i PROVE End(pg, j) <= End(pg, i)
  OBVIOUS
<1>1. End(pg, j) \in Nat /\ pg.slot[i].offset \in Nat /\ pg.slot[i].size \in Nat /\ i \in Nat /\ j \in Nat
  BY PageFields
<1>2. CASE j = i
  BY <1>2, <1>1 DEF End
<1>3. CASE j < i
  <2>1. End(pg, j) <= pg.slot[i].offset
    BY <1>3 DEF RecordsDisjoint
  <2> QED BY <2>1, <1>1 DEF End
<1> QED BY <1>1, <1>2, <1>3

\* The bytes of a vacancy are those of no record.
LEMMA VacancyIsFree ==
  ASSUME NEW pg, SoundRecords(pg), NEW i \in FreeSlots(pg)
  PROVE  FreeBytes(pg, i, vacancy_at(pg, i).size, vacancy_at(pg, i).offset)
<1> USE PageSizeAssumption
<1> DEFINE v == vacancy_at(pg, i)
           cnt == pg.slot_cnt
<1>1. cnt \in 0 .. PAGE_SIZE /\ i \in 0 .. cnt /\ IsPage(pg) /\ RecordsDisjoint(pg) /\ RoomForASlot(pg)
  BY PageFields DEF SoundRecords, FreeSlots
<1>2. CASE cnt = 0
  <2>1. v = [size |-> MaxFree, offset |-> RECORD_PAGE_HEADER_SIZE] /\ Slots(pg) = {} /\ i = 0
    BY <1>1, <1>2 DEF vacancy_at, Slots
  <2> QED BY <2>1, <1>2 DEF FreeBytes, MaxFree, SlotBytes
<1>3. CASE cnt # 0 /\ i = cnt
  <2> DEFINE l == cnt - 1
  <2>1. l \in Slots(pg) /\ Valid(pg, l)
    BY <1>1, <1>3 DEF RecordsDisjoint, Slots
  <2>2. End(pg, l) \in Nat /\ End(pg, l) >= RECORD_PAGE_HEADER_SIZE /\ pg.slot[l].size \in Nat
    BY <1>1, <2>1, PageFields DEF RecordsDisjoint, End
  <2>3. End(pg, l) + (cnt + 1) * 2 <= PAGE_SIZE
    BY <1>1, <2>1 DEF RoomForASlot, SlotBytes
  <2>4. v = [size |-> PAGE_SIZE - End(pg, l) - cnt * 2 - 2, offset |-> End(pg, l)]
    BY <1>1, <1>3, <2>2, <2>3 DEF vacancy_at, SizeT, SlotBytes
  <2>5. \A j \in Slots(pg) : j \in Nat /\ j <= l
    BY <1>1 DEF Slots
  <2>6. \A j \in Slots(pg) : Valid(pg, j) => End(pg, j) <= End(pg, l)
    BY <1>1, <2>1, <2>5, EndsGrow
  <2> QED BY <1>1, <1>3, <2>2, <2>3, <2>4, <2>5, <2>6 DEF FreeBytes, SlotBytes
<1>4. CASE i < cnt
  <2>1. i \in Slots(pg) /\ ~ Valid(pg, i)
    BY <1>1, <1>4 DEF FreeSlots, Slots
  <2>2. CASE i > 0 /\ ~ Valid(pg, i - 1)
    <3>1. v = [size |-> 0, offset |-> 0]
      BY <1>1, <1>4, <2>1, <2>2 DEF vacancy_at
    <3> QED BY <3>1 DEF FreeBytes
  <2>3. CASE i = 0 \/ Valid(pg, i - 1)
    <3> DEFINE later == LaterRecords(pg, i)
               l == First(later)
               from == FreeFrom(pg, i)
    <3>1. cnt - 1 \in later
      BY <1>1, <1>4, <2>1 DEF LaterRecords, RecordsDisjoint, Slots
    <3>2. l \in later /\ \A k \in later : l <= k
      <4>1. later \subseteq Nat
        BY <1>1, PageFields DEF LaterRecords
      <4> HIDE DEF later
      <4> QED BY <3>1, <4>1, FirstExists
    <3>3. l \in Slots(pg) /\ l \in Nat /\ l > i /\ Valid(pg, l) /\ pg.slot[l].offset \in Nat
          /\ pg.slot[l].size \in Nat /\ End(pg, l) + cnt * 2 <= PAGE_SIZE
          /\ pg.slot[l].offset >= RECORD_PAGE_HEADER_SIZE
      BY <1>1, <3>2, PageFields DEF LaterRecords, RecordsDisjoint, SlotBytes
    <3>4. /\ from \in Nat /\ from >= RECORD_PAGE_HEADER_SIZE /\ from <= pg.slot[l].offset
          /\ \A j \in Slots(pg) : Valid(pg, j) /\ j < i => End(pg, j) <= from
      <4>1. CASE i = 0
        <5>1. from = RECORD_PAGE_HEADER_SIZE
          BY <2>1, <4>1 DEF FreeFrom
        <5> QED BY <5>1, <4>1, <3>3, <1>1, PageFields
      <4>2. CASE i > 0
        <5>1. from = End(pg, i - 1) /\ i - 1 \in Slots(pg) /\ Valid(pg, i - 1)
          BY <1>1, <1>4, <2>1, <2>3, <4>2 DEF FreeFrom, Slots
        <5>2. from \in Nat /\ pg.slot[i - 1].offset >= RECORD_PAGE_HEADER_SIZE
              /\ pg.slot[i - 1].offset \in Nat /\ pg.slot[i - 1].size \in Nat
          BY <1>1, <5>1, PageFields DEF RecordsDisjoint
        <5>3. from <= pg.slot[l].offset
          BY <1>1, <5>1, <3>3 DEF RecordsDisjoint
        <5>4. \A j \in Slots(pg) : j \in Nat /\ (j < i => j <= i - 1)
          BY <1>1, PageFields
        <5>5. \A j \in Slots(pg) : Valid(pg, j) /\ j < i => End(pg, j) <= from
          BY <1>1, <5>1, <5>4, EndsGrow
        <5> QED BY <5>1, <5>2, <5>3, <5>5 DEF End
      <4> QED BY <4>1, <4>2, <1>1
    <3>5. v = [size |-> pg.slot[l].offset - from, offset |-> from]
      BY <1>1, <1>4, <2>1, <2>3, <3>1, <3>3, <3>4 DEF vacancy_at, SizeT
    <3>6. \A j \in Slots(pg) : Valid(pg, j) /\ j > i => pg.slot[l].offset <= pg.slot[j].offset
      <4> SUFFICES ASSUME NEW j \in Slots(pg), Valid(pg, j), j > i PROVE pg.slot[l].offset <= pg.slot[j].offset
        OBVIOUS
      <4>1. l <= j /\ j \in Nat /\ pg.slot[j].offset \in Nat
        BY <1>1, <3>2, PageFields DEF LaterRecords
      <4>2. CASE l < j
        BY <4>1, <4>2, <1>1, <3>3 DEF RecordsDisjoint, End
      <4> QED BY <4>1, <4>2, <3>3
    <3>7. pg.slot[l].offset + cnt * 2 <= PAGE_SIZE
      BY <3>3, <1>1 DEF End
    <3> HIDE DEF later, l, from
    <3> QED BY <1>1, <1>4, <3>3, <3>4, <3>5, <3>6, <3>7 DEF FreeBytes, SlotBytes
  <2> QED BY <1>1, <2>2, <2>3
<1> QED BY <1>1, <1>2, <1>3, <1>4
-----------------------------------------------------------------------------
\* The header after fix_page_header describes a vacancy, the records stay.
LEMMA FixedPageGood ==
  ASSUME NEW pg, SoundRecords(pg)
  PROVE  GoodPage(fix_page_header(pg))
<1> USE PageSizeAssumption
<1> DEFINE F       == FreeSlots(pg)
           vacancy == [i \in F |-> vacancy_at(pg, i)]
           size    == [i \in F |-> vacancy_at(pg, i).size]
           largest == {i \in F : \A j \in F : vacancy[j].size <= vacancy[i].size}
           i       == First(largest)
           fixed   == fix_page_header(pg)
<1>1. F \subseteq Nat /\ pg.slot_cnt \in F
  BY PageFields DEF SoundRecords, FreeSlots
<1>2. \A j \in F : FreeBytes(pg, j, vacancy[j].size, vacancy[j].offset)
  BY VacancyIsFree
<1>3. i \in F
  <2>1. \A j \in F : size[j] = vacancy[j].size /\ size[j] \in 0 .. PAGE_SIZE
    BY <1>2 DEF FreeBytes
  <2>2. \E k \in F : \A j \in F : size[j] <= size[k]
    <3> HIDE DEF F, size
    <3> QED BY <1>1, <2>1, GreatestExists
  <2>3. largest # {} /\ largest \subseteq Nat
    BY <1>1, <2>1, <2>2
  <2>4. i \in largest
    <3> HIDE DEF largest
    <3> QED BY <2>3, FirstExists
  <2> QED BY <2>4
<1> DEFINE v == vacancy[i]
<1>4. FreeBytes(pg, i, v.size, v.offset) /\ i \in Nat
  BY <1>1, <1>2, <1>3
<1>5. fixed = IF v.size = 0 THEN [pg EXCEPT !.free_size = 0]
              ELSE [pg EXCEPT !.free_size = v.size, !.free_offset = v.offset, !.free_slot_id = i]
  BY DEF fix_page_header
<1> HIDE DEF i, v, fixed, F
<1>6. /\ fixed.slot = pg.slot /\ fixed.slot_cnt = pg.slot_cnt
      /\ IF v.size = 0 THEN fixed.free_size = 0
         ELSE fixed.free_size = v.size /\ fixed.free_offset = v.offset /\ fixed.free_slot_id = i
  BY <1>5, PageFields DEF SoundRecords
<1>7. IsPage(fixed)
  <2>1. PICK n \in 0 .. PAGE_SIZE :
          pg \in [slot_cnt : {n}, slot : [0 .. n - 1 -> Slot],
                  free_size : 0 .. WORD - 1, free_offset : Nat, free_slot_id : Nat]
    BY DEF SoundRecords, IsPage
  <2>2. v.size \in 0 .. WORD - 1 /\ v.offset \in Nat /\ 0 \in 0 .. WORD - 1
    BY <1>4 DEF FreeBytes
  <2>3. fixed \in [slot_cnt : {n}, slot : [0 .. n - 1 -> Slot],
                   free_size : 0 .. WORD - 1, free_offset : Nat, free_slot_id : Nat]
    BY <1>4, <1>5, <2>1, <2>2
  <2> QED BY <2>3 DEF IsPage
<1>8. RecordsDisjoint(fixed) /\ RoomForASlot(fixed)
  BY <1>6 DEF SoundRecords, RecordsDisjoint, RoomForASlot, Valid, End, Slots
<1>9. FreePlaceIsFree(fixed)
  <2>1. CASE v.size = 0
    BY <2>1, <1>6 DEF FreePlaceIsFree
  <2>2. CASE v.size # 0
    <3>1. v.size > 0 /\ i \in F
      BY <1>3, <1>4, <2>2 DEF FreeBytes
    <3>2. FreeSlots(fixed) = F /\ Slots(fixed) = Slots(pg)
          /\ \A j \in Slots(pg) : (Valid(fixed, j) <=> Valid(pg, j)) /\ End(fixed, j) = End(pg, j)
      BY <1>6 DEF F, FreeSlots, Slots, Valid, End
    <3> QED BY <1>4, <1>6, <2>2, <3>1, <3>2 DEF FreePlaceIsFree, FreeBytes
  <2> QED BY <2>1, <2>2
<1>10. fixed = fix_page_header(pg)
  BY DEF fixed
<1> QED BY <1>7, <1>8, <1>9, <1>10 DEF GoodPage, SoundRecords
-----------------------------------------------------------------------------
\* A page with room for a record, and for its slot, where the header says.
Ready(pg, size) ==
  /\ IsPage(pg) /\ FreePlaceIsFree(pg) /\ RoomForASlot(pg)
  /\ size \in 1 .. PAGE_SIZE /\ size + SlotBytes <= pg.free_size
  /\ \A i, j \in Slots(pg) : i < j /\ Valid(pg, i) /\ Valid(pg, j) => End(pg, i) <= pg.slot[j].offset
  /\ \A i \in Slots(pg) : Valid(pg, i) => RECORD_PAGE_HEADER_SIZE <= pg.slot[i].offset
  /\ pg.slot_cnt > 0 => Valid(pg, pg.slot_cnt - 1) \/ pg.free_slot_id = pg.slot_cnt - 1

\* A page of the file takes a record its free space is enough for.
LEMMA UsedPageReady ==
  ASSUME NEW pg, GoodPage(pg), NEW size \in Sizes, size + SlotBytes <= pg.free_size
  PROVE  Ready(pg, size)
<1>1. size \in 1 .. PAGE_SIZE
  BY RecordFileAssumption, PageSizeAssumption DEF MaxFree, SlotBytes
<1> QED BY <1>1 DEF Ready, GoodPage, SoundRecords, RecordsDisjoint

\* A new page takes any record.
LEMMA NewPageReady ==
  ASSUME RoomBehindRecord, NEW size \in Sizes
  PROVE  Ready(NewPage, size)
<1> USE PageSizeAssumption
<1>1. size \in 1 .. PAGE_SIZE /\ size + SlotBytes <= MaxFree /\ MaxFree \in 1 .. WORD - 1
  BY DEF RoomBehindRecord, MaxFree, SlotBytes
<1>2. IsPage(NewPage)
  <2>1. NewPage \in [slot_cnt : {1}, slot : [0 .. 1 - 1 -> Slot],
                     free_size : 0 .. WORD - 1, free_offset : Nat, free_slot_id : Nat]
    BY <1>1 DEF NewPage, Slot
  <2>2. 1 \in 0 .. PAGE_SIZE
    OBVIOUS
  <2> QED BY <2>1, <2>2 DEF IsPage
<1>3. Slots(NewPage) = {0} /\ ~ Valid(NewPage, 0)
  BY DEF Slots, NewPage, Valid, NoRecord
<1>4. FreePlaceIsFree(NewPage)
  <2>1. FreeSlots(NewPage) = {0, 1}
    BY <1>3 DEF FreeSlots, NewPage
  <2> QED BY <1>3, <2>1 DEF FreePlaceIsFree, NewPage, MaxFree, SlotBytes
<1> QED BY <1>1, <1>2, <1>3, <1>4 DEF Ready, RoomForASlot, NewPage

\* A record put where the header says: it overlaps none, and a slot behind the
\* last record still has room.
LEMMA PutRecordGood ==
  ASSUME NEW pg, NEW size, Ready(pg, size)
  PROVE  GoodPage(PutRecord(pg, size))
<1> USE PageSizeAssumption
<1> DEFINE i     == pg.free_slot_id
           cnt   == pg.slot_cnt
           n     == IF i >= cnt THEN i + 1 ELSE cnt
           entry == [offset |-> pg.free_offset, size |-> size]
           put   == WithSlot(pg, i, entry)
<1>1. /\ IsPage(pg) /\ cnt \in 0 .. PAGE_SIZE /\ i \in FreeSlots(pg) /\ i \in 0 .. cnt
      /\ pg.free_offset \in Nat /\ pg.free_size \in Nat /\ size \in Nat /\ size > 0 /\ size + 2 <= pg.free_size
      /\ pg.free_offset >= RECORD_PAGE_HEADER_SIZE
      /\ pg.free_offset + pg.free_size + n * 2 <= PAGE_SIZE
      /\ \A j \in Slots(pg) : Valid(pg, j) =>
           /\ j < i => End(pg, j) <= pg.free_offset
           /\ j > i => pg.free_offset + pg.free_size <= pg.slot[j].offset
  <2>1. IsPage(pg) /\ size \in 1 .. PAGE_SIZE /\ size + 2 <= pg.free_size
    BY DEF Ready, SlotBytes
  <2>2. cnt \in 0 .. PAGE_SIZE /\ pg.free_offset \in Nat /\ pg.free_size \in Nat
    BY <2>1, PageFields
  <2>3. i \in FreeSlots(pg) /\ i \in 0 .. cnt
    BY <2>1, <2>2 DEF Ready, FreePlaceIsFree, FreeSlots
  <2> QED BY <2>1, <2>2, <2>3 DEF Ready, FreePlaceIsFree, SlotBytes
<1>2. n \in 1 .. PAGE_SIZE /\ cnt <= n /\ i < n /\ i \in 0 .. n - 1 /\ Slots(pg) \subseteq 0 .. n - 1
  BY <1>1 DEF Slots
<1>3. /\ put = [pg EXCEPT !.slot_cnt = n, !.slot = [j \in 0 .. n - 1 |-> IF j = i THEN entry ELSE pg.slot[j]]]
      /\ \A j \in 0 .. n - 1 : j # i => j \in Slots(pg)
  BY <1>1, <1>2 DEF WithSlot, Slots
<1>4. /\ put.slot_cnt = n /\ Slots(put) = 0 .. n - 1
      /\ put.slot = [j \in 0 .. n - 1 |-> IF j = i THEN entry ELSE pg.slot[j]]
  BY <1>1, <1>3, PageFields DEF Slots
<1>5. /\ Valid(put, i) /\ put.slot[i] = entry /\ End(put, i) = pg.free_offset + size
      /\ \A j \in Slots(put) : j # i => /\ put.slot[j] = pg.slot[j] /\ j \in Slots(pg)
                                        /\ End(put, j) = End(pg, j) /\ (Valid(put, j) <=> Valid(pg, j))
  <2> HIDE DEF put, n
  <2>1. put.slot[i] = entry /\ \A j \in Slots(put) : j # i => put.slot[j] = pg.slot[j] /\ j \in Slots(pg)
    <3> HIDE DEF entry
    <3> QED BY <1>2, <1>3, <1>4
  <2> QED BY <1>1, <2>1 DEF Valid, End
<1>6. IsPage(put)
  <2>1. PICK m \in 0 .. PAGE_SIZE :
          pg \in [slot_cnt : {m}, slot : [0 .. m - 1 -> Slot],
                  free_size : 0 .. WORD - 1, free_offset : Nat, free_slot_id : Nat]
    BY <1>1 DEF IsPage
  <2>2. entry \in Slot
    BY <1>1 DEF Slot
  <2>3. \A j \in Slots(pg) : pg.slot[j] \in Slot
    BY <1>1, PageFields
  <2>4. put.slot \in [0 .. n - 1 -> Slot]
    BY <1>3, <1>4, <2>2, <2>3
  <2>5. put \in [slot_cnt : {n}, slot : [0 .. n - 1 -> Slot],
                 free_size : 0 .. WORD - 1, free_offset : Nat, free_slot_id : Nat]
    <3> HIDE DEF entry, n, i
    <3> QED BY <1>3, <1>4, <2>1, <2>4
  <2>6. n \in 0 .. PAGE_SIZE
    BY <1>2
  <2> QED BY <2>5, <2>6 DEF IsPage
<1>7. RoomForASlot(put)
  <2> SUFFICES ASSUME NEW j \in Slots(put), Valid(put, j)
               PROVE  End(put, j) + (n + 1) * 2 <= PAGE_SIZE
    BY <1>4 DEF RoomForASlot, SlotBytes
  <2>1. CASE j = i
    BY <2>1, <1>1, <1>2, <1>5
  <2>2. CASE j # i
    <3>1. j \in Slots(pg) /\ Valid(pg, j) /\ End(put, j) = End(pg, j) /\ End(pg, j) \in Nat /\ j \in 0 .. cnt - 1
      BY <1>1, <1>5, <2>2, PageFields DEF Slots
    <3>2. End(pg, j) + (cnt + 1) * 2 <= PAGE_SIZE
      BY <3>1 DEF Ready, RoomForASlot, SlotBytes
    <3>3. i >= cnt => j < i /\ End(pg, j) <= pg.free_offset
      BY <1>1, <3>1
    <3> QED BY <1>1, <3>1, <3>2, <3>3
  <2> QED BY <2>1, <2>2
<1>8. RecordsDisjoint(put)
  <2>1. ASSUME NEW j \in Slots(put), Valid(put, j)
        PROVE  RECORD_PAGE_HEADER_SIZE <= put.slot[j].offset /\ End(put, j) + n * 2 <= PAGE_SIZE
    <3>1. End(put, j) + (n + 1) * 2 <= PAGE_SIZE /\ End(put, j) \in Nat
      BY <1>4, <1>6, <1>7, <2>1, PageFields DEF RoomForASlot, SlotBytes
    <3>2. RECORD_PAGE_HEADER_SIZE <= put.slot[j].offset
      BY <1>1, <1>5, <2>1 DEF Ready
    <3> QED BY <1>2, <3>1, <3>2
  <2>2. ASSUME NEW j \in Slots(put), NEW k \in Slots(put), j < k, Valid(put, j), Valid(put, k)
        PROVE  End(put, j) <= put.slot[k].offset
    <3>1. CASE j = i
      <4> HIDE DEF put, n
      <4>1. k # i /\ k > i
        BY <1>2, <1>4, <2>2, <3>1
      <4>2. k \in Slots(pg) /\ Valid(pg, k) /\ put.slot[k] = pg.slot[k]
        BY <1>5, <2>2, <4>1
      <4>3. pg.slot[k].offset \in Nat /\ pg.free_offset + pg.free_size <= pg.slot[k].offset
        BY <1>1, <4>1, <4>2, PageFields
      <4> QED BY <1>1, <1>5, <3>1, <4>2, <4>3
    <3>2. CASE k = i
      <4> HIDE DEF put, n
      <4>1. j # i /\ j < i /\ put.slot[k].offset = pg.free_offset
        BY <1>2, <1>4, <1>5, <2>2, <3>2
      <4> QED BY <1>1, <1>5, <2>2, <4>1
    <3>3. CASE j # i /\ k # i
      BY <1>5, <2>2, <3>3 DEF Ready
    <3> QED BY <3>1, <3>2, <3>3
  <2>3. Valid(put, n - 1)
    <3>1. CASE n - 1 = i
      BY <3>1, <1>5
    <3>2. CASE n - 1 # i
      <4>1. n = cnt /\ n - 1 = cnt - 1 /\ cnt > 0
        BY <1>1, <1>2, <3>2
      <4> QED BY <1>2, <1>4, <1>5, <3>2, <4>1 DEF Ready
    <3> QED BY <3>1, <3>2
  <2> QED BY <1>4, <2>1, <2>2, <2>3 DEF RecordsDisjoint, SlotBytes
<1>9. PutRecord(pg, size) = fix_page_header(put)
  BY DEF PutRecord
<1> HIDE DEF put
<1> QED BY <1>6, <1>7, <1>8, <1>9, FixedPageGood DEF SoundRecords

\* A record removed, with the slots behind the last record that is left.
LEMMA RemoveRecordGood ==
  ASSUME NEW pg, GoodPage(pg), NEW i \in Slots(pg)
  PROVE  GoodPage(RemoveRecord(pg, i))
<1> USE PageSizeAssumption
<1> DEFINE cnt  == pg.slot_cnt
           left == {j \in Slots(pg) : j # i /\ Valid(pg, j)}
           last == CHOOSE j \in left : \A k \in left : k <= j
           n    == IF left = {} THEN 0 ELSE 1 + last
           gone == [pg EXCEPT !.slot_cnt = n, !.slot = [j \in 0 .. n - 1 |-> IF j = i THEN NoRecord ELSE pg.slot[j]]]
<1>1. IsPage(pg) /\ RecordsDisjoint(pg) /\ RoomForASlot(pg) /\ cnt \in 0 .. PAGE_SIZE
  BY PageFields DEF GoodPage, SoundRecords
<1>2. left # {} => last \in left /\ \A k \in left : k <= last
  <2> SUFFICES ASSUME left # {} PROVE \E j \in left : \A k \in left : k <= j
    OBVIOUS
  <2> DEFINE f == [j \in left |-> j]
  <2>1. \A j \in left : f[j] = j /\ f[j] \in 0 .. PAGE_SIZE
    BY <1>1 DEF Slots
  <2>2. \E j \in left : \A k \in left : f[k] <= f[j]
    <3> HIDE DEF left, f
    <3> QED BY <2>1, GreatestExists
  <2> QED BY <2>1, <2>2
<1>3. n \in 0 .. cnt /\ 0 .. n - 1 \subseteq Slots(pg)
  <2>1. left # {} => last \in 0 .. cnt - 1
    BY <1>2 DEF Slots
  <2> HIDE DEF last, left
  <2> QED BY <1>1, <2>1 DEF Slots
<1>4. /\ gone.slot_cnt = n /\ Slots(gone) = 0 .. n - 1
      /\ gone.slot = [j \in 0 .. n - 1 |-> IF j = i THEN NoRecord ELSE pg.slot[j]]
  BY <1>1, PageFields DEF Slots
<1>5. \A j \in Slots(gone) : /\ j \in Slots(pg)
                             /\ Valid(gone, j) <=> (j # i /\ Valid(pg, j))
                             /\ j # i => gone.slot[j] = pg.slot[j] /\ End(gone, j) = End(pg, j)
  <2> HIDE DEF n
  <2> QED BY <1>3, <1>4 DEF Valid, End, NoRecord
<1>6. IsPage(gone)
  <2> HIDE DEF n
  <2>1. PICK m \in 0 .. PAGE_SIZE :
          pg \in [slot_cnt : {m}, slot : [0 .. m - 1 -> Slot],
                  free_size : 0 .. WORD - 1, free_offset : Nat, free_slot_id : Nat]
    BY <1>1 DEF IsPage
  <2>2. \A j \in 0 .. n - 1 : pg.slot[j] \in Slot
    BY <1>1, <1>3, PageFields
  <2>3. gone.slot \in [0 .. n - 1 -> Slot]
    BY <1>4, <2>2 DEF Slot
  <2>4. gone \in [slot_cnt : {n}, slot : [0 .. n - 1 -> Slot],
                  free_size : 0 .. WORD - 1, free_offset : Nat, free_slot_id : Nat]
    BY <1>4, <2>1, <2>3
  <2>5. n \in 0 .. PAGE_SIZE
    BY <1>1, <1>3
  <2> QED BY <2>4, <2>5 DEF IsPage
<1>7. RoomForASlot(gone)
  <2> SUFFICES ASSUME NEW j \in Slots(gone), Valid(gone, j)
               PROVE  End(gone, j) + (n + 1) * 2 <= PAGE_SIZE
    BY <1>4 DEF RoomForASlot, SlotBytes
  <2>1. End(gone, j) = End(pg, j) /\ End(pg, j) \in Nat /\ End(pg, j) + (cnt + 1) * 2 <= PAGE_SIZE
    BY <1>1, <1>5, PageFields DEF RoomForASlot, SlotBytes
  <2> HIDE DEF n, gone
  <2> QED BY <1>1, <1>3, <2>1
<1>8. RecordsDisjoint(gone)
  <2>1. ASSUME NEW j \in Slots(gone), Valid(gone, j)
        PROVE  RECORD_PAGE_HEADER_SIZE <= gone.slot[j].offset /\ End(gone, j) + n * 2 <= PAGE_SIZE
    <3>1. End(gone, j) + (n + 1) * 2 <= PAGE_SIZE /\ End(gone, j) \in Nat
      BY <1>4, <1>6, <1>7, <2>1, PageFields DEF RoomForASlot, SlotBytes
    <3>2. RECORD_PAGE_HEADER_SIZE <= gone.slot[j].offset
      BY <1>1, <1>5, <2>1 DEF RecordsDisjoint
    <3> HIDE DEF n, gone
    <3> QED BY <1>1, <1>3, <3>1, <3>2
  <2>2. \A j, k \in Slots(gone) : j < k /\ Valid(gone, j) /\ Valid(gone, k) => End(gone, j) <= gone.slot[k].offset
    <3> HIDE DEF gone
    <3> QED BY <1>1, <1>5 DEF RecordsDisjoint
  <2>3. n > 0 => Valid(gone, n - 1)
    <3>1. n > 0 => n - 1 = last /\ last \in left /\ n - 1 \in 0 .. n - 1
      BY <1>1, <1>2, <1>3 DEF Slots
    <3>2. n > 0 => n - 1 \in left /\ n - 1 \in Slots(gone)
      <4> HIDE DEF n, last, left, gone
      <4> QED BY <3>1, <1>4
    <3> HIDE DEF n, gone
    <3> QED BY <3>2, <1>5
  <2> HIDE DEF n, gone
  <2> QED BY <1>4, <2>1, <2>2, <2>3 DEF RecordsDisjoint, SlotBytes
<1>9. RemoveRecord(pg, i) = fix_page_header(gone)
  BY DEF RemoveRecord
<1> HIDE DEF gone
<1> QED BY <1>6, <1>7, <1>8, <1>9, FixedPageGood DEF SoundRecords
-----------------------------------------------------------------------------
\* A page on the level a record asks for has room for it and its slot: the
\* level of the record is rounded up, the level of the page down.
LEMMA LevelIsEnough ==
  ASSUME NEW size \in Sizes, NEW bytes \in Nat, bytes \div LEVEL_UNIT >= RecordLevel(size)
  PROVE  size + SlotBytes <= bytes
<1> DEFINE U == LEVEL_UNIT
           q == (size + 2 + U - 1) \div U
           b == bytes \div U
<1>1. /\ U \in Nat /\ U > 0 /\ U <= RECORD_PAGE_HEADER_SIZE /\ PAGE_SIZE \in Nat /\ RECORD_PAGE_HEADER_SIZE \in Nat
      /\ size \in Nat /\ size + 2 <= PAGE_SIZE - RECORD_PAGE_HEADER_SIZE
  BY RecordFileAssumption, PageSizeAssumption DEF MaxFree, SlotBytes
<1>2. q \in Nat /\ q * U <= size + 2 + U - 1 /\ size + 2 + U - 1 < q * U + U
  <2> DEFINE x == size + 2 + U - 1
  <2>1. x \in Nat
    BY <1>1
  <2> HIDE DEF x
  <2> QED BY <1>1, <2>1, SMTT(30) DEF q
<1>3. b \in Nat /\ b * U <= bytes
  BY <1>1, SMTT(30)
<1>4. Levels \in Nat /\ PAGE_SIZE = Levels * U
  <2>1. PAGE_SIZE % U = 0
    BY RecordFileAssumption
  <2> QED BY <1>1, <2>1, SMTT(30) DEF Levels
<1> HIDE DEF U, q, b
<1>5. q * U < Levels * U
  BY <1>1, <1>2, <1>4
<1>6. q < Levels
  <2> SUFFICES ASSUME q >= Levels PROVE FALSE
    BY <1>2, <1>4
  <2>1. q * U >= Levels * U
    BY <1>1, <1>2, <1>4, SMTT(30)
  <2> HIDE DEF Levels
  <2> QED BY <1>1, <1>2, <1>4, <1>5, <2>1
<1>7. RecordLevel(size) = q
  <2>1. RecordLevel(size) = q % Levels
    BY DEF RecordLevel, SlotBytes, q, U
  <2> QED BY <1>2, <1>4, <1>6, <2>1
<1>8. b >= q
  BY <1>7 DEF b, U
<1>9. b * U >= q * U
  BY <1>1, <1>2, <1>3, <1>8, SMTT(30)
<1>10. size + 2 <= q * U
  BY <1>1, <1>2
<1>11. q * U \in Nat /\ b * U \in Nat
  BY <1>1, <1>2, <1>3
<1> QED BY <1>1, <1>3, <1>9, <1>10, <1>11 DEF SlotBytes

\* A data page is changed to a good one.
LEMMA FixPageKeeps ==
  ASSUME GoodPages, NEW p, NEW pg, GoodPage(pg), NEW trees, NEW roots, FixPage(p, pg, trees, roots)
  PROVE  GoodPages'
<1>1. page' = [page EXCEPT ![p] = pg]
  BY DEF FixPage
<1>2. page' = [q \in Pages |-> page'[q]] /\ \A q \in Pages : page'[q] = pg \/ page'[q] = page[q]
  BY <1>1 DEF GoodPages
<1> QED BY <1>2 DEF GoodPages

\* Every step keeps the pages good.
LEMMA GoodPagesKept ==
  ASSUME RoomBehindRecord, GoodPages, [Next]_vars
  PROVE  GoodPages'
<1>1. ASSUME NEW size \in Sizes, InsertIntoUsedPage(size) PROVE GoodPages'
  <2> DEFINE level == RecordLevel(size)
             p     == ChosenPage(level)
  <2>1. /\ AllocAsserts(level)
        /\ FoundLevel(level) # NewLevel
        /\ FixPage(p, PutRecord(page[p], size), fsp, fsp_data)
    BY <1>1 DEF InsertIntoUsedPage
  <2>2. CASE p \notin Pages
    BY <2>1, <2>2 DEF FixPage, GoodPages
  <2>3. CASE p \in Pages
    <3>1. page[p] # Nil /\ page[p].free_size \div LEVEL_UNIT >= level
      BY <2>1 DEF AllocAsserts
    <3>2. GoodPage(page[p])
      BY <2>3, <3>1 DEF GoodPages
    <3>3. page[p].free_size \in Nat
      BY <3>2, PageFields, PageSizeAssumption DEF GoodPage, SoundRecords
    <3>4. GoodPage(PutRecord(page[p], size))
      BY <3>1, <3>2, <3>3, LevelIsEnough, UsedPageReady, PutRecordGood
    <3> QED BY <2>1, <3>4, FixPageKeeps
  <2> QED BY <2>2, <2>3
<1>2. ASSUME NEW size \in Sizes, InsertIntoNewPage(size) \/ InsertIntoNewGroup(size) PROVE GoodPages'
  <2>1. GoodPage(PutRecord(NewPage, size))
    BY NewPageReady, PutRecordGood
  <2>2. PICK p, trees, roots : FixPage(p, PutRecord(NewPage, size), trees, roots)
    BY <1>2 DEF InsertIntoNewPage, InsertIntoNewGroup
  <2> QED BY <2>1, <2>2, FixPageKeeps
<1>3. ASSUME NEW r \in Rids, Delete(r) PROVE GoodPages'
  <2>1. PICK p \in Pages : r \in RecordsOf(p)
    BY <1>3 DEF Delete, Records
  <2>2. r[1] = p /\ page[p] # Nil /\ r[2] \in Slots(page[p])
    BY <2>1 DEF RecordsOf
  <2>3. GoodPage(RemoveRecord(page[p], r[2]))
    BY <2>2, RemoveRecordGood DEF GoodPages
  <2> QED BY <1>3, <2>2, <2>3, FixPageKeeps DEF Delete
<1>4. CASE UNCHANGED vars
  BY <1>4 DEF vars, GoodPages, Pages
<1> QED BY <1>1, <1>2, <1>3, <1>4 DEF Next, Insert

(***************************************************************************)
(* PagesSound of the runs for every size of page: insert_record and         *)
(* delete_record leave the records of every page apart and in the order of  *)
(* their slots, and the free place of its header free, in a file whose      *)
(* records leave a slot's two bytes behind them.  (A record that takes a    *)
(* whole page makes vacancy_at wrap around: README.)                        *)
(***************************************************************************)
THEOREM PagesStaySound ==
  ASSUME RoomBehindRecord
  PROVE  Spec => []PagesSound
<1>1. Init => GoodPages
  BY DEF Init, GoodPages
<1>2. GoodPages /\ [Next]_vars => GoodPages'
  BY GoodPagesKept
<1>3. GoodPages => PagesSound
  BY DEF GoodPages, GoodPage, SoundRecords, PagesSound, PageSound
<1> QED BY <1>1, <1>2, <1>3, PTL DEF Spec
-----------------------------------------------------------------------------
(***************************************************************************)
(* Lemmas about the free space tree and the places of pages in a record     *)
(* file: what alloc_vacancy finds on its way down the tree and what         *)
(* fix_page_header leaves on its way up, for every depth of the tree.       *)
(*                                                                         *)
(* The functions LeafFor and Raised are defined by recursion on the nodes.  *)
(* That such a function exists is proved from the leaves up: if there is    *)
(* one on the nodes behind n, there is one on the nodes from n on.          *)
(***************************************************************************)

Leaves == K .. 2 * K - 1

\* A free space page: levels, an inner node with the larger of its children.
Tree(h) ==
  /\ h \in [Nodes -> 0 .. NewLevel]
  /\ \A n \in 1 .. K - 1 : h[n] = Max2(h[2 * n], h[2 * n + 1])
-----------------------------------------------------------------------------
\* Power is the powers of two.
LEMMA PowerDef ==
  Power = [d \in 0 .. DEPTH |-> IF d = 0 THEN 1 ELSE 2 * Power[d - 1]]
<1> USE RecordFileAssumption
<1> DEFINE Upto(d, f) == f = [i \in 0 .. d |-> IF i = 0 THEN 1 ELSE 2 * f[i - 1]]
           S == {d \in 0 .. DEPTH : ~ \E f : Upto(d, f)}
<1>1. S = {}
  <2> SUFFICES ASSUME S # {} PROVE FALSE
    OBVIOUS
  <2>1. PICK d \in S : \A e \in S : d <= e
    <3>1. S \subseteq Nat
      OBVIOUS
    <3> HIDE DEF S
    <3> QED BY <3>1, FirstExists
  <2>2. d \in 0 .. DEPTH /\ ~ \E f : Upto(d, f)
    BY <2>1
  <2>3. d # 0
    <3>1. Upto(0, [i \in 0 .. 0 |-> 1])
      OBVIOUS
    <3> HIDE DEF Upto
    <3> QED BY <3>1, <2>2
  <2>4. d - 1 \in 0 .. DEPTH /\ d - 1 \notin S
    <3> HIDE DEF S
    <3> QED BY <2>1, <2>2, <2>3
  <2>5. PICK f : Upto(d - 1, f)
    BY <2>4
  <2> DEFINE g == [i \in 0 .. d |-> IF i = d THEN 2 * f[d - 1] ELSE f[i]]
  <2>6. Upto(d, g)
    <3>1. \A i \in 0 .. d : g[i] = IF i = 0 THEN 1 ELSE 2 * g[i - 1]
      BY <2>2, <2>3, <2>5
    <3>2. g = [i \in 0 .. d |-> g[i]]
      OBVIOUS
    <3> HIDE DEF g
    <3> QED BY <3>1, <3>2
  <2> HIDE DEF Upto
  <2> QED BY <2>2, <2>6
<1>2. \E f : f = [d \in 0 .. DEPTH |-> IF d = 0 THEN 1 ELSE 2 * f[d - 1]]
  <2>1. DEPTH \notin S /\ DEPTH \in 0 .. DEPTH
    BY <1>1
  <2> QED BY <2>1
<1> QED BY <1>2 DEF Power

\* The numbers of the tree: K leaves behind K - 1 inner nodes.
LEMMA PowerFacts ==
  /\ \A d \in 0 .. DEPTH : Power[d] \in Nat /\ Power[d] > 0
  /\ \A d \in 0 .. DEPTH : d > 0 => Power[d] = 2 * Power[d - 1]
  /\ Power[0] = 1
<1> USE RecordFileAssumption
<1>1. Power[0] = 1 /\ \A d \in 0 .. DEPTH : d > 0 => Power[d] = 2 * Power[d - 1]
  BY PowerDef
<1> DEFINE S == {d \in 0 .. DEPTH : ~ (Power[d] \in Nat /\ Power[d] > 0)}
<1>2. S = {}
  <2> SUFFICES ASSUME S # {} PROVE FALSE
    OBVIOUS
  <2>1. PICK d \in S : \A e \in S : d <= e
    <3>1. S \subseteq Nat
      OBVIOUS
    <3> HIDE DEF S
    <3> QED BY <3>1, FirstExists
  <2>2. d \in 0 .. DEPTH /\ d # 0
    BY <1>1
  <2>3. d - 1 \in 0 .. DEPTH /\ d - 1 \notin S
    <3> HIDE DEF S
    <3> QED BY <2>1, <2>2
  <2> QED BY <1>1, <2>2, <2>3
<1> QED BY <1>1, <1>2

\* The leaves and the inner nodes of a tree.
LEMMA KFacts ==
  /\ K \in Nat /\ K > 0
  /\ Nodes \subseteq Nat /\ 1 \in Nodes
  /\ Leaves \subseteq Nodes
  /\ \A n \in Nodes : n \notin Leaves <=> n < K
  /\ \A n \in Nodes : n < K => 2 * n \in Nodes /\ 2 * n + 1 \in Nodes
<1>1. K \in Nat /\ K > 0
  BY PowerFacts, RecordFileAssumption DEF K
<1> QED BY <1>1 DEF Nodes, Leaves

\* The levels of free space divide a page.
LEMMA LevelFacts == Levels \in Nat /\ Levels > 1 /\ NewLevel \in Nat /\ PAGE_SIZE = Levels * LEVEL_UNIT
<1>1. LEVEL_UNIT \in Nat /\ LEVEL_UNIT > 0 /\ PAGE_SIZE \in Nat /\ PAGE_SIZE > LEVEL_UNIT /\ PAGE_SIZE % LEVEL_UNIT = 0
  BY RecordFileAssumption, PageSizeAssumption
<1> DEFINE U == LEVEL_UNIT
           P == PAGE_SIZE
<1>2. P \div U \in Nat /\ P = (P \div U) * U
  <2> HIDE DEF U, P
  <2> QED BY <1>1, SMTT(30) DEF U, P
<1>3. P \div U > 1
  <2> DEFINE q == P \div U
  <2> SUFFICES ASSUME q <= 1 PROVE FALSE
    BY <1>2
  <2>1. q = 0 \/ q = 1
    BY <1>2
  <2>2. P = q * U
    BY <1>2
  <2> HIDE DEF q
  <2> QED BY <1>1, <2>1, <2>2
<1> QED BY <1>2, <1>3 DEF Levels, NewLevel
-----------------------------------------------------------------------------
\* The walk of alloc_vacancy from a node down, as its recursion says.
From(h, level) ==
  CHOOSE from : from = [n \in Nodes |-> IF n >= K THEN n
                                        ELSE IF h[2 * n] >= level THEN from[2 * n]
                                        ELSE from[2 * n + 1]]

\* LeafFor is the function its definition says.
LEMMA LeafForDef ==
  ASSUME NEW h, NEW level
  PROVE  /\ LeafFor(h, level) = From(h, level)[1]
         /\ From(h, level) = [n \in Nodes |-> IF n >= K THEN n
                                              ELSE IF h[2 * n] >= level THEN From(h, level)[2 * n]
                                              ELSE From(h, level)[2 * n + 1]]
<1> DEFINE Rest(m)    == {n \in Nodes : n >= 2 * K - m}
           Step(f, n) == IF n >= K THEN n ELSE IF h[2 * n] >= level THEN f[2 * n] ELSE f[2 * n + 1]
           Upto(m, f) == f = [n \in Rest(m) |-> Step(f, n)]
           S          == {m \in 0 .. 2 * K - 1 : ~ \E f : Upto(m, f)}
<1>1. S = {}
  <2> SUFFICES ASSUME S # {} PROVE FALSE
    OBVIOUS
  <2>1. PICK m \in S : \A e \in S : m <= e
    <3>1. S \subseteq Nat
      OBVIOUS
    <3> HIDE DEF S
    <3> QED BY <3>1, FirstExists
  <2>2. m \in 0 .. 2 * K - 1 /\ ~ \E f : Upto(m, f)
    BY <2>1
  <2>3. m # 0
    <3>1. Rest(0) = {}
      BY KFacts DEF Nodes
    <3>2. Upto(0, [n \in {} |-> 0])
      BY <3>1
    <3> HIDE DEF Upto
    <3> QED BY <3>2, <2>2
  <2>4. m - 1 \in 0 .. 2 * K - 1 /\ m - 1 \notin S
    <3> HIDE DEF S
    <3> QED BY <2>1, <2>2, <2>3, KFacts
  <2>5. PICK f : Upto(m - 1, f)
    BY <2>4
  <2> DEFINE l == 2 * K - m
             g == [n \in Rest(m) |-> IF n = l THEN Step(f, l) ELSE f[n]]
  <2>6. Upto(m, g)
    <3>1. \A n \in Rest(m) : n = l \/ n \in Rest(m - 1)
      BY <2>2, KFacts
    <3>2. ASSUME NEW n \in Rest(m) PROVE g[n] = Step(g, n)
      <4>1. n < K => 2 * n \in Rest(m - 1) /\ 2 * n + 1 \in Rest(m - 1) /\ 2 * n # l /\ 2 * n + 1 # l
        BY <2>2, KFacts
      <4>2. n < K => g[2 * n] = f[2 * n] /\ g[2 * n + 1] = f[2 * n + 1]
        <5>1. Rest(m - 1) \subseteq Rest(m)
          BY <2>2, KFacts DEF Nodes
        <5> QED BY <4>1, <5>1
      <4>3. g[n] = Step(f, n)
        BY <2>5, <3>1
      <4>4. n \in Nat /\ K \in Nat
        BY KFacts
      <4> HIDE DEF g
      <4> QED BY <4>2, <4>3, <4>4
    <3>3. g = [n \in Rest(m) |-> g[n]]
      OBVIOUS
    <3> HIDE DEF g, Step, Rest
    <3> QED BY <3>2, <3>3
  <2> HIDE DEF Upto
  <2> QED BY <2>2, <2>6
<1>2. \E f : f = [n \in Nodes |-> Step(f, n)]
  <2>1. 2 * K - 1 \notin S /\ 2 * K - 1 \in 0 .. 2 * K - 1
    <3> HIDE DEF S
    <3> QED BY <1>1, KFacts
  <2>2. Rest(2 * K - 1) = Nodes
    BY KFacts DEF Nodes
  <2> QED BY <2>1, <2>2
<1>3. LeafFor(h, level) = From(h, level)[1]
  BY DEF LeafFor, From
<1> QED BY <1>2, <1>3 DEF From

(***************************************************************************)
(* Below node n of depth DEPTH - e lie the leaves n * 2^e and on, 2^e of    *)
(* them.  Its level is the largest of theirs; the walk from it ends at the  *)
(* first of them that has the level asked for.                              *)
(***************************************************************************)
LeftmostBelow(h, level, e) ==
  \A n \in Power[DEPTH - e] .. 2 * Power[DEPTH - e] - 1 :
    LET first == n * Power[e]
        last  == n * Power[e] + Power[e] - 1
        leaf  == From(h, level)[n]
    IN  /\ n \in Nodes /\ K <= first /\ last < 2 * K
        /\ \A m \in first .. last : h[m] <= h[n]
        /\ h[n] >= level => /\ leaf \in first .. last
                            /\ h[leaf] >= level
                            /\ \A m \in first .. leaf - 1 : h[m] < level

\* At the leaves the way down has ended.
LEMMA LeftmostAtLeaves ==
  ASSUME NEW h, Tree(h), NEW level \in 0 .. NewLevel
  PROVE  LeftmostBelow(h, level, 0)
<1> SUFFICES ASSUME NEW n \in Power[DEPTH] .. 2 * Power[DEPTH] - 1
             PROVE  /\ n \in Nodes /\ K <= n /\ n < 2 * K
                    /\ h[n] <= h[n] /\ From(h, level)[n] = n
  <2>1. DEPTH - 0 = DEPTH /\ Power[0] = 1 /\ Power[DEPTH] \in Nat
    BY PowerFacts, RecordFileAssumption
  <2>2. \A n \in Power[DEPTH] .. 2 * Power[DEPTH] - 1 : n * 1 = n /\ n * 1 + 1 - 1 = n /\ n \in Nat
    BY <2>1
  <2>3. \A n \in Nat : \A m : m \in n .. n <=> m = n
    OBVIOUS
  <2>4. \A n \in Nat : n .. n - 1 = {}
    OBVIOUS
  <2> QED BY <2>1, <2>2, <2>3, <2>4 DEF LeftmostBelow
<1>1. n \in Leaves /\ n \in Nat /\ n >= K /\ n < 2 * K
  BY KFacts DEF Leaves, K
<1>2. n \in Nodes /\ h[n] \in Nat
  BY <1>1, KFacts, LevelFacts DEF Tree
<1> QED BY <1>1, <1>2, LeafForDef

\* What holds of the way down from two children holds of their parent.
LEMMA LeftmostOneUp ==
  ASSUME NEW h, Tree(h), NEW level \in 0 .. NewLevel,
         NEW e \in 0 .. DEPTH, e > 0, LeftmostBelow(h, level, e - 1)
  PROVE  LeftmostBelow(h, level, e)
<1> DEFINE w == Power[e - 1]
           p == Power[DEPTH - e]
<1>1. /\ w \in Nat /\ w > 0 /\ p \in Nat /\ p > 0
      /\ Power[e] = 2 * w /\ Power[DEPTH - (e - 1)] = 2 * p
  <2>1. e \in 0 .. DEPTH /\ e - 1 \in 0 .. DEPTH /\ DEPTH - e \in 0 .. DEPTH /\ DEPTH - (e - 1) \in 0 .. DEPTH
        /\ DEPTH - (e - 1) > 0 /\ DEPTH - (e - 1) - 1 = DEPTH - e
    BY RecordFileAssumption
  <2> QED BY <2>1, PowerFacts
<1> SUFFICES ASSUME NEW n \in p .. 2 * p - 1
             PROVE  LET first == n * (2 * w)
                        last  == n * (2 * w) + 2 * w - 1
                        leaf  == From(h, level)[n]
                    IN  /\ n \in Nodes /\ K <= first /\ last < 2 * K
                        /\ \A m \in first .. last : h[m] <= h[n]
                        /\ h[n] >= level => /\ leaf \in first .. last
                                            /\ h[leaf] >= level
                                            /\ \A m \in first .. leaf - 1 : h[m] < level
  BY <1>1, Zenon DEF LeftmostBelow
<1> DEFINE first == n * (2 * w)
           l     == 2 * n
           r     == 2 * n + 1
<1>2. l * w = first /\ r * w = first + w /\ first \in Nat /\ n \in Nat
  BY <1>1
<1>3. l \in Power[DEPTH - (e - 1)] .. 2 * Power[DEPTH - (e - 1)] - 1
      /\ r \in Power[DEPTH - (e - 1)] .. 2 * Power[DEPTH - (e - 1)] - 1
  BY <1>1
<1>4. /\ l \in Nodes /\ K <= first /\ first + w - 1 < 2 * K
      /\ \A m \in first .. first + w - 1 : h[m] <= h[l]
      /\ h[l] >= level => /\ From(h, level)[l] \in first .. first + w - 1
                          /\ h[From(h, level)[l]] >= level
                          /\ \A m \in first .. From(h, level)[l] - 1 : h[m] < level
  BY <1>2, <1>3, Zenon DEF LeftmostBelow
<1>5. /\ r \in Nodes /\ K <= first + w /\ first + w + w - 1 < 2 * K
      /\ \A m \in first + w .. first + w + w - 1 : h[m] <= h[r]
      /\ h[r] >= level => /\ From(h, level)[r] \in first + w .. first + w + w - 1
                          /\ h[From(h, level)[r]] >= level
                          /\ \A m \in first + w .. From(h, level)[r] - 1 : h[m] < level
  BY <1>2, <1>3, Zenon DEF LeftmostBelow
<1> HIDE DEF first, w, p
<1>6. n \in Nodes /\ n < K /\ n \in 1 .. K - 1
  BY <1>1, <1>2, <1>5, KFacts DEF Nodes
<1>7. /\ h[n] = Max2(h[l], h[r]) /\ h[n] \in Nat /\ h[l] \in Nat /\ h[r] \in Nat
      /\ \A m \in first .. first + 2 * w - 1 : m \in Nodes /\ h[m] \in Nat
  <2>1. \A m \in first .. first + 2 * w - 1 : m \in Nodes
    BY <1>1, <1>2, <1>4, <1>5, KFacts DEF Nodes
  <2> QED BY <1>4, <1>5, <1>6, <2>1, LevelFacts DEF Tree
<1>8. From(h, level)[n] = IF h[l] >= level THEN From(h, level)[l] ELSE From(h, level)[r]
  BY <1>6, LeafForDef, KFacts
<1>9. \A m \in first .. first + 2 * w - 1 : h[m] <= h[n]
  <2>1. \A m \in first .. first + 2 * w - 1 : m \in first .. first + w - 1 \/ m \in first + w .. first + w + w - 1
    BY <1>1, <1>2
  <2> QED BY <1>4, <1>5, <1>7, <2>1 DEF Max2
<1>10. ASSUME h[n] >= level
       PROVE  /\ From(h, level)[n] \in first .. first + 2 * w - 1
              /\ h[From(h, level)[n]] >= level
              /\ \A m \in first .. From(h, level)[n] - 1 : h[m] < level
  <2>1. CASE h[l] >= level
    BY <2>1, <1>1, <1>2, <1>4, <1>8
  <2>2. CASE ~ (h[l] >= level)
    <3>1. h[r] >= level /\ From(h, level)[n] = From(h, level)[r]
      BY <2>2, <1>7, <1>8, <1>10 DEF Max2
    <3>2. \A m \in first .. first + w - 1 : h[m] < level
      <4>1. level \in Nat
        BY LevelFacts
      <4>2. \A m \in first .. first + w - 1 : m \in first .. first + 2 * w - 1
        BY <1>1, <1>2
      <4> QED BY <2>2, <1>4, <1>7, <4>1, <4>2
    <3>3. \A m \in first .. From(h, level)[r] - 1 : m \in first .. first + w - 1 \/ m \in first + w .. From(h, level)[r] - 1
      BY <3>1, <1>1, <1>2, <1>5
    <3> QED BY <3>1, <3>2, <3>3, <1>1, <1>2, <1>5
  <2> QED BY <2>1, <2>2
<1> QED BY <1>1, <1>2, <1>4, <1>5, <1>6, <1>9, <1>10 DEF first

(***************************************************************************)
(* No page of a group has more than the root says, and alloc_vacancy comes  *)
(* to the first page of the group that has the level.                       *)
(***************************************************************************)
LEMMA LeafForIsFirst ==
  ASSUME NEW h, Tree(h), NEW level \in 0 .. NewLevel
  PROVE  /\ \A m \in Leaves : h[m] <= h[1]
         /\ h[1] >= level => /\ LeafFor(h, level) \in Leaves
                             /\ h[LeafFor(h, level)] >= level
                             /\ \A m \in Leaves : m < LeafFor(h, level) => h[m] < level
<1> USE RecordFileAssumption
<1> DEFINE S == {e \in 0 .. DEPTH : ~ LeftmostBelow(h, level, e)}
<1>1. S = {}
  <2> SUFFICES ASSUME S # {} PROVE FALSE
    OBVIOUS
  <2>1. PICK e \in S : \A f \in S : e <= f
    <3>1. S \subseteq Nat
      OBVIOUS
    <3> HIDE DEF S
    <3> QED BY <3>1, FirstExists
  <2>2. e \in 0 .. DEPTH /\ e # 0
    BY LeftmostAtLeaves
  <2>3. e - 1 \in 0 .. DEPTH /\ e - 1 \notin S
    <3> HIDE DEF S
    <3> QED BY <2>1, <2>2
  <2> QED BY <2>2, <2>3, LeftmostOneUp
<1>2. LeftmostBelow(h, level, DEPTH)
  BY <1>1
<1>3. DEPTH - DEPTH = 0 /\ Power[0] = 1 /\ 2 * Power[0] - 1 = 1 /\ Power[DEPTH] = K /\ K \in Nat /\ 1 \in 1 .. 1
  BY PowerFacts, KFacts DEF K
<1>4. 1 * K = K /\ 1 * K + K - 1 = 2 * K - 1
  BY <1>3
<1>5. /\ \A m \in Leaves : h[m] <= h[1]
      /\ h[1] >= level => /\ From(h, level)[1] \in Leaves /\ h[From(h, level)[1]] >= level
                          /\ \A m \in K .. From(h, level)[1] - 1 : h[m] < level
  BY <1>2, <1>3, <1>4 DEF LeftmostBelow, Leaves
<1>6. From(h, level)[1] \in Leaves =>
        \A m \in Leaves : m < From(h, level)[1] => m \in K .. From(h, level)[1] - 1
  BY <1>3 DEF Leaves
<1> QED BY <1>5, <1>6, LeafForDef
-----------------------------------------------------------------------------
\* The levels after fix_page_header, as their recursion says.
LEMMA RaisedDef ==
  ASSUME NEW h, NEW leaf, NEW level
  PROVE  Raised(h, leaf, level) =
           [n \in Nodes |->
              IF n = leaf THEN level
              ELSE IF n >= K \/ (/\ Raised(h, leaf, level)[2 * n] = h[2 * n]
                                /\ Raised(h, leaf, level)[2 * n + 1] = h[2 * n + 1]) THEN h[n]
              ELSE Max2(Raised(h, leaf, level)[2 * n], Raised(h, leaf, level)[2 * n + 1])]
<1> DEFINE Rest(m)    == {n \in Nodes : n >= 2 * K - m}
           Step(f, n) == IF n = leaf THEN level
                         ELSE IF n >= K \/ (f[2 * n] = h[2 * n] /\ f[2 * n + 1] = h[2 * n + 1]) THEN h[n]
                         ELSE Max2(f[2 * n], f[2 * n + 1])
           Upto(m, f) == f = [n \in Rest(m) |-> Step(f, n)]
           S          == {m \in 0 .. 2 * K - 1 : ~ \E f : Upto(m, f)}
<1>1. S = {}
  <2> SUFFICES ASSUME S # {} PROVE FALSE
    OBVIOUS
  <2>1. PICK m \in S : \A e \in S : m <= e
    <3>1. S \subseteq Nat
      OBVIOUS
    <3> HIDE DEF S
    <3> QED BY <3>1, FirstExists
  <2>2. m \in 0 .. 2 * K - 1 /\ ~ \E f : Upto(m, f)
    BY <2>1
  <2>3. m # 0
    <3>1. Rest(0) = {}
      BY KFacts DEF Nodes
    <3>2. Upto(0, [n \in {} |-> 0])
      BY <3>1
    <3> HIDE DEF Upto
    <3> QED BY <3>2, <2>2
  <2>4. m - 1 \in 0 .. 2 * K - 1 /\ m - 1 \notin S
    <3> HIDE DEF S
    <3> QED BY <2>1, <2>2, <2>3, KFacts
  <2>5. PICK f : Upto(m - 1, f)
    BY <2>4
  <2> DEFINE l == 2 * K - m
             g == [n \in Rest(m) |-> IF n = l THEN Step(f, l) ELSE f[n]]
  <2>6. Upto(m, g)
    <3>1. \A n \in Rest(m) : n = l \/ n \in Rest(m - 1)
      BY <2>2, KFacts
    <3>2. ASSUME NEW n \in Rest(m) PROVE g[n] = Step(g, n)
      <4>1. n < K => 2 * n \in Rest(m - 1) /\ 2 * n + 1 \in Rest(m - 1) /\ 2 * n # l /\ 2 * n + 1 # l
        BY <2>2, KFacts
      <4>2. n < K => g[2 * n] = f[2 * n] /\ g[2 * n + 1] = f[2 * n + 1]
        <5>1. Rest(m - 1) \subseteq Rest(m)
          BY <2>2, KFacts DEF Nodes
        <5> QED BY <4>1, <5>1
      <4>3. g[n] = Step(f, n)
        BY <2>5, <3>1
      <4>4. n \in Nat /\ K \in Nat
        BY KFacts
      <4> HIDE DEF g
      <4> QED BY <4>2, <4>3, <4>4
    <3>3. g = [n \in Rest(m) |-> g[n]]
      OBVIOUS
    <3> HIDE DEF g, Step, Rest
    <3> QED BY <3>2, <3>3
  <2> HIDE DEF Upto
  <2> QED BY <2>2, <2>6
<1>2. \E f : f = [n \in Nodes |-> Step(f, n)]
  <2>1. 2 * K - 1 \notin S /\ 2 * K - 1 \in 0 .. 2 * K - 1
    <3> HIDE DEF S
    <3> QED BY <1>1, KFacts
  <2>2. Rest(2 * K - 1) = Nodes
    BY KFacts DEF Nodes
  <2> QED BY <2>1, <2>2
<1> QED BY <1>2 DEF Raised

(***************************************************************************)
(* fix_page_header, though it stops on its way up, leaves a tree again, in  *)
(* which the leaf has its level and the other leaves have theirs.           *)
(***************************************************************************)
LEMMA RaisedIsTree ==
  ASSUME NEW h, Tree(h), NEW leaf \in Leaves, NEW level \in 0 .. NewLevel
  PROVE  /\ Tree(Raised(h, leaf, level))
         /\ \A n \in Leaves : Raised(h, leaf, level)[n] = IF n = leaf THEN level ELSE h[n]
<1> DEFINE up == Raised(h, leaf, level)
           Rest(m) == {n \in Nodes : n >= 2 * K - m}
           S == {m \in 0 .. 2 * K - 1 : ~ \A n \in Rest(m) : up[n] \in 0 .. NewLevel}
<1>1. /\ DOMAIN up = Nodes
      /\ \A n \in Nodes : up[n] = IF n = leaf THEN level
                                  ELSE IF n >= K \/ (up[2 * n] = h[2 * n] /\ up[2 * n + 1] = h[2 * n + 1]) THEN h[n]
                                  ELSE Max2(up[2 * n], up[2 * n + 1])
      /\ up = [n \in Nodes |-> up[n]]
  <2> HIDE DEF up
  <2> QED BY RaisedDef DEF up
<1> HIDE DEF up
<1>2. S = {}
  <2> SUFFICES ASSUME S # {} PROVE FALSE
    OBVIOUS
  <2>1. PICK m \in S : \A e \in S : m <= e
    <3>1. S \subseteq Nat
      OBVIOUS
    <3> HIDE DEF S
    <3> QED BY <3>1, FirstExists
  <2>2. m \in 0 .. 2 * K - 1
    BY <2>1
  <2>3. PICK n \in Rest(m) : up[n] \notin 0 .. NewLevel
    BY <2>1
  <2>4. m # 0
    BY <2>3, KFacts DEF Nodes
  <2>5. m - 1 \in 0 .. 2 * K - 1 /\ m - 1 \notin S
    <3> HIDE DEF S
    <3> QED BY <2>1, <2>2, <2>4, KFacts
  <2>6. \A i \in Rest(m - 1) : up[i] \in 0 .. NewLevel
    BY <2>5
  <2>7. n < K => 2 * n \in Rest(m - 1) /\ 2 * n + 1 \in Rest(m - 1)
    BY <2>2, KFacts
  <2>8. n \in Nodes /\ n \in Nat /\ K \in Nat /\ h[n] \in 0 .. NewLevel
    BY KFacts DEF Tree
  <2>9. up[n] = level \/ up[n] = h[n] \/ (n < K /\ (up[n] = up[2 * n] \/ up[n] = up[2 * n + 1]))
    <3> HIDE DEF S, Rest
    <3> QED BY <1>1, <2>8 DEF Max2
  <2> HIDE DEF S, Rest
  <2> QED BY <2>3, <2>6, <2>7, <2>8, <2>9
<1>3. up \in [Nodes -> 0 .. NewLevel]
  <2>1. 2 * K - 1 \notin S /\ 2 * K - 1 \in 0 .. 2 * K - 1
    <3> HIDE DEF S
    <3> QED BY <1>2, KFacts
  <2>2. Rest(2 * K - 1) = Nodes
    BY KFacts DEF Nodes
  <2> QED BY <1>1, <2>1, <2>2
<1>4. ASSUME NEW n \in 1 .. K - 1 PROVE up[n] = Max2(up[2 * n], up[2 * n + 1])
  <2>1. n \in Nodes /\ n # leaf /\ ~ (n >= K)
    BY KFacts DEF Nodes, Leaves
  <2>2. h[n] = Max2(h[2 * n], h[2 * n + 1])
    BY DEF Tree
  <2> QED BY <1>1, <2>1, <2>2
<1>5. \A n \in Leaves : n \in Nodes /\ n >= K
  BY KFacts DEF Leaves
<1>6. \A n \in Leaves : up[n] = IF n = leaf THEN level ELSE h[n]
  BY <1>1, <1>5
<1> QED BY <1>3, <1>4, <1>6 DEF Tree, up
-----------------------------------------------------------------------------
\* A page number says which group and leaf it is.
LEMMA PlaceOfPage ==
  ASSUME NEW g \in Nat, NEW n \in Leaves
  PROVE  /\ DataPage(g, n) \in Nat /\ DataPage(g, n) >= 2
         /\ GroupOf(DataPage(g, n)) = g /\ LeafOf(DataPage(g, n)) = n
         /\ DataPage(g, n) % (K + 1) # 1
<1> DEFINE M == K + 1
           i == n - K
<1>1. M \in Nat /\ M > 1 /\ i \in 0 .. M - 2 /\ n = i + K /\ K \in Nat /\ n \in Nat
  BY KFacts DEF Leaves
<1> DEFINE x == g * M
<1>2. x \in Nat
  BY <1>1
<1>3. (x + i) \div M = g /\ (x + i) % M = i
  <2> HIDE DEF M, i
  <2> QED BY <1>1, SMTT(30)
<1>4. DataPage(g, n) = 2 + x + i
  BY DEF DataPage
<1>5. (2 + x + i) % M # 1
  <2>1. CASE i = M - 2
    <3>1. 2 + x + i = (g + 1) * M
      BY <1>1, <1>2, <2>1
    <3>2. ((g + 1) * M) % M = 0
      <4> HIDE DEF M
      <4> QED BY <1>1, SMTT(30)
    <3> QED BY <3>1, <3>2
  <2>2. CASE i < M - 2
    <3>1. (x + (i + 2)) % M = i + 2
      <4> HIDE DEF M, i
      <4> QED BY <1>1, <2>2, SMTT(30)
    <3>2. 2 + x + i = x + (i + 2)
      BY <1>1, <1>2
    <3> QED BY <3>1, <3>2, <1>1
  <2> QED BY <1>1, <2>1, <2>2
<1> HIDE DEF x, i, M
<1>6. DataPage(g, n) \in Nat /\ DataPage(g, n) >= 2 /\ DataPage(g, n) - 2 = x + i
  BY <1>1, <1>2, <1>4
<1> QED BY <1>1, <1>3, <1>4, <1>5, <1>6 DEF GroupOf, LeafOf, M

\* The pages of a group lie behind those of the groups before it.
LEMMA PagesInOrder ==
  ASSUME NEW g \in Nat, NEW n \in Leaves, NEW f \in Nat, NEW m \in Leaves
  PROVE  DataPage(g, n) < DataPage(f, m) <=> g < f \/ (g = f /\ n < m)
<1> DEFINE M == K + 1
<1>1. M \in Nat /\ M > 1 /\ n - K \in 0 .. M - 2 /\ m - K \in 0 .. M - 2 /\ K \in Nat /\ n \in Nat /\ m \in Nat
  BY KFacts DEF Leaves
<1>2. g * M \in Nat /\ f * M \in Nat
  BY <1>1
<1>3. DataPage(g, n) = 2 + g * M + (n - K) /\ DataPage(f, m) = 2 + f * M + (m - K)
  BY DEF DataPage
<1>4. CASE g < f
  <2>1. (g + 1) * M <= f * M /\ (g + 1) * M = g * M + M
    <3> HIDE DEF M
    <3> QED BY <1>1, <1>4, SMTT(30)
  <2> HIDE DEF M
  <2> QED BY <1>1, <1>2, <1>3, <1>4, <2>1
<1>5. CASE g = f
  <2> HIDE DEF M
  <2> QED BY <1>1, <1>2, <1>3, <1>5
<1>6. CASE f < g
  <2>1. (f + 1) * M <= g * M /\ (f + 1) * M = f * M + M
    <3> HIDE DEF M
    <3> QED BY <1>1, <1>6, SMTT(30)
  <2> HIDE DEF M
  <2> QED BY <1>1, <1>2, <1>3, <1>6, <2>1
<1> QED BY <1>4, <1>5, <1>6
-----------------------------------------------------------------------------
(***************************************************************************)
(* A record file is a store of records: its free space pages are true, its  *)
(* scan meets every record, and a record keeps its RID and its content,     *)
(* for every size of page, depth of the tree, unit of free space and number *)
(* of groups, as long as no record takes a whole page (RoomBehindRecord).   *)
(*                                                                         *)
(* The inductive invariant says, next to the good pages proved above, that  *)
(* the trees are true, that pages and groups are taken into use in the      *)
(* order of their numbers, and that the file ends behind the last page in   *)
(* use.  The order is what makes page_cnt right: alloc_vacancy assigns it   *)
(* for a page never used, whatever it was, and adds two for a group,        *)
(* whatever the page before it.                                             *)
(***************************************************************************)

\* A free space page in use: a tree, its root in the meta page, its leaves.
TreeTrue(g) ==
  /\ Tree(fsp[g])
  /\ fsp_data[g + 1] = fsp[g][1]
  /\ \A n \in Leaves :
       LET pg == page[DataPage(g, n)]
       IN  IF pg = Nil THEN fsp[g][n] = NewLevel
           ELSE fsp[g][n] = FreeLevel(pg.free_size) /\ fsp[g][n] # NewLevel

TreesTrue ==
  /\ fsp_data \in Seq(0 .. NewLevel) /\ Len(fsp_data) <= MAX_FSP
  /\ fsp = [g \in 0 .. MAX_FSP - 1 |-> fsp[g]]
  /\ \A g \in Groups : TreeTrue(g)
  /\ \A g \in (0 .. MAX_FSP - 1) \ Groups :
       fsp[g] = Nil /\ \A n \in Leaves : page[DataPage(g, n)] = Nil

\* Pages are taken into use one after the other, and groups when the ones
\* before them have no page left.
UsedInOrder ==
  \A g \in Groups :
    /\ page[DataPage(g, K)] # Nil
    /\ \A n, m \in Leaves : n < m /\ page[DataPage(g, m)] # Nil => page[DataPage(g, n)] # Nil
    /\ g + 1 \in Groups => \A n \in Leaves : page[DataPage(g, n)] # Nil

\* The last page in use.
IsLast(p) == p \in Pages /\ page[p] # Nil /\ \A q \in Pages : page[q] # Nil => q <= p

FileEnds == IF fsp_data = << >> THEN page_cnt = 1 ELSE \E p \in Pages : IsLast(p) /\ page_cnt = p + 1

IInv == GoodPages /\ TreesTrue /\ UsedInOrder /\ FileEnds
-----------------------------------------------------------------------------
\* A good page leaves more than a level free of the page: its level is never
\* that of a page never used, and never wraps around.
LEMMA GoodPageLevel ==
  ASSUME NEW pg, GoodPage(pg)
  PROVE  /\ pg # Nil
         /\ FreeLevel(pg.free_size) = pg.free_size \div LEVEL_UNIT
         /\ FreeLevel(pg.free_size) \in 0 .. NewLevel /\ FreeLevel(pg.free_size) # NewLevel
<1> DEFINE U == LEVEL_UNIT
           b == pg.free_size
           q == b \div U
<1>1. U \in Nat /\ U > 0 /\ U <= RECORD_PAGE_HEADER_SIZE /\ RECORD_PAGE_HEADER_SIZE \in Nat /\ PAGE_SIZE \in Nat
  BY RecordFileAssumption, PageSizeAssumption
<1>2. IsPage(pg) /\ b \in Nat /\ pg.slot_cnt \in Nat /\ pg.free_offset \in Nat
  BY PageFields, PageSizeAssumption DEF GoodPage, SoundRecords
<1>3. b + 2 + RECORD_PAGE_HEADER_SIZE <= PAGE_SIZE
  <2>1. CASE b = 0
    BY <2>1, PageSizeAssumption
  <2>2. CASE b > 0
    <3>1. /\ pg.free_slot_id \in FreeSlots(pg) /\ pg.free_offset >= RECORD_PAGE_HEADER_SIZE
          /\ pg.free_offset + b + (IF pg.free_slot_id = pg.slot_cnt THEN pg.free_slot_id + 1 ELSE pg.slot_cnt) * 2 <= PAGE_SIZE
      BY <2>2 DEF GoodPage, FreePlaceIsFree, SlotBytes
    <3>2. pg.free_slot_id \in 0 .. pg.slot_cnt
      BY <3>1 DEF FreeSlots
    <3> HIDE DEF b
    <3> QED BY <1>1, <1>2, <3>1, <3>2
  <2> QED BY <1>2, <2>1, <2>2
<1>4. q \in Nat /\ q * U <= b
  <2> HIDE DEF b, U
  <2> QED BY <1>1, <1>2, SMTT(30) DEF U
<1>5. q < NewLevel
  <2> DEFINE L == Levels
  <2>1. PAGE_SIZE = L * U /\ L \in Nat /\ L > 1 /\ NewLevel = L - 1
    BY LevelFacts DEF NewLevel
  <2> SUFFICES ASSUME q >= L - 1 PROVE FALSE
    BY <1>4, <2>1
  <2>2. q * U >= (L - 1) * U /\ (L - 1) * U = L * U - U
    <3> HIDE DEF q, L, U
    <3> QED BY <1>1, <1>4, <2>1, SMTT(30)
  <2>3. q * U \in Nat /\ L * U \in Nat
    BY <1>1, <1>4, <2>1
  <2> HIDE DEF q, L, U, b
  <2> QED BY <1>1, <1>2, <1>3, <1>4, <2>1, <2>2, <2>3
<1>6. FreeLevel(b) = q
  <2>1. q < Levels /\ Levels \in Nat /\ q \in Nat
    BY <1>4, <1>5, LevelFacts DEF NewLevel
  <2>2. FreeLevel(b) = q % Levels
    BY DEF FreeLevel
  <2> HIDE DEF q
  <2> QED BY <2>1, <2>2
<1> HIDE DEF q, b
<1> QED BY <1>2, <1>4, <1>5, <1>6, RecordFileAssumption, LevelFacts DEF q, b, U

\* The free space a record asks for is a level of the tree.
LEMMA RecordLevelIsLevel ==
  ASSUME NEW size \in Sizes
  PROVE  RecordLevel(size) \in 0 .. NewLevel
<1> DEFINE x == (size + 2 + LEVEL_UNIT - 1) \div LEVEL_UNIT
<1>1. x \in Nat
  <2>1. size \in Nat /\ LEVEL_UNIT \in Nat /\ LEVEL_UNIT > 0 /\ size + 2 + LEVEL_UNIT - 1 \in Nat
    BY RecordFileAssumption, PageSizeAssumption DEF MaxFree, SlotBytes
  <2> QED BY <2>1, SMTT(30)
<1>2. RecordLevel(size) = x % Levels
  BY DEF RecordLevel, SlotBytes
<1> HIDE DEF x
<1> QED BY <1>1, <1>2, LevelFacts DEF NewLevel
-----------------------------------------------------------------------------
\* The data pages, one for each leaf of each group.
LEMMA PagesArePlaces ==
  /\ \A p \in Pages : p \in Nat /\ \E g \in 0 .. MAX_FSP - 1, n \in Leaves : p = DataPage(g, n)
  /\ \A g \in 0 .. MAX_FSP - 1, n \in Leaves : DataPage(g, n) \in Pages
  /\ \A g, f \in 0 .. MAX_FSP - 1, n, m \in Leaves : DataPage(g, n) = DataPage(f, m) => g = f /\ n = m
  /\ K \in Leaves /\ \A n \in Leaves : n \in Nat /\ n >= K
<1>1. \A g \in 0 .. MAX_FSP - 1, n \in Leaves :
        DataPage(g, n) \in Nat /\ GroupOf(DataPage(g, n)) = g /\ LeafOf(DataPage(g, n)) = n
  BY PlaceOfPage, RecordFileAssumption
<1> QED BY <1>1, KFacts DEF Pages, Leaves

(***************************************************************************)
(* What fix_page_header leaves of the file: the page, its leaf, the tree    *)
(* and the copy of its root.                                                *)
(***************************************************************************)
TreesWith(trees, roots, g) ==
  /\ trees = [f \in 0 .. MAX_FSP - 1 |-> trees[f]]
  /\ roots \in Seq(0 .. NewLevel)
  /\ g \in 0 .. MAX_FSP - 1 /\ g + 1 \in 1 .. Len(roots)
  /\ Tree(trees[g]) /\ roots[g + 1] = trees[g][1]

PageIsSet(p, pg) == page' = [page EXCEPT ![p] = pg]

TreeIsFixed(trees, roots, g, n, pg) ==
  /\ PageIsSet(DataPage(g, n), pg)
  /\ fsp' = [trees EXCEPT ![g] = fsp'[g]]
  /\ Tree(fsp'[g]) /\ fsp'[g][1] = fsp_data'[g + 1]
  /\ \A m \in Leaves : fsp'[g][m] = IF m = n THEN FreeLevel(pg.free_size) ELSE trees[g][m]
  /\ fsp_data' \in Seq(0 .. NewLevel) /\ Len(fsp_data') = Len(roots)
  /\ \A i \in 1 .. Len(roots) : i # g + 1 => fsp_data'[i] = roots[i]

\* What fix_page_header leaves on the way up is a tree, and its root is in fsp_data.
LEMMA FixPageTrees ==
  ASSUME NEW trees, NEW roots, NEW g, TreesWith(trees, roots, g),
         NEW n \in Leaves, NEW pg, GoodPage(pg), FixPage(DataPage(g, n), pg, trees, roots)
  PROVE  TreeIsFixed(trees, roots, g, n, pg)
<1> USE DEF TreesWith
<1> DEFINE up == Raised(trees[g], n, FreeLevel(pg.free_size))
<1>1. GroupOf(DataPage(g, n)) = g /\ LeafOf(DataPage(g, n)) = n
  BY PlaceOfPage, RecordFileAssumption
<1>2. /\ page' = [page EXCEPT ![DataPage(g, n)] = pg]
      /\ fsp' = [trees EXCEPT ![g] = up]
      /\ fsp_data' = IF up[1] # trees[g][1] THEN [roots EXCEPT ![g + 1] = up[1]] ELSE roots
  BY <1>1 DEF FixPage
<1>3. /\ Tree(up)
      /\ \A m \in Leaves : up[m] = IF m = n THEN FreeLevel(pg.free_size) ELSE trees[g][m]
  BY GoodPageLevel, RaisedIsTree
<1> HIDE DEF up
<1>4. fsp'[g] = up
  BY <1>2
<1>5. up[1] \in 0 .. NewLevel
  BY <1>3, KFacts DEF Tree
<1>6. /\ fsp_data' \in Seq(0 .. NewLevel) /\ Len(fsp_data') = Len(roots) /\ fsp_data'[g + 1] = up[1]
      /\ \A i \in 1 .. Len(roots) : i # g + 1 => fsp_data'[i] = roots[i]
  <2>1. CASE fsp_data' = roots /\ up[1] = trees[g][1]
    BY <2>1
  <2>2. CASE fsp_data' = [roots EXCEPT ![g + 1] = up[1]]
    <3>1. /\ [roots EXCEPT ![g + 1] = up[1]] \in Seq(0 .. NewLevel)
          /\ Len([roots EXCEPT ![g + 1] = up[1]]) = Len(roots)
          /\ \A i \in 1 .. Len(roots) :
               [roots EXCEPT ![g + 1] = up[1]][i] = IF i = g + 1 THEN up[1] ELSE roots[i]
      BY <1>5, ExceptSeq
    <3> QED BY <2>2, <3>1
  <2> QED BY <1>2, <2>1, <2>2
<1> QED BY <1>2, <1>3, <1>4, <1>6 DEF TreeIsFixed, PageIsSet

(***************************************************************************)
(* The page alloc_vacancy comes to: the first of the first group with the   *)
(* level, and what it asserts on its way there holds.                       *)
(***************************************************************************)
LEMMA ChosenIsFirst ==
  ASSUME GoodPages, TreesTrue, NEW level \in 0 .. NewLevel, GroupsFor(level) # {}
  PROVE  LET g == ChosenGroup(level)
             n == ChosenLeaf(level)
         IN  /\ g \in Groups /\ n \in Leaves
             /\ fsp[g][n] >= level
             /\ \A m \in Leaves : m < n => fsp[g][m] < level
             /\ AllocAsserts(level)
<1> DEFINE g == ChosenGroup(level)
           n == ChosenLeaf(level)
<1>1. g \in Groups /\ fsp_data[g + 1] >= level
  <2>1. GroupsFor(level) \subseteq Nat
    BY DEF GroupsFor, Groups
  <2>2. g \in GroupsFor(level)
    BY <2>1, FirstExists DEF ChosenGroup
  <2> QED BY <2>2 DEF GroupsFor
<1>2. TreeTrue(g)
  BY <1>1 DEF TreesTrue
<1>3. Tree(fsp[g]) /\ fsp[g][1] = fsp_data[g + 1]
  BY <1>2 DEF TreeTrue
<1>4. n \in Leaves /\ fsp[g][n] >= level /\ \A m \in Leaves : m < n => fsp[g][m] < level
  <2>1. n = LeafFor(fsp[g], level)
    BY DEF ChosenLeaf
  <2> QED BY <1>1, <1>3, <2>1, LeafForIsFirst
<1>5. AllocAsserts(level)
  <2>1. FoundLevel(level) = fsp[g][n] /\ ChosenPage(level) = DataPage(g, n)
    BY DEF FoundLevel, ChosenPage
  <2>2. g \in 0 .. MAX_FSP - 1 /\ DataPage(g, n) \in Pages
    BY <1>1, <1>4, PagesArePlaces, RecordFileAssumption DEF TreesTrue, Groups
  <2>3. ASSUME fsp[g][n] # NewLevel
        PROVE  page[DataPage(g, n)] # Nil /\ page[DataPage(g, n)].free_size \div LEVEL_UNIT = fsp[g][n]
    <3>1. page[DataPage(g, n)] # Nil /\ fsp[g][n] = FreeLevel(page[DataPage(g, n)].free_size)
      BY <1>2, <1>4, <2>3 DEF TreeTrue
    <3>2. GoodPage(page[DataPage(g, n)])
      BY <2>2, <3>1 DEF GoodPages
    <3> QED BY <3>1, <3>2, GoodPageLevel
  <2> HIDE DEF g, n
  <2> QED BY <1>3, <1>4, <2>1, <2>3 DEF AllocAsserts, g
<1> QED BY <1>1, <1>4, <1>5
-----------------------------------------------------------------------------
(***************************************************************************)
(* The three ways a step changes the file: a page in use, the first page of *)
(* the last group that is not, the first page of a new group.               *)
(***************************************************************************)
PageChanges(g, n, pg) ==
  /\ g \in Groups /\ n \in Leaves /\ GoodPage(pg)
  /\ page[DataPage(g, n)] # Nil
  /\ FixPage(DataPage(g, n), pg, fsp, fsp_data)
  /\ UNCHANGED page_cnt

PageBegins(g, n, pg) ==
  /\ g \in Groups /\ n \in Leaves /\ GoodPage(pg)
  /\ page[DataPage(g, n)] = Nil
  /\ g + 1 \notin Groups
  /\ \A m \in Leaves : m < n => page[DataPage(g, m)] # Nil
  /\ FixPage(DataPage(g, n), pg, fsp, fsp_data)
  /\ page_cnt' = DataPage(g, n) + 1

GroupBegins(g, pg) ==
  /\ g = Len(fsp_data) /\ g < MAX_FSP /\ GoodPage(pg)
  /\ \A f \in Groups, m \in Leaves : page[DataPage(f, m)] # Nil
  /\ FixPage(DataPage(g, K), pg, [fsp EXCEPT ![g] = [n \in Nodes |-> NewLevel]], Append(fsp_data, NewLevel))
  /\ page_cnt' = page_cnt + 2

\* An insertion into a used page changes the page of the leaf that was found.
LEMMA UsedPageStep ==
  ASSUME IInv, RoomBehindRecord, NEW size \in Sizes, InsertIntoUsedPage(size)
  PROVE  LET level == RecordLevel(size)
             g     == ChosenGroup(level)
             n     == ChosenLeaf(level)
             pg    == page[DataPage(g, n)]
         IN  Ready(pg, size) /\ PageChanges(g, n, PutRecord(pg, size))
<1> DEFINE level == RecordLevel(size)
           g     == ChosenGroup(level)
           n     == ChosenLeaf(level)
           p     == DataPage(g, n)
<1>1. /\ GroupsFor(level) # {} /\ AllocAsserts(level) /\ FoundLevel(level) # NewLevel
      /\ FixPage(p, PutRecord(page[p], size), fsp, fsp_data) /\ UNCHANGED page_cnt
  BY DEF InsertIntoUsedPage, ChosenPage
<1>2. g \in Groups /\ n \in Leaves
  BY <1>1, ChosenIsFirst, RecordLevelIsLevel DEF IInv
<1>3. p \in Pages
  <2>1. g \in 0 .. MAX_FSP - 1
    <3> HIDE DEF g, n
    <3> QED BY <1>2, RecordFileAssumption DEF IInv, TreesTrue, Groups
  <2> QED BY <1>2, <2>1, PagesArePlaces
<1>4. page[p] # Nil /\ page[p].free_size \div LEVEL_UNIT >= level
  BY <1>1 DEF AllocAsserts, ChosenPage
<1>5. GoodPage(page[p])
  BY <1>3, <1>4 DEF IInv, GoodPages
<1>6. page[p].free_size \in Nat
  BY <1>5, PageFields, PageSizeAssumption DEF GoodPage, SoundRecords
<1>7. Ready(page[p], size)
  BY <1>4, <1>5, <1>6, LevelIsEnough, UsedPageReady
<1>8. GoodPage(PutRecord(page[p], size))
  BY <1>7, PutRecordGood
<1> HIDE DEF p, g, n
<1>9. PageChanges(g, n, PutRecord(page[p], size))
  BY <1>1, <1>2, <1>4, <1>8 DEF PageChanges, p
<1> QED BY <1>7, <1>9 DEF p, g, n

\* An insertion into a new page begins the page of the leaf that was found.
LEMMA NewPageStep ==
  ASSUME IInv, RoomBehindRecord, NEW size \in Sizes, InsertIntoNewPage(size)
  PROVE  LET level == RecordLevel(size)
         IN  PageBegins(ChosenGroup(level), ChosenLeaf(level), PutRecord(NewPage, size))
<1> DEFINE level == RecordLevel(size)
           g     == ChosenGroup(level)
           n     == ChosenLeaf(level)
           p     == DataPage(g, n)
<1>1. /\ GroupsFor(level) # {} /\ fsp[g][n] = NewLevel
      /\ FixPage(p, PutRecord(NewPage, size), fsp, fsp_data) /\ page_cnt' = p + 1
  BY DEF InsertIntoNewPage, ChosenPage, FoundLevel
<1>2. level \in 0 .. NewLevel
  BY RecordLevelIsLevel
<1>3. g \in Groups /\ n \in Leaves /\ \A m \in Leaves : m < n => fsp[g][m] < level
  BY <1>1, <1>2, ChosenIsFirst DEF IInv
<1>4. TreeTrue(g)
  BY <1>3 DEF IInv, TreesTrue
<1>5. page[p] = Nil
  BY <1>1, <1>3, <1>4 DEF TreeTrue
<1>6. \A m \in Leaves : m < n => page[DataPage(g, m)] # Nil
  <2> SUFFICES ASSUME NEW m \in Leaves, m < n, page[DataPage(g, m)] = Nil PROVE FALSE
    OBVIOUS
  <2>1. fsp[g][m] = NewLevel /\ fsp[g][m] < level
    BY <1>3, <1>4 DEF TreeTrue
  <2> HIDE DEF level
  <2> QED BY <2>1, <1>2, LevelFacts
<1>7. g + 1 \notin Groups
  BY <1>3, <1>5 DEF IInv, UsedInOrder
<1>8. GoodPage(PutRecord(NewPage, size))
  BY NewPageReady, PutRecordGood
<1> HIDE DEF g, n, level
<1>9. PageBegins(g, n, PutRecord(NewPage, size))
  BY <1>1, <1>3, <1>5, <1>6, <1>7, <1>8 DEF PageBegins
<1> QED BY <1>9 DEF g, n, level

\* An insertion that no tree has room for begins a group of pages.
LEMMA NewGroupStep ==
  ASSUME IInv, RoomBehindRecord, NEW size \in Sizes, InsertIntoNewGroup(size)
  PROVE  GroupBegins(Len(fsp_data), PutRecord(NewPage, size))
<1> DEFINE level == RecordLevel(size)
<1>1. GoodPage(PutRecord(NewPage, size))
  BY NewPageReady, PutRecordGood
<1>2. ASSUME NEW f \in Groups, NEW m \in Leaves, page[DataPage(f, m)] = Nil PROVE FALSE
  <2>1. TreeTrue(f)
    BY <1>2 DEF IInv, TreesTrue
  <2>2. Tree(fsp[f]) /\ fsp[f][m] = NewLevel /\ fsp[f][1] = fsp_data[f + 1]
    BY <1>2, <2>1 DEF TreeTrue
  <2>3. fsp[f][m] <= fsp[f][1] /\ fsp[f][1] \in 0 .. NewLevel
    BY <2>2, LeafForIsFirst, RecordLevelIsLevel, KFacts DEF Tree
  <2>4. f \notin GroupsFor(level)
    BY DEF InsertIntoNewGroup
  <2>5. level \in 0 .. NewLevel
    BY RecordLevelIsLevel
  <2> HIDE DEF level
  <2>6. ~ (fsp_data[f + 1] >= level)
    BY <2>4 DEF GroupsFor
  <2> QED BY <2>2, <2>3, <2>5, <2>6, LevelFacts
<1> QED BY <1>1, <1>2 DEF InsertIntoNewGroup, GroupBegins

\* A deletion changes the page the record is on.
LEMMA DeleteStep ==
  ASSUME IInv, NEW r \in Rids, Delete(r)
  PROVE  \E g, n : /\ r[1] = DataPage(g, n) /\ r[2] \in Slots(page[r[1]]) /\ Valid(page[r[1]], r[2])
                   /\ r = <<r[1], r[2]>> /\ GoodPage(page[r[1]])
                   /\ PageChanges(g, n, RemoveRecord(page[r[1]], r[2]))
<1>1. PICK p \in Pages : r \in RecordsOf(p)
  BY DEF Delete, Records
<1>2. page[p] # Nil /\ r[1] = p /\ r = <<r[1], r[2]>> /\ r[2] \in Slots(page[p]) /\ Valid(page[p], r[2])
  BY <1>1 DEF RecordsOf
<1>3. GoodPage(page[p]) /\ GoodPage(RemoveRecord(page[p], r[2]))
  BY <1>2, RemoveRecordGood DEF IInv, GoodPages
<1>4. PICK g \in 0 .. MAX_FSP - 1, n \in Leaves : p = DataPage(g, n)
  BY PagesArePlaces
<1>5. g \in Groups
  BY <1>2, <1>4 DEF IInv, TreesTrue
<1>6. PageChanges(g, n, RemoveRecord(page[p], r[2]))
  BY <1>2, <1>3, <1>4, <1>5 DEF PageChanges, Delete
<1> QED BY <1>2, <1>3, <1>4, <1>6
-----------------------------------------------------------------------------
\* A page given a new content, and the others.
LEMMA PageAfter ==
  ASSUME GoodPages, NEW g \in 0 .. MAX_FSP - 1, NEW n \in Leaves, NEW pg,
         PageIsSet(DataPage(g, n), pg)
  PROVE  /\ \A q \in Pages : page'[q] = IF q = DataPage(g, n) THEN pg ELSE page[q]
         /\ \A f \in 0 .. MAX_FSP - 1, m \in Leaves :
              page'[DataPage(f, m)] = IF f = g /\ m = n THEN pg ELSE page[DataPage(f, m)]
<1>1. \A q \in Pages : page'[q] = IF q = DataPage(g, n) THEN pg ELSE page[q]
  BY DEF GoodPages, PageIsSet
<1>2. ASSUME NEW f \in 0 .. MAX_FSP - 1, NEW m \in Leaves
      PROVE  page'[DataPage(f, m)] = IF f = g /\ m = n THEN pg ELSE page[DataPage(f, m)]
  <2>1. DataPage(f, m) \in Pages
    BY PagesArePlaces, Zenon
  <2>2. DataPage(f, m) = DataPage(g, n) => f = g /\ m = n
    <3>1. f \in Nat /\ g \in Nat
      BY RecordFileAssumption
    <3> QED BY <3>1, PlaceOfPage
  <2> QED BY <1>1, <2>1, <2>2
<1> QED BY <1>1, <1>2

\* The groups are some of those the model has.
LEMMA GroupsFit ==
  ASSUME TreesTrue
  PROVE  /\ Len(fsp_data) \in Nat /\ Len(fsp_data) <= MAX_FSP
         /\ \A g \in Groups : g \in 0 .. MAX_FSP - 1 /\ g + 1 \in 1 .. Len(fsp_data) /\ fsp_data # << >>
         /\ Groups = {} => fsp_data = << >>
BY RecordFileAssumption DEF TreesTrue, Groups

\* The trees stay true when a page of a group has changed.
LEMMA TreesKeptInGroup ==
  ASSUME GoodPages, TreesTrue, NEW g \in Groups, NEW n \in Leaves, NEW pg, GoodPage(pg),
         FixPage(DataPage(g, n), pg, fsp, fsp_data)
  PROVE  TreesTrue' /\ Groups' = Groups /\ PageIsSet(DataPage(g, n), pg)
<1>1. g \in 0 .. MAX_FSP - 1 /\ g + 1 \in 1 .. Len(fsp_data)
  BY GroupsFit
<1>2. TreeTrue(g) /\ Tree(fsp[g]) /\ fsp_data[g + 1] = fsp[g][1]
  BY DEF TreesTrue, TreeTrue
<1>3. fsp = [f \in 0 .. MAX_FSP - 1 |-> fsp[f]] /\ fsp_data \in Seq(0 .. NewLevel)
  BY DEF TreesTrue
<1>4. /\ PageIsSet(DataPage(g, n), pg)
      /\ fsp' = [fsp EXCEPT ![g] = fsp'[g]]
      /\ Tree(fsp'[g]) /\ fsp'[g][1] = fsp_data'[g + 1]
      /\ \A m \in Leaves : fsp'[g][m] = IF m = n THEN FreeLevel(pg.free_size) ELSE fsp[g][m]
      /\ fsp_data' \in Seq(0 .. NewLevel) /\ Len(fsp_data') = Len(fsp_data)
      /\ \A i \in 1 .. Len(fsp_data) : i # g + 1 => fsp_data'[i] = fsp_data[i]
  <2>1. TreesWith(fsp, fsp_data, g)
    BY <1>1, <1>2, <1>3 DEF TreesWith
  <2>2. TreeIsFixed(fsp, fsp_data, g, n, pg)
    BY <2>1, FixPageTrees, Zenon
  <2> QED BY <2>2 DEF TreeIsFixed
<1>5. Groups' = Groups
  BY <1>4 DEF Groups
<1>6. /\ fsp' = [f \in 0 .. MAX_FSP - 1 |-> fsp'[f]]
      /\ \A f \in 0 .. MAX_FSP - 1 : f # g => fsp'[f] = fsp[f]
  BY <1>3, <1>4
<1>7. \A f \in 0 .. MAX_FSP - 1, m \in Leaves :
        page'[DataPage(f, m)] = IF f = g /\ m = n THEN pg ELSE page[DataPage(f, m)]
  <2>1. PageIsSet(DataPage(g, n), pg)
    BY <1>4
  <2> QED BY <1>1, <2>1, PageAfter
<1>8. ASSUME NEW f \in Groups PROVE TreeTrue(f)'
  <2>1. f \in 0 .. MAX_FSP - 1 /\ f + 1 \in 1 .. Len(fsp_data) /\ TreeTrue(f)
    BY GroupsFit DEF TreesTrue
  <2>2. CASE f = g
    <3>1. pg # Nil /\ FreeLevel(pg.free_size) # NewLevel
      BY GoodPageLevel
    <3>2. ASSUME NEW m \in Leaves
          PROVE  IF page'[DataPage(g, m)] = Nil THEN fsp'[g][m] = NewLevel
                 ELSE fsp'[g][m] = FreeLevel(page'[DataPage(g, m)].free_size) /\ fsp'[g][m] # NewLevel
      BY <1>1, <1>2, <1>4, <1>7, <3>1 DEF TreeTrue
    <3> QED BY <1>4, <2>2, <3>2 DEF TreeTrue
  <2>3. CASE f # g
    <3>1. fsp'[f] = fsp[f] /\ fsp_data'[f + 1] = fsp_data[f + 1]
          /\ \A m \in Leaves : page'[DataPage(f, m)] = page[DataPage(f, m)]
      <4>1. f + 1 # g + 1
        BY <2>1, <2>3, <1>1
      <4> QED BY <4>1, <2>1, <2>3, <1>4, <1>6, <1>7
    <3> QED BY <2>1, <3>1 DEF TreeTrue
  <2> QED BY <2>2, <2>3
<1>9. ASSUME NEW f \in (0 .. MAX_FSP - 1) \ Groups
      PROVE  fsp'[f] = Nil /\ \A m \in Leaves : page'[DataPage(f, m)] = Nil
  BY <1>6, <1>7 DEF TreesTrue
<1> QED BY <1>4, <1>5, <1>6, <1>8, <1>9, GroupsFit DEF TreesTrue

\* The trees stay true when a group begins.
LEMMA TreesKeptByGroup ==
  ASSUME GoodPages, TreesTrue, NEW g, NEW pg, GroupBegins(g, pg)
  PROVE  /\ TreesTrue' /\ Groups' = Groups \cup {g} /\ PageIsSet(DataPage(g, K), pg)
         /\ g \in 0 .. MAX_FSP - 1 /\ g \notin Groups
<1> DEFINE fresh == [n \in Nodes |-> NewLevel]
           trees == [fsp EXCEPT ![g] = fresh]
           roots == Append(fsp_data, NewLevel)
<1>1. /\ g = Len(fsp_data) /\ g \in 0 .. MAX_FSP - 1 /\ g \notin Groups /\ GoodPage(pg)
      /\ FixPage(DataPage(g, K), pg, trees, roots)
  BY GroupsFit, RecordFileAssumption DEF GroupBegins, Groups
<1>2. Tree(fresh) /\ fresh[1] = NewLevel
  BY KFacts, LevelFacts DEF Tree, Max2, Nodes
<1>3. /\ roots \in Seq(0 .. NewLevel) /\ Len(roots) = g + 1 /\ roots[g + 1] = NewLevel
      /\ \A i \in 1 .. g : roots[i] = fsp_data[i]
  BY <1>1, LevelFacts DEF TreesTrue
<1>4. /\ trees = [f \in 0 .. MAX_FSP - 1 |-> trees[f]] /\ trees[g] = fresh
      /\ \A f \in 0 .. MAX_FSP - 1 : f # g => trees[f] = fsp[f]
  <2> HIDE DEF fresh
  <2> QED BY <1>1 DEF TreesTrue
<1>5. g + 1 \in 1 .. Len(roots) /\ K \in Leaves
  BY <1>1, <1>3, PagesArePlaces
<1> HIDE DEF fresh, trees, roots
<1>6. /\ PageIsSet(DataPage(g, K), pg)
      /\ fsp' = [trees EXCEPT ![g] = fsp'[g]]
      /\ Tree(fsp'[g]) /\ fsp'[g][1] = fsp_data'[g + 1]
      /\ \A m \in Leaves : fsp'[g][m] = IF m = K THEN FreeLevel(pg.free_size) ELSE trees[g][m]
      /\ fsp_data' \in Seq(0 .. NewLevel) /\ Len(fsp_data') = Len(roots)
      /\ \A i \in 1 .. Len(roots) : i # g + 1 => fsp_data'[i] = roots[i]
  <2>1. TreesWith(trees, roots, g)
    BY <1>1, <1>2, <1>3, <1>4, <1>5 DEF TreesWith
  <2>2. TreeIsFixed(trees, roots, g, K, pg)
    BY <1>1, <1>5, <2>1, FixPageTrees, Zenon
  <2> QED BY <2>2 DEF TreeIsFixed
<1>7. Groups' = Groups \cup {g}
  BY <1>1, <1>3, <1>6 DEF Groups
<1>8. /\ fsp' = [f \in 0 .. MAX_FSP - 1 |-> fsp'[f]]
      /\ \A f \in 0 .. MAX_FSP - 1 : f # g => fsp'[f] = fsp[f]
  BY <1>4, <1>6
<1>9. \A f \in 0 .. MAX_FSP - 1, m \in Leaves :
        page'[DataPage(f, m)] = IF f = g /\ m = K THEN pg ELSE page[DataPage(f, m)]
  <2>1. PageIsSet(DataPage(g, K), pg)
    BY <1>6
  <2> QED BY <1>1, <1>5, <2>1, PageAfter
<1>10. TreeTrue(g)'
  <2>1. pg # Nil /\ FreeLevel(pg.free_size) # NewLevel
    BY <1>1, GoodPageLevel
  <2>2. \A m \in Leaves : page[DataPage(g, m)] = Nil
    BY <1>1 DEF TreesTrue
  <2>3. ASSUME NEW m \in Leaves
        PROVE  IF page'[DataPage(g, m)] = Nil THEN fsp'[g][m] = NewLevel
               ELSE fsp'[g][m] = FreeLevel(page'[DataPage(g, m)].free_size) /\ fsp'[g][m] # NewLevel
    <3>1. trees[g][m] = NewLevel
      BY <1>4, KFacts DEF fresh
    <3> QED BY <1>1, <1>6, <1>9, <2>1, <2>2, <3>1
  <2> QED BY <1>6, <2>3 DEF TreeTrue
<1>11. ASSUME NEW f \in Groups PROVE TreeTrue(f)'
  <2>1. f \in 0 .. MAX_FSP - 1 /\ f + 1 \in 1 .. g /\ f # g /\ TreeTrue(f)
    BY <1>1, GroupsFit DEF TreesTrue
  <2>2. fsp'[f] = fsp[f] /\ fsp_data'[f + 1] = fsp_data[f + 1]
        /\ \A m \in Leaves : page'[DataPage(f, m)] = page[DataPage(f, m)]
    BY <2>1, <1>1, <1>3, <1>6, <1>8, <1>9
  <2> QED BY <2>1, <2>2 DEF TreeTrue
<1>12. ASSUME NEW f \in (0 .. MAX_FSP - 1) \ Groups, f # g
       PROVE  fsp'[f] = Nil /\ \A m \in Leaves : page'[DataPage(f, m)] = Nil
  BY <1>8, <1>9, <1>12 DEF TreesTrue
<1>13. Len(fsp_data') <= MAX_FSP
  BY <1>1, <1>3, <1>6, RecordFileAssumption
<1> QED BY <1>1, <1>6, <1>7, <1>8, <1>10, <1>11, <1>12, <1>13 DEF TreesTrue
-----------------------------------------------------------------------------
\* Pages in use stay in use, and a step takes at most one more.
LEMMA ChangeKeeps ==
  ASSUME IInv, NEW g, NEW n, NEW pg, PageChanges(g, n, pg)
  PROVE  TreesTrue' /\ UsedInOrder' /\ FileEnds' /\ PageIsSet(DataPage(g, n), pg)
<1>1. /\ g \in Groups /\ n \in Leaves /\ GoodPage(pg) /\ page[DataPage(g, n)] # Nil
      /\ FixPage(DataPage(g, n), pg, fsp, fsp_data) /\ page_cnt' = page_cnt
  BY DEF PageChanges
<1>2. TreesTrue' /\ Groups' = Groups /\ PageIsSet(DataPage(g, n), pg)
  BY <1>1, TreesKeptInGroup DEF IInv
<1>3. g \in 0 .. MAX_FSP - 1 /\ fsp_data # << >>
  BY <1>1, GroupsFit DEF IInv
<1>4. \A q \in Pages : page'[q] # Nil <=> page[q] # Nil
  BY <1>1, <1>2, <1>3, PageAfter, GoodPageLevel DEF IInv
<1>5. UsedInOrder'
  <2>1. \A f \in Groups, m \in Leaves : page'[DataPage(f, m)] # Nil <=> page[DataPage(f, m)] # Nil
    BY <1>4, PagesArePlaces, GroupsFit DEF IInv
  <2>2. K \in Leaves
    BY PagesArePlaces
  <2> QED BY <1>2, <2>1, <2>2 DEF IInv, UsedInOrder
<1>6. FileEnds'
  <2>1. PICK p \in Pages : IsLast(p) /\ page_cnt = p + 1
    BY <1>3 DEF IInv, FileEnds
  <2>2. IsLast(p)'
    BY <1>4, <2>1 DEF IsLast, Pages
  <2>3. fsp_data' # << >>
    <3>1. 0 .. Len(fsp_data') - 1 # {}
      BY <1>1, <1>2 DEF Groups
    <3> QED BY <3>1
  <2>4. Pages' = Pages
    BY DEF Pages
  <2> QED BY <1>1, <2>1, <2>2, <2>3, <2>4 DEF FileEnds
<1> QED BY <1>2, <1>5, <1>6

\* A page that begins is the next of its group, and the last of the file.
LEMMA BeginKeeps ==
  ASSUME IInv, NEW g, NEW n, NEW pg, PageBegins(g, n, pg)
  PROVE  TreesTrue' /\ UsedInOrder' /\ FileEnds' /\ PageIsSet(DataPage(g, n), pg)
<1>1. /\ g \in Groups /\ n \in Leaves /\ GoodPage(pg) /\ page[DataPage(g, n)] = Nil
      /\ g + 1 \notin Groups /\ \A m \in Leaves : m < n => page[DataPage(g, m)] # Nil
      /\ FixPage(DataPage(g, n), pg, fsp, fsp_data) /\ page_cnt' = DataPage(g, n) + 1
  BY DEF PageBegins
<1>2. TreesTrue' /\ Groups' = Groups /\ PageIsSet(DataPage(g, n), pg)
  BY <1>1, TreesKeptInGroup DEF IInv
<1>3. g \in 0 .. MAX_FSP - 1
  BY <1>1, GroupsFit DEF IInv
<1>4. pg # Nil
  BY <1>1, GoodPageLevel
<1>5. \A f \in 0 .. MAX_FSP - 1, m \in Leaves :
        page'[DataPage(f, m)] # Nil <=> (page[DataPage(f, m)] # Nil \/ (f = g /\ m = n))
  BY <1>1, <1>2, <1>3, <1>4, PageAfter DEF IInv
<1>6. \A m \in Leaves : m \in Nat
  BY PagesArePlaces
<1>7. ASSUME NEW m \in Leaves, page[DataPage(g, m)] # Nil PROVE m < n
  <2>1. ~ (n < m) /\ m # n
    BY <1>1, <1>7 DEF IInv, UsedInOrder
  <2> QED BY <2>1, <1>1, <1>6
<1>8. UsedInOrder'
  <2>1. ASSUME NEW f \in Groups
        PROVE  /\ page'[DataPage(f, K)] # Nil
               /\ \A i, m \in Leaves : i < m /\ page'[DataPage(f, m)] # Nil => page'[DataPage(f, i)] # Nil
               /\ f + 1 \in Groups => \A m \in Leaves : page'[DataPage(f, m)] # Nil
    <3>1. /\ f \in 0 .. MAX_FSP - 1 /\ K \in Leaves
          /\ page[DataPage(f, K)] # Nil
          /\ \A i, m \in Leaves : i < m /\ page[DataPage(f, m)] # Nil => page[DataPage(f, i)] # Nil
          /\ f + 1 \in Groups => \A m \in Leaves : page[DataPage(f, m)] # Nil
      BY GroupsFit, PagesArePlaces DEF IInv, UsedInOrder
    <3>2. CASE f = g
      BY <3>1, <3>2, <1>1, <1>5, <1>6, <1>7
    <3>3. CASE f # g
      BY <3>1, <3>3, <1>5
    <3> QED BY <3>2, <3>3
  <2> QED BY <1>2, <2>1 DEF UsedInOrder
<1>9. FileEnds'
  <2> DEFINE p == DataPage(g, n)
  <2>1. p \in Pages /\ page'[p] # Nil
    BY <1>1, <1>3, <1>5, PagesArePlaces
  <2>2. ASSUME NEW q \in Pages, page'[q] # Nil PROVE q <= p
    <3>1. PICK f \in 0 .. MAX_FSP - 1, m \in Leaves : q = DataPage(f, m)
      BY PagesArePlaces
    <3>2. CASE f = g /\ m = n
      BY <3>1, <3>2, <2>1, PagesArePlaces
    <3>3. CASE ~ (f = g /\ m = n)
      <4>1. page[DataPage(f, m)] # Nil
        BY <3>1, <3>3, <2>2, <1>5
      <4>2. f \in Groups
        BY <4>1 DEF IInv, TreesTrue
      <4>3. f < g \/ (f = g /\ m < n)
        <5>1. f \in Nat /\ g \in Nat /\ f <= g
          BY <1>1, <4>2, GroupsFit DEF IInv, Groups
        <5>2. f = g => m < n
          BY <4>1, <1>7
        <5> QED BY <5>1, <5>2
      <4>4. q < p
        BY <3>1, <4>3, <1>1, <1>3, PagesInOrder, RecordFileAssumption
      <4> QED BY <4>4, <2>1, PagesArePlaces
    <3> QED BY <3>2, <3>3
  <2>3. IsLast(p)' /\ page_cnt' = p + 1 /\ p \in Pages'
    BY <1>1, <2>1, <2>2 DEF IsLast, Pages
  <2>4. fsp_data' # << >>
    <3>1. 0 .. Len(fsp_data') - 1 # {}
      BY <1>1, <1>2 DEF Groups
    <3> QED BY <3>1
  <2> HIDE DEF p
  <2> QED BY <2>3, <2>4 DEF FileEnds
<1> QED BY <1>2, <1>8, <1>9

\* A group that begins follows groups all of whose pages are used.
LEMMA GroupKeeps ==
  ASSUME IInv, NEW g, NEW pg, GroupBegins(g, pg)
  PROVE  /\ TreesTrue' /\ UsedInOrder' /\ FileEnds' /\ PageIsSet(DataPage(g, K), pg)
         /\ g \in 0 .. MAX_FSP - 1 /\ page[DataPage(g, K)] = Nil
<1>1. /\ g = Len(fsp_data) /\ GoodPage(pg) /\ page_cnt' = page_cnt + 2
      /\ \A f \in Groups, m \in Leaves : page[DataPage(f, m)] # Nil
  BY DEF GroupBegins
<1>2. /\ TreesTrue' /\ Groups' = Groups \cup {g} /\ PageIsSet(DataPage(g, K), pg)
      /\ g \in 0 .. MAX_FSP - 1 /\ g \notin Groups
  BY TreesKeptByGroup DEF IInv
<1>3. \A m \in Leaves : page[DataPage(g, m)] = Nil
  BY <1>2 DEF IInv, TreesTrue
<1>4. pg # Nil /\ K \in Leaves /\ \A m \in Leaves : m \in Nat /\ m >= K
  BY <1>1, GoodPageLevel, PagesArePlaces
<1>5. \A f \in 0 .. MAX_FSP - 1, m \in Leaves :
        page'[DataPage(f, m)] # Nil <=> (page[DataPage(f, m)] # Nil \/ (f = g /\ m = K))
  BY <1>2, <1>4, PageAfter DEF IInv
<1>6. \A f \in Groups : f \in 0 .. MAX_FSP - 1 /\ f # g /\ f < g
  BY <1>1, <1>2, GroupsFit DEF IInv, Groups
<1>7. UsedInOrder'
  <2>1. ASSUME NEW f \in Groups
        PROVE  /\ page'[DataPage(f, K)] # Nil
               /\ \A i, m \in Leaves : i < m /\ page'[DataPage(f, m)] # Nil => page'[DataPage(f, i)] # Nil
               /\ f + 1 \in Groups \cup {g} => \A m \in Leaves : page'[DataPage(f, m)] # Nil
    BY <1>1, <1>4, <1>5, <1>6
  <2>2. /\ page'[DataPage(g, K)] # Nil
        /\ \A i, m \in Leaves : i < m /\ page'[DataPage(g, m)] # Nil => page'[DataPage(g, i)] # Nil
    <3>1. \A m \in Leaves : page'[DataPage(g, m)] # Nil <=> m = K
      BY <1>2, <1>3, <1>5
    <3> QED BY <3>1, <1>4, KFacts
  <2>3. g + 1 \notin Groups \cup {g}
    BY <1>2, <1>6
  <2> QED BY <1>2, <2>1, <2>2, <2>3 DEF UsedInOrder
<1>8. FileEnds'
  <2> DEFINE p == DataPage(g, K)
  <2>1. p \in Pages /\ page'[p] # Nil
    BY <1>2, <1>4, <1>5, PagesArePlaces
  <2>2. ASSUME NEW q \in Pages, page'[q] # Nil PROVE q <= p
    <3>1. PICK f \in 0 .. MAX_FSP - 1, m \in Leaves : q = DataPage(f, m)
      BY PagesArePlaces
    <3>2. CASE f = g /\ m = K
      BY <3>1, <3>2, <2>1, PagesArePlaces
    <3>3. CASE ~ (f = g /\ m = K)
      <4>1. page[DataPage(f, m)] # Nil
        BY <3>1, <3>3, <2>2, <1>5
      <4>2. f < g
        BY <4>1, <1>6 DEF IInv, TreesTrue
      <4>3. q < p
        BY <3>1, <4>2, <1>2, <1>4, PagesInOrder, RecordFileAssumption
      <4> QED BY <4>3, <2>1, PagesArePlaces
    <3> QED BY <3>2, <3>3
  <2>3. page_cnt' = p + 1
    <3> DEFINE M == K + 1
    <3>1. p = 2 + g * M /\ g \in Nat /\ M \in Nat /\ K \in Nat /\ g * M \in Nat
      BY <1>2, <1>4, KFacts, RecordFileAssumption DEF DataPage
    <3>2. CASE g = 0
      <4>1. fsp_data = << >>
        BY <1>1, <3>2, GroupsFit DEF IInv, Groups
      <4> HIDE DEF p
      <4> QED BY <4>1, <3>1, <3>2, <1>1 DEF IInv, FileEnds
    <3>3. CASE g > 0
      <4>1. fsp_data # << >> /\ g - 1 \in Groups
        BY <1>1, <3>1, <3>3 DEF Groups
      <4>2. PICK l \in Pages : IsLast(l) /\ page_cnt = l + 1
        BY <4>1 DEF IInv, FileEnds
      <4> DEFINE n == 2 * K - 1
                 e == DataPage(g - 1, n)
      <4>3. n \in Leaves /\ \A m \in Leaves : m <= n
        BY <3>1, KFacts DEF Leaves
      <4>4. e \in Pages /\ page[e] # Nil
        BY <4>1, <4>3, <1>1, <1>6, PagesArePlaces
      <4>5. e <= l
        BY <4>2, <4>4 DEF IsLast
      <4>6. PICK f \in 0 .. MAX_FSP - 1, m \in Leaves : l = DataPage(f, m)
        BY PagesArePlaces
      <4>7. f \in Groups
        BY <4>2, <4>6 DEF IsLast, IInv, TreesTrue
      <4>8. ~ (e < l)
        <5>1. f \in Nat /\ g - 1 \in Nat /\ f <= g - 1
          BY <4>1, <4>7, <1>6, <3>1, <3>3
        <5>2. ~ (g - 1 < f \/ (g - 1 = f /\ n < m))
          BY <5>1, <4>3, <1>4
        <5> QED BY <5>1, <5>2, <4>3, <4>6, PagesInOrder
      <4>9. e = l
        <5>1. e \in Nat /\ l \in Nat
          BY <4>2, <4>4, PagesArePlaces
        <5> HIDE DEF e
        <5> QED BY <5>1, <4>5, <4>8
      <4>10. e = g * M
        <5>1. e = 2 + (g - 1) * M + (n - K)
          BY DEF DataPage
        <5>2. (g - 1) * M = g * M - M
          <6> HIDE DEF M
          <6> QED BY <3>1, SMTT(30)
        <5>3. n - K = M - 2
          BY <3>1
        <5> HIDE DEF M, e, n
        <5> QED BY <5>1, <5>2, <5>3, <3>1
      <4> HIDE DEF e, p, M
      <4> QED BY <1>1, <3>1, <4>2, <4>9, <4>10
    <3> QED BY <3>1, <3>2, <3>3
  <2>4. IsLast(p)' /\ p \in Pages'
    BY <2>1, <2>2 DEF IsLast, Pages
  <2>5. fsp_data' # << >>
    <3>1. 0 .. Len(fsp_data') - 1 # {}
      BY <1>2 DEF Groups
    <3> QED BY <3>1
  <2> HIDE DEF p
  <2> QED BY <2>3, <2>4, <2>5 DEF FileEnds
<1> QED BY <1>2, <1>3, <1>4, <1>7, <1>8

\* Every step keeps the invariant.
LEMMA IInvKept ==
  ASSUME RoomBehindRecord, IInv, [Next]_vars
  PROVE  IInv'
<1>1. GoodPages'
  BY GoodPagesKept DEF IInv
<1>2. ASSUME NEW size \in Sizes, InsertIntoUsedPage(size) PROVE TreesTrue' /\ UsedInOrder' /\ FileEnds'
  BY <1>2, UsedPageStep, ChangeKeeps
<1>3. ASSUME NEW size \in Sizes, InsertIntoNewPage(size) PROVE TreesTrue' /\ UsedInOrder' /\ FileEnds'
  BY <1>3, NewPageStep, BeginKeeps
<1>4. ASSUME NEW size \in Sizes, InsertIntoNewGroup(size) PROVE TreesTrue' /\ UsedInOrder' /\ FileEnds'
  BY <1>4, NewGroupStep, GroupKeeps
<1>5. ASSUME NEW r \in Rids, Delete(r) PROVE TreesTrue' /\ UsedInOrder' /\ FileEnds'
  BY <1>5, DeleteStep, ChangeKeeps
<1>6. CASE UNCHANGED vars
  <2>1. page' = page /\ fsp' = fsp /\ fsp_data' = fsp_data /\ page_cnt' = page_cnt
    BY <1>6 DEF vars
  <2>2. TreesTrue'
    BY <2>1 DEF IInv, TreesTrue, TreeTrue, Groups
  <2>3. UsedInOrder'
    BY <2>1 DEF IInv, UsedInOrder, Groups
  <2>4. FileEnds'
    BY <2>1 DEF IInv, FileEnds, IsLast, Pages
  <2> QED BY <1>1, <2>2, <2>3, <2>4 DEF IInv
<1>7. CASE Next
  <2>1. TreesTrue' /\ UsedInOrder' /\ FileEnds'
    BY <1>2, <1>3, <1>4, <1>5, <1>7, Zenon DEF Next, Insert
  <2> QED BY <1>1, <2>1 DEF IInv
<1> QED BY <1>6, <1>7

\* An empty file is sound.
LEMMA IInvInit == Init => IInv
<1> SUFFICES ASSUME Init PROVE IInv
  OBVIOUS
<1>1. GoodPages
  BY DEF Init, GoodPages
<1>2. Groups = {} /\ fsp_data = << >> /\ Len(fsp_data) = 0
  BY DEF Init, Groups
<1>3. TreesTrue
  <2>1. \A g \in 0 .. MAX_FSP - 1 : fsp[g] = Nil /\ \A n \in Leaves : page[DataPage(g, n)] = Nil
    BY PagesArePlaces DEF Init
  <2>2. fsp_data \in Seq(0 .. NewLevel)
    BY <1>2
  <2>3. fsp = [g \in 0 .. MAX_FSP - 1 |-> fsp[g]]
    BY DEF Init
  <2> QED BY <1>2, <2>1, <2>2, <2>3, RecordFileAssumption DEF TreesTrue
<1> QED BY <1>1, <1>2, <1>3 DEF IInv, UsedInOrder, FileEnds, Init

\* The invariant holds in every state of the file.
LEMMA Invariant ==
  ASSUME RoomBehindRecord
  PROVE  Spec => []IInv
<1>1. IInv /\ [Next]_vars => IInv'
  BY IInvKept
<1> QED BY <1>1, IInvInit, PTL DEF Spec

(***************************************************************************)
(* The state of a record file has its type in every state: a level fits     *)
(* its byte whatever is inserted and deleted, as no page in use ever has    *)
(* the level of a page never used, and free_size never wraps around.        *)
(***************************************************************************)
THEOREM TypesHold ==
  ASSUME RoomBehindRecord
  PROVE  Spec => []TypeOK
<1>1. IInv => TypeOK
  <2> SUFFICES ASSUME IInv PROVE TypeOK
    OBVIOUS
  <2>1. page_cnt \in Nat
    <3>1. \A p \in Pages : p + 1 \in Nat
      BY PagesArePlaces
    <3> QED BY <3>1 DEF IInv, FileEnds
  <2>2. fsp_data \in Seq(0 .. NewLevel)
    BY DEF IInv, TreesTrue
  <2>3. fsp \in [0 .. MAX_FSP - 1 -> [Nodes -> 0 .. NewLevel] \cup {Nil}]
    <3>1. \A g \in 0 .. MAX_FSP - 1 : fsp[g] \in [Nodes -> 0 .. NewLevel] \cup {Nil}
      BY DEF IInv, TreesTrue, TreeTrue, Tree
    <3> QED BY <3>1 DEF IInv, TreesTrue
  <2>4. DOMAIN page = Pages /\ \A p \in Pages : page[p] = Nil \/ IsPage(page[p])
    BY DEF IInv, GoodPages, GoodPage, SoundRecords
  <2> QED BY <2>1, <2>2, <2>3, <2>4 DEF TypeOK
<1> QED BY <1>1, Invariant, PTL

(***************************************************************************)
(* The free space pages tell the truth, and what alloc_vacancy asserts on   *)
(* its way down holds for every record: fix_page_header may stop on its way *)
(* up at the first node that does not change.                               *)
(***************************************************************************)
THEOREM FreeSpaceStaysTrue ==
  ASSUME RoomBehindRecord
  PROVE  Spec => []FreeSpaceTreeTrue
<1>1. IInv => FreeSpaceTreeTrue
  <2> SUFFICES ASSUME IInv PROVE FreeSpaceTreeTrue
    OBVIOUS
  <2>1. \A g \in Groups : TreeTrue(g)
    BY DEF IInv, TreesTrue
  <2>2. ASSUME NEW size \in Sizes, GroupsFor(RecordLevel(size)) # {}
        PROVE  AllocAsserts(RecordLevel(size))
    BY <2>2, RecordLevelIsLevel, ChosenIsFirst DEF IInv
  <2> QED BY <2>1, <2>2 DEF FreeSpaceTreeTrue, TreeTrue, Tree, Leaves
<1> QED BY <1>1, Invariant, PTL
-----------------------------------------------------------------------------
\* A record is on a data page in use, before the end of the file.
LEMMA RecordsArePlaced ==
  ASSUME IInv, NEW s \in Records
  PROVE  /\ s = <<s[1], s[2]>> /\ s[1] \in Nat /\ s[2] \in Nat /\ s[1] \in Pages
         /\ s[1] <= page_cnt - 1 /\ s[1] >= 2 /\ s[1] % (K + 1) # 1 /\ page_cnt \in Nat
<1>1. PICK p \in Pages : s \in RecordsOf(p)
  BY DEF Records
<1>2. page[p] # Nil /\ s = <<s[1], s[2]>> /\ s[1] = p /\ s[2] \in Slots(page[p])
  BY <1>1 DEF RecordsOf
<1>3. s[2] \in Nat
  BY <1>2, PageFields DEF IInv, GoodPages, GoodPage, SoundRecords
<1>4. PICK g \in 0 .. MAX_FSP - 1, n \in Leaves : p = DataPage(g, n)
  BY PagesArePlaces
<1>5. g \in Nat /\ g \in Groups
  BY <1>2, <1>4, RecordFileAssumption DEF IInv, TreesTrue
<1>6. p \in Nat /\ p >= 2 /\ p % (K + 1) # 1
  BY <1>4, <1>5, PlaceOfPage
<1>7. PICK l \in Pages : IsLast(l) /\ page_cnt = l + 1
  BY <1>5, GroupsFit DEF IInv, FileEnds
<1>8. l \in Nat /\ p <= l
  BY <1>2, <1>7, PagesArePlaces DEF IsLast
<1> QED BY <1>2, <1>3, <1>6, <1>7, <1>8

\* Some records have one that is before all the others.
LEMMA FirstRecordExists ==
  ASSUME NEW S, S # {}, \A s \in S : s = <<s[1], s[2]>> /\ s[1] \in Nat /\ s[2] \in Nat
  PROVE  \E s \in S : \A t \in S : t = s \/ Before(s, t)
<1> DEFINE P == {s[1] : s \in S}
           p == First(P)
           Q == {s[2] : s \in {t \in S : t[1] = p}}
           q == First(Q)
<1>1. p \in P /\ \A x \in P : p <= x
  <2>1. P \subseteq Nat /\ P # {}
    OBVIOUS
  <2> HIDE DEF P
  <2> QED BY <2>1, FirstExists
<1> HIDE DEF p
<1>2. q \in Q /\ \A x \in Q : q <= x
  <2>1. Q \subseteq Nat /\ Q # {}
    BY <1>1
  <2> HIDE DEF Q
  <2> QED BY <2>1, FirstExists
<1> HIDE DEF q
<1>3. PICK s \in S : s[1] = p /\ s[2] = q
  BY <1>2
<1>4. ASSUME NEW t \in S PROVE t = s \/ Before(s, t)
  <2>1. p <= t[1] /\ (t[1] = p => q <= t[2])
    BY <1>1, <1>2
  <2>2. /\ s = <<p, q>> /\ t = <<t[1], t[2]>> /\ p \in Nat /\ q \in Nat /\ t[1] \in Nat /\ t[2] \in Nat
    BY <1>3
  <2>3. CASE t[1] = p /\ t[2] = q
    BY <2>2, <2>3
  <2>4. CASE ~ (t[1] = p /\ t[2] = q)
    BY <1>3, <2>1, <2>2, <2>4 DEF Before
  <2> QED BY <2>3, <2>4
<1> QED BY <1>4

(***************************************************************************)
(* A scan meets every record, in the order of the RIDs, and no other: the   *)
(* page count of the meta page ends the file behind its last page in use,   *)
(* though alloc_vacancy sets it in two ways.                                *)
(***************************************************************************)
THEOREM ScanIsComplete ==
  ASSUME RoomBehindRecord
  PROVE  Spec => []ScanMeetsEveryRecord
<1>1. IInv => ScanMeetsEveryRecord
  <2> SUFFICES ASSUME IInv PROVE ScanMeetsEveryRecord
    OBVIOUS
  <2>1. page_cnt = IF fsp_data = << >> THEN 1
                   ELSE 1 + (CHOOSE p \in Pages : page[p] # Nil /\ \A q \in Pages : page[q] # Nil => q <= p)
    <3>1. CASE fsp_data = << >>
      BY <3>1 DEF IInv, FileEnds
    <3>2. CASE fsp_data # << >>
      <4>1. PICK l \in Pages : IsLast(l) /\ page_cnt = l + 1
        BY <3>2 DEF IInv, FileEnds
      <4> DEFINE c == CHOOSE p \in Pages : IsLast(p)
      <4>2. c \in Pages /\ IsLast(c)
        BY <4>1
      <4>3. c = CHOOSE p \in Pages : page[p] # Nil /\ \A q \in Pages : page[q] # Nil => q <= p
        <5>1. \A p \in Pages : IsLast(p) <=> (page[p] # Nil /\ \A q \in Pages : page[q] # Nil => q <= p)
          BY DEF IsLast
        <5> QED BY <5>1
      <4> HIDE DEF c
      <4>4. c = l
        <5>1. c <= l /\ l <= c /\ c \in Nat /\ l \in Nat
          BY <4>1, <4>2, PagesArePlaces DEF IsLast
        <5> QED BY <5>1
      <4>5. page_cnt = 1 + c
        BY <4>1, <4>4, PagesArePlaces
      <4>6. page_cnt = 1 + (CHOOSE p \in Pages : page[p] # Nil /\ \A q \in Pages : page[q] # Nil => q <= p)
        BY <4>3, <4>5
      <4> QED BY <3>2, <4>6
    <3> QED BY <3>1, <3>2
  <2>2. ASSUME NEW r \in Records \cup {<<0, 0>>}
        PROVE  LET later == {s \in Records : Before(r, s)}
               IN  IF later = {} THEN find_from(r) = <<0, 0>>
                   ELSE find_from(r) \in later /\ \A s \in later : s = find_from(r) \/ Before(find_from(r), s)
    <3> DEFINE later == {s \in Records : Before(r, s)}
               found == {s \in Records : /\ s[1] \in r[1] .. page_cnt - 1
                                         /\ s[1] >= 2 /\ s[1] % (K + 1) # 1
                                         /\ s[1] = r[1] => s[2] > r[2]}
    <3>1. r[1] \in Nat /\ r[2] \in Nat
      BY RecordsArePlaced
    <3>2. found = later
      <4>1. ASSUME NEW s \in Records PROVE s \in found <=> s \in later
        <5>1. /\ s[1] \in Nat /\ s[2] \in Nat /\ page_cnt \in Nat
              /\ s[1] <= page_cnt - 1 /\ s[1] >= 2 /\ s[1] % (K + 1) # 1
          BY RecordsArePlaced
        <5> QED BY <3>1, <5>1 DEF Before
      <4> QED BY <4>1
    <3>3. find_from(r) = IF found = {} THEN <<0, 0>>
                         ELSE CHOOSE s \in found : \A t \in found : t = s \/ Before(s, t)
      BY DEF find_from
    <3>4. later # {} => \E s \in later : \A t \in later : t = s \/ Before(s, t)
      <4>1. \A s \in later : s = <<s[1], s[2]>> /\ s[1] \in Nat /\ s[2] \in Nat
        BY RecordsArePlaced
      <4> HIDE DEF later
      <4> QED BY <4>1, FirstRecordExists
    <3> HIDE DEF later, found
    <3>5. IF later = {} THEN find_from(r) = <<0, 0>>
          ELSE find_from(r) \in later /\ \A s \in later : s = find_from(r) \/ Before(find_from(r), s)
      BY <3>2, <3>3, <3>4
    <3> QED BY <3>5 DEF later
  <2> QED BY <2>1, <2>2 DEF ScanMeetsEveryRecord
<1> QED BY <1>1, Invariant, PTL
-----------------------------------------------------------------------------
\* The slots of a page that hold a record.
Held(pg) == IF pg = Nil THEN {} ELSE {i \in Slots(pg) : Valid(pg, i)}

\* The records are the slots that hold one, before and after a step.
LEMMA RecordsAreHeld ==
  /\ \A r : r \in Records <=> r = <<r[1], r[2]>> /\ r[1] \in Pages /\ r[2] \in Held(page[r[1]])
  /\ \A r : r \in Records' <=> r = <<r[1], r[2]>> /\ r[1] \in Pages /\ r[2] \in Held(page'[r[1]])
<1>1. \A p, r : r \in RecordsOf(p) <=> r = <<r[1], r[2]>> /\ r[1] = p /\ r[2] \in Held(page[p])
  BY DEF RecordsOf, Held
<1>2. \A p, r : r \in RecordsOf(p)' <=> r = <<r[1], r[2]>> /\ r[1] = p /\ r[2] \in Held(page'[p])
  BY DEF RecordsOf, Held
<1>3. \A r : r \in Records <=> \E p \in Pages : r \in RecordsOf(p)
  BY DEF Records
<1>4. \A r : r \in Records' <=> \E p \in Pages : r \in RecordsOf(p)'
  BY DEF Records, Pages
<1> QED BY <1>1, <1>2, <1>3, <1>4

\* fix_page_header changes what the header says of the free place only.
LEMMA FixedPageKeeps ==
  ASSUME NEW pg, "slot" \in DOMAIN pg, "slot_cnt" \in DOMAIN pg
  PROVE  fix_page_header(pg).slot = pg.slot /\ fix_page_header(pg).slot_cnt = pg.slot_cnt
BY DEF fix_page_header

\* An insertion fills a slot that had no record, and leaves the others alone.
LEMMA PutRecordHolds ==
  ASSUME NEW pg, NEW size, Ready(pg, size)
  PROVE  LET i   == pg.free_slot_id
             put == PutRecord(pg, size)
         IN  /\ pg # Nil /\ put # Nil /\ i \in 0 .. PAGE_SIZE /\ i \notin Held(pg)
             /\ Held(put) = Held(pg) \cup {i}
             /\ put.slot[i].size = size
             /\ \A j \in Held(pg) : put.slot[j] = pg.slot[j]
<1> USE PageSizeAssumption
<1> DEFINE i     == pg.free_slot_id
           cnt   == pg.slot_cnt
           n     == IF i >= cnt THEN i + 1 ELSE cnt
           entry == [offset |-> pg.free_offset, size |-> size]
           with  == WithSlot(pg, i, entry)
           put   == PutRecord(pg, size)
<1>1. /\ IsPage(pg) /\ cnt \in 0 .. PAGE_SIZE /\ i \in FreeSlots(pg) /\ i \in 0 .. cnt
      /\ pg.free_offset >= RECORD_PAGE_HEADER_SIZE /\ pg.free_offset \in Nat
  <2>1. IsPage(pg) /\ FreePlaceIsFree(pg) /\ pg.free_size > 0
    BY PageFields DEF Ready, SlotBytes
  <2> QED BY <2>1, PageFields DEF FreePlaceIsFree, FreeSlots
<1>2. DOMAIN pg = {"slot_cnt", "slot", "free_size", "free_offset", "free_slot_id"}
  BY <1>1, PageFields
<1>3. /\ with.slot_cnt = n /\ with.slot = [j \in 0 .. n - 1 |-> IF j = i THEN entry ELSE pg.slot[j]]
      /\ "slot" \in DOMAIN with /\ "slot_cnt" \in DOMAIN with
  BY <1>2 DEF WithSlot
<1>4. put.slot = with.slot /\ put.slot_cnt = n
  <2>1. put = fix_page_header(with)
    BY DEF PutRecord
  <2> HIDE DEF with, put
  <2> QED BY <1>3, <2>1, FixedPageKeeps
<1>5. pg # Nil /\ put # Nil
  BY <1>1, PutRecordGood, GoodPageLevel, RecordFileAssumption
<1> HIDE DEF with, put
<1>6. n \in Nat /\ i \in 0 .. n - 1 /\ 0 .. n - 1 = (0 .. cnt - 1) \cup {i}
  BY <1>1
<1>7. Slots(put) = Slots(pg) \cup {i} /\ ~ (i \in Slots(pg) /\ Valid(pg, i))
  BY <1>1, <1>4, <1>6 DEF Slots, FreeSlots
<1>8. /\ put.slot[i] = entry /\ Valid(put, i)
      /\ \A j \in Slots(pg) : j # i => put.slot[j] = pg.slot[j] /\ (Valid(put, j) <=> Valid(pg, j))
  <2> HIDE DEF n
  <2>1. put.slot[i] = entry
    BY <1>3, <1>4, <1>6
  <2>2. \A j \in Slots(pg) : j # i => j \in 0 .. n - 1 /\ put.slot[j] = pg.slot[j]
    BY <1>3, <1>4, <1>6 DEF Slots
  <2>3. entry.offset = pg.free_offset /\ entry.size = size
    OBVIOUS
  <2> HIDE DEF entry
  <2>4. Valid(put, i)
    BY <1>1, <2>1, <2>3 DEF Valid
  <2> QED BY <2>1, <2>2, <2>4 DEF Valid
<1>9. Held(put) = Held(pg) \cup {i} /\ i \notin Held(pg)
  BY <1>5, <1>7, <1>8 DEF Held
<1>10. \A j \in Held(pg) : put.slot[j] = pg.slot[j]
  BY <1>5, <1>7, <1>8 DEF Held
<1>11. i \in 0 .. PAGE_SIZE
  BY <1>1
<1> HIDE DEF i
<1> QED BY <1>5, <1>8, <1>9, <1>10, <1>11 DEF i, put

\* A deletion empties its slot, and leaves the other records alone.
LEMMA RemoveRecordHolds ==
  ASSUME NEW pg, GoodPage(pg), NEW i \in Held(pg)
  PROVE  LET gone == RemoveRecord(pg, i)
         IN  /\ Held(gone) = Held(pg) \ {i}
             /\ \A j \in Held(gone) : gone.slot[j] = pg.slot[j]
<1> USE PageSizeAssumption
<1> DEFINE left == {j \in Slots(pg) : j # i /\ Valid(pg, j)}
           n    == IF left = {} THEN 0 ELSE 1 + (CHOOSE j \in left : \A k \in left : k <= j)
           cut  == [pg EXCEPT !.slot_cnt = n, !.slot = [j \in 0 .. n - 1 |-> IF j = i THEN NoRecord ELSE pg.slot[j]]]
           gone == RemoveRecord(pg, i)
<1>1. IsPage(pg) /\ pg # Nil /\ i \in Slots(pg)
  BY GoodPageLevel DEF GoodPage, SoundRecords, Held
<1>2. DOMAIN pg = {"slot_cnt", "slot", "free_size", "free_offset", "free_slot_id"} /\ Slots(pg) \subseteq Nat
      /\ pg.slot_cnt \in Nat /\ pg.slot_cnt <= PAGE_SIZE
  BY <1>1, PageFields
<1>3. n \in Nat /\ (\A j \in left : j \in 0 .. n - 1) /\ n <= pg.slot_cnt
  <2>1. CASE left = {}
    BY <2>1, <1>2
  <2>2. CASE left # {}
    <3> DEFINE f == [j \in left |-> j]
    <3>1. \A j \in left : f[j] \in 0 .. PAGE_SIZE
      BY <1>2 DEF Slots
    <3>2. \E j \in left : \A k \in left : f[k] <= f[j]
      <4> HIDE DEF left, f
      <4> QED BY <2>2, <3>1, GreatestExists
    <3>3. \E j \in left : \A k \in left : k <= j
      BY <3>2
    <3> DEFINE l == CHOOSE j \in left : \A k \in left : k <= j
    <3>4. l \in left /\ \A k \in left : k <= l
      BY <3>3
    <3>5. n = 1 + l
      BY <2>2
    <3>6. left \subseteq 0 .. pg.slot_cnt - 1
      BY DEF Slots
    <3> HIDE DEF left, l, n
    <3> QED BY <3>4, <3>5, <3>6, <1>2
  <2> QED BY <2>1, <2>2
<1>4. /\ cut.slot_cnt = n /\ cut.slot = [j \in 0 .. n - 1 |-> IF j = i THEN NoRecord ELSE pg.slot[j]]
      /\ "slot" \in DOMAIN cut /\ "slot_cnt" \in DOMAIN cut
  <2> HIDE DEF n
  <2> QED BY <1>2
<1>5. gone.slot = cut.slot /\ gone.slot_cnt = n
  <2>1. gone = fix_page_header(cut)
    BY DEF RemoveRecord
  <2> HIDE DEF cut, gone, n
  <2> QED BY <1>4, <2>1, FixedPageKeeps
<1>6. gone # Nil
  BY <1>1, RemoveRecordGood, GoodPageLevel
<1> HIDE DEF cut, gone, n
<1>7. Slots(gone) = 0 .. n - 1 /\ Slots(gone) \subseteq Slots(pg)
  BY <1>2, <1>3, <1>5 DEF Slots
<1>8. \A j \in Slots(gone) : gone.slot[j] = IF j = i THEN NoRecord ELSE pg.slot[j]
  BY <1>4, <1>5, <1>7
<1>9. \A j \in Slots(gone) : Valid(gone, j) <=> j # i /\ Valid(pg, j)
  BY <1>8 DEF Valid, NoRecord
<1>10. Held(gone) = left
  BY <1>3, <1>6, <1>7, <1>9 DEF Held
<1>11. left = Held(pg) \ {i}
  BY <1>1 DEF Held
<1>12. \A j \in left : gone.slot[j] = pg.slot[j]
  BY <1>3, <1>7, <1>8
<1> QED BY <1>10, <1>11, <1>12 DEF gone

(***************************************************************************)
(* A page with one record more is an insertion of the store, a page with    *)
(* one record less a deletion: no other RID and no other record changes.    *)
(***************************************************************************)
LEMMA InsertStores ==
  ASSUME IInv, NEW p \in Pages, NEW pg, NEW size \in Sizes, Ready(pg, size),
         Held(page[p]) = Held(pg), \A j \in Held(pg) : page[p].slot[j] = pg.slot[j],
         PageIsSet(p, PutRecord(pg, size))
  PROVE  Store!Next
<1> DEFINE i   == pg.free_slot_id
           put == PutRecord(pg, size)
           r   == <<p, i>>
<1>1. /\ i \in 0 .. PAGE_SIZE /\ i \notin Held(pg) /\ Held(put) = Held(pg) \cup {i}
      /\ put.slot[i].size = size /\ \A j \in Held(pg) : put.slot[j] = pg.slot[j]
  BY PutRecordHolds
<1>2. \A q \in Pages : page'[q] = IF q = p THEN put ELSE page[q]
  BY DEF IInv, GoodPages, PageIsSet
<1> HIDE DEF put, i
<1>3. r \in Rids /\ r \notin Records /\ r[1] = p /\ r[2] = i
  BY <1>1, RecordsAreHeld DEF Rids
<1>4. Records' = Records \cup {r}
  <2>1. ASSUME NEW q PROVE q \in Records' <=> q \in Records \cup {r}
    <3>1. q \in Records' <=> q = <<q[1], q[2]>> /\ q[1] \in Pages /\ q[2] \in Held(page'[q[1]])
      BY RecordsAreHeld
    <3>2. q \in Records <=> q = <<q[1], q[2]>> /\ q[1] \in Pages /\ q[2] \in Held(page[q[1]])
      BY RecordsAreHeld
    <3>3. CASE q[1] = p
      BY <3>1, <3>2, <3>3, <1>1, <1>2, <1>3
    <3>4. CASE q[1] # p
      BY <3>1, <3>2, <3>4, <1>2, <1>3
    <3> QED BY <3>3, <3>4
  <2> QED BY <2>1
<1>5. \A q \in Records' : page'[q[1]].slot[q[2]].size = IF q = r THEN size ELSE page[q[1]].slot[q[2]].size
  <2>1. page'[r[1]].slot[r[2]].size = size
    BY <1>1, <1>2, <1>3
  <2>2. ASSUME NEW q \in Records PROVE page'[q[1]].slot[q[2]].size = page[q[1]].slot[q[2]].size
    <3>1. q[1] \in Pages /\ q[2] \in Held(page[q[1]])
      BY RecordsAreHeld
    <3> QED BY <3>1, <1>1, <1>2
  <2> QED BY <1>3, <1>4, <2>1, <2>2
<1>6. DOMAIN StoredRecords = Records /\ \A q \in Records : StoredRecords[q] = page[q[1]].slot[q[2]].size
  BY DEF StoredRecords
<1>7. StoredRecords' = [q \in Records' |-> page'[q[1]].slot[q[2]].size]
  BY DEF StoredRecords
<1>8. StoredRecords' = [q \in Records \cup {r} |-> IF q = r THEN size ELSE StoredRecords[q]]
  BY <1>3, <1>4, <1>5, <1>6, <1>7
<1>9. Store!Insert(r, size)
  BY <1>3, <1>6, <1>8 DEF Store!Insert
<1> QED BY <1>3, <1>9 DEF Store!Next

\* A deletion takes one record out of the store.
LEMMA DeleteStores ==
  ASSUME IInv, NEW r \in Records, GoodPage(page[r[1]]), PageIsSet(r[1], RemoveRecord(page[r[1]], r[2])), r \in Rids
  PROVE  Store!Next
<1> DEFINE p    == r[1]
           pg   == page[p]
           gone == RemoveRecord(pg, r[2])
<1>1. r = <<p, r[2]>> /\ p \in Pages /\ r[2] \in Held(pg)
  BY RecordsAreHeld
<1>2. Held(gone) = Held(pg) \ {r[2]} /\ \A j \in Held(gone) : gone.slot[j] = pg.slot[j]
  BY <1>1, RemoveRecordHolds
<1>3. \A q \in Pages : page'[q] = IF q = p THEN gone ELSE page[q]
  BY DEF IInv, GoodPages, PageIsSet
<1> HIDE DEF gone
<1>4. Records' = Records \ {r}
  <2>1. ASSUME NEW q PROVE q \in Records' <=> q \in Records \ {r}
    <3>1. q \in Records' <=> q = <<q[1], q[2]>> /\ q[1] \in Pages /\ q[2] \in Held(page'[q[1]])
      BY RecordsAreHeld
    <3>2. q \in Records <=> q = <<q[1], q[2]>> /\ q[1] \in Pages /\ q[2] \in Held(page[q[1]])
      BY RecordsAreHeld
    <3>3. CASE q[1] = p
      BY <3>1, <3>2, <3>3, <1>1, <1>2, <1>3
    <3>4. CASE q[1] # p
      BY <3>1, <3>2, <3>4, <1>1, <1>3
    <3> QED BY <3>3, <3>4
  <2> QED BY <2>1
<1>5. ASSUME NEW q \in Records' PROVE page'[q[1]].slot[q[2]].size = page[q[1]].slot[q[2]].size
  <2>1. q[1] \in Pages /\ q[2] \in Held(page'[q[1]])
    BY RecordsAreHeld
  <2> QED BY <2>1, <1>2, <1>3
<1>6. DOMAIN StoredRecords = Records /\ \A q \in Records : StoredRecords[q] = page[q[1]].slot[q[2]].size
  BY DEF StoredRecords
<1>7. StoredRecords' = [q \in Records' |-> page'[q[1]].slot[q[2]].size]
  BY DEF StoredRecords
<1>8. StoredRecords' = [q \in Records \ {r} |-> StoredRecords[q]]
  BY <1>4, <1>5, <1>6, <1>7
<1>9. Store!Delete(r)
  BY <1>6, <1>8 DEF Store!Delete
<1> QED BY <1>9 DEF Store!Next

(***************************************************************************)
(* A record file is a store of records: the RID an insertion returns finds  *)
(* the record until it is deleted, whatever is inserted and deleted beside  *)
(* it, and no insertion takes the RID of a record that is still there.      *)
(***************************************************************************)
THEOREM FileIsRecordStore ==
  ASSUME RoomBehindRecord
  PROVE  Spec => ImplementsRecordStore
<1>1. Init => Store!Init
  <2> SUFFICES ASSUME Init PROVE StoredRecords = << >>
    BY DEF Store!Init
  <2>1. Records = {}
    BY RecordsAreHeld DEF Init, Records, RecordsOf
  <2> QED BY <2>1 DEF StoredRecords
<1>2. IInv /\ [Next]_vars => [Store!Next]_Store!vars
  <2> SUFFICES ASSUME IInv, [Next]_vars PROVE [Store!Next]_Store!vars
    OBVIOUS
  <2>1. ASSUME NEW size \in Sizes, InsertIntoUsedPage(size) PROVE Store!Next
    <3>1. PICK g, n : Ready(page[DataPage(g, n)], size) /\ PageChanges(g, n, PutRecord(page[DataPage(g, n)], size))
      BY <2>1, UsedPageStep
    <3>2. PageIsSet(DataPage(g, n), PutRecord(page[DataPage(g, n)], size))
      BY <3>1, ChangeKeeps
    <3>3. DataPage(g, n) \in Pages
      BY <3>1, PagesArePlaces, GroupsFit DEF PageChanges, IInv
    <3> QED BY <3>1, <3>2, <3>3, InsertStores
  <2>2. ASSUME NEW size \in Sizes, NEW p \in Pages, page[p] = Nil, PageIsSet(p, PutRecord(NewPage, size))
        PROVE  Store!Next
    <3>1. Ready(NewPage, size)
      BY NewPageReady
    <3>2. Held(page[p]) = {} /\ Held(NewPage) = {}
      BY <2>2 DEF Held, Slots, NewPage, Valid, NoRecord
    <3> QED BY <2>2, <3>1, <3>2, InsertStores
  <2>3. ASSUME NEW size \in Sizes, InsertIntoNewPage(size) PROVE Store!Next
    <3>1. PICK g, n : PageBegins(g, n, PutRecord(NewPage, size))
      BY <2>3, NewPageStep
    <3>2. PageIsSet(DataPage(g, n), PutRecord(NewPage, size))
      BY <3>1, BeginKeeps
    <3>3. DataPage(g, n) \in Pages /\ page[DataPage(g, n)] = Nil
      BY <3>1, PagesArePlaces, GroupsFit DEF PageBegins, IInv
    <3> QED BY <2>2, <3>2, <3>3
  <2>4. ASSUME NEW size \in Sizes, InsertIntoNewGroup(size) PROVE Store!Next
    <3>1. PICK g : GroupBegins(g, PutRecord(NewPage, size))
      BY <2>4, NewGroupStep
    <3>2. /\ PageIsSet(DataPage(g, K), PutRecord(NewPage, size))
          /\ DataPage(g, K) \in Pages /\ page[DataPage(g, K)] = Nil
      BY <3>1, GroupKeeps, PagesArePlaces
    <3> QED BY <2>2, <3>2
  <2>5. ASSUME NEW r \in Rids, Delete(r) PROVE Store!Next
    <3>1. PICK g, n : r[1] = DataPage(g, n) /\ GoodPage(page[r[1]]) /\ PageChanges(g, n, RemoveRecord(page[r[1]], r[2]))
      BY <2>5, DeleteStep
    <3>2. PageIsSet(r[1], RemoveRecord(page[r[1]], r[2]))
      BY <3>1, ChangeKeeps
    <3> QED BY <2>5, <3>1, <3>2, DeleteStores DEF Delete
  <2>6. CASE UNCHANGED vars
    BY <2>6 DEF vars, Store!vars, StoredRecords, Records, RecordsOf, Pages
  <2>7. CASE Next
    BY <2>1, <2>3, <2>4, <2>5, <2>7, Zenon DEF Next, Insert
  <2> QED BY <2>6, <2>7
<1> QED BY <1>1, <1>2, Invariant, PTL DEF Spec, ImplementsRecordStore, Store!Spec
=============================================================================
