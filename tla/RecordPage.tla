----------------------------- MODULE RecordPage -----------------------------
(***************************************************************************)
(* A data page of a record file (src/rs): records from the header on, a     *)
(* slot directory from the end of the page down, two bytes a slot.          *)
(*                                                                         *)
(* A page is a record: `slot' gives the slots 0 .. slot_cnt-1 the offset    *)
(* and size of their record, offset 0 for a slot without one; the other     *)
(* fields are those of RecordPageHeader.  The size of a record is read from *)
(* its bytes in the code (or is the fixed size of the file).                *)
(***************************************************************************)
EXTENDS Integers, FiniteSets

CONSTANTS PAGE_SIZE,
          RECORD_PAGE_HEADER_SIZE,
          WORD           \* the number of values of size_t

ASSUME PageSizeAssumption ==
  /\ PAGE_SIZE \in Nat /\ RECORD_PAGE_HEADER_SIZE \in Nat
  /\ RECORD_PAGE_HEADER_SIZE > 0
  /\ RECORD_PAGE_HEADER_SIZE + 4 < PAGE_SIZE
  /\ WORD \in Nat /\ PAGE_SIZE < WORD /\ WORD % PAGE_SIZE = 0

SlotBytes == 2

\* What is left of the page for one record and its slot.
MaxFree == PAGE_SIZE - RECORD_PAGE_HEADER_SIZE - SlotBytes

NoRecord == [offset |-> 0, size |-> 0]

Slot == {NoRecord} \cup [offset : RECORD_PAGE_HEADER_SIZE .. PAGE_SIZE, size : 1 .. PAGE_SIZE]

IsPage(pg) ==
  \E n \in 0 .. PAGE_SIZE :
     pg \in [slot_cnt : {n}, slot : [0 .. n - 1 -> Slot],
            free_size : 0 .. WORD - 1, free_offset : Nat, free_slot_id : Nat]

\* size_t arithmetic: a negative difference wraps around.
SizeT(n) == IF n < 0 THEN n + WORD ELSE n

Valid(pg, i) == pg.slot[i].offset # 0
Slots(pg)    == 0 .. pg.slot_cnt - 1
End(pg, i)   == pg.slot[i].offset + pg.slot[i].size

\* The slots after i that hold a record, and the first of them.
LaterRecords(pg, i) == {j \in Slots(pg) : j > i /\ Valid(pg, j)}
First(S) == CHOOSE j \in S : \A k \in S : j <= k

\* Where the free bytes of slot i begin.
FreeFrom(pg, i) == IF Valid(pg, i) THEN pg.slot[i].offset
                   ELSE IF i > 0 THEN End(pg, i - 1) ELSE RECORD_PAGE_HEADER_SIZE

\* vacancy_at that forgets the two bytes of a slot yet to be added.
vacancy_at_NoSlotBytes(pg, i) ==
  IF pg.slot_cnt = 0
    THEN [size |-> PAGE_SIZE - RECORD_PAGE_HEADER_SIZE, offset |-> RECORD_PAGE_HEADER_SIZE]
    ELSE LET from == IF i = pg.slot_cnt THEN End(pg, i - 1) ELSE FreeFrom(pg, i)
             to   == IF LaterRecords(pg, i) = {} THEN PAGE_SIZE - pg.slot_cnt * SlotBytes
                     ELSE pg.slot[First(LaterRecords(pg, i))].offset
         IN  [size |-> to - from, offset |-> from]

\* RecordFile::vacancy_at: the bytes slot i could use.
vacancy_at(pg, i) ==
  IF pg.slot_cnt = 0
    THEN [size |-> MaxFree, offset |-> RECORD_PAGE_HEADER_SIZE]
  ELSE IF i = pg.slot_cnt
    THEN LET e == End(pg, i - 1)
         IN  [size |-> SizeT(PAGE_SIZE - e - pg.slot_cnt * SlotBytes - SlotBytes),
              offset |-> e]
  ELSE IF ~ Valid(pg, i) /\ i > 0 /\ ~ Valid(pg, i - 1)
    THEN [size |-> 0, offset |-> 0]
  ELSE LET from == FreeFrom(pg, i)
           to   == IF LaterRecords(pg, i) = {}
                     THEN PAGE_SIZE - pg.slot_cnt * SlotBytes
                     ELSE pg.slot[First(LaterRecords(pg, i))].offset
       IN  [size |-> SizeT(to - from), offset |-> from]

\* The slots an insertion may take: one without a record, or a new one.
FreeSlots(pg) == {i \in 0 .. pg.slot_cnt : i = pg.slot_cnt \/ ~ Valid(pg, i)}

(***************************************************************************)
(* The page's part of RecordFile::fix_page_header: the header describes the *)
(* first of the largest vacancies, and only its size when that is none.     *)
(***************************************************************************)
fix_page_header(pg) ==
  LET vacancy == [i \in FreeSlots(pg) |-> vacancy_at(pg, i)]
      largest == {i \in FreeSlots(pg) :
                    \A j \in FreeSlots(pg) : vacancy[j].size <= vacancy[i].size}
      i       == First(largest)
  IN  IF vacancy[i].size = 0
        THEN [pg EXCEPT !.free_size = 0]
        ELSE [pg EXCEPT !.free_size = vacancy[i].size,
                        !.free_offset = vacancy[i].offset,
                        !.free_slot_id = i]

\* The page a record is put in for the first time.
NewPage == [slot_cnt |-> 1, slot |-> [i \in 0 .. 0 |-> NoRecord],
            free_size |-> MaxFree, free_offset |-> RECORD_PAGE_HEADER_SIZE,
            free_slot_id |-> 0]

\* The slots of a page when slot i is to be written: one more if i is new.
WithSlot(pg, i, entry) ==
  LET n == IF i >= pg.slot_cnt THEN i + 1 ELSE pg.slot_cnt
  IN  [pg EXCEPT !.slot_cnt = n,
                 !.slot = [j \in 0 .. n - 1 |-> IF j = i THEN entry ELSE pg.slot[j]]]

\* A record written at the free place of the header.
PutRecord(pg, size) ==
  fix_page_header(WithSlot(pg, pg.free_slot_id, [offset |-> pg.free_offset, size |-> size]))

\* RemoveRecord that leaves the slots after the last record in the directory.
RemoveRecord_KeepsSlots(pg, i) == fix_page_header([pg EXCEPT !.slot[i] = NoRecord])

\* RemoveRecord that takes the number of records left for the number of slots.
RemoveRecord_CountsRecords(pg, i) ==
  LET n == Cardinality({j \in Slots(pg) : j # i /\ Valid(pg, j)})
  IN  fix_page_header([pg EXCEPT !.slot_cnt = n,
                                 !.slot = [j \in 0 .. n - 1 |-> IF j = i THEN NoRecord
                                                                ELSE pg.slot[j]]])

\* The record of slot i removed: the slots after the last record go with it.
RemoveRecord(pg, i) ==
  LET left == {j \in Slots(pg) : j # i /\ Valid(pg, j)}
      n    == IF left = {} THEN 0 ELSE 1 + (CHOOSE j \in left : \A k \in left : k <= j)
  IN  fix_page_header([pg EXCEPT !.slot_cnt = n,
                                 !.slot = [j \in 0 .. n - 1 |-> IF j = i THEN NoRecord
                                                                ELSE pg.slot[j]]])
-----------------------------------------------------------------------------
(***************************************************************************)
(* A sound page: its records do not overlap and lie, in the order of their  *)
(* slots, between the header and the slot directory; the last slot holds a  *)
(* record (RecordPageHeader.h).                                             *)
(***************************************************************************)
RecordsDisjoint(pg) ==
  /\ \A i \in Slots(pg) : Valid(pg, i) =>
       /\ RECORD_PAGE_HEADER_SIZE <= pg.slot[i].offset
       /\ End(pg, i) + pg.slot_cnt * SlotBytes <= PAGE_SIZE
  /\ \A i, j \in Slots(pg) : i < j /\ Valid(pg, i) /\ Valid(pg, j)
                               => End(pg, i) <= pg.slot[j].offset
  /\ pg.slot_cnt > 0 => Valid(pg, pg.slot_cnt - 1)

(***************************************************************************)
(* The free place the header describes is free: it overlaps no record, its  *)
(* slot is one an insertion may take and lies in order with its neighbours, *)
(* and a new slot has its two bytes of the directory.                       *)
(***************************************************************************)
FreePlaceIsFree(pg) ==
  pg.free_size > 0 =>
    LET from == pg.free_offset
        to   == pg.free_offset + pg.free_size
        i    == pg.free_slot_id
    IN  /\ i \in FreeSlots(pg)
        /\ from >= RECORD_PAGE_HEADER_SIZE
        /\ to + (IF i = pg.slot_cnt THEN i + 1 ELSE pg.slot_cnt) * SlotBytes <= PAGE_SIZE
        /\ \A j \in Slots(pg) : Valid(pg, j) =>
             /\ j < i => End(pg, j) <= from
             /\ j > i => to <= pg.slot[j].offset

PageSound(pg) == RecordsDisjoint(pg) /\ FreePlaceIsFree(pg)
=============================================================================
