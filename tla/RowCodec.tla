------------------------------- MODULE RowCodec -------------------------------
(***************************************************************************)
(* The values of a row and the bytes it is stored as: src/ms/Value.h and    *)
(* ManageSystem::from_record_to_bytes, from_bytes_to_record.                *)
(*                                                                         *)
(* A value has a type and a number: an INT its value, a FLOAT its value in  *)
(* units of 1/FLOAT_UNIT, a string its length (the strings of the model are *)
(* told apart, and ordered, by their lengths), NULL the number zero.        *)
(* A stored row is a bitmap of NULLs, the slots of the fixed columns (INT,  *)
(* FLOAT) in their order, the end of each string, the strings one after the *)
(* other.  fields lists the columns, each [type, str_len].                  *)
(***************************************************************************)
EXTENDS Integers, Sequences, FiniteSets, FiniteSetsExt

FLOAT_UNIT == 6     \* exact for what the averages of the model divide

Null      == [type |-> "NUL", n |-> 0]
IntV(n)   == [type |-> "INT", n |-> n]
StrV(n)   == [type |-> "STR", n |-> n]
FloatV(n) == [type |-> "FLOAT", n |-> n * FLOAT_UNIT]

Value == [type : {"STR", "INT", "FLOAT"}, n : Int] \cup {Null}

asInt(v)  == v.n
isNull(v) == v.type = "NUL"

TypeRank == [NUL |-> 0, STR |-> 1, INT |-> 2, FLOAT |-> 3]

\* operator<=>, the order of the keys of a std::map.
Before(a, b) ==
  \/ TypeRank[a.type] < TypeRank[b.type]
  \/ a.type = b.type /\ a.n < b.n

\* operator+.
Plus(a, b) ==
  IF isNull(a) THEN b ELSE IF isNull(b) THEN a ELSE [type |-> a.type, n |-> a.n + b.n]
-----------------------------------------------------------------------------
\* What bytes that are not the value's are taken for.
Junk == -99

IsString(f) == f.type = "STR"

\* The columns up to i whose values are stored in the same part of the row.
SamePart(fields, i) == {j \in 1 .. i : IsString(fields[j]) = IsString(fields[i])}

\* The slot column i is written to: a NULL takes one too.
SlotOf(fields, i) == Cardinality(SamePart(fields, i))

\* The slot column i is read from: a NULL is passed over without moving on.
SlotRead(fields, null, i) == Cardinality(SamePart(fields, i) \ null)

StringsAfter(fields, i) == {j \in DOMAIN fields : j > i /\ IsString(fields[j])}

\* IsCut that counts every NULL of the row.
IsCut_AllNulls(fields, bytes, j) ==
  /\ bytes.n[j] > 0
  /\ bytes.null # {}
  /\ MapThenSumSet(LAMBDA i : bytes.n[i], StringsAfter(fields, j)) < 2 * Cardinality(bytes.null)

\* The string of column j reaches into the bytes that were not stored: the
\* length of the row has no room for the end of a NULL string.
IsCut(fields, bytes, j) ==
  LET nulls == {i \in bytes.null : IsString(fields[i])}
  IN  /\ bytes.n[j] > 0
      /\ nulls # {}
      /\ MapThenSumSet(LAMBDA i : bytes.n[i], StringsAfter(fields, j)) < 2 * Cardinality(nulls)

\* Which columns are NULL, and what the slot of each column holds.
from_record_to_bytes(fields, values) ==
  [null |-> {i \in DOMAIN fields : isNull(values[i])},
   n    |-> [i \in DOMAIN fields |-> values[i].n]]

\* What column i is read as: the slot it is read from was written for column j.
ReadColumn(fields, bytes, i) ==
  LET j == CHOOSE j \in DOMAIN fields :
             /\ IsString(fields[j]) = IsString(fields[i])
             /\ SlotOf(fields, j) = SlotRead(fields, bytes.null, i)
  IN  [type |-> fields[i].type,
       n |-> IF \/ fields[j].type # fields[i].type /\ bytes.n[j] # 0
                \/ IsString(fields[j]) /\ IsCut(fields, bytes, j)
               THEN Junk
               ELSE bytes.n[j]]

from_bytes_to_record(fields, bytes) ==
  [i \in DOMAIN fields |-> IF i \in bytes.null THEN Null ELSE ReadColumn(fields, bytes, i)]

(***************************************************************************)
(* The rows that are read as they were written: no NULL before another      *)
(* value of its part of the row, and no NULL beside strings with content.   *)
(***************************************************************************)
ReadsBack(fields, values) ==
  /\ \A j \in DOMAIN fields : \A i \in SamePart(fields, j) : isNull(values[i]) => isNull(values[j])
  /\ \A i, j \in DOMAIN fields :
       IsString(fields[i]) /\ isNull(values[i]) /\ IsString(fields[j]) => values[j].n = 0

\* A row of the columns of fields.
IsRow(fields, values) ==
  /\ values \in [DOMAIN fields -> Value]
  /\ \A i \in DOMAIN fields : isNull(values[i]) \/ values[i].type = fields[i].type
=============================================================================
