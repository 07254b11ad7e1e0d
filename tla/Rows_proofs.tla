----------------------------- MODULE Rows_proofs -----------------------------
(***************************************************************************)
(* A row of NULLs-last is read back as it was written, whatever its columns *)
(* are.                                                                    *)
(***************************************************************************)
EXTENDS Rows, FiniteSetTheorems, WellFoundedInduction, TLAPS

\* Two columns of one part of the row have different slots.
LEMMA SlotsApart ==
  ASSUME NEW fields, NEW i \in Nat \ {0}, NEW j \in Nat \ {0},
         IsString(fields[i]) = IsString(fields[j]),
         SlotOf(fields, i) = SlotOf(fields, j)
  PROVE  i = j
<1> DEFINE A == SamePart(fields, i)
           B == SamePart(fields, j)
<1>0. Cardinality(A) = Cardinality(B)
  BY DEF SlotOf
<1>1. IsFiniteSet(A) /\ IsFiniteSet(B)
  <2>1. IsFiniteSet(1 .. i) /\ IsFiniteSet(1 .. j)
    BY FS_Interval
  <2> QED BY <2>1, FS_Subset DEF SamePart
<1>2. ASSUME i < j PROVE FALSE
  <2>1. A \subseteq B /\ j \in B /\ j \notin A
    BY <1>2 DEF SamePart
  <2>2. Cardinality(A) \in Nat /\ Cardinality(B) \in Nat /\ Cardinality(A) < Cardinality(B)
    BY <2>1, <1>1, FS_Subset, FS_CardinalityType
  <2> HIDE DEF A, B
  <2> QED BY <2>2, <1>0
<1>3. ASSUME j < i PROVE FALSE
  <2>1. B \subseteq A /\ i \in A /\ i \notin B
    BY <1>3 DEF SamePart
  <2>2. Cardinality(B) \in Nat /\ Cardinality(A) \in Nat /\ Cardinality(B) < Cardinality(A)
    BY <2>1, <1>1, FS_Subset, FS_CardinalityType
  <2> HIDE DEF A, B
  <2> QED BY <2>2, <1>0
<1> QED BY <1>2, <1>3

(***************************************************************************)
(* from_bytes_to_record undoes from_record_to_bytes for every row that      *)
(* ReadsBack describes, over every list of columns.                         *)
(***************************************************************************)
THEOREM RowsAreReadBack ==
  ASSUME NEW F, NEW fields \in Seq(F), NEW values, IsRow(fields, values), ReadsBack(fields, values)
  PROVE  from_bytes_to_record(fields, from_record_to_bytes(fields, values)) = values
<1> DEFINE bytes == from_record_to_bytes(fields, values)
<1>1. DOMAIN fields \subseteq Nat \ {0} /\ \A i \in DOMAIN fields : 1 .. i \subseteq DOMAIN fields
  OBVIOUS
<1>2. values = [i \in DOMAIN fields |-> values[i]]
  BY DEF IsRow
<1>3. bytes.null = {i \in DOMAIN fields : isNull(values[i])}
  BY DEF from_record_to_bytes
<1>4. \A i \in DOMAIN fields : bytes.n[i] = values[i].n
  BY DEF from_record_to_bytes
<1>5. ASSUME NEW i \in DOMAIN fields, ~ isNull(values[i])
      PROVE  ReadColumn(fields, bytes, i) = values[i]
  <2> DEFINE Right(j) == /\ IsString(fields[j]) = IsString(fields[i])
                         /\ SlotOf(fields, j) = SlotRead(fields, bytes.null, i)
  <2>1. SamePart(fields, i) \ bytes.null = SamePart(fields, i)
    BY <1>3, <1>5 DEF ReadsBack
  <2>2. Right(i)
    BY <2>1 DEF SlotOf, SlotRead
  <2>3. ASSUME NEW j \in DOMAIN fields, Right(j) PROVE j = i
    BY <2>2, <2>3, <1>1, SlotsApart
  <2>4. (CHOOSE j \in DOMAIN fields : Right(j)) = i
    BY <2>2, <2>3
  <2>5. IsString(fields[i]) => ~ IsCut(fields, bytes, i)
    <3> SUFFICES ASSUME IsString(fields[i]), IsCut(fields, bytes, i) PROVE FALSE
      OBVIOUS
    <3>1. PICK k \in bytes.null : IsString(fields[k])
      BY DEF IsCut
    <3>2. values[i].n = 0
      BY <3>1, <1>3 DEF ReadsBack
    <3> QED BY <3>2, <1>4 DEF IsCut
  <2>6. ReadColumn(fields, bytes, i) = [type |-> fields[i].type, n |-> values[i].n]
    BY <2>4, <2>5, <1>4 DEF ReadColumn
  <2>7. values[i].type = fields[i].type /\ values[i] \in Value
    BY <1>5 DEF IsRow
  <2> QED BY <2>6, <2>7, <1>5 DEF Value, isNull, Null
<1>6. ASSUME NEW i \in DOMAIN fields, isNull(values[i])
      PROVE  values[i] = Null
  BY <1>6 DEF IsRow, Value, isNull, Null
<1>7. \A i \in DOMAIN fields : (IF i \in bytes.null THEN Null ELSE ReadColumn(fields, bytes, i)) = values[i]
  BY <1>3, <1>5, <1>6
<1>8. from_bytes_to_record(fields, bytes) = [i \in DOMAIN fields |-> values[i]]
  BY <1>7 DEF from_bytes_to_record
<1> QED BY <1>2, <1>8
-----------------------------------------------------------------------------
(***************************************************************************)
(* What INSERT, DELETE, UPDATE and the statements on indexes and keys keep  *)
(* true of a database, for every set of tables, of statements and of RIDs,  *)
(* as long as the rows of the tables are read back as they were written     *)
(* (ReadableTables).                                                       *)
(*                                                                         *)
(* The invariant is Sound: beside what the theorems state it says that a    *)
(* row a statement still has to remove is in the record file, as it was     *)
(* read, and that NULLs are in columns declared for them.                   *)
(***************************************************************************)

(***************************************************************************)
(* In every table a column that may be NULL is the last of its part of the  *)
(* row, and a string column that may be NULL is the only string column:     *)
(* from_record_to_bytes and from_bytes_to_record agree on such rows.        *)
(***************************************************************************)
ReadableTables ==
  \A t \in Tables : \A i, j \in Columns(t) :
     i \in Nullables[t] /\ IsString(Fields[t][i]) = IsString(Fields[t][j])
       => (i <= j => i = j) /\ (IsString(Fields[t][i]) => i = j)

\* What a statement under way knows.
StatementSound ==
  /\ stmt = NoStatement \/ stmt.table \in Tables
  /\ DOMAIN stmt = (IF stmt = NoStatement THEN DOMAIN NoStatement ELSE {"kind", "table", "mask", "remove", "add"})
  /\ \A r \in DOMAIN stmt.remove :
       r \in DOMAIN rows[stmt.table] /\ stmt.remove[r] = RowAt(stmt.table, r)
  /\ DOMAIN stmt.add \subseteq Nat
  /\ \A k \in DOMAIN stmt.add : stmt.add[k] \in [DOMAIN stmt.add[k] -> Value]

\* NULLs are in columns declared without NOT NULL.
NullsDeclared ==
  \A t \in Tables : \A r \in DOMAIN rows[t], c \in Columns(t) :
     isNull(rows[t][r][c]) => c \in Nullables[t]

Functional == DOMAIN info = Tables /\ DOMAIN rows = Tables /\ DOMAIN entries = Tables

Sound == TypeOK /\ Functional /\ NullsDeclared /\ StatementSound /\ IndexesMatchRows
-----------------------------------------------------------------------------
\* A set of numbers that is not empty has its least member.
LEMMA LeastExists ==
  ASSUME NEW S, S \subseteq Nat, S # {}
  PROVE  Min(S) \in S /\ \A x \in S : Min(S) <= x
<1>1. PICK x \in S : \A y \in S : ~ (<<y, x>> \in OpToRel(<, Nat))
  BY WFMin, NatLessThanWellFounded
<1>2. \A y \in S : ~ (y < x)
  BY <1>1, Zenon DEF OpToRel
<1>3. \A y \in S : x <= y
  BY <1>2
<1> QED BY <1>3 DEF Min

\* A finite set of numbers that is not empty has its greatest member.
LEMMA GreatestExists ==
  ASSUME NEW n \in Nat, NEW S, S \subseteq 1 .. n, S # {}
  PROVE  Max(S) \in S
<1> DEFINE T == {n - x : x \in S}
<1>1. T \subseteq Nat /\ T # {}
  <2>1. ASSUME NEW x \in S PROVE n - x \in Nat
    <3>1. x \in 1 .. n
      OBVIOUS
    <3> QED BY <3>1
  <2> QED BY <2>1
<1>2. Min(T) \in T /\ \A y \in T : Min(T) <= y
  <2> HIDE DEF T
  <2> QED BY <1>1, LeastExists
<1>3. PICK x \in S : Min(T) = n - x
  BY <1>2
<1>4. \A y \in S : n - x <= n - y
  BY <1>2, <1>3
<1>5. \A y \in S : x >= y
  BY <1>4
<1> QED BY <1>5 DEF Max

\* A row with its NULLs where they are declared is read as it was given.
LEMMA RowIsReadBack ==
  ASSUME ReadableTables, NEW t \in Tables, NEW values, IsRow(Fields[t], values),
         \A c \in Columns(t) : isNull(values[c]) => c \in Nullables[t]
  PROVE  Read(t, values) = values
<1>1. Fields[t] \in Seq(FieldType)
  BY TablesAssumption
<1>2. ASSUME NEW j \in Columns(t), NEW i \in SamePart(Fields[t], j), isNull(values[i])
      PROVE  isNull(values[j])
  <2>1. i \in Columns(t) /\ i <= j /\ IsString(Fields[t][i]) = IsString(Fields[t][j])
    BY <1>1 DEF SamePart, Columns
  <2> QED BY <2>1, <1>2 DEF ReadableTables
<1>3. ASSUME NEW i \in Columns(t), NEW j \in Columns(t),
             IsString(Fields[t][i]), isNull(values[i]), IsString(Fields[t][j])
      PROVE  values[j].n = 0
  <2>1. i = j
    BY <1>3 DEF ReadableTables
  <2>2. values[i] \in Value
    BY DEF IsRow, Columns
  <2> QED BY <1>3, <2>1, <2>2 DEF Value, isNull, Null
<1>4. ReadsBack(Fields[t], values)
  BY <1>2, <1>3 DEF ReadsBack, Columns
<1> QED BY <1>1, <1>4, RowsAreReadBack DEF Read

\* What a RID leads to is a row of the columns, as it was given.
LEMMA RowAtIsRow ==
  ASSUME ReadableTables, TypeOK, NullsDeclared, NEW t \in Tables, NEW r \in DOMAIN rows[t]
  PROVE  RowAt(t, r) = rows[t][r] /\ IsRow(Fields[t], rows[t][r])
BY RowIsReadBack DEF RowAt, TypeOK, NullsDeclared

\* The pairs of an index, one by one.
LEMMA InIndexOf ==
  ASSUME NEW t, NEW c, NEW e
  PROVE  e \in IndexOf(t, c) <=>
           \E r \in DOMAIN rows[t] : ~ isNull(RowAt(t, r)[c]) /\ e = <<asInt(RowAt(t, r)[c]), r>>
BY DEF IndexOf, EntriesOf

(***************************************************************************)
(* A lookup finds RIDs of rows only, and every row that meets the clauses,  *)
(* by an index or without.                                                  *)
(***************************************************************************)
LEMMA SearchFindsRows ==
  ASSUME Sound, NEW t \in Tables, NEW where, DOMAIN where \subseteq Columns(t)
  PROVE  /\ search(t, where) \subseteq DOMAIN rows[t]
         /\ \A r \in DOMAIN rows[t] : Meets(RowAt(t, r), where) => r \in search(t, where)
<1> DEFINE usable == SearchColumns(t, where)
           c == Max(usable)
           rest == Restrict(where, DOMAIN where \ {c})
<1>1. CASE usable = {}
  BY <1>1 DEF search
<1>2. CASE usable # {}
  <2>1. c \in usable
    <3>1. PICK n \in Nat : Columns(t) = 1 .. n
      BY TablesAssumption DEF Columns
    <3>2. usable \subseteq 1 .. n
      BY <3>1 DEF SearchColumns
    <3> QED BY <3>2, <1>2, GreatestExists
  <2>2. c \in DOMAIN where /\ c \in Indexed(t) /\ where[c].type = "INT"
    BY <2>1 DEF SearchColumns
  <2>3. entries[t][c] = IndexOf(t, c)
    BY <2>2 DEF Sound, IndexesMatchRows
  <2>4. search(t, where) = {e[2] : e \in {x \in IndexOf(t, c) : /\ x[1] = asInt(where[c])
                                                              /\ Meets(RowAt(t, x[2]), rest)}}
    BY <1>2, <2>3 DEF search
  <2>5. search(t, where) \subseteq DOMAIN rows[t]
    BY <2>4, InIndexOf
  <2>6. ASSUME NEW r \in DOMAIN rows[t], Meets(RowAt(t, r), where)
        PROVE  r \in search(t, where)
    <3>1. RowAt(t, r)[c] = where[c] /\ ~ isNull(where[c])
      BY <2>2, <2>6 DEF Meets
    <3>2. <<asInt(where[c]), r>> \in IndexOf(t, c)
      BY <3>1, InIndexOf
    <3>3. Meets(RowAt(t, r), rest)
      BY <2>6 DEF Meets, Restrict
    <3> QED BY <2>4, <3>2, <3>3
  <2> QED BY <2>5, <2>6
<1> QED BY <1>1, <1>2
-----------------------------------------------------------------------------
\* The pairs of a row in the index of an INT column are a number and its RID.
LEMMA PairsTyped ==
  ASSUME ReadableTables, TypeOK, NullsDeclared, NEW t \in Tables, NEW c \in Columns(t)
  PROVE  IndexOf(t, c) \subseteq Int \X Rids
<1> SUFFICES ASSUME NEW e \in IndexOf(t, c) PROVE e \in Int \X Rids
  OBVIOUS
<1>1. PICK r \in DOMAIN rows[t] : ~ isNull(RowAt(t, r)[c]) /\ e = <<asInt(RowAt(t, r)[c]), r>>
  BY InIndexOf
<1>2. RowAt(t, r)[c] \in Value
  BY RowAtIsRow DEF IsRow, Columns
<1>3. asInt(RowAt(t, r)[c]) \in Int
  BY <1>2 DEF Value, asInt, Null
<1>4. r \in Rids
  BY DEF TypeOK
<1> QED BY <1>1, <1>3, <1>4

\* Empty tables satisfy the invariant.
LEMMA InitSound ==
  ASSUME Init
  PROVE  Sound
<1>1. DOMAIN << >> = {}
  OBVIOUS
<1>2. TypeOK
  BY <1>1 DEF Init, TypeOK, Indexed, NoStatement
<1>3. Functional /\ NullsDeclared /\ IndexesMatchRows
  BY <1>1 DEF Init, Functional, NullsDeclared, IndexesMatchRows, Indexed
<1>4. StatementSound
  BY <1>1 DEF Init, StatementSound, NoStatement
<1> QED BY <1>2, <1>3, <1>4 DEF Sound

\* A step that leaves rows, indexes and the catalog as they are.
LEMMA DataKept ==
  ASSUME Sound, UNCHANGED <<info, rows, entries>>,
         flag' \in BOOLEAN, lost' \in BOOLEAN,
         stmt'.kind \in {"NONE", "INSERT", "DELETE", "UPDATE"}, StatementSound'
  PROVE  Sound'
<1>1. TypeOK'
  BY DEF Sound, TypeOK, Indexed
<1>2. Functional' /\ NullsDeclared'
  BY DEF Sound, Functional, NullsDeclared
<1>3. IndexesMatchRows'
  BY DEF Sound, IndexesMatchRows, IndexOf, RowAt, Indexed
<1> QED BY <1>1, <1>2, <1>3 DEF Sound

\* A step between two statements that changes the catalog and the indexes.
LEMMA RowsKept ==
  ASSUME ReadableTables, Sound, UNCHANGED <<rows, stmt, flag, lost>>,
         DOMAIN info' = Tables, DOMAIN entries' = Tables,
         \A t \in Tables : info'[t] \in [nullable : SUBSET Nullables[t],
                                         primary : SUBSET SUBSET Columns(t),
                                         unique : SUBSET SUBSET Columns(t),
                                         foreign : SUBSET ForeignKeys[t]],
         \A t \in Tables : \A c \in DOMAIN entries'[t] :
           c \in Columns(t) /\ Fields[t][c].type = "INT" /\ entries'[t][c] = IndexOf(t, c)
  PROVE  Sound'
<1>1. TypeOK'
  <2>1. \A t \in Tables : \A c \in DOMAIN entries'[t] : entries'[t][c] \subseteq Int \X Rids
    BY PairsTyped DEF Sound
  <2>2. \A t \in Tables : /\ DOMAIN rows'[t] \subseteq Rids
                          /\ \A r \in DOMAIN rows'[t] : IsRow(Fields[t], rows'[t][r])
    BY DEF Sound, TypeOK
  <2>3. /\ stmt'.kind \in {"NONE", "INSERT", "DELETE", "UPDATE"}
        /\ flag' \in BOOLEAN /\ lost' \in BOOLEAN
    BY DEF Sound, TypeOK
  <2> QED BY <2>1, <2>2, <2>3 DEF TypeOK, Indexed
<1>2. Functional' /\ NullsDeclared'
  BY DEF Sound, Functional, NullsDeclared
<1>3. StatementSound'
  BY DEF Sound, StatementSound, RowAt
<1>4. IndexesMatchRows'
  BY DEF IndexesMatchRows, IndexOf, RowAt, Indexed
<1> QED BY <1>1, <1>2, <1>3, <1>4 DEF Sound
-----------------------------------------------------------------------------
\* The values of a statement are values still when integers became FLOATs.
LEMMA ConvertedTyped ==
  ASSUME NEW t \in Tables, NEW values, values \in [DOMAIN values -> Value]
  PROVE  /\ DOMAIN Converted(t, values) = DOMAIN values
         /\ Converted(t, values) \in [DOMAIN values -> Value]
<1>1. ASSUME NEW i \in DOMAIN values PROVE FloatV(values[i].n) \in Value \/ values[i].type # "INT"
  <2>1. values[i] \in Value
    OBVIOUS
  <2>2. values[i].type = "INT" => values[i].n \in Int
    BY <2>1 DEF Value, Null
  <2> QED BY <2>2 DEF FloatV, FLOAT_UNIT, Value
<1> QED BY <1>1 DEF Converted

\* A statement begins with rows that are there and values that are values.
LEMMA BeginSound ==
  ASSUME Sound, NEW t \in Tables, NEW kind \in {"INSERT", "DELETE", "UPDATE"}, NEW mask,
         NEW remove, NEW add, NEW ok \in BOOLEAN, NEW after,
         Begin([kind |-> kind, table |-> t, mask |-> mask, remove |-> remove, add |-> add], ok, after),
         DOMAIN remove \subseteq DOMAIN rows[t],
         \A r \in DOMAIN remove : remove[r] = RowAt(t, r),
         DOMAIN add \subseteq Nat,
         \A k \in DOMAIN add : add[k] \in [DOMAIN add[k] -> Value]
  PROVE  Sound'
<1> DEFINE s == [kind |-> kind, table |-> t, mask |-> mask, remove |-> remove, add |-> add]
<1>1. stmt' = s /\ flag' = (flag /\ ok) /\ UNCHANGED <<info, rows, entries, lost>>
  BY DEF Begin
<1>2. s # NoStatement
  BY DEF NoStatement
<1>3. DOMAIN s = {"kind", "table", "mask", "remove", "add"}
  OBVIOUS
<1>4. \A r : RowAt(t, r)' = RowAt(t, r)
  BY <1>1 DEF RowAt
<1>5. StatementSound'
  BY <1>1, <1>2, <1>3, <1>4 DEF StatementSound
<1> QED BY <1>1, <1>5, DataKept DEF Sound, TypeOK

\* INSERT hands values on, and touches no row yet.
LEMMA InsertSound ==
  ASSUME ReadableTables, Sound, NEW t \in Tables, NEW lists \in Inserts[t], Insert(t, lists)
  PROVE  Sound'
<1> DEFINE add == [k \in DOMAIN lists |-> Converted(t, lists[k])]
<1>1. lists \in Seq(Seq(Value))
  BY StatementsAssumption
<1>2. DOMAIN add \subseteq Nat
  BY <1>1
<1>3. ASSUME NEW k \in DOMAIN add PROVE add[k] \in [DOMAIN add[k] -> Value]
  <2>1. lists[k] \in Seq(Value)
    BY <1>1
  <2>2. lists[k] \in [DOMAIN lists[k] -> Value]
    BY <2>1
  <2> QED BY <2>2, ConvertedTyped
<1>4. PICK after : Begin([kind |-> "INSERT", table |-> t, mask |-> {}, remove |-> << >>, add |-> add], TRUE, after)
  BY DEF Insert
<1>5. DOMAIN << >> = {}
  OBVIOUS
<1> HIDE DEF add
<1> QED BY <1>2, <1>3, <1>4, <1>5, BeginSound

\* The rows a condition finds are rows of the table.
LEMMA FoundRows ==
  ASSUME Sound, NEW t \in Tables, NEW where \in Conditions[t]
  PROVE  search(t, where) \subseteq DOMAIN rows[t] /\ search(t, where) \subseteq Nat
<1>1. DOMAIN where \subseteq Columns(t)
  BY StatementsAssumption
<1>2. DOMAIN rows[t] \subseteq Nat
  BY TablesAssumption DEF Sound, TypeOK
<1> QED BY <1>1, <1>2, SearchFindsRows

\* DELETE hands on rows that are there, each with its RID.
LEMMA DeleteSound ==
  ASSUME ReadableTables, Sound, NEW t \in Tables, NEW where \in Conditions[t], Delete(t, where)
  PROVE  Sound'
<1> DEFINE found  == search(t, where)
           remove == [r \in found |-> RowAt(t, r)]
<1>1. DOMAIN remove \subseteq DOMAIN rows[t] /\ \A r \in DOMAIN remove : remove[r] = RowAt(t, r)
  BY FoundRows
<1>2. PICK after : Begin([kind |-> "DELETE", table |-> t, mask |-> Columns(t), remove |-> remove, add |-> << >>], TRUE, after)
  BY DEF Delete
<1>3. DOMAIN << >> = {}
  OBVIOUS
<1> HIDE DEF remove
<1> QED BY <1>1, <1>2, <1>3, BeginSound

\* UPDATE hands on rows that are there, and values of the columns to insert.
LEMMA UpdateSound ==
  ASSUME ReadableTables, Sound, NEW t \in Tables, NEW where \in Conditions[t],
         NEW sets \in SetClauses[t], Update(t, sets, where)
  PROVE  Sound'
<1> DEFINE found == search(t, where)
           old   == [r \in found |-> RowAt(t, r)]
           new   == Converted(t, sets)
           add   == [r \in found |-> Changed(t, old[r], new)]
<1>1. DOMAIN old \subseteq DOMAIN rows[t] /\ \A r \in DOMAIN old : old[r] = RowAt(t, r)
  BY FoundRows
<1>2. PICK ok \in BOOLEAN : \E after : Begin([kind |-> "UPDATE", table |-> t, mask |-> DOMAIN sets, remove |-> old, add |-> add], ok, after)
  BY DEF Update
<1>3. DOMAIN add \subseteq Nat
  BY FoundRows
<1>4. \A c \in DOMAIN Converted(t, sets) : Converted(t, sets)[c] \in Value
  <2> DEFINE given == [c \in DOMAIN sets |-> sets[c]]
  <2>1. \A c \in DOMAIN sets : sets[c] \in Value
    BY StatementsAssumption
  <2>2. given \in [DOMAIN given -> Value]
    BY <2>1
  <2>3. Converted(t, given) = Converted(t, sets)
    BY DEF Converted
  <2> HIDE DEF given
  <2>4. Converted(t, given) \in [DOMAIN given -> Value]
    BY <2>2, ConvertedTyped
  <2> QED BY <2>3, <2>4
<1>5. ASSUME NEW k \in DOMAIN add PROVE add[k] \in [DOMAIN add[k] -> Value]
  <2>1. k \in DOMAIN rows[t] /\ old[k] = RowAt(t, k)
    BY <1>1
  <2>2. \A c \in DOMAIN old[k] : old[k][c] \in Value
    BY <2>1, RowAtIsRow DEF IsRow, Sound
  <2>3. add[k] = [c \in DOMAIN old[k] |-> IF c \in DOMAIN sets /\ Fits(t, c, new[c]) THEN new[c] ELSE old[k][c]]
    BY DEF Changed, Converted
  <2>4. DOMAIN new = DOMAIN sets
    BY DEF Converted
  <2> HIDE DEF new, old, add
  <2>5. \A c \in DOMAIN new : new[c] \in Value
    BY <1>4 DEF new
  <2> QED BY <2>2, <2>3, <2>4, <2>5
<1> HIDE DEF old, add
<1>6. PICK after : Begin([kind |-> "UPDATE", table |-> t, mask |-> DOMAIN sets, remove |-> old, add |-> add], ok, after)
  BY <1>2
<1> QED BY <1>1, <1>2, <1>3, <1>5, <1>6, BeginSound
-----------------------------------------------------------------------------
\* The pairs of an index after a step, one by one.
LEMMA InNextIndexOf ==
  ASSUME NEW t, NEW c, NEW e
  PROVE  e \in IndexOf(t, c)' <=>
           \E r \in DOMAIN rows'[t] : ~ isNull(RowAt(t, r)'[c]) /\ e = <<asInt(RowAt(t, r)'[c]), r>>
BY DEF IndexOf, EntriesOf

\* A table none of whose rows change keeps the pairs of its indexes.
LEMMA OtherTablesKept ==
  ASSUME NEW t, rows'[t] = rows[t]
  PROVE  /\ \A r : RowAt(t, r)' = RowAt(t, r)
         /\ \A c : IndexOf(t, c)' = IndexOf(t, c)
BY DEF IndexOf, RowAt

\* The statement under way is about a table, if it has rows left to handle.
LEMMA Busy ==
  ASSUME Sound, DOMAIN stmt.remove # {} \/ DOMAIN stmt.add # {}
  PROVE  /\ stmt # NoStatement
         /\ stmt.table \in Tables
         /\ DOMAIN stmt = {"kind", "table", "mask", "remove", "add"}
BY DEF Sound, StatementSound, NoStatement

\* A row that is deleted goes with its pairs; one that is refused stays with them.
LEMMA RemoveNextSound ==
  ASSUME ReadableTables, Sound, RemoveNext
  PROVE  Sound'
<1> SUFFICES ASSUME NEW t, t = stmt.table,
                    NEW r, r = Min(DOMAIN stmt.remove),
                    NEW values, values = stmt.remove[r],
                    NEW left, left = Restrict(stmt.remove, DOMAIN stmt.remove \ {r})
             PROVE  Sound'
  OBVIOUS
<1>1. /\ DOMAIN stmt.remove # {}
      /\ stmt' = [stmt EXCEPT !.remove = left]
      /\ UNCHANGED <<info, lost>>
  BY DEF RemoveNext
<1>2. t \in Tables /\ stmt # NoStatement /\ DOMAIN stmt = {"kind", "table", "mask", "remove", "add"}
  BY <1>1, Busy
<1>3. DOMAIN stmt.remove \subseteq DOMAIN rows[t] /\ DOMAIN rows[t] \subseteq Nat
  BY <1>2, TablesAssumption DEF Sound, StatementSound, TypeOK
<1>4. r \in DOMAIN stmt.remove /\ r \in DOMAIN rows[t] /\ values = RowAt(t, r)
  <2>1. r \in DOMAIN stmt.remove
    BY <1>1, <1>3, LeastExists
  <2> QED BY <2>1, <1>2, <1>3 DEF Sound, StatementSound
<1>5. /\ stmt'.remove = left /\ stmt'.add = stmt.add /\ stmt'.table = t /\ stmt'.kind = stmt.kind
      /\ DOMAIN stmt' = {"kind", "table", "mask", "remove", "add"}
  BY <1>1, <1>2
<1>6. stmt' # NoStatement
  <2>1. NoStatement.kind = "NONE" /\ "table" \notin DOMAIN NoStatement
    BY DEF NoStatement
  <2> QED BY <2>1, <1>5
<1>7. DOMAIN left = DOMAIN stmt.remove \ {r} /\ \A q \in DOMAIN left : left[q] = stmt.remove[q]
  BY DEF Restrict
<1>8. /\ stmt'.kind \in {"NONE", "INSERT", "DELETE", "UPDATE"} /\ lost' \in BOOLEAN
      /\ DOMAIN stmt'.add \subseteq Nat
      /\ \A k \in DOMAIN stmt'.add : stmt'.add[k] \in [DOMAIN stmt'.add[k] -> Value]
  BY <1>1, <1>5 DEF Sound, TypeOK, StatementSound
<1>9. CASE UNCHANGED <<rows, entries>> /\ flag' = FALSE
  <2>1. \A q : RowAt(t, q)' = RowAt(t, q)
    BY <1>9, OtherTablesKept
  <2>2. \A q \in DOMAIN left : q \in DOMAIN rows'[t] /\ left[q] = RowAt(t, q)'
    <3>1. \A q \in DOMAIN stmt.remove : q \in DOMAIN rows[t] /\ stmt.remove[q] = RowAt(t, q)
      BY DEF Sound, StatementSound
    <3> QED BY <1>7, <1>9, <2>1, <3>1
  <2>3. StatementSound'
    BY <1>2, <1>5, <1>6, <1>8, <2>2 DEF StatementSound
  <2> QED BY <1>1, <1>8, <1>9, <2>3, DataKept
<1>10. CASE /\ rows' = [rows EXCEPT ![t] = Restrict(@, DOMAIN @ \ {r})]
            /\ entries' = [entries EXCEPT ![t] = [c \in DOMAIN @ |-> @[c] \ EntriesOf(r, values, c)]]
            /\ UNCHANGED flag
  <2>1. Functional'
    BY <1>1, <1>10 DEF Sound, Functional
  <2>2. /\ DOMAIN rows'[t] = DOMAIN rows[t] \ {r}
        /\ \A q \in DOMAIN rows'[t] : rows'[t][q] = rows[t][q]
    BY <1>2, <1>10 DEF Sound, Functional, Restrict
  <2>3. \A t2 \in Tables \ {t} : rows'[t2] = rows[t2] /\ entries'[t2] = entries[t2]
    BY <1>10 DEF Sound, Functional
  <2>4. /\ DOMAIN entries'[t] = DOMAIN entries[t]
        /\ \A c \in DOMAIN entries[t] : entries'[t][c] = entries[t][c] \ EntriesOf(r, values, c)
    BY <1>2, <1>10 DEF Sound, Functional
  <2>5. \A q \in DOMAIN rows'[t] : RowAt(t, q)' = RowAt(t, q)
    BY <2>2 DEF RowAt
  <2>6. TypeOK'
    <3>1. \A t2 \in Tables : /\ DOMAIN rows'[t2] \subseteq Rids
                              /\ \A q \in DOMAIN rows'[t2] : IsRow(Fields[t2], rows'[t2][q])
      BY <2>2, <2>3 DEF Sound, TypeOK
    <3>2. \A t2 \in Tables : \A c \in DOMAIN entries'[t2] :
            c \in Columns(t2) /\ Fields[t2][c].type = "INT" /\ entries'[t2][c] \subseteq Int \X Rids
      BY <2>3, <2>4 DEF Sound, TypeOK, Indexed
    <3>3. flag' \in BOOLEAN
      BY <1>10 DEF Sound, TypeOK
    <3>4. \A t2 \in Tables : info'[t2] \in [nullable : SUBSET Nullables[t2],
                                             primary : SUBSET SUBSET Columns(t2),
                                             unique : SUBSET SUBSET Columns(t2),
                                             foreign : SUBSET ForeignKeys[t2]]
      BY <1>1 DEF Sound, TypeOK
    <3> QED BY <1>8, <3>1, <3>2, <3>3, <3>4 DEF TypeOK, Indexed
  <2>7. NullsDeclared'
    BY <2>2, <2>3 DEF Sound, NullsDeclared
  <2>8. StatementSound'
    <3>1. \A q \in DOMAIN left : q \in DOMAIN rows'[t] /\ left[q] = RowAt(t, q)'
      <4>1. \A q \in DOMAIN left : q \in DOMAIN rows'[t]
        BY <1>3, <1>7, <2>2
      <4>2. \A q \in DOMAIN stmt.remove : stmt.remove[q] = RowAt(t, q)
        BY DEF Sound, StatementSound
      <4> QED BY <4>1, <4>2, <1>7, <2>5
    <3> QED BY <1>2, <1>5, <1>6, <1>8, <3>1 DEF StatementSound
  <2>9. ASSUME NEW c \in DOMAIN entries[t]
        PROVE  IndexOf(t, c)' = IndexOf(t, c) \ EntriesOf(r, values, c)
    <3>1. ASSUME NEW e \in IndexOf(t, c)' PROVE e \in IndexOf(t, c) /\ e \notin EntriesOf(r, values, c)
      <4>1. PICK q \in DOMAIN rows'[t] : ~ isNull(RowAt(t, q)'[c]) /\ e = <<asInt(RowAt(t, q)'[c]), q>>
        BY InNextIndexOf
      <4>2. q \in DOMAIN rows[t] /\ q # r /\ RowAt(t, q)' = RowAt(t, q)
        BY <2>2, <2>5
      <4> QED BY <4>1, <4>2, InIndexOf DEF EntriesOf
    <3>2. ASSUME NEW e \in IndexOf(t, c), e \notin EntriesOf(r, values, c) PROVE e \in IndexOf(t, c)'
      <4>1. PICK q \in DOMAIN rows[t] : ~ isNull(RowAt(t, q)[c]) /\ e = <<asInt(RowAt(t, q)[c]), q>>
        BY InIndexOf
      <4>2. q # r
        BY <4>1, <3>2, <1>4 DEF EntriesOf
      <4>3. q \in DOMAIN rows'[t] /\ RowAt(t, q)' = RowAt(t, q)
        BY <4>2, <2>2, <2>5
      <4> QED BY <4>1, <4>3, InNextIndexOf
    <3> QED BY <3>1, <3>2
  <2>10. IndexesMatchRows'
    <3>1. ASSUME NEW c \in DOMAIN entries'[t] PROVE entries'[t][c] = IndexOf(t, c)'
      <4>1. c \in DOMAIN entries[t] /\ entries'[t][c] = entries[t][c] \ EntriesOf(r, values, c)
        BY <2>4
      <4>2. entries[t][c] = IndexOf(t, c)
        BY <1>2, <4>1 DEF Sound, IndexesMatchRows, Indexed
      <4> QED BY <2>9, <4>1, <4>2
    <3>2. ASSUME NEW t2 \in Tables \ {t}, NEW c \in DOMAIN entries'[t2]
          PROVE  entries'[t2][c] = IndexOf(t2, c)'
      BY <2>3, OtherTablesKept DEF Sound, IndexesMatchRows, Indexed
    <3> QED BY <3>1, <3>2 DEF IndexesMatchRows, Indexed
  <2> QED BY <2>1, <2>6, <2>7, <2>8, <2>10 DEF Sound
<1> QED BY <1>9, <1>10 DEF RemoveNext

\* A row that was let in has the types of the columns, and NULLs only where
\* they are declared.
LEMMA AcceptedIsRow ==
  ASSUME Sound, NEW t \in Tables, NEW values, values \in [DOMAIN values -> Value],
         validate_insert_data(t, values)
  PROVE  /\ IsRow(Fields[t], values)
         /\ \A c \in Columns(t) : isNull(values[c]) => c \in info[t].nullable /\ c \in Nullables[t]
<1>1. DOMAIN values = Columns(t)
  BY DEF validate_insert_data, ValidRow
<1>2. \A c \in Columns(t) : /\ values[c].type \in {"NUL", Fields[t][c].type}
                            /\ isNull(values[c]) => c \in info[t].nullable
  BY DEF validate_insert_data, ValidRow, Fits
<1>3. info[t].nullable \subseteq Nullables[t]
  BY DEF Sound, TypeOK
<1> QED BY <1>1, <1>2, <1>3 DEF IsRow, Columns, isNull

\* A row that is let in goes into the record file and into every index.
LEMMA InsertNextSound ==
  ASSUME ReadableTables, Sound, InsertNext
  PROVE  Sound'
<1> SUFFICES ASSUME NEW t, t = stmt.table,
                    NEW k, k = Min(DOMAIN stmt.add),
                    NEW values, values = stmt.add[k],
                    NEW left, left = Restrict(stmt.add, DOMAIN stmt.add \ {k})
             PROVE  Sound'
  OBVIOUS
<1>1. /\ DOMAIN stmt.remove = {} /\ DOMAIN stmt.add # {}
      /\ stmt' = [stmt EXCEPT !.add = left]
      /\ UNCHANGED info
  BY DEF InsertNext
<1>2. t \in Tables /\ stmt # NoStatement /\ DOMAIN stmt = {"kind", "table", "mask", "remove", "add"}
  BY <1>1, Busy
<1>3. k \in DOMAIN stmt.add
  BY <1>1, LeastExists DEF Sound, StatementSound
<1>4. values \in [DOMAIN values -> Value]
  BY <1>3 DEF Sound, StatementSound
<1>5. /\ stmt'.remove = stmt.remove /\ stmt'.add = left /\ stmt'.table = t /\ stmt'.kind = stmt.kind
      /\ DOMAIN stmt' = {"kind", "table", "mask", "remove", "add"}
  BY <1>1, <1>2
<1>6. stmt' # NoStatement
  <2>1. NoStatement.kind = "NONE" /\ "table" \notin DOMAIN NoStatement
    BY DEF NoStatement
  <2> QED BY <2>1, <1>5
<1>7. DOMAIN left \subseteq Nat /\ \A j \in DOMAIN left : left[j] \in [DOMAIN left[j] -> Value]
  <2>1. DOMAIN left = DOMAIN stmt.add \ {k} /\ \A j \in DOMAIN left : left[j] = stmt.add[j]
    BY DEF Restrict
  <2>2. \A j \in DOMAIN stmt.add : stmt.add[j] \in [DOMAIN stmt.add[j] -> Value]
    BY DEF Sound, StatementSound
  <2>3. DOMAIN stmt.add \subseteq Nat
    BY DEF Sound, StatementSound
  <2> QED BY <2>1, <2>2, <2>3
<1>8. StatementSound'
  BY <1>1, <1>2, <1>5, <1>6, <1>7 DEF StatementSound
<1>9. stmt'.kind \in {"NONE", "INSERT", "DELETE", "UPDATE"}
  BY <1>5 DEF Sound, TypeOK
<1>10. CASE UNCHANGED <<rows, entries>> /\ flag' = FALSE /\ lost' = (lost \/ stmt.kind = "UPDATE")
  <2>1. lost' \in BOOLEAN
    BY <1>10 DEF Sound, TypeOK
  <2> QED BY <1>1, <1>8, <1>9, <1>10, <2>1, DataKept
<1>11. ASSUME validate_insert_data(t, values), UNCHANGED <<flag, lost>>,
              NEW r \in Rids \ DOMAIN rows[t],
              rows' = [rows EXCEPT ![t] = [q \in DOMAIN @ \cup {r} |-> IF q = r THEN values ELSE @[q]]],
              entries' = [entries EXCEPT ![t] = [c \in DOMAIN @ |-> @[c] \cup EntriesOf(r, values, c)]]
       PROVE  Sound'
  <2>1. Functional'
    BY <1>1, <1>11 DEF Sound, Functional
  <2>2. /\ DOMAIN rows'[t] = DOMAIN rows[t] \cup {r}
        /\ rows'[t][r] = values
        /\ \A q \in DOMAIN rows[t] : rows'[t][q] = rows[t][q]
    BY <1>2, <1>11 DEF Sound, Functional
  <2>3. \A t2 \in Tables \ {t} : rows'[t2] = rows[t2] /\ entries'[t2] = entries[t2]
    BY <1>11 DEF Sound, Functional
  <2>4. /\ DOMAIN entries'[t] = DOMAIN entries[t]
        /\ \A c \in DOMAIN entries[t] : entries'[t][c] = entries[t][c] \cup EntriesOf(r, values, c)
    BY <1>2, <1>11 DEF Sound, Functional
  <2>5. /\ IsRow(Fields[t], values)
        /\ \A c \in Columns(t) : isNull(values[c]) => c \in Nullables[t]
    BY <1>2, <1>4, <1>11, AcceptedIsRow
  <2>6. RowAt(t, r)' = values
    <3>1. Read(t, values) = values
      BY <1>2, <2>5, RowIsReadBack
    <3> QED BY <2>2, <3>1 DEF RowAt
  <2>7. \A q \in DOMAIN rows[t] : RowAt(t, q)' = RowAt(t, q)
    BY <2>2 DEF RowAt
  <2>8. ASSUME NEW c \in DOMAIN entries[t] PROVE EntriesOf(r, values, c) \subseteq Int \X Rids
    <3>1. c \in Columns(t)
      BY <1>2 DEF Sound, TypeOK, Indexed
    <3>2. values[c] \in Value
      BY <2>5, <3>1 DEF IsRow, Columns
    <3>3. asInt(values[c]) \in Int
      BY <3>2 DEF Value, asInt, Null
    <3> QED BY <3>3 DEF EntriesOf
  <2>9. TypeOK'
    <3>1. \A t2 \in Tables : /\ DOMAIN rows'[t2] \subseteq Rids
                              /\ \A q \in DOMAIN rows'[t2] : IsRow(Fields[t2], rows'[t2][q])
      <4>1. DOMAIN rows'[t] \subseteq Rids
        BY <1>2, <2>2 DEF Sound, TypeOK
      <4>2. \A q \in DOMAIN rows'[t] : IsRow(Fields[t], rows'[t][q])
        BY <1>2, <2>2, <2>5 DEF Sound, TypeOK
      <4> QED BY <2>3, <4>1, <4>2 DEF Sound, TypeOK
    <3>2. \A t2 \in Tables : \A c \in DOMAIN entries'[t2] :
            c \in Columns(t2) /\ Fields[t2][c].type = "INT" /\ entries'[t2][c] \subseteq Int \X Rids
      BY <2>3, <2>4, <2>8 DEF Sound, TypeOK, Indexed
    <3>3. flag' \in BOOLEAN /\ lost' \in BOOLEAN
      BY <1>11 DEF Sound, TypeOK
    <3>4. \A t2 \in Tables : info'[t2] \in [nullable : SUBSET Nullables[t2],
                                             primary : SUBSET SUBSET Columns(t2),
                                             unique : SUBSET SUBSET Columns(t2),
                                             foreign : SUBSET ForeignKeys[t2]]
      BY <1>1 DEF Sound, TypeOK
    <3> QED BY <1>9, <3>1, <3>2, <3>3, <3>4 DEF TypeOK, Indexed
  <2>10. NullsDeclared'
    <3>1. \A q \in DOMAIN rows'[t], c \in Columns(t) : isNull(rows'[t][q][c]) => c \in Nullables[t]
      BY <1>2, <2>2, <2>5 DEF Sound, NullsDeclared
    <3> QED BY <2>3, <3>1 DEF Sound, NullsDeclared
  <2>11. ASSUME NEW c \in DOMAIN entries[t]
         PROVE  IndexOf(t, c)' = IndexOf(t, c) \cup EntriesOf(r, values, c)
    <3>1. ASSUME NEW e \in IndexOf(t, c)' PROVE e \in IndexOf(t, c) \cup EntriesOf(r, values, c)
      <4>1. PICK q \in DOMAIN rows'[t] : ~ isNull(RowAt(t, q)'[c]) /\ e = <<asInt(RowAt(t, q)'[c]), q>>
        BY InNextIndexOf
      <4>2. CASE q = r
        BY <4>1, <4>2, <2>6 DEF EntriesOf
      <4>3. CASE q \in DOMAIN rows[t]
        BY <4>1, <4>3, <2>7, InIndexOf
      <4> QED BY <4>2, <4>3, <2>2
    <3>2. ASSUME NEW e \in IndexOf(t, c) PROVE e \in IndexOf(t, c)'
      <4>1. PICK q \in DOMAIN rows[t] : ~ isNull(RowAt(t, q)[c]) /\ e = <<asInt(RowAt(t, q)[c]), q>>
        BY InIndexOf
      <4> QED BY <4>1, <2>2, <2>7, InNextIndexOf
    <3>3. ASSUME NEW e \in EntriesOf(r, values, c) PROVE e \in IndexOf(t, c)'
      <4>1. ~ isNull(values[c]) /\ e = <<asInt(values[c]), r>>
        BY <3>3 DEF EntriesOf
      <4> QED BY <4>1, <2>2, <2>6, InNextIndexOf
    <3> QED BY <3>1, <3>2, <3>3
  <2>12. IndexesMatchRows'
    <3>1. ASSUME NEW c \in DOMAIN entries'[t] PROVE entries'[t][c] = IndexOf(t, c)'
      <4>1. c \in DOMAIN entries[t] /\ entries'[t][c] = entries[t][c] \cup EntriesOf(r, values, c)
        BY <2>4
      <4>2. entries[t][c] = IndexOf(t, c)
        BY <1>2, <4>1 DEF Sound, IndexesMatchRows, Indexed
      <4> QED BY <2>11, <4>1, <4>2
    <3>2. ASSUME NEW t2 \in Tables \ {t}, NEW c \in DOMAIN entries'[t2]
          PROVE  entries'[t2][c] = IndexOf(t2, c)'
      BY <2>3, OtherTablesKept DEF Sound, IndexesMatchRows, Indexed
    <3> QED BY <3>1, <3>2 DEF IndexesMatchRows, Indexed
  <2> QED BY <1>8, <2>1, <2>9, <2>10, <2>12 DEF Sound
<1> QED BY <1>10, <1>11 DEF InsertNext

\* The end of a statement touches no row.
LEMMA EndStatementSound ==
  ASSUME Sound, EndStatement
  PROVE  Sound'
<1>1. stmt' = NoStatement /\ flag' = TRUE /\ UNCHANGED <<info, rows, entries, lost>>
  BY DEF EndStatement
<1>2. DOMAIN << >> = {}
  OBVIOUS
<1>3. StatementSound'
  BY <1>1, <1>2 DEF StatementSound, NoStatement
<1>4. stmt'.kind = "NONE"
  BY <1>1 DEF NoStatement
<1> QED BY <1>1, <1>3, <1>4, DataKept DEF Sound, TypeOK
-----------------------------------------------------------------------------
\* The entry of a table.
Entry(t) == [nullable : SUBSET Nullables[t],
             primary : SUBSET SUBSET Columns(t),
             unique : SUBSET SUBSET Columns(t),
             foreign : SUBSET ForeignKeys[t]]

\* The indexes of a statement that makes some hold what is in the tables.
LEMMA AddIndexesRight ==
  ASSUME ReadableTables, Sound, NEW t \in Tables, NEW s, s \subseteq Columns(t), AddIndexes(t, s)
  PROVE  /\ DOMAIN entries' = Tables
         /\ \A t2 \in Tables : \A c \in DOMAIN entries'[t2] :
              c \in Columns(t2) /\ Fields[t2][c].type = "INT" /\ entries'[t2][c] = IndexOf(t2, c)
<1> DEFINE new == {c \in s : Fields[t][c].type = "INT"} \ Indexed(t)
<1>1. entries' = [entries EXCEPT ![t] = [c \in DOMAIN @ \cup new |-> IF c \in DOMAIN @ THEN @[c] ELSE IndexOf(t, c)]]
  BY DEF AddIndexes
<1>2. \A t2 \in Tables : \A c \in DOMAIN entries[t2] :
        c \in Columns(t2) /\ Fields[t2][c].type = "INT" /\ entries[t2][c] = IndexOf(t2, c)
  BY DEF Sound, TypeOK, IndexesMatchRows, Indexed
<1>3. DOMAIN entries = Tables
  BY DEF Sound, Functional
<1>4. \A c \in new : c \in Columns(t) /\ Fields[t][c].type = "INT"
  OBVIOUS
<1> HIDE DEF new
<1>5. /\ DOMAIN entries'[t] = DOMAIN entries[t] \cup new
      /\ \A c \in DOMAIN entries'[t] :
           entries'[t][c] = (IF c \in DOMAIN entries[t] THEN entries[t][c] ELSE IndexOf(t, c))
      /\ DOMAIN entries' = Tables
      /\ \A t2 \in Tables \ {t} : entries'[t2] = entries[t2]
  BY <1>1, <1>3
<1> QED BY <1>2, <1>4, <1>5

\* A statement about the catalog keeps the rows and the columns NULL is declared for.
LEMMA AlterSound ==
  ASSUME ReadableTables, Sound, NEW t \in Tables, NEW entry \in Entry(t), Alter(t, entry),
         UNCHANGED entries \/ \E s \in SUBSET Columns(t) : AddIndexes(t, s)
  PROVE  Sound'
<1>1. UNCHANGED <<rows, stmt, flag, lost>> /\ info' = [info EXCEPT ![t] = entry]
  BY DEF Alter
<1>2. DOMAIN info' = Tables /\ \A t2 \in Tables : info'[t2] \in Entry(t2)
  BY <1>1 DEF Sound, Functional, TypeOK, Entry
<1>3. /\ DOMAIN entries' = Tables
      /\ \A t2 \in Tables : \A c \in DOMAIN entries'[t2] :
           c \in Columns(t2) /\ Fields[t2][c].type = "INT" /\ entries'[t2][c] = IndexOf(t2, c)
  <2>1. CASE UNCHANGED entries
    BY <2>1 DEF Sound, Functional, TypeOK, IndexesMatchRows, Indexed
  <2> QED BY <2>1, AddIndexesRight
<1> QED BY <1>1, <1>2, <1>3, RowsKept DEF Entry

\* CREATE and DROP INDEX leave every index that is there with its pairs.
LEMMA IndexStatementsSound ==
  ASSUME ReadableTables, Sound, NEW t \in Tables, NEW c \in Columns(t),
         create_index(t, c) \/ drop_index(t, c)
  PROVE  Sound'
<1>1. CASE create_index(t, c)
  <2>1. info[t] \in Entry(t)
    BY DEF Sound, TypeOK, Entry
  <2>2. \E s \in SUBSET Columns(t) : AddIndexes(t, s)
    BY <1>1 DEF create_index
  <2> QED BY <1>1, <2>1, <2>2, AlterSound DEF create_index
<1>2. CASE drop_index(t, c)
  <2>1. UNCHANGED <<info, rows, stmt, flag, lost>>
    BY <1>2 DEF drop_index
  <2>2. entries' = [entries EXCEPT ![t] = Restrict(@, DOMAIN @ \ {c})]
    BY <1>2 DEF drop_index
  <2>3. DOMAIN entries = Tables /\ DOMAIN info = Tables
    BY DEF Sound, Functional
  <2>4. \A t2 \in Tables : \A d \in DOMAIN entries[t2] :
          d \in Columns(t2) /\ Fields[t2][d].type = "INT" /\ entries[t2][d] = IndexOf(t2, d)
    BY DEF Sound, TypeOK, IndexesMatchRows, Indexed
  <2>5. /\ DOMAIN entries'[t] = DOMAIN entries[t] \ {c}
        /\ \A d \in DOMAIN entries'[t] : entries'[t][d] = entries[t][d]
        /\ DOMAIN entries' = Tables
        /\ \A t2 \in Tables \ {t} : entries'[t2] = entries[t2]
    BY <2>2, <2>3 DEF Restrict
  <2>6. \A t2 \in Tables : \A d \in DOMAIN entries'[t2] :
          d \in Columns(t2) /\ Fields[t2][d].type = "INT" /\ entries'[t2][d] = IndexOf(t2, d)
    BY <2>4, <2>5
  <2>7. \A t2 \in Tables : info'[t2] \in Entry(t2)
    BY <2>1 DEF Sound, TypeOK, Entry
  <2> QED BY <2>1, <2>3, <2>5, <2>6, <2>7, RowsKept DEF Entry
<1> QED BY <1>1, <1>2

\* The statements about keys make indexes over the rows that are there.
LEMMA KeyStatementsSound ==
  ASSUME ReadableTables, Sound, NEW t \in Tables,
         \/ \E s \in Keys[t] : add_primary_key(t, s) \/ add_unique(t, s)
         \/ drop_primary_key(t)
         \/ \E f \in ForeignKeys[t] : add_foreign_key(t, f) \/ drop_foreign_key(t, f)
  PROVE  Sound'
<1>1. info[t] \in Entry(t)
  BY DEF Sound, TypeOK, Entry
<1>2. \A s \in Keys[t] : s \in SUBSET Columns(t)
  BY StatementsAssumption
<1>3. \A f \in ForeignKeys[t] : DOMAIN f.ids \in SUBSET Columns(t)
  BY StatementsAssumption
<1>4. ASSUME NEW s \in Keys[t], add_primary_key(t, s) PROVE Sound'
  <2> DEFINE entry == [info[t] EXCEPT !.primary = {s}, !.nullable = @ \ s]
  <2>1. entry \in Entry(t)
    <3> DEFINE e == info[t]
    <3>1. /\ e = [nullable |-> e.nullable, primary |-> e.primary, unique |-> e.unique, foreign |-> e.foreign]
          /\ e.nullable \in SUBSET Nullables[t] /\ e.unique \in SUBSET SUBSET Columns(t)
          /\ e.foreign \in SUBSET ForeignKeys[t]
      BY <1>1 DEF Entry
    <3>2. e.nullable \ s \in SUBSET Nullables[t] /\ {s} \in SUBSET SUBSET Columns(t)
      BY <1>2, <3>1
    <3> HIDE DEF e
    <3>3. entry = [nullable |-> e.nullable \ s, primary |-> {s}, unique |-> e.unique, foreign |-> e.foreign]
      <4>1. entry = [e EXCEPT !.primary = {s}, !.nullable = e.nullable \ s]
        BY DEF e
      <4> HIDE DEF entry
      <4> QED BY <3>1, <4>1
    <3> HIDE DEF entry
    <3> QED BY <3>1, <3>2, <3>3 DEF Entry
  <2>2. Alter(t, entry) /\ (UNCHANGED entries \/ AddIndexes(t, s))
    BY <1>4 DEF add_primary_key
  <2> HIDE DEF entry
  <2> QED BY <1>2, <2>1, <2>2, AlterSound
<1>5. ASSUME NEW s \in Keys[t], add_unique(t, s) PROVE Sound'
  <2>1. [info[t] EXCEPT !.unique = @ \cup {s}] \in Entry(t)
    BY <1>1, <1>2 DEF Entry
  <2> QED BY <1>2, <1>5, <2>1, AlterSound DEF add_unique
<1>6. CASE drop_primary_key(t)
  <2>1. [info[t] EXCEPT !.primary = {}] \in Entry(t)
    BY <1>1 DEF Entry
  <2> QED BY <1>6, <2>1, AlterSound DEF drop_primary_key
<1>7. ASSUME NEW f \in ForeignKeys[t], add_foreign_key(t, f) PROVE Sound'
  <2>1. [info[t] EXCEPT !.foreign = @ \cup {f}] \in Entry(t)
    BY <1>1 DEF Entry
  <2> QED BY <1>3, <1>7, <2>1, AlterSound DEF add_foreign_key
<1>8. ASSUME NEW f \in ForeignKeys[t], drop_foreign_key(t, f) PROVE Sound'
  <2>1. [info[t] EXCEPT !.foreign = @ \ {f}] \in Entry(t)
    BY <1>1 DEF Entry
  <2> QED BY <1>8, <2>1, AlterSound DEF drop_foreign_key
<1> QED BY <1>4, <1>5, <1>6, <1>7, <1>8

(***************************************************************************)
(* Every step of a statement, and every statement on indexes and keys,      *)
(* keeps the invariant.                                                     *)
(***************************************************************************)
LEMMA SoundKept ==
  ASSUME ReadableTables, Sound, [Next]_vars
  PROVE  Sound'
<1>1. CASE UNCHANGED vars
  <2>1. UNCHANGED <<info, rows, entries, stmt, flag, lost>>
    BY <1>1 DEF vars
  <2>2. StatementSound'
    BY <2>1 DEF Sound, StatementSound, RowAt
  <2> QED BY <2>1, <2>2, DataKept DEF Sound, TypeOK
<1>2. ASSUME NEW t \in Tables, NEW lists \in Inserts[t], Insert(t, lists) PROVE Sound'
  BY <1>2, InsertSound
<1>3. ASSUME NEW t \in Tables, NEW w \in Conditions[t], Delete(t, w) PROVE Sound'
  BY <1>3, DeleteSound
<1>4. ASSUME NEW t \in Tables, NEW w \in Conditions[t], NEW sets \in SetClauses[t], Update(t, sets, w)
      PROVE  Sound'
  BY <1>4, UpdateSound
<1>5. ASSUME NEW t \in Tables, NEW c \in Columns(t), create_index(t, c) \/ drop_index(t, c) PROVE Sound'
  BY <1>5, IndexStatementsSound
<1>6. ASSUME NEW t \in Tables,
             \/ \E s \in Keys[t] : add_primary_key(t, s) \/ add_unique(t, s)
             \/ drop_primary_key(t)
             \/ \E f \in ForeignKeys[t] : add_foreign_key(t, f) \/ drop_foreign_key(t, f)
      PROVE  Sound'
  BY <1>6, KeyStatementsSound
<1>7. CASE RemoveNext \/ InsertNext \/ EndStatement
  BY <1>7, RemoveNextSound, InsertNextSound, EndStatementSound
<1> QED BY <1>1, <1>2, <1>3, <1>4, <1>5, <1>6, <1>7 DEF Next

\* Every variable keeps its type: a row fits the columns of its table, an index
\* is on an INT column, whatever statements are run.
THEOREM RowsTypeCorrect ==
  ASSUME ReadableTables
  PROVE  Spec => []TypeOK
<1>1. Init => Sound
  BY InitSound
<1>2. Sound /\ [Next]_vars => Sound'
  BY SoundKept
<1>3. Sound => TypeOK
  BY DEF Sound
<1> QED BY <1>1, <1>2, <1>3, PTL DEF Spec

(***************************************************************************)
(* Indexes follow the rows: after any steps of INSERT, DELETE, UPDATE, ADD  *)
(* and DROP, an index has the pairs of the rows of its table, no others.    *)
(***************************************************************************)
THEOREM IndexesFollowRows ==
  ASSUME ReadableTables
  PROVE  Spec => []IndexesMatchRows
<1>1. Init => Sound
  BY InitSound
<1>2. Sound /\ [Next]_vars => Sound'
  BY SoundKept
<1>3. Sound => IndexesMatchRows
  BY DEF Sound
<1> QED BY <1>1, <1>2, <1>3, PTL DEF Spec

(***************************************************************************)
(* No stored row is read differently from what it was given: rows that are  *)
(* let in have their NULLs where from_bytes_to_record finds them.           *)
(***************************************************************************)
THEOREM RowsStayReadable ==
  ASSUME ReadableTables
  PROVE  Spec => []RowsReadBack
<1>1. Init => Sound
  BY InitSound
<1>2. Sound /\ [Next]_vars => Sound'
  BY SoundKept
<1>3. Sound => RowsReadBack
  BY RowIsReadBack DEF Sound, TypeOK, NullsDeclared, RowsReadBack
<1> QED BY <1>1, <1>2, <1>3, PTL DEF Spec
-----------------------------------------------------------------------------
\* Two rows that are both found are found twice.
LEMMA OneFound ==
  ASSUME Sound, NEW t \in Tables, NEW S, S \subseteq DOMAIN rows[t], Cardinality(S) <= 1,
         NEW q \in S, NEW r \in S
  PROVE  q = r
<1>1. IsFiniteSet(S)
  <2>1. S \subseteq Rids
    BY DEF Sound, TypeOK
  <2> QED BY <2>1, FS_Subset, TablesAssumption
<1>2. IsFiniteSet({q}) /\ Cardinality({q}) = 1
  BY FS_Singleton
<1>3. Cardinality(S \ {q}) = Cardinality(S) - 1 /\ IsFiniteSet(S \ {q})
  BY <1>1, FS_RemoveElement
<1>4. Cardinality(S) \in Nat /\ Cardinality(S \ {q}) \in Nat
  BY <1>1, <1>3, FS_CardinalityType
<1>5. Cardinality(S \ {q}) = 0
  BY <1>3, <1>4
<1>6. S \ {q} = {}
  BY <1>3, <1>5, FS_EmptySet
<1> QED BY <1>6

\* The rows that are left, and the keys that are left, are as they were.
LEMMA KeysLeft ==
  ASSUME KeysHold,
         \A t \in Tables : \A r \in DOMAIN rows'[t] : r \in DOMAIN rows[t] /\ RowAt(t, r)' = RowAt(t, r),
         \A t \in Tables : /\ info'[t].nullable = info[t].nullable
                           /\ info'[t].unique \cup info'[t].primary \subseteq info[t].unique \cup info[t].primary
  PROVE  KeysHold'
BY DEF KeysHold

\* A key is added that no two rows agree on.
LEMMA KeyAdded ==
  ASSUME Sound, KeysHold, NEW t \in Tables, NEW s, s \subseteq Columns(t), UNCHANGED rows,
         \A r \in DOMAIN rows[t] : \/ HasNull(RowAt(t, r), s)
                                  \/ Cardinality(search(t, On(RowAt(t, r), s))) <= 1,
         \A t2 \in Tables : info'[t2].unique \cup info'[t2].primary
                             \subseteq info[t2].unique \cup info[t2].primary \cup (IF t2 = t THEN {s} ELSE {}),
         \A t2 \in Tables : \A r \in DOMAIN rows[t2], c \in Columns(t2) :
           isNull(RowAt(t2, r)[c]) => c \in info'[t2].nullable
  PROVE  KeysHold'
<1>1. \A t2 \in Tables : \A r : RowAt(t2, r)' = RowAt(t2, r)
  BY OtherTablesKept
<1>2. ASSUME NEW q \in DOMAIN rows[t], NEW r \in DOMAIN rows[t], Agree(RowAt(t, q), RowAt(t, r), s)
      PROVE  q = r
  <2> DEFINE where == On(RowAt(t, r), s)
  <2>1. DOMAIN where = s /\ \A c \in s : where[c] = RowAt(t, r)[c]
    BY DEF On, Restrict
  <2>2. \A c \in s : ~ isNull(RowAt(t, r)[c]) /\ RowAt(t, q)[c] = RowAt(t, r)[c]
    BY <1>2 DEF Agree
  <2>3. ~ HasNull(RowAt(t, r), s)
    BY <2>2 DEF HasNull
  <2>4. Meets(RowAt(t, r), where) /\ Meets(RowAt(t, q), where)
    BY <2>1, <2>2 DEF Meets
  <2> HIDE DEF where
  <2>5. q \in search(t, where) /\ r \in search(t, where) /\ search(t, where) \subseteq DOMAIN rows[t]
    BY <2>1, <2>4, SearchFindsRows
  <2>6. Cardinality(search(t, where)) <= 1
    BY <2>3 DEF where
  <2> QED BY <2>5, <2>6, OneFound
<1>3. ASSUME NEW t2 \in Tables, NEW k \in info'[t2].unique \cup info'[t2].primary,
             NEW q \in DOMAIN rows[t2], NEW r \in DOMAIN rows[t2], q # r
      PROVE  ~ Agree(RowAt(t2, q), RowAt(t2, r), k)
  <2>1. CASE k \in info[t2].unique \cup info[t2].primary
    BY <1>3, <2>1 DEF KeysHold
  <2>2. CASE t2 = t /\ k = s
    BY <1>2, <1>3, <2>2
  <2> QED BY <2>1, <2>2
<1> QED BY <1>1, <1>3 DEF KeysHold, Agree

\* A row is let in that agrees with no other row on a key.
LEMMA RowKeyed ==
  ASSUME ReadableTables, Sound, KeysHold, InsertNext
  PROVE  KeysHold'
<1> SUFFICES ASSUME NEW t, t = stmt.table,
                    NEW k, k = Min(DOMAIN stmt.add),
                    NEW values, values = stmt.add[k]
             PROVE  KeysHold'
  OBVIOUS
<1>1. UNCHANGED info /\ DOMAIN stmt.add # {}
  BY DEF InsertNext
<1>2. t \in Tables
  BY <1>1, Busy
<1>3. k \in DOMAIN stmt.add
  BY <1>1, LeastExists DEF Sound, StatementSound
<1>4. values \in [DOMAIN values -> Value]
  BY <1>3 DEF Sound, StatementSound
<1>5. CASE UNCHANGED rows
  <2>1. \A t2 \in Tables : \A r \in DOMAIN rows'[t2] : r \in DOMAIN rows[t2] /\ RowAt(t2, r)' = RowAt(t2, r)
    BY <1>5, OtherTablesKept
  <2> QED BY <1>1, <2>1, KeysLeft
<1>6. ASSUME validate_insert_data(t, values),
             NEW r \in Rids \ DOMAIN rows[t],
             rows' = [rows EXCEPT ![t] = [q \in DOMAIN @ \cup {r} |-> IF q = r THEN values ELSE @[q]]]
      PROVE  KeysHold'
  <2>1. /\ DOMAIN rows'[t] = DOMAIN rows[t] \cup {r}
        /\ rows'[t][r] = values
        /\ \A q \in DOMAIN rows[t] : rows'[t][q] = rows[t][q]
    BY <1>2, <1>6 DEF Sound, Functional
  <2>2. \A t2 \in Tables \ {t} : rows'[t2] = rows[t2]
    BY <1>6 DEF Sound, Functional
  <2>3. /\ IsRow(Fields[t], values)
        /\ \A c \in Columns(t) : isNull(values[c]) => c \in info[t].nullable /\ c \in Nullables[t]
    BY <1>2, <1>4, <1>6, AcceptedIsRow
  <2>4. RowAt(t, r)' = values
    <3>1. Read(t, values) = values
      BY <1>2, <2>3, RowIsReadBack
    <3> QED BY <2>1, <3>1 DEF RowAt
  <2>5. \A q \in DOMAIN rows[t] : RowAt(t, q)' = RowAt(t, q)
    BY <2>1 DEF RowAt
  <2>6. \A t2 \in Tables \ {t} : \A q : RowAt(t2, q)' = RowAt(t2, q)
    BY <2>2, OtherTablesKept
  <2>7. \A t2 \in Tables : \A q \in DOMAIN rows'[t2], c \in Columns(t2) :
          isNull(RowAt(t2, q)'[c]) => c \in info[t2].nullable
    <3>1. \A q \in DOMAIN rows'[t], c \in Columns(t) : isNull(RowAt(t, q)'[c]) => c \in info[t].nullable
      BY <1>2, <2>1, <2>3, <2>4, <2>5 DEF KeysHold
    <3> QED BY <2>2, <2>6, <3>1 DEF KeysHold
  <2>8. ASSUME NEW s \in info[t].unique \cup info[t].primary, NEW q \in DOMAIN rows[t]
        PROVE  ~ Agree(RowAt(t, q), values, s) /\ ~ Agree(values, RowAt(t, q), s)
    <3> DEFINE where == On(values, s)
    <3>1. DOMAIN where = s /\ \A c \in s : where[c] = values[c]
      BY DEF On, Restrict
    <3>2. s \subseteq Columns(t)
      BY <1>2 DEF Sound, TypeOK
    <3>3. HasNull(values, s) \/ search(t, where) = {}
      BY <1>6 DEF validate_insert_data
    <3>4. SUFFICES ASSUME \A c \in s : ~ isNull(values[c]) /\ RowAt(t, q)[c] = values[c] PROVE FALSE
      BY DEF Agree
    <3>5. Meets(RowAt(t, q), where)
      BY <3>1, <3>4 DEF Meets
    <3> HIDE DEF where
    <3>6. q \in search(t, where)
      BY <1>2, <3>1, <3>2, <3>5, SearchFindsRows
    <3> QED BY <3>3, <3>4, <3>6 DEF HasNull
  <2>9. ASSUME NEW s \in info[t].unique \cup info[t].primary,
               NEW p \in DOMAIN rows'[t], NEW q \in DOMAIN rows'[t], p # q
        PROVE  ~ Agree(RowAt(t, p)', RowAt(t, q)', s)
    <3>1. CASE p \in DOMAIN rows[t] /\ q \in DOMAIN rows[t]
      BY <1>2, <2>5, <2>9, <3>1 DEF KeysHold
    <3>2. CASE p \in DOMAIN rows[t] /\ q = r
      BY <2>4, <2>5, <2>8, <3>2
    <3>3. CASE p = r /\ q \in DOMAIN rows[t]
      BY <2>4, <2>5, <2>8, <3>3
    <3> QED BY <2>1, <2>9, <3>1, <3>2, <3>3
  <2>10. ASSUME NEW t2 \in Tables \ {t}, NEW s \in info[t2].unique \cup info[t2].primary,
               NEW p \in DOMAIN rows'[t2], NEW q \in DOMAIN rows'[t2], p # q
        PROVE  ~ Agree(RowAt(t2, p)', RowAt(t2, q)', s)
    BY <2>2, <2>6, <2>10 DEF KeysHold
  <2> QED BY <1>1, <2>7, <2>9, <2>10 DEF KeysHold, Agree
<1> QED BY <1>5, <1>6 DEF InsertNext

\* A key is added over rows without NULL, or with any, that do not agree on it.
LEMMA KeyStatementsKeyed ==
  ASSUME Sound, KeysHold, NEW t \in Tables, NEW s \in Keys[t], add_primary_key(t, s) \/ add_unique(t, s)
  PROVE  KeysHold'
<1>1. s \subseteq Columns(t)
  BY StatementsAssumption
<1>2. UNCHANGED rows
  BY DEF add_primary_key, add_unique, Alter
<1>3. DOMAIN info = Tables
  BY DEF Sound, Functional
<1>4. CASE add_primary_key(t, s)
  <2>1. info' = [info EXCEPT ![t] = [info[t] EXCEPT !.primary = {s}, !.nullable = @ \ s]]
    BY <1>4 DEF add_primary_key, Alter
  <2>2. \A r \in DOMAIN rows[t] : ~ HasNull(RowAt(t, r), s) /\ Cardinality(search(t, On(RowAt(t, r), s))) <= 1
    BY <1>4 DEF add_primary_key
  <2>3. info[t] \in Entry(t)
    BY DEF Sound, TypeOK, Entry
  <2>4. /\ info'[t].unique = info[t].unique /\ info'[t].primary = {s}
        /\ info'[t].nullable = info[t].nullable \ s
        /\ \A t2 \in Tables \ {t} : info'[t2] = info[t2]
    BY <1>3, <2>1, <2>3 DEF Entry
  <2>5. \A t2 \in Tables : \A r \in DOMAIN rows[t2], c \in Columns(t2) :
          isNull(RowAt(t2, r)[c]) => c \in info'[t2].nullable
    BY <2>2, <2>4 DEF KeysHold, HasNull
  <2> QED BY <1>1, <1>2, <2>2, <2>4, <2>5, KeyAdded
<1>5. CASE add_unique(t, s)
  <2>1. info' = [info EXCEPT ![t] = [info[t] EXCEPT !.unique = @ \cup {s}]]
    BY <1>5 DEF add_unique, Alter
  <2>2. \A r \in DOMAIN rows[t] : \/ HasNull(RowAt(t, r), s)
                                 \/ Cardinality(search(t, On(RowAt(t, r), s))) <= 1
    BY <1>5 DEF add_unique
  <2>3. info[t] \in Entry(t)
    BY DEF Sound, TypeOK, Entry
  <2>4. /\ info'[t].unique = info[t].unique \cup {s} /\ info'[t].primary = info[t].primary
        /\ info'[t].nullable = info[t].nullable
        /\ \A t2 \in Tables \ {t} : info'[t2] = info[t2]
    BY <1>3, <2>1, <2>3 DEF Entry
  <2>5. \A t2 \in Tables : \A r \in DOMAIN rows[t2], c \in Columns(t2) :
          isNull(RowAt(t2, r)[c]) => c \in info'[t2].nullable
    BY <2>4 DEF KeysHold
  <2> QED BY <1>1, <1>2, <2>2, <2>4, <2>5, KeyAdded
<1> QED BY <1>4, <1>5

\* A statement that adds no row and no key leaves what is left of both.
LEMMA OthersKeyed ==
  ASSUME Sound, KeysHold,
         \/ UNCHANGED <<info, rows>>
         \/ RemoveNext
         \/ \E t \in Tables :
              \/ drop_primary_key(t)
              \/ \E f \in ForeignKeys[t] : add_foreign_key(t, f) \/ drop_foreign_key(t, f)
  PROVE  KeysHold'
<1>1. CASE UNCHANGED <<info, rows>>
  <2>1. \A t \in Tables : \A r \in DOMAIN rows'[t] : r \in DOMAIN rows[t] /\ RowAt(t, r)' = RowAt(t, r)
    BY <1>1, OtherTablesKept
  <2> QED BY <1>1, <2>1, KeysLeft
<1>2. CASE RemoveNext
  <2>1. UNCHANGED info
    BY <1>2 DEF RemoveNext
  <2>2. SUFFICES ASSUME NEW t \in Tables, NEW r \in DOMAIN rows'[t]
                 PROVE  r \in DOMAIN rows[t] /\ RowAt(t, r)' = RowAt(t, r)
    BY <2>1, KeysLeft
  <2>3. CASE UNCHANGED rows
    BY <2>2, <2>3, OtherTablesKept
  <2>4. ASSUME NEW t2, NEW q, rows' = [rows EXCEPT ![t2] = Restrict(@, DOMAIN @ \ {q})]
        PROVE  r \in DOMAIN rows[t] /\ RowAt(t, r)' = RowAt(t, r)
    <3>1. rows'[t] = rows[t] \/ rows'[t] = Restrict(rows[t], DOMAIN rows[t] \ {q})
      BY <2>4 DEF Sound, Functional
    <3>2. r \in DOMAIN rows[t] /\ rows'[t][r] = rows[t][r]
      BY <2>2, <3>1 DEF Restrict
    <3> QED BY <2>2, <3>2 DEF RowAt
  <2> QED BY <1>2, <2>3, <2>4 DEF RemoveNext
<1>3. ASSUME NEW t \in Tables,
             \/ drop_primary_key(t)
             \/ \E f \in ForeignKeys[t] : add_foreign_key(t, f) \/ drop_foreign_key(t, f)
      PROVE  KeysHold'
  <2>1. info[t] \in Entry(t) /\ DOMAIN info = Tables
    BY DEF Sound, TypeOK, Entry, Functional
  <2>2. PICK entry : /\ entry.nullable = info[t].nullable
                     /\ entry.unique = info[t].unique
                     /\ entry.primary \subseteq info[t].primary
                     /\ Alter(t, entry)
    <3>1. CASE drop_primary_key(t)
      <4>1. Alter(t, [info[t] EXCEPT !.primary = {}])
        BY <3>1 DEF drop_primary_key
      <4> QED BY <2>1, <4>1 DEF Entry
    <3>2. ASSUME NEW f \in ForeignKeys[t], add_foreign_key(t, f) \/ drop_foreign_key(t, f)
          PROVE  \E x : Alter(t, [info[t] EXCEPT !.foreign = x])
      BY <3>2 DEF add_foreign_key, drop_foreign_key
    <3> QED BY <1>3, <2>1, <3>1, <3>2 DEF Entry
  <2>3. UNCHANGED rows /\ info' = [info EXCEPT ![t] = entry]
    BY <2>2 DEF Alter
  <2>4. \A t2 \in Tables : \A r \in DOMAIN rows'[t2] : r \in DOMAIN rows[t2] /\ RowAt(t2, r)' = RowAt(t2, r)
    BY <2>3, OtherTablesKept
  <2>5. \A t2 \in Tables : /\ info'[t2].nullable = info[t2].nullable
                           /\ info'[t2].unique \cup info'[t2].primary \subseteq info[t2].unique \cup info[t2].primary
    BY <2>1, <2>2, <2>3
  <2> QED BY <2>4, <2>5, KeysLeft
<1> QED BY <1>1, <1>2, <1>3

\* Every step keeps the keys, in the states the invariant describes.
LEMMA KeysKept ==
  ASSUME ReadableTables, Sound, KeysHold, [Next]_vars
  PROVE  KeysHold'
<1>1. CASE UNCHANGED vars
  BY <1>1, OthersKeyed DEF vars
<1>2. ASSUME NEW t \in Tables,
             \/ \E lists \in Inserts[t] : Insert(t, lists)
             \/ \E w \in Conditions[t] : Delete(t, w)
             \/ \E w \in Conditions[t], sets \in SetClauses[t] : Update(t, sets, w)
      PROVE  KeysHold'
  <2>1. UNCHANGED <<info, rows>>
    BY <1>2 DEF Insert, Delete, Update, Begin
  <2> QED BY <2>1, OthersKeyed
<1>3. ASSUME NEW t \in Tables, NEW c \in Columns(t), create_index(t, c) \/ drop_index(t, c) PROVE KeysHold'
  <2>1. UNCHANGED rows /\ (UNCHANGED info \/ info' = [info EXCEPT ![t] = info[t]])
    BY <1>3 DEF create_index, drop_index, Alter
  <2>2. \A t2 \in Tables : info'[t2] = info[t2]
    BY <2>1 DEF Sound, Functional
  <2>3. \A t2 \in Tables : \A r \in DOMAIN rows'[t2] : r \in DOMAIN rows[t2] /\ RowAt(t2, r)' = RowAt(t2, r)
    BY <2>1, OtherTablesKept
  <2> QED BY <2>2, <2>3, KeysLeft
<1>4. ASSUME NEW t \in Tables, NEW s \in Keys[t], add_primary_key(t, s) \/ add_unique(t, s) PROVE KeysHold'
  BY <1>4, KeyStatementsKeyed
<1>5. ASSUME NEW t \in Tables,
             \/ drop_primary_key(t)
             \/ \E f \in ForeignKeys[t] : add_foreign_key(t, f) \/ drop_foreign_key(t, f)
      PROVE  KeysHold'
  BY <1>5, OthersKeyed
<1>6. CASE RemoveNext
  BY <1>6, OthersKeyed
<1>7. CASE InsertNext
  BY <1>7, RowKeyed
<1>8. CASE EndStatement
  BY <1>8, OthersKeyed DEF EndStatement
<1> QED BY <1>1, <1>2, <1>3, <1>4, <1>5, <1>6, <1>7, <1>8 DEF Next

(***************************************************************************)
(* No two rows of a table ever agree on a unique or primary key, and no     *)
(* NULL is where the entry of the table forbids it: the lookups that insert *)
(* and the statements that add a key make are enough, whichever of them are *)
(* answered by an index, in the middle of a statement on many rows too.     *)
(***************************************************************************)
THEOREM KeysAreKept ==
  ASSUME ReadableTables
  PROVE  Spec => []KeysHold
<1>1. Init => Sound /\ KeysHold
  <2>1. ASSUME Init PROVE KeysHold
    <3>1. \A t \in Tables : DOMAIN rows[t] = {}
      BY <2>1 DEF Init
    <3> QED BY <3>1 DEF KeysHold
  <2> QED BY <2>1, InitSound
<1>2. (Sound /\ KeysHold) /\ [Next]_vars => (Sound /\ KeysHold)'
  BY SoundKept, KeysKept
<1> QED BY <1>1, <1>2, PTL DEF Spec
-----------------------------------------------------------------------------
(***************************************************************************)
(* The foreign keys whose references validate_delete_data sees: to another  *)
(* table, each column to one of its own, and, as it takes the numbers of    *)
(* the referring columns for numbers of the table they refer to when it     *)
(* looks for NULLs, to a table that has no NULL there.                      *)
(***************************************************************************)
ReferencesSeen ==
  \A t \in Tables : \A f \in ForeignKeys[t] :
     /\ f.table # t
     /\ DOMAIN f.ids # {}
     /\ \A b, c \in DOMAIN f.ids : f.ids[b] = f.ids[c] => b = c
     /\ \A c \in DOMAIN f.ids : c \in Columns(f.table) \ Nullables[f.table]

\* A row of f's table that values refer to, or one that an UPDATE has removed
\* and will insert again.
RefersToRow(f, values) ==
  \E q \in DOMAIN rows[f.table] : \A c \in DOMAIN f.ids : RowAt(f.table, q)[f.ids[c]] = values[c]

RefersToPending(f, values) ==
  /\ stmt.kind = "UPDATE" /\ stmt.table = f.table
  /\ \E k \in DOMAIN stmt.add : \A c \in DOMAIN f.ids : stmt.add[k][f.ids[c]] = values[c]

ReferencesSound ==
  ~ lost =>
    \A t \in Tables : \A f \in info[t].foreign : \A r \in DOMAIN rows[t] :
       \/ HasNull(RowAt(t, r), DOMAIN f.ids)
       \/ RefersToRow(f, RowAt(t, r)) \/ RefersToPending(f, RowAt(t, r))

\* An UPDATE inserts each row it removes again, the same but for its SET
\* clause; a DELETE removes every column.
RemovalsKept ==
  \A r \in DOMAIN stmt.remove :
     IF stmt.kind = "UPDATE"
       THEN /\ r \in DOMAIN stmt.add
            /\ \A c \in Columns(stmt.table) \ stmt.mask : stmt.add[r][c] = stmt.remove[r][c]
       ELSE stmt.mask = Columns(stmt.table)

RefInv == Sound /\ ReferencesSound /\ RemovalsKept
-----------------------------------------------------------------------------
\* A lookup finds the rows that meet the clauses and no others, by an index or
\* without.
LEMMA SearchIsExact ==
  ASSUME ReadableTables, Sound, NEW t \in Tables, NEW where, DOMAIN where \subseteq Columns(t),
         \A c \in DOMAIN where : where[c] \in Value
  PROVE  search(t, where) = {r \in DOMAIN rows[t] : Meets(RowAt(t, r), where)}
<1> DEFINE usable == SearchColumns(t, where)
           c == Max(usable)
           rest == Restrict(where, DOMAIN where \ {c})
<1>1. CASE usable = {}
  BY <1>1 DEF search
<1>2. CASE usable # {}
  <2>1. c \in usable
    <3>1. PICK n \in Nat : Columns(t) = 1 .. n
      BY TablesAssumption DEF Columns
    <3>2. usable \subseteq 1 .. n
      BY <3>1 DEF SearchColumns
    <3> QED BY <3>2, <1>2, GreatestExists
  <2>2. c \in DOMAIN where /\ c \in Indexed(t) /\ where[c].type = "INT" /\ where[c] \in Value
    BY <2>1 DEF SearchColumns
  <2>3. entries[t][c] = IndexOf(t, c) /\ Fields[t][c].type = "INT" /\ c \in Columns(t)
    BY <2>2 DEF Sound, IndexesMatchRows, TypeOK
  <2>4. search(t, where) = {e[2] : e \in {x \in IndexOf(t, c) : /\ x[1] = asInt(where[c])
                                                              /\ Meets(RowAt(t, x[2]), rest)}}
    BY <1>2, <2>3 DEF search
  <2> HIDE DEF c
  <2>5. ASSUME NEW r \in search(t, where) PROVE r \in DOMAIN rows[t] /\ Meets(RowAt(t, r), where)
    <3>1. PICK e \in IndexOf(t, c) : e[1] = asInt(where[c]) /\ Meets(RowAt(t, e[2]), rest) /\ r = e[2]
      BY <2>4
    <3>2. PICK q \in DOMAIN rows[t] : ~ isNull(RowAt(t, q)[c]) /\ e = <<asInt(RowAt(t, q)[c]), q>>
      BY InIndexOf
    <3>3. q = r /\ asInt(RowAt(t, r)[c]) = asInt(where[c]) /\ Meets(RowAt(t, r), rest) /\ ~ isNull(RowAt(t, r)[c])
      BY <3>1, <3>2
    <3>4. IsRow(Fields[t], RowAt(t, r))
      BY <3>2, <3>3, RowAtIsRow DEF Sound
    <3>5. RowAt(t, r)[c] \in Value /\ RowAt(t, r)[c].type = "INT"
      BY <2>3, <3>3, <3>4 DEF IsRow, Columns, isNull
    <3>6. RowAt(t, r)[c] = where[c] /\ ~ isNull(where[c])
      <4> DEFINE v == RowAt(t, r)[c]
                 w == where[c]
      <4>1. v \in Value /\ w \in Value /\ v.type = "INT" /\ w.type = "INT" /\ v.n = w.n
        BY <2>2, <3>3, <3>5 DEF asInt
      <4> HIDE DEF v, w
      <4>2. v = w /\ w.type # "NUL"
        BY <4>1 DEF Value, Null
      <4> QED BY <4>2 DEF v, w, isNull
    <3>7. \A b \in DOMAIN where : b # c => ~ isNull(where[b]) /\ RowAt(t, r)[b] = where[b]
      BY <3>3 DEF Meets, Restrict
    <3> QED BY <3>2, <3>3, <3>6, <3>7 DEF Meets
  <2>6. \A r \in DOMAIN rows[t] : Meets(RowAt(t, r), where) => r \in search(t, where)
    BY SearchFindsRows
  <2> QED BY <2>5, <2>6
<1> QED BY <1>1, <1>2

\* What validation and ADD FOREIGN KEY look for is the row that is referred to.
LEMMA FoundIsReferred ==
  ASSUME ReadableTables, ReferencesSeen, Sound, NEW t \in Tables, NEW f \in ForeignKeys[t],
         NEW values, \A c \in Columns(t) : values[c] \in Value,
         search(f.table, Referred(f, values)) # {}
  PROVE  RefersToRow(f, values)
<1> DEFINE where == Referred(f, values)
<1>1. f.table \in Tables /\ DOMAIN f.ids \subseteq Columns(t) /\ \A c \in DOMAIN f.ids : f.ids[c] \in Columns(f.table)
  BY StatementsAssumption
<1>2. DOMAIN where = Range(f.ids) /\ \A c \in DOMAIN f.ids : f.ids[c] \in DOMAIN where /\ where[f.ids[c]] = values[c]
  <2>1. \A b, c \in DOMAIN f.ids : f.ids[b] = f.ids[c] => b = c
    BY DEF ReferencesSeen
  <2> QED BY <2>1 DEF Referred, Range
<1>3. DOMAIN where \subseteq Columns(f.table) /\ \A x \in DOMAIN where : where[x] \in Value
  BY <1>1, <1>2 DEF Range
<1> HIDE DEF where
<1>4. PICK q \in DOMAIN rows[f.table] : Meets(RowAt(f.table, q), where)
  BY <1>1, <1>3, SearchIsExact DEF where
<1>5. \A c \in DOMAIN f.ids : RowAt(f.table, q)[f.ids[c]] = values[c]
  BY <1>2, <1>4 DEF Meets
<1> QED BY <1>5 DEF RefersToRow
-----------------------------------------------------------------------------
\* Steps that change no row, add no foreign key and leave an UPDATE what it
\* has still to insert.
LEMMA ReferencesLeft ==
  ASSUME Sound, ReferencesSound, lost => lost',
         \A t \in Tables : rows'[t] = rows[t] /\ info'[t].foreign \subseteq info[t].foreign,
         stmt.kind = "UPDATE" /\ DOMAIN stmt.add # {} =>
           stmt'.kind = "UPDATE" /\ stmt'.table = stmt.table /\ stmt'.add = stmt.add
  PROVE  ReferencesSound'
<1> SUFFICES ASSUME ~ lost, NEW t \in Tables, NEW f \in info[t].foreign, NEW r \in DOMAIN rows[t]
             PROVE  \/ HasNull(RowAt(t, r)', DOMAIN f.ids)
                    \/ RefersToRow(f, RowAt(t, r))' \/ RefersToPending(f, RowAt(t, r))'
  BY DEF ReferencesSound
<1>1. f.table \in Tables
  BY StatementsAssumption DEF Sound, TypeOK
<1>2. RowAt(t, r)' = RowAt(t, r) /\ \A q : RowAt(f.table, q)' = RowAt(f.table, q)
  BY <1>1, OtherTablesKept
<1>3. \/ HasNull(RowAt(t, r), DOMAIN f.ids)
      \/ RefersToRow(f, RowAt(t, r)) \/ RefersToPending(f, RowAt(t, r))
  BY DEF ReferencesSound
<1>4. CASE RefersToRow(f, RowAt(t, r))
  BY <1>1, <1>2, <1>4 DEF RefersToRow
<1>5. CASE RefersToPending(f, RowAt(t, r))
  BY <1>2, <1>5 DEF RefersToPending
<1> QED BY <1>2, <1>3, <1>4, <1>5

\* A foreign key is added over rows that refer to rows.
LEMMA ForeignKeyAdded ==
  ASSUME ReadableTables, ReferencesSeen, RefInv, NEW t \in Tables, NEW f \in ForeignKeys[t], add_foreign_key(t, f)
  PROVE  ReferencesSound'
<1>1. /\ \A r \in DOMAIN rows[t] : \/ HasNull(RowAt(t, r), DOMAIN f.ids)
                                   \/ search(f.table, Referred(f, RowAt(t, r))) # {}
      /\ info' = [info EXCEPT ![t] = [info[t] EXCEPT !.foreign = @ \cup {f}]]
      /\ UNCHANGED <<rows, stmt, lost>>
  BY DEF add_foreign_key, Alter
<1>2. /\ info[t] \in Entry(t) /\ DOMAIN info = Tables
  BY DEF RefInv, Sound, TypeOK, Entry, Functional
<1>3. \A t2 \in Tables : info'[t2].foreign = IF t2 = t THEN info[t].foreign \cup {f} ELSE info[t2].foreign
  BY <1>1, <1>2 DEF Entry
<1>4. ASSUME NEW r \in DOMAIN rows[t] PROVE HasNull(RowAt(t, r), DOMAIN f.ids) \/ RefersToRow(f, RowAt(t, r))
  <2>1. IsRow(Fields[t], RowAt(t, r))
    BY RowAtIsRow DEF RefInv, Sound
  <2>2. \A c \in Columns(t) : RowAt(t, r)[c] \in Value
    BY <2>1 DEF IsRow, Columns
  <2> QED BY <1>1, <2>2, FoundIsReferred DEF RefInv
<1>5. \A t2 \in Tables : \A r : RowAt(t2, r)' = RowAt(t2, r)
  BY <1>1, OtherTablesKept
<1>6. f.table \in Tables /\ \A t2 \in Tables : \A g \in info[t2].foreign : g.table \in Tables
  BY StatementsAssumption DEF RefInv, Sound, TypeOK
<1> SUFFICES ASSUME ~ lost, NEW t2 \in Tables, NEW g \in info'[t2].foreign, NEW r \in DOMAIN rows[t2]
             PROVE  \/ HasNull(RowAt(t2, r)', DOMAIN g.ids)
                    \/ RefersToRow(g, RowAt(t2, r))' \/ RefersToPending(g, RowAt(t2, r))'
  BY <1>1 DEF ReferencesSound
<1>7. HasNull(RowAt(t2, r), DOMAIN g.ids) \/ RefersToRow(g, RowAt(t2, r)) \/ RefersToPending(g, RowAt(t2, r))
  <2>1. CASE g \in info[t2].foreign
    BY <2>1 DEF RefInv, ReferencesSound
  <2>2. CASE t2 = t /\ g = f
    BY <1>4, <2>2
  <2> QED BY <1>3, <2>1, <2>2
<1>8. g.table \in Tables
  BY <1>3, <1>6
<1> QED BY <1>1, <1>5, <1>7, <1>8 DEF RefersToRow, RefersToPending

(***************************************************************************)
(* A row that others refer to is not removed, or an UPDATE that leaves what *)
(* they refer to as it is will insert it again.                             *)
(***************************************************************************)
LEMMA ReferencesOutliveRemoval ==
  ASSUME ReadableTables, ReferencesSeen, RefInv, RemoveNext
  PROVE  ReferencesSound' /\ RemovalsKept'
<1> SUFFICES ASSUME NEW t, t = stmt.table,
                    NEW r, r = Min(DOMAIN stmt.remove),
                    NEW values, values = stmt.remove[r],
                    NEW left, left = Restrict(stmt.remove, DOMAIN stmt.remove \ {r})
             PROVE  ReferencesSound' /\ RemovalsKept'
  OBVIOUS
<1>1. /\ DOMAIN stmt.remove # {}
      /\ stmt' = [stmt EXCEPT !.remove = left]
      /\ UNCHANGED <<info, lost>>
  BY DEF RemoveNext
<1>2. t \in Tables /\ stmt # NoStatement /\ DOMAIN stmt = {"kind", "table", "mask", "remove", "add"}
  BY <1>1, Busy DEF RefInv
<1>3. r \in DOMAIN stmt.remove /\ r \in DOMAIN rows[t] /\ values = RowAt(t, r)
  <2>1. DOMAIN stmt.remove \subseteq DOMAIN rows[t] /\ DOMAIN rows[t] \subseteq Nat
    BY <1>2, TablesAssumption DEF RefInv, Sound, StatementSound, TypeOK
  <2>2. r \in DOMAIN stmt.remove
    BY <1>1, <2>1, LeastExists
  <2> QED BY <2>1, <2>2 DEF RefInv, Sound, StatementSound
<1>4. /\ stmt'.remove = left /\ stmt'.add = stmt.add /\ stmt'.table = t /\ stmt'.kind = stmt.kind /\ stmt'.mask = stmt.mask
      /\ DOMAIN left = DOMAIN stmt.remove \ {r} /\ \A q \in DOMAIN left : left[q] = stmt.remove[q]
  BY <1>1, <1>2 DEF Restrict
<1>5. RemovalsKept'
  <2>1. ASSUME NEW q \in DOMAIN left
        PROVE  IF stmt.kind = "UPDATE"
                 THEN /\ q \in DOMAIN stmt.add
                      /\ \A c \in Columns(t) \ stmt.mask : stmt.add[q][c] = left[q][c]
                 ELSE stmt.mask = Columns(t)
    <3>1. q \in DOMAIN stmt.remove /\ left[q] = stmt.remove[q]
      BY <1>4
    <3> QED BY <3>1 DEF RefInv, RemovalsKept
  <2> QED BY <1>4, <2>1 DEF RemovalsKept
<1>6. CASE UNCHANGED rows
  <2>1. ReferencesSound'
    BY <1>1, <1>4, <1>6, ReferencesLeft DEF RefInv
  <2> QED BY <1>5, <2>1
<1>7. ASSUME NEW stray \in BOOLEAN, validate_delete_data(t, values, stmt.mask, stray),
             rows' = [rows EXCEPT ![t] = Restrict(@, DOMAIN @ \ {r})]
      PROVE  ReferencesSound'
  <2>1. /\ DOMAIN rows'[t] = DOMAIN rows[t] \ {r}
        /\ \A q \in DOMAIN rows'[t] : rows'[t][q] = rows[t][q]
        /\ \A t2 \in Tables \ {t} : rows'[t2] = rows[t2]
    BY <1>2, <1>7 DEF RefInv, Sound, Functional, Restrict
  <2>2. \A t2 \in Tables : \A q \in DOMAIN rows'[t2] : q \in DOMAIN rows[t2] /\ RowAt(t2, q)' = RowAt(t2, q)
    BY <2>1 DEF RowAt
  <2> SUFFICES ASSUME ~ lost, NEW t2 \in Tables, NEW f \in info[t2].foreign, NEW q \in DOMAIN rows'[t2],
                      ~ HasNull(RowAt(t2, q), DOMAIN f.ids)
               PROVE  RefersToRow(f, RowAt(t2, q))' \/ RefersToPending(f, RowAt(t2, q))'
    BY <1>1, <2>2 DEF ReferencesSound
  <2>3. RefersToRow(f, RowAt(t2, q)) \/ RefersToPending(f, RowAt(t2, q))
    BY <2>2 DEF RefInv, ReferencesSound
  <2>4. f \in ForeignKeys[t2]
    BY DEF RefInv, Sound, TypeOK
  <2>5. f.table \in Tables /\ DOMAIN f.ids \subseteq Columns(t2) /\ \A c \in DOMAIN f.ids : f.ids[c] \in Columns(f.table)
    BY <2>4, StatementsAssumption
  <2>6. CASE RefersToPending(f, RowAt(t2, q))
    BY <1>4, <2>2, <2>6 DEF RefersToPending
  <2>7. ASSUME NEW p \in DOMAIN rows[f.table],
               \A c \in DOMAIN f.ids : RowAt(f.table, p)[f.ids[c]] = RowAt(t2, q)[c]
        PROVE  RefersToRow(f, RowAt(t2, q))' \/ RefersToPending(f, RowAt(t2, q))'
    <3>1. CASE p \in DOMAIN rows'[f.table]
      BY <2>2, <2>5, <2>7, <3>1 DEF RefersToRow
    <3>2. CASE p \notin DOMAIN rows'[f.table]
      <4>1. f.table = t /\ p = r
        BY <2>1, <2>5, <3>2
      <4>2. t2 \in Tables \ {t}
        BY <2>4, <4>1 DEF ReferencesSeen
      <4>3. \A c \in DOMAIN f.ids : RowAt(t2, q)[c] = values[f.ids[c]] /\ ~ isNull(RowAt(t2, q)[c])
        BY <1>3, <2>7, <4>1 DEF HasNull
      <4> DEFINE where == [c \in DOMAIN f.ids |-> values[f.ids[c]]]
      <4>4. q \in search(t2, where)
        <5>1. Meets(RowAt(t2, q), where)
          BY <4>3 DEF Meets
        <5>2. DOMAIN where \subseteq Columns(t2) /\ q \in DOMAIN rows[t2]
          BY <2>2, <2>5
        <5> HIDE DEF where
        <5> QED BY <5>1, <5>2, SearchFindsRows DEF RefInv
      <4>5. IsRow(Fields[t], values) /\ DOMAIN values = Columns(t)
        BY <1>2, <1>3, RowAtIsRow DEF RefInv, Sound, IsRow, Columns
      <4>6. \A c \in DOMAIN f.ids : c \in DOMAIN values /\ ~ isNull(values[c])
        <5>1. \A c \in DOMAIN f.ids : c \in Columns(t) /\ c \notin Nullables[t]
          BY <2>4, <4>1 DEF ReferencesSeen
        <5>2. values = rows[t][r]
          BY <1>2, <1>3, RowAtIsRow DEF RefInv, Sound
        <5> QED BY <1>2, <1>3, <4>5, <5>1, <5>2 DEF RefInv, Sound, NullsDeclared
      <4>7. Range(f.ids) \cap stmt.mask = {}
        <5>1. \/ f.table # t
              \/ Range(f.ids) \cap stmt.mask = {}
              \/ \E c \in DOMAIN f.ids : IF c \in DOMAIN values THEN isNull(values[c]) ELSE stray
              \/ search(t2, where) = {}
          BY <1>7, <4>2 DEF validate_delete_data
        <5> HIDE DEF where
        <5> QED BY <4>1, <4>4, <4>6, <5>1
      <4>8. \A c \in DOMAIN f.ids : f.ids[c] \in Columns(t) \ stmt.mask
        BY <2>5, <4>1, <4>7 DEF Range
      <4>9. stmt.kind = "UPDATE"
        <5>1. PICK c : c \in DOMAIN f.ids
          BY <2>4 DEF ReferencesSeen
        <5>2. stmt.mask # Columns(t)
          BY <4>8, <5>1
        <5> QED BY <1>3, <5>2 DEF RefInv, RemovalsKept
      <4>10. r \in DOMAIN stmt.add /\ \A c \in DOMAIN f.ids : stmt.add[r][f.ids[c]] = values[f.ids[c]]
        BY <1>3, <4>8, <4>9 DEF RefInv, RemovalsKept
      <4>11. RefersToPending(f, RowAt(t2, q))'
        BY <1>4, <2>2, <4>1, <4>3, <4>9, <4>10 DEF RefersToPending
      <4> QED BY <4>11
    <3> QED BY <3>1, <3>2
  <2> QED BY <2>3, <2>6, <2>7 DEF RefersToRow
<1>8. CASE UNCHANGED rows \/ \E stray \in BOOLEAN :
             /\ validate_delete_data(t, values, stmt.mask, stray)
             /\ rows' = [rows EXCEPT ![t] = Restrict(@, DOMAIN @ \ {r})]
  BY <1>5, <1>6, <1>7, <1>8
<1> QED BY <1>8 DEF RemoveNext

(***************************************************************************)
(* A row that is inserted refers to rows, and is the row that others refer  *)
(* to when an UPDATE had removed it; one that an UPDATE is refused is lost. *)
(***************************************************************************)
LEMMA ReferencesOutliveInsertion ==
  ASSUME ReadableTables, ReferencesSeen, RefInv, InsertNext
  PROVE  ReferencesSound' /\ RemovalsKept'
<1> SUFFICES ASSUME NEW t, t = stmt.table,
                    NEW k, k = Min(DOMAIN stmt.add),
                    NEW values, values = stmt.add[k],
                    NEW left, left = Restrict(stmt.add, DOMAIN stmt.add \ {k})
             PROVE  ReferencesSound' /\ RemovalsKept'
  OBVIOUS
<1>1. /\ DOMAIN stmt.remove = {} /\ DOMAIN stmt.add # {}
      /\ stmt' = [stmt EXCEPT !.add = left]
      /\ UNCHANGED info
  BY DEF InsertNext
<1>2. t \in Tables /\ stmt # NoStatement /\ DOMAIN stmt = {"kind", "table", "mask", "remove", "add"}
  BY <1>1, Busy DEF RefInv
<1>3. k \in DOMAIN stmt.add
  BY <1>1, LeastExists DEF RefInv, Sound, StatementSound
<1>4. values \in [DOMAIN values -> Value]
  BY <1>3 DEF RefInv, Sound, StatementSound
<1>5. /\ stmt'.remove = stmt.remove /\ stmt'.add = left /\ stmt'.table = t /\ stmt'.kind = stmt.kind
      /\ DOMAIN left = DOMAIN stmt.add \ {k} /\ \A j \in DOMAIN left : left[j] = stmt.add[j]
  BY <1>1, <1>2 DEF Restrict
<1>6. RemovalsKept'
  BY <1>1, <1>5 DEF RemovalsKept
<1>7. CASE UNCHANGED rows /\ lost' = (lost \/ stmt.kind = "UPDATE")
  <2>1. CASE stmt.kind = "UPDATE"
    BY <1>6, <1>7, <2>1 DEF ReferencesSound
  <2>2. CASE stmt.kind # "UPDATE"
    <3>1. lost => lost'
      BY <1>7
    <3>2. \A t2 \in Tables : rows'[t2] = rows[t2] /\ info'[t2].foreign \subseteq info[t2].foreign
      BY <1>1, <1>7
    <3>3. ReferencesSound'
      BY <2>2, <3>1, <3>2, ReferencesLeft DEF RefInv
    <3> QED BY <1>6, <3>3
  <2> QED BY <2>1, <2>2
<1>8. ASSUME validate_insert_data(t, values), UNCHANGED lost,
             NEW r \in Rids \ DOMAIN rows[t],
             rows' = [rows EXCEPT ![t] = [q \in DOMAIN @ \cup {r} |-> IF q = r THEN values ELSE @[q]]]
      PROVE  ReferencesSound'
  <2>1. /\ DOMAIN rows'[t] = DOMAIN rows[t] \cup {r}
        /\ rows'[t][r] = values
        /\ \A q \in DOMAIN rows[t] : rows'[t][q] = rows[t][q]
        /\ \A t2 \in Tables \ {t} : rows'[t2] = rows[t2]
    BY <1>2, <1>8 DEF RefInv, Sound, Functional
  <2>2. IsRow(Fields[t], values) /\ \A c \in Columns(t) : isNull(values[c]) => c \in Nullables[t]
    BY <1>2, <1>4, <1>8, AcceptedIsRow DEF RefInv
  <2>3. RowAt(t, r)' = values
    <3>1. Read(t, values) = values
      BY <1>2, <2>2, RowIsReadBack
    <3> QED BY <2>1, <3>1 DEF RowAt
  <2>4. \A t2 \in Tables : \A q \in DOMAIN rows[t2] : q \in DOMAIN rows'[t2] /\ RowAt(t2, q)' = RowAt(t2, q)
    BY <2>1 DEF RowAt
  <2> SUFFICES ASSUME ~ lost, NEW t2 \in Tables, NEW f \in info[t2].foreign, NEW q \in DOMAIN rows'[t2],
                      ~ HasNull(RowAt(t2, q)', DOMAIN f.ids)
               PROVE  RefersToRow(f, RowAt(t2, q))' \/ RefersToPending(f, RowAt(t2, q))'
    BY <1>1, <1>8 DEF ReferencesSound
  <2>5. f \in ForeignKeys[t2]
    BY DEF RefInv, Sound, TypeOK
  <2>6. f.table \in Tables
    BY <2>5, StatementsAssumption
  <2>7. CASE q \in DOMAIN rows[t2]
    <3>1. RefersToRow(f, RowAt(t2, q)) \/ RefersToPending(f, RowAt(t2, q))
      BY <2>4, <2>7 DEF RefInv, ReferencesSound
    <3>2. CASE RefersToRow(f, RowAt(t2, q))
      BY <2>4, <2>6, <2>7, <3>2 DEF RefersToRow
    <3>3. ASSUME stmt.kind = "UPDATE", t = f.table, NEW j \in DOMAIN stmt.add,
                 \A c \in DOMAIN f.ids : stmt.add[j][f.ids[c]] = RowAt(t2, q)[c]
          PROVE  RefersToRow(f, RowAt(t2, q))' \/ RefersToPending(f, RowAt(t2, q))'
      <4>1. CASE j = k
        BY <2>1, <2>3, <2>4, <2>7, <3>3, <4>1 DEF RefersToRow
      <4>2. CASE j # k
        <5>1. stmt'.kind = "UPDATE" /\ stmt'.table = f.table /\ stmt'.add = left
          BY <1>5, <3>3
        <5>2. j \in DOMAIN left /\ \A c \in DOMAIN f.ids : left[j][f.ids[c]] = RowAt(t2, q)[c]
          BY <1>5, <3>3, <4>2
        <5>3. RowAt(t2, q)' = RowAt(t2, q)
          BY <2>4, <2>7
        <5> QED BY <5>1, <5>2, <5>3 DEF RefersToPending
      <4> QED BY <4>1, <4>2
    <3> QED BY <3>1, <3>2, <3>3 DEF RefersToPending
  <2>8. CASE q \notin DOMAIN rows[t2]
    <3>1. t2 = t /\ q = r
      BY <2>1, <2>8
    <3>2. search(f.table, Referred(f, values)) # {}
      BY <1>8, <2>3, <3>1 DEF validate_insert_data
    <3>3. \A c \in Columns(t) : values[c] \in Value
      BY <2>2 DEF IsRow, Columns
    <3>4. RefersToRow(f, values)
      BY <1>2, <2>5, <3>1, <3>2, <3>3, FoundIsReferred DEF RefInv
    <3> QED BY <2>3, <2>4, <2>6, <3>1, <3>4 DEF RefersToRow
  <2> QED BY <2>7, <2>8
<1> QED BY <1>6, <1>7, <1>8 DEF InsertNext

\* Every step keeps the references, in the states the invariant describes.
LEMMA RefInvKept ==
  ASSUME ReadableTables, ReferencesSeen, RefInv, [Next]_vars
  PROVE  RefInv'
<1>1. Sound'
  BY SoundKept DEF RefInv
<1>2. ASSUME UNCHANGED <<rows, stmt, lost>>, \A t \in Tables : info'[t].foreign \subseteq info[t].foreign
      PROVE  ReferencesSound' /\ RemovalsKept'
  <2>1. ReferencesSound'
    BY <1>2, ReferencesLeft DEF RefInv
  <2>2. RemovalsKept'
    BY <1>2 DEF RefInv, RemovalsKept
  <2> QED BY <2>1, <2>2
<1>3. ASSUME UNCHANGED vars PROVE ReferencesSound' /\ RemovalsKept'
  BY <1>2, <1>3 DEF vars
<1>4. ASSUME NEW s, NEW ok, NEW after, Begin(s, ok, after) PROVE ReferencesSound'
  <2>1. UNCHANGED <<info, rows, lost>> /\ stmt.kind = "NONE"
    BY <1>4 DEF Begin, NoStatement
  <2> QED BY <2>1, ReferencesLeft DEF RefInv
<1>5. ASSUME NEW t \in Tables, NEW lists \in Inserts[t], Insert(t, lists) PROVE ReferencesSound' /\ RemovalsKept'
  <2>1. PICK add, after : Begin([kind |-> "INSERT", table |-> t, mask |-> {}, remove |-> << >>, add |-> add], TRUE, after)
    BY <1>5 DEF Insert
  <2>2. stmt'.remove = << >> /\ DOMAIN << >> = {}
    BY <2>1 DEF Begin
  <2>3. ReferencesSound'
    BY <1>4, <2>1
  <2>4. RemovalsKept'
    BY <2>2 DEF RemovalsKept
  <2> QED BY <2>3, <2>4
<1>6. ASSUME NEW t \in Tables, NEW w \in Conditions[t], Delete(t, w) PROVE ReferencesSound' /\ RemovalsKept'
  <2>1. PICK remove, after : Begin([kind |-> "DELETE", table |-> t, mask |-> Columns(t), remove |-> remove, add |-> << >>], TRUE, after)
    BY <1>6 DEF Delete
  <2>2. stmt'.kind = "DELETE" /\ stmt'.mask = Columns(t) /\ stmt'.table = t
    BY <2>1 DEF Begin
  <2>3. ReferencesSound'
    BY <1>4, <2>1
  <2>4. RemovalsKept'
    BY <2>2 DEF RemovalsKept
  <2> QED BY <2>3, <2>4
<1>7. ASSUME NEW t \in Tables, NEW w \in Conditions[t], NEW sets \in SetClauses[t], Update(t, sets, w)
      PROVE  ReferencesSound' /\ RemovalsKept'
  <2> DEFINE found == search(t, w)
             old   == [r \in found |-> RowAt(t, r)]
             new   == Converted(t, sets)
             add   == [r \in found |-> Changed(t, old[r], new)]
             s     == [kind |-> "UPDATE", table |-> t, mask |-> DOMAIN sets, remove |-> old, add |-> add]
  <2>1. PICK ok, after : Begin(s, ok, after)
    BY <1>7 DEF Update
  <2>2. stmt' = s
    BY <2>1 DEF Begin
  <2>3. ASSUME NEW r \in found, NEW c \in Columns(t) \ DOMAIN sets PROVE add[r][c] = old[r][c]
    <3>1. DOMAIN old[r] = Columns(t)
      BY FoundRows, RowAtIsRow DEF RefInv, Sound, IsRow, Columns
    <3>2. add[r] = Changed(t, old[r], new) /\ DOMAIN new = DOMAIN sets
      BY DEF Converted
    <3> HIDE DEF old, new, add
    <3> QED BY <3>1, <3>2 DEF Changed
  <2>4. RemovalsKept'
    <3>1. /\ stmt'.kind = "UPDATE" /\ stmt'.table = t /\ stmt'.mask = DOMAIN sets
          /\ stmt'.remove = old /\ stmt'.add = add /\ DOMAIN old = found /\ DOMAIN add = found
      BY <2>2
    <3> HIDE DEF old, add, found, s
    <3> QED BY <2>3, <3>1 DEF RemovalsKept
  <2> QED BY <1>4, <2>1, <2>4
<1>8. \A t \in Tables : info[t] \in Entry(t) /\ t \in DOMAIN info
  BY DEF RefInv, Sound, TypeOK, Entry, Functional
<1>9. ASSUME NEW t \in Tables, NEW entry, Alter(t, entry), entry.foreign \subseteq info[t].foreign
      PROVE  ReferencesSound' /\ RemovalsKept'
  <2>1. UNCHANGED <<rows, stmt, lost>> /\ info' = [info EXCEPT ![t] = entry]
    BY <1>9 DEF Alter
  <2>2. \A t2 \in Tables : info'[t2].foreign \subseteq info[t2].foreign
    BY <1>8, <1>9, <2>1
  <2> QED BY <1>2, <2>1, <2>2
<1>10. ASSUME NEW t \in Tables, NEW c \in Columns(t), create_index(t, c) \/ drop_index(t, c)
       PROVE  ReferencesSound' /\ RemovalsKept'
  <2>1. CASE create_index(t, c)
    BY <1>9, <2>1 DEF create_index
  <2>2. CASE drop_index(t, c)
    BY <1>2, <2>2 DEF drop_index
  <2> QED BY <1>10, <2>1, <2>2
<1>11. ASSUME NEW t \in Tables,
              \/ \E s \in Keys[t] : add_primary_key(t, s) \/ add_unique(t, s)
              \/ drop_primary_key(t)
              \/ \E f \in ForeignKeys[t] : drop_foreign_key(t, f)
       PROVE  ReferencesSound' /\ RemovalsKept'
  <2>1. \A s : /\ [info[t] EXCEPT !.primary = {s}, !.nullable = @ \ s].foreign = info[t].foreign
               /\ [info[t] EXCEPT !.unique = @ \cup {s}].foreign = info[t].foreign
               /\ [info[t] EXCEPT !.primary = {}].foreign = info[t].foreign
               /\ [info[t] EXCEPT !.foreign = @ \ {s}].foreign = info[t].foreign \ {s}
    BY <1>8 DEF Entry
  <2>2. PICK entry : Alter(t, entry) /\ entry.foreign \subseteq info[t].foreign
    BY <1>11, <2>1 DEF add_primary_key, add_unique, drop_primary_key, drop_foreign_key
  <2> QED BY <1>9, <2>2
<1>12. ASSUME NEW t \in Tables, NEW f \in ForeignKeys[t], add_foreign_key(t, f)
       PROVE  ReferencesSound' /\ RemovalsKept'
  <2>1. ReferencesSound'
    BY <1>12, ForeignKeyAdded
  <2>2. UNCHANGED stmt
    BY <1>12 DEF add_foreign_key, Alter
  <2>3. RemovalsKept'
    BY <2>2 DEF RefInv, RemovalsKept
  <2> QED BY <2>1, <2>3
<1>13. ASSUME RemoveNext PROVE ReferencesSound' /\ RemovalsKept'
  BY <1>13, ReferencesOutliveRemoval
<1>14. ASSUME InsertNext PROVE ReferencesSound' /\ RemovalsKept'
  BY <1>14, ReferencesOutliveInsertion
<1>15. ASSUME EndStatement PROVE ReferencesSound' /\ RemovalsKept'
  <2>1. UNCHANGED <<info, rows, lost>> /\ DOMAIN stmt.add = {} /\ stmt'.remove = << >>
    BY <1>15 DEF EndStatement, Idle, NoStatement
  <2>2. ReferencesSound'
    BY <2>1, ReferencesLeft DEF RefInv
  <2> QED BY <2>1, <2>2 DEF RemovalsKept
<1>16. ReferencesSound' /\ RemovalsKept'
  BY <1>3, <1>5, <1>6, <1>7, <1>10, <1>11, <1>12, <1>13, <1>14, <1>15, Zenon DEF Next
<1> QED BY <1>1, <1>16 DEF RefInv

(***************************************************************************)
(* Between two statements every reference leads to a row, as long as no     *)
(* UPDATE lost one: what validate_delete_data lets go nothing refers to, or *)
(* the UPDATE inserts it again with the columns that are referred to.       *)
(***************************************************************************)
THEOREM ReferencesAreKept ==
  ASSUME ReadableTables, ReferencesSeen
  PROVE  Spec => []ReferencesResolve
<1>1. Init => RefInv
  <2>1. ASSUME Init PROVE ReferencesSound /\ RemovalsKept
    <3>1. (\A t \in Tables : DOMAIN rows[t] = {}) /\ DOMAIN stmt.remove = {}
      BY <2>1 DEF Init, NoStatement
    <3> QED BY <3>1 DEF ReferencesSound, RemovalsKept
  <2> QED BY <2>1, InitSound DEF RefInv
<1>2. RefInv /\ [Next]_vars => RefInv'
  BY RefInvKept
<1>3. RefInv => ReferencesResolve
  <2> SUFFICES ASSUME RefInv, Idle, ~ lost PROVE ReferencesResolve
    BY DEF ReferencesResolve
  <2>1. DOMAIN stmt.add = {}
    BY DEF Idle
  <2> QED BY <2>1 DEF RefInv, ReferencesSound, RefersToRow, RefersToPending, ReferencesResolve
<1> QED BY <1>1, <1>2, <1>3, PTL DEF Spec
-----------------------------------------------------------------------------
(***************************************************************************)
(* What a statement promises, while it runs: the rows it has not removed    *)
(* yet are more than its promise, the rows it has not added are less.       *)
(***************************************************************************)
Times(f, x) == Cardinality({i \in DOMAIN f : f[i] = x})

\* Copies of x in a bag.
Copies(x, B) == IF x \in DOMAIN B THEN B[x] ELSE 0

\* The rows of t as they are read.
Reading(t) == [r \in DOMAIN rows[t] |-> RowAt(t, r)]

\* What t has and is to have more is what it is to have at the end and to have less.
Balanced(t, remove, add, after) ==
  \A x : Times(Reading(t), x) + Times(add, x) = Copies(x, after) + Times(remove, x)

\* The rows of the statement, while no row was refused.
Balance ==
  flag /\ stmt # NoStatement =>
    IsABag(promise.after) /\ Balanced(stmt.table, stmt.remove, stmt.add, promise.after)

DoneInv == Sound /\ IsFiniteSet(DOMAIN stmt.add) /\ Balance

\* A value occurs a number of times in a finite function.
LEMMA TimesTyped ==
  ASSUME NEW f, IsFiniteSet(DOMAIN f), NEW x
  PROVE  Times(f, x) \in Nat /\ (DOMAIN f = {} => Times(f, x) = 0)
<1> DEFINE S == {i \in DOMAIN f : f[i] = x}
<1>1. IsFiniteSet(S) /\ Cardinality(S) \in Nat
  BY FS_Subset, FS_CardinalityType
<1>2. DOMAIN f = {} => S = {}
  OBVIOUS
<1> QED BY <1>1, <1>2, FS_EmptySet DEF Times

\* Two functions are the two parts of one.
Parts(f, g, h) ==
  /\ DOMAIN f = DOMAIN g \cup DOMAIN h /\ DOMAIN g \cap DOMAIN h = {}
  /\ \A i \in DOMAIN g : g[i] = f[i]
  /\ \A i \in DOMAIN h : h[i] = f[i]

\* The arguments of a finite function may be counted in two parts.
LEMMA TimesSplit ==
  ASSUME NEW f, NEW g, NEW h, Parts(f, g, h), IsFiniteSet(DOMAIN f), NEW x
  PROVE  Times(f, x) = Times(g, x) + Times(h, x)
<1> DEFINE S == {i \in DOMAIN f : f[i] = x}
           T == {i \in DOMAIN g : g[i] = x}
           U == {i \in DOMAIN h : h[i] = x}
<1>1. S = T \cup U /\ T \cap U = {}
  BY DEF Parts
<1>2. IsFiniteSet(T) /\ IsFiniteSet(U)
  BY <1>1, FS_Subset
<1>3. Cardinality(T) \in Nat /\ Cardinality(U) \in Nat
  BY <1>2, FS_CardinalityType
<1> HIDE DEF S, T, U
<1>4. Cardinality(S) = Cardinality(T) + Cardinality(U)
  <2>1. Cardinality(T \cap U) = 0
    BY <1>1, FS_EmptySet
  <2>2. Cardinality(T \cup U) = Cardinality(T) + Cardinality(U) - Cardinality(T \cap U)
    BY <1>2, FS_Union
  <2> QED BY <1>1, <1>3, <2>1, <2>2
<1> QED BY <1>4 DEF Times, S, T, U

\* An argument more: what it has is counted once more.
LEMMA TimesWithout ==
  ASSUME NEW f, IsFiniteSet(DOMAIN f), NEW i \in DOMAIN f,
         NEW g, DOMAIN g = DOMAIN f \ {i}, \A j \in DOMAIN g : g[j] = f[j],
         NEW x
  PROVE  Times(f, x) = Times(g, x) + (IF f[i] = x THEN 1 ELSE 0)
<1> DEFINE S == {j \in DOMAIN f : f[j] = x}
           T == {j \in DOMAIN g : g[j] = x}
<1>1. T = S \ {i}
  OBVIOUS
<1>2. IsFiniteSet(S) /\ Cardinality(S) \in Nat /\ Cardinality(T) \in Nat
  BY <1>1, FS_Subset, FS_CardinalityType
<1>3. Cardinality(T) = IF i \in S THEN Cardinality(S) - 1 ELSE Cardinality(S)
  <2>1. IsFiniteSet(S) /\ T = S \ {i}
    BY <1>1, <1>2
  <2> HIDE DEF S, T
  <2> QED BY <2>1, FS_RemoveElement
<1>4. i \in S <=> f[i] = x
  OBVIOUS
<1> HIDE DEF S, T
<1>5. Cardinality(S) = Cardinality(T) + (IF f[i] = x THEN 1 ELSE 0)
  BY <1>2, <1>3, <1>4
<1> QED BY <1>5 DEF Times, S, T

\* The bag of what a finite function has counts it.
LEMMA BagCounts ==
  ASSUME NEW f, IsFiniteSet(DOMAIN f)
  PROVE  IsABag(BagOf(f)) /\ \A x : Copies(x, BagOf(f)) = Times(f, x)
<1>1. DOMAIN BagOf(f) = Range(f) /\ \A x \in Range(f) : BagOf(f)[x] = Times(f, x)
  BY DEF BagOf, Times
<1>2. ASSUME NEW x PROVE x \in Range(f) <=> Times(f, x) # 0
  <2> DEFINE S == {i \in DOMAIN f : f[i] = x}
  <2>1. IsFiniteSet(S)
    BY FS_Subset
  <2>2. x \in Range(f) <=> S # {}
    BY DEF Range
  <2> HIDE DEF S
  <2>3. Cardinality(S) = 0 <=> S = {}
    BY <2>1, FS_EmptySet
  <2> QED BY <2>2, <2>3 DEF Times, S
<1>3. \A x \in Range(f) : Times(f, x) \in Nat /\ Times(f, x) > 0
  BY <1>2, TimesTyped
<1>4. BagOf(f) = [x \in Range(f) |-> BagOf(f)[x]]
  BY DEF BagOf
<1>5. IsABag(BagOf(f))
  BY <1>1, <1>3, <1>4 DEF IsABag
<1> HIDE DEF BagOf
<1> QED BY <1>1, <1>2, <1>5 DEF Copies

\* The sum of two bags counts both.
LEMMA SumCounts ==
  ASSUME NEW A, NEW B, IsABag(A), IsABag(B)
  PROVE  IsABag(A (+) B) /\ \A x : Copies(x, A (+) B) = Copies(x, A) + Copies(x, B)
<1>1. /\ \A x \in DOMAIN A : A[x] \in Nat /\ A[x] > 0
      /\ \A x \in DOMAIN B : B[x] \in Nat /\ B[x] > 0
  BY DEF IsABag
<1>2. A (+) B = [e \in DOMAIN A \cup DOMAIN B |->
                   (IF e \in DOMAIN A THEN A[e] ELSE 0) + (IF e \in DOMAIN B THEN B[e] ELSE 0)]
  BY DEF (+)
<1>3. \A e \in DOMAIN A \cup DOMAIN B : (A (+) B)[e] = Copies(e, A) + Copies(e, B)
  BY <1>2 DEF Copies
<1>4. \A x : /\ Copies(x, A) \in Nat /\ Copies(x, B) \in Nat
             /\ x \in DOMAIN A => Copies(x, A) > 0
             /\ x \in DOMAIN B => Copies(x, B) > 0
             /\ x \notin DOMAIN A => Copies(x, A) = 0
             /\ x \notin DOMAIN B => Copies(x, B) = 0
  BY <1>1 DEF Copies
<1>5. DOMAIN (A (+) B) = DOMAIN A \cup DOMAIN B
  BY <1>2
<1> DEFINE S == A (+) B
<1> HIDE DEF S
<1>6. \A e \in DOMAIN S : S[e] \in {n \in Nat : n > 0}
  BY <1>3, <1>4, <1>5 DEF S
<1>7. S = [e \in DOMAIN S |-> S[e]]
  BY <1>2 DEF S
<1>8. IsABag(S)
  BY <1>6, <1>7 DEF IsABag
<1>9. \A x : Copies(x, S) = IF x \in DOMAIN S THEN S[x] ELSE 0
  BY DEF Copies
<1>10. \A x : Copies(x, S) = Copies(x, A) + Copies(x, B)
  BY <1>3, <1>4, <1>5, <1>9 DEF S
<1> QED BY <1>8, <1>10 DEF S

\* Bags that count the same are the same.
LEMMA SameBags ==
  ASSUME NEW A, NEW B, IsABag(A), IsABag(B), \A x : Copies(x, A) = Copies(x, B)
  PROVE  A = B
<1>1. /\ \A x \in DOMAIN A : A[x] \in Nat /\ A[x] > 0
      /\ \A x \in DOMAIN B : B[x] \in Nat /\ B[x] > 0
  BY DEF IsABag
<1>2. \A x : /\ Copies(x, A) = IF x \in DOMAIN A THEN A[x] ELSE 0
             /\ Copies(x, B) = IF x \in DOMAIN B THEN B[x] ELSE 0
  BY DEF Copies
<1>3. \A x : x \in DOMAIN A <=> x \in DOMAIN B
  BY <1>1, <1>2
<1>4. DOMAIN A = DOMAIN B
  BY <1>3
<1>5. \A x \in DOMAIN A : A[x] = B[x]
  BY <1>2, <1>4
<1>6. A = [x \in DOMAIN A |-> A[x]] /\ B = [x \in DOMAIN B |-> B[x]]
  BY DEF IsABag
<1> QED BY <1>4, <1>5, <1>6

\* The rows of a table are finitely many, and so are those a statement removes.
LEMMA RowsFinite ==
  ASSUME Sound
  PROVE  /\ \A t \in Tables : IsFiniteSet(DOMAIN rows[t])
         /\ IsFiniteSet(DOMAIN stmt.remove)
<1>1. \A t \in Tables : IsFiniteSet(DOMAIN rows[t])
  BY TablesAssumption, FS_Subset DEF Sound, TypeOK
<1>2. CASE DOMAIN stmt.remove = {}
  BY <1>1, <1>2, FS_EmptySet
<1>3. CASE DOMAIN stmt.remove # {}
  <2>1. stmt.table \in Tables /\ DOMAIN stmt.remove \subseteq DOMAIN rows[stmt.table]
    BY <1>3, Busy DEF Sound, StatementSound
  <2> QED BY <1>1, <2>1, FS_Subset
<1> QED BY <1>2, <1>3

(***************************************************************************)
(* A statement that begins promises no more and no less than what it will   *)
(* do: the rows its lookup finds are those its clauses describe.            *)
(***************************************************************************)
LEMMA BeginBalanced ==
  ASSUME Sound, NEW t \in Tables, NEW kind, NEW mask,
         NEW remove, NEW add, NEW ok, NEW after,
         Begin([kind |-> kind, table |-> t, mask |-> mask, remove |-> remove, add |-> add], ok, after),
         IsFiniteSet(DOMAIN add), IsABag(after), Balanced(t, remove, add, after)
  PROVE  IsFiniteSet(DOMAIN stmt'.add) /\ Balance'
<1>1. /\ stmt'.table = t /\ stmt'.remove = remove /\ stmt'.add = add
      /\ promise'.after = after /\ rows' = rows
  BY DEF Begin
<1>2. Reading(t)' = Reading(t)
  BY <1>1 DEF Reading, RowAt
<1> QED BY <1>1, <1>2 DEF Balance, Balanced

\* INSERT promises the rows there are and those it was given.
LEMMA InsertBalanced ==
  ASSUME Sound, NEW t \in Tables, NEW lists \in Inserts[t], Insert(t, lists)
  PROVE  IsFiniteSet(DOMAIN stmt'.add) /\ Balance'
<1> DEFINE add   == [k \in DOMAIN lists |-> Converted(t, lists[k])]
           after == RowsOf(t) (+) BagOf(add)
<1>1. IsFiniteSet(DOMAIN add)
  <2>1. DOMAIN lists = 1 .. Len(lists) /\ Len(lists) \in Nat
    BY StatementsAssumption
  <2> QED BY <2>1, FS_Interval
<1>2. Begin([kind |-> "INSERT", table |-> t, mask |-> {}, remove |-> << >>, add |-> add], TRUE, after)
  BY DEF Insert
<1>3. IsFiniteSet(DOMAIN Reading(t))
  BY RowsFinite DEF Reading
<1> HIDE DEF add
<1>4. /\ IsABag(RowsOf(t)) /\ \A x : Copies(x, RowsOf(t)) = Times(Reading(t), x)
      /\ IsABag(BagOf(add)) /\ \A x : Copies(x, BagOf(add)) = Times(add, x)
  BY <1>1, <1>3, BagCounts DEF RowsOf, Reading
<1>5. IsABag(after) /\ \A x : Copies(x, after) = Times(Reading(t), x) + Times(add, x)
  BY <1>4, SumCounts
<1>6. \A x : Times(<< >>, x) = 0
  <2>1. DOMAIN << >> = {} /\ IsFiniteSet({})
    BY FS_EmptySet
  <2> QED BY <2>1, TimesTyped
<1>7. \A x : Times(Reading(t), x) \in Nat /\ Times(add, x) \in Nat
  BY <1>1, <1>3, TimesTyped
<1> HIDE DEF after
<1>8. Balanced(t, << >>, add, after)
  BY <1>5, <1>6, <1>7 DEF Balanced
<1> QED BY <1>1, <1>2, <1>5, <1>8, BeginBalanced

\* The rows a condition finds are those it describes.
LEMMA FoundExactly ==
  ASSUME ReadableTables, Sound, NEW t \in Tables, NEW where \in Conditions[t]
  PROVE  search(t, where) = {r \in DOMAIN rows[t] : Meets(RowAt(t, r), where)}
<1>1. DOMAIN where \subseteq Columns(t) /\ \A c \in DOMAIN where : where[c] \in Value
  BY StatementsAssumption
<1> QED BY <1>1, SearchIsExact

\* DELETE promises the rows that do not meet its clauses.
LEMMA DeleteBalanced ==
  ASSUME ReadableTables, Sound, NEW t \in Tables, NEW where \in Conditions[t], Delete(t, where)
  PROVE  IsFiniteSet(DOMAIN stmt'.add) /\ Balance'
<1> DEFINE found  == search(t, where)
           rest   == {r \in DOMAIN rows[t] : ~ Meets(RowAt(t, r), where)}
           remove == [r \in found |-> RowAt(t, r)]
           stay   == [r \in rest |-> RowAt(t, r)]
<1>1. Begin([kind |-> "DELETE", table |-> t, mask |-> Columns(t), remove |-> remove, add |-> << >>], TRUE, BagOf(stay))
  BY DEF Delete
<1>2. DOMAIN rows[t] = found \cup rest /\ found \cap rest = {}
  BY FoundExactly
<1>3. IsFiniteSet(DOMAIN rows[t]) /\ IsFiniteSet(found) /\ IsFiniteSet(rest)
  BY <1>2, RowsFinite, FS_Subset
<1>4. /\ DOMAIN remove = found /\ \A r \in found : remove[r] = RowAt(t, r)
      /\ DOMAIN stay = rest /\ \A r \in rest : stay[r] = RowAt(t, r)
      /\ DOMAIN Reading(t) = DOMAIN rows[t] /\ \A r \in DOMAIN rows[t] : Reading(t)[r] = RowAt(t, r)
  BY DEF Reading
<1> HIDE DEF found, rest, remove, stay
<1>5. \A x : Times(Reading(t), x) = Times(remove, x) + Times(stay, x)
  <2>1. Parts(Reading(t), remove, stay)
    BY <1>2, <1>4 DEF Parts
  <2>2. IsFiniteSet(DOMAIN Reading(t))
    BY <1>3, <1>4
  <2> QED BY <2>1, <2>2, TimesSplit
<1>6. IsABag(BagOf(stay)) /\ \A x : Copies(x, BagOf(stay)) = Times(stay, x)
  BY <1>3, <1>4, BagCounts
<1>7. DOMAIN << >> = {} /\ IsFiniteSet({})
  BY FS_EmptySet
<1>8. \A x : Times(<< >>, x) = 0
  BY <1>7, TimesTyped
<1>9. \A x : Times(remove, x) \in Nat /\ Times(stay, x) \in Nat
  BY <1>3, <1>4, TimesTyped
<1>10. Balanced(t, remove, << >>, BagOf(stay))
  BY <1>5, <1>6, <1>8, <1>9 DEF Balanced
<1> QED BY <1>1, <1>6, <1>7, <1>10, BeginBalanced

\* UPDATE promises every row, those that meet its clauses with the changes.
LEMMA UpdateBalanced ==
  ASSUME ReadableTables, Sound, NEW t \in Tables, NEW where \in Conditions[t],
         NEW sets \in SetClauses[t], Update(t, sets, where)
  PROVE  IsFiniteSet(DOMAIN stmt'.add) /\ Balance'
<1> DEFINE found == search(t, where)
           rest  == DOMAIN rows[t] \ found
           old   == [r \in found |-> RowAt(t, r)]
           new   == Converted(t, sets)
           add   == [r \in found |-> Changed(t, old[r], new)]
           all   == [r \in DOMAIN rows[t] |->
                       IF Meets(RowAt(t, r), where) THEN Changed(t, RowAt(t, r), new) ELSE RowAt(t, r)]
           stay  == [r \in rest |-> RowAt(t, r)]
<1>1. PICK ok : Begin([kind |-> "UPDATE", table |-> t, mask |-> DOMAIN sets, remove |-> old, add |-> add], ok, BagOf(all))
  BY DEF Update
<1>2. found \subseteq DOMAIN rows[t] /\ \A r \in DOMAIN rows[t] : r \in found <=> Meets(RowAt(t, r), where)
  BY FoundExactly
<1>3. IsFiniteSet(DOMAIN rows[t]) /\ IsFiniteSet(found) /\ IsFiniteSet(rest)
  BY <1>2, RowsFinite, FS_Subset
<1>4. /\ DOMAIN old = found /\ \A r \in found : old[r] = RowAt(t, r)
      /\ DOMAIN stay = rest /\ \A r \in rest : stay[r] = RowAt(t, r)
      /\ DOMAIN add = found /\ \A r \in found : add[r] = Changed(t, RowAt(t, r), new)
      /\ DOMAIN all = DOMAIN rows[t]
      /\ DOMAIN Reading(t) = DOMAIN rows[t] /\ \A r \in DOMAIN rows[t] : Reading(t)[r] = RowAt(t, r)
  BY DEF Reading
<1>5. (\A r \in found : all[r] = add[r]) /\ \A r \in rest : all[r] = stay[r]
  BY <1>2, <1>4
<1>6. DOMAIN rows[t] = found \cup rest /\ found \cap rest = {}
  BY <1>2
<1> HIDE DEF found, rest, old, new, add, all, stay
<1>7. \A x : Times(Reading(t), x) = Times(old, x) + Times(stay, x)
  <2>1. Parts(Reading(t), old, stay)
    BY <1>4, <1>6 DEF Parts
  <2>2. IsFiniteSet(DOMAIN Reading(t))
    BY <1>3, <1>4
  <2> QED BY <2>1, <2>2, TimesSplit
<1>8. \A x : Times(all, x) = Times(add, x) + Times(stay, x)
  <2>1. Parts(all, add, stay)
    BY <1>4, <1>5, <1>6 DEF Parts
  <2>2. IsFiniteSet(DOMAIN all)
    BY <1>3, <1>4
  <2> QED BY <2>1, <2>2, TimesSplit
<1>9. IsABag(BagOf(all)) /\ \A x : Copies(x, BagOf(all)) = Times(all, x)
  BY <1>3, <1>4, BagCounts
<1>10. \A x : Times(old, x) \in Nat /\ Times(stay, x) \in Nat /\ Times(add, x) \in Nat
  BY <1>3, <1>4, TimesTyped
<1>11. Balanced(t, old, add, BagOf(all))
  BY <1>7, <1>8, <1>9, <1>10 DEF Balanced
<1> QED BY <1>1, <1>3, <1>4, <1>9, <1>11, BeginBalanced

\* A row that is removed is no longer owed, a row that is refused is an error.
LEMMA RemoveBalanced ==
  ASSUME Sound, IsFiniteSet(DOMAIN stmt.add), Balance, RemoveNext
  PROVE  IsFiniteSet(DOMAIN stmt'.add) /\ Balance'
<1> SUFFICES ASSUME NEW t, t = stmt.table,
                    NEW r, r = Min(DOMAIN stmt.remove),
                    NEW values, values = stmt.remove[r],
                    NEW left, left = Restrict(stmt.remove, DOMAIN stmt.remove \ {r})
             PROVE  IsFiniteSet(DOMAIN stmt'.add) /\ Balance'
  OBVIOUS
<1>1. DOMAIN stmt.remove # {} /\ stmt' = [stmt EXCEPT !.remove = left] /\ UNCHANGED promise
  BY DEF RemoveNext
<1>2. t \in Tables /\ stmt # NoStatement /\ DOMAIN stmt = {"kind", "table", "mask", "remove", "add"}
  BY <1>1, Busy
<1>3. r \in DOMAIN stmt.remove /\ r \in DOMAIN rows[t] /\ values = RowAt(t, r)
  <2>1. DOMAIN stmt.remove \subseteq DOMAIN rows[t] /\ DOMAIN rows[t] \subseteq Nat
    BY <1>2, TablesAssumption DEF Sound, StatementSound, TypeOK
  <2>2. r \in DOMAIN stmt.remove
    BY <1>1, <2>1, LeastExists
  <2> QED BY <1>2, <2>1, <2>2 DEF Sound, StatementSound
<1>4. /\ stmt'.remove = left /\ stmt'.add = stmt.add /\ stmt'.table = t
      /\ DOMAIN left = DOMAIN stmt.remove \ {r} /\ \A q \in DOMAIN left : left[q] = stmt.remove[q]
  BY <1>1, <1>2 DEF Restrict
<1>5. CASE flag' = FALSE
  BY <1>4, <1>5 DEF Balance, Balanced
<1>6. CASE rows' = [rows EXCEPT ![t] = Restrict(@, DOMAIN @ \ {r})] /\ UNCHANGED flag
  <2> SUFFICES ASSUME flag, NEW x
               PROVE  Times(Reading(t)', x) + Times(stmt.add, x) = Copies(x, promise.after) + Times(left, x)
    BY <1>1, <1>2, <1>4, <1>6 DEF Balance, Balanced
  <2>1. /\ DOMAIN rows'[t] = DOMAIN rows[t] \ {r}
        /\ \A q \in DOMAIN rows'[t] : rows'[t][q] = rows[t][q]
    BY <1>2, <1>6 DEF Restrict, Sound, Functional
  <2>2. \A q \in DOMAIN rows'[t] : RowAt(t, q)' = RowAt(t, q)
    BY <2>1 DEF RowAt
  <2>3. /\ DOMAIN Reading(t) = DOMAIN rows[t] /\ Reading(t)[r] = values
        /\ DOMAIN Reading(t)' = DOMAIN Reading(t) \ {r}
        /\ \A q \in DOMAIN Reading(t)' : Reading(t)'[q] = Reading(t)[q]
    BY <1>3, <2>1, <2>2 DEF Reading
  <2>4. IsFiniteSet(DOMAIN Reading(t)) /\ IsFiniteSet(DOMAIN stmt.remove)
    BY <1>2, <2>3, RowsFinite
  <2>5. IsFiniteSet(DOMAIN Reading(t)') /\ IsFiniteSet(DOMAIN left)
    BY <1>4, <2>3, <2>4, FS_RemoveElement
  <2>6. Times(Reading(t), x) = Times(Reading(t)', x) + (IF values = x THEN 1 ELSE 0)
    BY <1>3, <2>3, <2>4, TimesWithout
  <2>7. Times(stmt.remove, x) = Times(left, x) + (IF values = x THEN 1 ELSE 0)
    <3> DEFINE f == stmt.remove
    <3>1. /\ r \in DOMAIN f /\ f[r] = values /\ IsFiniteSet(DOMAIN f)
          /\ DOMAIN left = DOMAIN f \ {r} /\ \A q \in DOMAIN left : left[q] = f[q]
      BY <1>3, <1>4, <2>4
    <3> HIDE DEF f
    <3>2. Times(f, x) = Times(left, x) + (IF f[r] = x THEN 1 ELSE 0)
      BY <3>1, TimesWithout
    <3> QED BY <3>1, <3>2 DEF f
  <2>8. /\ Times(Reading(t), x) \in Nat /\ Times(Reading(t)', x) \in Nat /\ Times(stmt.add, x) \in Nat
        /\ Times(left, x) \in Nat /\ Times(stmt.remove, x) \in Nat
    BY <2>4, <2>5, TimesTyped
  <2>9. /\ Times(Reading(t), x) + Times(stmt.add, x) = Copies(x, promise.after) + Times(stmt.remove, x)
        /\ IsABag(promise.after)
    BY <1>2 DEF Balance, Balanced
  <2>10. Copies(x, promise.after) \in Nat
    BY <2>9 DEF Copies, IsABag
  <2> QED BY <2>6, <2>7, <2>8, <2>9, <2>10
<1> QED BY <1>5, <1>6 DEF RemoveNext

\* A row that is inserted is no longer owed, a row that is refused is an error.
LEMMA InsertNextBalanced ==
  ASSUME ReadableTables, Sound, IsFiniteSet(DOMAIN stmt.add), Balance, InsertNext
  PROVE  IsFiniteSet(DOMAIN stmt'.add) /\ Balance'
<1> SUFFICES ASSUME NEW t, t = stmt.table,
                    NEW k, k = Min(DOMAIN stmt.add),
                    NEW values, values = stmt.add[k],
                    NEW left, left = Restrict(stmt.add, DOMAIN stmt.add \ {k})
             PROVE  IsFiniteSet(DOMAIN stmt'.add) /\ Balance'
  OBVIOUS
<1>1. /\ DOMAIN stmt.remove = {} /\ DOMAIN stmt.add # {}
      /\ stmt' = [stmt EXCEPT !.add = left] /\ UNCHANGED promise
  BY DEF InsertNext
<1>2. t \in Tables /\ stmt # NoStatement /\ DOMAIN stmt = {"kind", "table", "mask", "remove", "add"}
  BY <1>1, Busy
<1>3. k \in DOMAIN stmt.add /\ values \in [DOMAIN values -> Value]
  BY <1>1, LeastExists DEF Sound, StatementSound
<1>4. /\ stmt'.remove = stmt.remove /\ stmt'.add = left /\ stmt'.table = t
      /\ DOMAIN left = DOMAIN stmt.add \ {k} /\ \A j \in DOMAIN left : left[j] = stmt.add[j]
  BY <1>1, <1>2 DEF Restrict
<1>5. IsFiniteSet(DOMAIN left)
  BY <1>4, FS_RemoveElement
<1>6. CASE flag' = FALSE
  BY <1>4, <1>5, <1>6 DEF Balance, Balanced
<1>7. ASSUME validate_insert_data(t, values), UNCHANGED flag,
             NEW r \in Rids \ DOMAIN rows[t],
             rows' = [rows EXCEPT ![t] = [q \in DOMAIN @ \cup {r} |-> IF q = r THEN values ELSE @[q]]]
      PROVE  Balance'
  <2> SUFFICES ASSUME flag, NEW x
               PROVE  Times(Reading(t)', x) + Times(left, x) = Copies(x, promise.after) + Times(stmt.remove, x)
    BY <1>1, <1>2, <1>4, <1>7 DEF Balance, Balanced
  <2>1. /\ DOMAIN rows'[t] = DOMAIN rows[t] \cup {r}
        /\ rows'[t][r] = values
        /\ \A q \in DOMAIN rows[t] : rows'[t][q] = rows[t][q]
    BY <1>2, <1>7 DEF Sound, Functional
  <2>2. RowAt(t, r)' = values
    <3>1. IsRow(Fields[t], values) /\ \A c \in Columns(t) : isNull(values[c]) => c \in Nullables[t]
      BY <1>2, <1>3, <1>7, AcceptedIsRow
    <3>2. Read(t, values) = values
      BY <1>2, <3>1, RowIsReadBack
    <3> QED BY <2>1, <3>2 DEF RowAt
  <2>3. \A q \in DOMAIN rows[t] : RowAt(t, q)' = RowAt(t, q)
    BY <2>1 DEF RowAt
  <2>4. /\ DOMAIN Reading(t) = DOMAIN Reading(t)' \ {r} /\ r \in DOMAIN Reading(t)' /\ Reading(t)'[r] = values
        /\ \A q \in DOMAIN Reading(t) : Reading(t)[q] = Reading(t)'[q]
        /\ DOMAIN Reading(t) = DOMAIN rows[t] /\ DOMAIN Reading(t)' = DOMAIN rows[t] \cup {r}
    BY <2>1, <2>2, <2>3 DEF Reading
  <2>5. IsFiniteSet(DOMAIN Reading(t)) /\ IsFiniteSet(DOMAIN stmt.remove)
    BY <1>2, <2>4, RowsFinite
  <2>6. IsFiniteSet(DOMAIN Reading(t)')
    BY <2>4, <2>5, FS_AddElement
  <2>7. Times(Reading(t)', x) = Times(Reading(t), x) + (IF values = x THEN 1 ELSE 0)
    BY <2>4, <2>6, TimesWithout
  <2>8. Times(stmt.add, x) = Times(left, x) + (IF values = x THEN 1 ELSE 0)
    BY <1>3, <1>4, TimesWithout
  <2>9. /\ Times(Reading(t), x) \in Nat /\ Times(Reading(t)', x) \in Nat /\ Times(stmt.add, x) \in Nat
        /\ Times(left, x) \in Nat /\ Times(stmt.remove, x) \in Nat
    BY <1>5, <2>5, <2>6, TimesTyped
  <2>10. /\ Times(Reading(t), x) + Times(stmt.add, x) = Copies(x, promise.after) + Times(stmt.remove, x)
         /\ IsABag(promise.after)
    BY <1>2 DEF Balance, Balanced
  <2>11. Copies(x, promise.after) \in Nat
    BY <2>10 DEF Copies, IsABag
  <2> QED BY <2>7, <2>8, <2>9, <2>10, <2>11
<1> QED BY <1>4, <1>5, <1>6, <1>7 DEF InsertNext

\* Every step keeps the balance.
LEMMA BalanceKept ==
  ASSUME ReadableTables, DoneInv, [Next]_vars
  PROVE  DoneInv'
<1>1. Sound'
  BY SoundKept DEF DoneInv
<1>2. ASSUME UNCHANGED <<rows, stmt, flag, promise>> PROVE IsFiniteSet(DOMAIN stmt'.add) /\ Balance'
  <2>1. Reading(stmt.table)' = Reading(stmt.table)
    BY <1>2 DEF Reading, RowAt
  <2> QED BY <1>2, <2>1 DEF DoneInv, Balance, Balanced
<1>3. ASSUME NEW t \in Tables, NEW entry, Alter(t, entry) PROVE IsFiniteSet(DOMAIN stmt'.add) /\ Balance'
  BY <1>2, <1>3 DEF Alter
<1>4. ASSUME NEW t \in Tables,
             \/ \E c \in Columns(t) : create_index(t, c) \/ drop_index(t, c)
             \/ \E s \in Keys[t] : add_primary_key(t, s) \/ add_unique(t, s)
             \/ drop_primary_key(t)
             \/ \E f \in ForeignKeys[t] : add_foreign_key(t, f) \/ drop_foreign_key(t, f)
      PROVE  IsFiniteSet(DOMAIN stmt'.add) /\ Balance'
  <2>1. CASE \E c \in Columns(t) : drop_index(t, c)
    BY <1>2, <2>1 DEF drop_index
  <2>2. CASE ~ \E c \in Columns(t) : drop_index(t, c)
    <3>1. \E entry : Alter(t, entry)
      BY <1>4, <2>2 DEF create_index, add_primary_key, add_unique, drop_primary_key, add_foreign_key, drop_foreign_key
    <3> QED BY <1>3, <3>1
  <2> QED BY <2>1, <2>2
<1>5. ASSUME NEW t \in Tables, \E lists \in Inserts[t] : Insert(t, lists)
      PROVE  IsFiniteSet(DOMAIN stmt'.add) /\ Balance'
  BY <1>5, InsertBalanced DEF DoneInv
<1>6. ASSUME NEW t \in Tables, \E w \in Conditions[t] : Delete(t, w)
      PROVE  IsFiniteSet(DOMAIN stmt'.add) /\ Balance'
  BY <1>6, DeleteBalanced DEF DoneInv
<1>7. ASSUME NEW t \in Tables, \E w \in Conditions[t], sets \in SetClauses[t] : Update(t, sets, w)
      PROVE  IsFiniteSet(DOMAIN stmt'.add) /\ Balance'
  BY <1>7, UpdateBalanced DEF DoneInv
<1>8. ASSUME RemoveNext PROVE IsFiniteSet(DOMAIN stmt'.add) /\ Balance'
  BY <1>8, RemoveBalanced DEF DoneInv
<1>9. ASSUME InsertNext PROVE IsFiniteSet(DOMAIN stmt'.add) /\ Balance'
  BY <1>9, InsertNextBalanced DEF DoneInv
<1>10. ASSUME EndStatement PROVE IsFiniteSet(DOMAIN stmt'.add) /\ Balance'
  <2>1. stmt' = NoStatement /\ DOMAIN << >> = {}
    BY <1>10 DEF EndStatement
  <2> QED BY <2>1, FS_EmptySet DEF Balance, Balanced, NoStatement
<1>11. ASSUME UNCHANGED vars PROVE IsFiniteSet(DOMAIN stmt'.add) /\ Balance'
  BY <1>2, <1>11 DEF vars
<1>12. IsFiniteSet(DOMAIN stmt'.add) /\ Balance'
  BY <1>4, <1>5, <1>6, <1>7, <1>8, <1>9, <1>10, <1>11, Zenon DEF Next
<1> QED BY <1>1, <1>12 DEF DoneInv

(***************************************************************************)
(* A statement that ends without an error has done what it says, to every   *)
(* row it describes and to no other: INSERT, DELETE and UPDATE.             *)
(***************************************************************************)
THEOREM AcceptedIsDone ==
  ASSUME ReadableTables
  PROVE  Spec => []AcceptedStatementDone
<1>1. Init => DoneInv
  <2> SUFFICES ASSUME Init PROVE DoneInv
    OBVIOUS
  <2>1. stmt = NoStatement /\ DOMAIN << >> = {}
    BY DEF Init
  <2> QED BY <2>1, InitSound, FS_EmptySet DEF DoneInv, Balance, Balanced, NoStatement
<1>2. DoneInv /\ [Next]_vars => DoneInv'
  BY BalanceKept
<1>3. DoneInv => AcceptedStatementDone
  <2> SUFFICES ASSUME DoneInv, Idle, flag, stmt.kind # "NONE" PROVE RowsOf(stmt.table) = promise.after
    BY DEF AcceptedStatementDone
  <2>1. stmt # NoStatement /\ stmt.table \in Tables
    BY DEF NoStatement, DoneInv, Sound, StatementSound
  <2>2. DOMAIN stmt.remove = {} /\ DOMAIN stmt.add = {}
    BY DEF Idle
  <2>3. \A x : Times(stmt.remove, x) = 0 /\ Times(stmt.add, x) = 0
    BY <2>2, TimesTyped, FS_EmptySet
  <2>4. /\ IsABag(promise.after)
        /\ \A x : Times(Reading(stmt.table), x) + Times(stmt.add, x) = Copies(x, promise.after) + Times(stmt.remove, x)
    BY <2>1 DEF DoneInv, Balance, Balanced
  <2>5. IsFiniteSet(DOMAIN Reading(stmt.table))
    BY <2>1, RowsFinite DEF DoneInv, Reading
  <2>6. IsABag(RowsOf(stmt.table)) /\ \A x : Copies(x, RowsOf(stmt.table)) = Times(Reading(stmt.table), x)
    BY <2>5, BagCounts DEF RowsOf, Reading
  <2>7. \A x : Copies(x, promise.after) \in Nat /\ Times(Reading(stmt.table), x) \in Nat
    BY <2>4, <2>5, TimesTyped DEF Copies, IsABag
  <2>8. \A x : Copies(x, RowsOf(stmt.table)) = Copies(x, promise.after)
    BY <2>3, <2>4, <2>6, <2>7
  <2> QED BY <2>4, <2>6, <2>8, SameBags
<1> QED BY <1>1, <1>2, <1>3, PTL DEF Spec
=============================================================================
