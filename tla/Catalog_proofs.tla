---------------------------- MODULE Catalog_proofs ----------------------------
(***************************************************************************)
(* The catalog stays consistent, for every set of names, schemas and        *)
(* clauses, every list of clauses of CREATE TABLE, and every limit: what is *)
(* proved of a statement is proved of what it makes of the entry of one     *)
(* table (Good), then of the mapping (IsMapping), then of the catalog.      *)
(***************************************************************************)
EXTENDS Catalog, FiniteSetTheorems, WellFoundedInduction, TLAPS

Column == [name : Columns \cup {NoName}, nullable : BOOLEAN, indexed : BOOLEAN]

\* The tables an entry refers to.
ForeignIds(t) == {t.foreign[i].foreign_table_id : i \in DOMAIN t.foreign}

\* The entry of a table, or a slot that no table has: no two columns have one name.
IsEntry(t) ==
  /\ t = [id |-> t.id, name |-> t.name, field_count |-> t.field_count, column |-> t.column,
          unique |-> t.unique, primary |-> t.primary, foreign |-> t.foreign]
  /\ t.id \in 0 .. MaxId
  /\ t.field_count \in 0 .. MAX_COLUMN_COUNT
  /\ t.column \in [1 .. MAX_COLUMN_COUNT -> Column]
  /\ t.foreign \in Seq(ToSet(t.foreign))
  /\ \A i, j \in 1 .. t.field_count : t.column[i].name = t.column[j].name => i = j

\* The index files of a table are among F.
HasFiles(db, t, F) ==
  \A i \in 1 .. t.field_count : t.column[i].indexed => IndexFileOf(db, t.id, t.column[i].name) \in F

(***************************************************************************)
(* A clause leaves a table its name and its columns, creates the file of    *)
(* every index it makes, and refers to tables there are.                    *)
(***************************************************************************)
Good(info, outcome, ids) ==
  /\ IsEntry(outcome.info)
  /\ outcome = Outcome(outcome.ok, outcome.info, outcome.files)
  /\ outcome.info.id = info.id /\ outcome.info.name = info.name
  /\ outcome.info.field_count = info.field_count
  /\ \A i \in 1 .. info.field_count :
       /\ outcome.info.column[i].name = info.column[i].name
       /\ outcome.info.column[i].indexed =>
            \/ info.column[i].indexed
            \/ IndexFileOf(current_db, info.id, info.column[i].name) \in outcome.files
  /\ ForeignIds(outcome.info) \subseteq ForeignIds(info) \cup ids
  /\ \A f \in outcome.files : f[1] = current_db

\* What a clause that is refused leaves is the entry but for NOT NULLs more.
Harmless(info, outcome) ==
  /\ AllNullable(outcome.info) = AllNullable(info)
  /\ \A c \in 1 .. MAX_COLUMN_COUNT : outcome.info.column[c].nullable => info.column[c].nullable

\* The mapping of a database: its tables are apart, and refer to one another.
IsMapping(m) ==
  /\ m = [count |-> m.count, slot |-> m.slot]
  /\ m.count \in 0 .. MaxTables
  /\ m.slot = [i \in 1 .. MaxTables |-> m.slot[i]]
  /\ \A i \in 1 .. MaxTables : IsEntry(m.slot[i])
  /\ \A i \in 1 .. m.count : m.slot[i].id \in 1 .. MaxId /\ m.slot[i].name \in TableNames
  /\ \A i, j \in 1 .. m.count : i # j => m.slot[i].id # m.slot[j].id /\ m.slot[i].name # m.slot[j].name
  /\ \A i \in 1 .. m.count : ForeignIds(m.slot[i]) \subseteq IdsOf(Tables(m))

\* The files of all tables of a database are among F.
FilesBehind(db, m, F) ==
  \A i \in 1 .. m.count : RecordFileOf(db, m.slot[i].id) \in F /\ HasFiles(db, m.slot[i], F)

\* The mapping s says of the tables what m does, but for NOT NULLs.
SameTables(s, m) ==
  /\ s.count = m.count
  /\ \A i \in 1 .. m.count :
       /\ AllNullable(s.slot[i]) = AllNullable(m.slot[i])
       /\ \A c \in 1 .. MAX_COLUMN_COUNT : m.slot[i].column[c].nullable => s.slot[i].column[c].nullable

Ids == IdsOf(Databases)

\* The databases are apart, each has a mapping in memory and one in its file.
DatabasesSound ==
  /\ db_mapping \in Seq([id : 1 .. MaxId, name : DbNames])
  /\ \A i, j \in DOMAIN db_mapping : db_mapping[i].id = db_mapping[j].id => i = j
  /\ saved_dbs = db_mapping
  /\ current_db \in Ids \cup {StrayDb, NoDb}
  /\ Ids \subseteq DOMAIN table_mapping_map /\ DOMAIN table_mapping_map \subseteq Ids \cup {StrayDb}
  /\ Ids \subseteq DOMAIN saved_tables /\ DOMAIN saved_tables \subseteq Ids \cup {StrayDb}

MappingsSound ==
  /\ \A db \in DOMAIN table_mapping_map :
       IsMapping(table_mapping_map[db]) /\ FilesBehind(db, table_mapping_map[db], files)
  /\ \A db \in Ids : IsMapping(saved_tables[db]) /\ SameTables(saved_tables[db], table_mapping_map[db])

CInv == DatabasesSound /\ MappingsSound
-----------------------------------------------------------------------------
\* A slot that no table has is an entry.
LEMMA EmptyIsEntry ==
  /\ IsEntry(EmptySlot) /\ IsMapping(EmptyMapping) /\ EmptyMapping.count = 0
  /\ EmptySlot.foreign = << >> /\ EmptySlot.field_count = 0 /\ EmptySlot.column = [i \in 1 .. MAX_COLUMN_COUNT |-> AColumn]
<1>1. AColumn \in Column
  BY DEF AColumn, Column
<1>2. IsEntry(EmptySlot)
  BY <1>1, CatalogAssumption DEF IsEntry, EmptySlot
<1>3. IsMapping(EmptyMapping)
  BY <1>2, CatalogAssumption DEF IsMapping, EmptyMapping
<1> QED BY <1>2, <1>3 DEF EmptyMapping, EmptySlot

\* An entry, and what becomes of it when one of its fields is replaced.
Fields(id, name, count, column, unique, primary, foreign) ==
  [id |-> id, name |-> name, field_count |-> count, column |-> column,
   unique |-> unique, primary |-> primary, foreign |-> foreign]

\* A field is replaced, the others stay.
LEMMA FieldReplaced ==
  ASSUME NEW t, IsEntry(t), NEW v
  PROVE  /\ [t EXCEPT !.column = v]  = Fields(t.id, t.name, t.field_count, v, t.unique, t.primary, t.foreign)
         /\ [t EXCEPT !.unique = v]  = Fields(t.id, t.name, t.field_count, t.column, v, t.primary, t.foreign)
         /\ [t EXCEPT !.primary = v] = Fields(t.id, t.name, t.field_count, t.column, t.unique, v, t.foreign)
         /\ [t EXCEPT !.foreign = v] = Fields(t.id, t.name, t.field_count, t.column, t.unique, t.primary, v)
<1>1. t = [id |-> t.id, name |-> t.name, field_count |-> t.field_count, column |-> t.column,
           unique |-> t.unique, primary |-> t.primary, foreign |-> t.foreign]
  BY DEF IsEntry
<1>2. [t EXCEPT !.column = v] = Fields(t.id, t.name, t.field_count, v, t.unique, t.primary, t.foreign)
  BY <1>1 DEF Fields
<1>3. [t EXCEPT !.unique = v] = Fields(t.id, t.name, t.field_count, t.column, v, t.primary, t.foreign)
  BY <1>1 DEF Fields
<1>4. [t EXCEPT !.primary = v] = Fields(t.id, t.name, t.field_count, t.column, t.unique, v, t.foreign)
  BY <1>1 DEF Fields
<1>5. [t EXCEPT !.foreign = v] = Fields(t.id, t.name, t.field_count, t.column, t.unique, t.primary, v)
  BY <1>1 DEF Fields
<1> QED BY <1>2, <1>3, <1>4, <1>5

\* The primary keys and the unique constraints of an entry may be any.
LEMMA KeysAreFree ==
  ASSUME NEW t, IsEntry(t), NEW v
  PROVE  IsEntry([t EXCEPT !.primary = v]) /\ IsEntry([t EXCEPT !.unique = v])
<1> DEFINE p == Fields(t.id, t.name, t.field_count, t.column, t.unique, v, t.foreign)
           u == Fields(t.id, t.name, t.field_count, t.column, v, t.primary, t.foreign)
<1>1. IsEntry(p)
  BY DEF IsEntry, Fields
<1>2. IsEntry(u)
  BY DEF IsEntry, Fields
<1>3. [t EXCEPT !.primary = v] = p /\ [t EXCEPT !.unique = v] = u
  BY FieldReplaced
<1> HIDE DEF p, u
<1> QED BY <1>1, <1>2, <1>3

\* Columns that keep their names are columns of an entry still.
LEMMA ColumnsReplaced ==
  ASSUME NEW t, IsEntry(t), NEW v \in [1 .. MAX_COLUMN_COUNT -> Column],
         \A i \in 1 .. t.field_count : v[i].name = t.column[i].name
  PROVE  IsEntry([t EXCEPT !.column = v])
<1>1. IsEntry(Fields(t.id, t.name, t.field_count, v, t.unique, t.primary, t.foreign))
  BY DEF IsEntry, Fields
<1> QED BY <1>1, FieldReplaced

\* A sequence of references takes the place of another.
LEMMA ForeignReplaced ==
  ASSUME NEW t, IsEntry(t), NEW S, NEW s \in Seq(S)
  PROVE  /\ IsEntry([t EXCEPT !.foreign = s])
         /\ ForeignIds([t EXCEPT !.foreign = s]) = {s[i].foreign_table_id : i \in DOMAIN s}
<1> DEFINE n == Fields(t.id, t.name, t.field_count, t.column, t.unique, t.primary, s)
<1>1. s \in Seq(ToSet(s))
  BY DEF ToSet
<1>2. IsEntry(n)
  BY <1>1 DEF IsEntry, Fields
<1>3. n.foreign = s
  BY DEF Fields
<1>4. ForeignIds(n) = {s[i].foreign_table_id : i \in DOMAIN s}
  BY <1>3 DEF ForeignIds
<1>5. [t EXCEPT !.foreign = s] = n
  BY FieldReplaced
<1> HIDE DEF n
<1> QED BY <1>2, <1>4, <1>5

\* An entry refers to the tables it did, and to one more.
LEMMA ForeignAppended ==
  ASSUME NEW t, IsEntry(t), NEW e
  PROVE  /\ IsEntry([t EXCEPT !.foreign = Append(@, e)])
         /\ ForeignIds([t EXCEPT !.foreign = Append(@, e)]) \subseteq ForeignIds(t) \cup {e.foreign_table_id}
<1> DEFINE s == t.foreign
           a == Append(s, e)
<1>1. s \in Seq(ToSet(s) \cup {e})
  BY DEF IsEntry, ToSet
<1>2. a \in Seq(ToSet(s) \cup {e}) /\ DOMAIN a = 1 .. Len(s) + 1
      /\ \A i \in DOMAIN a : a[i] = IF i <= Len(s) THEN s[i] ELSE e
  BY <1>1
<1>3. DOMAIN s = 1 .. Len(s) /\ Len(s) \in Nat
  BY <1>1
<1> HIDE DEF a
<1>4. /\ IsEntry([t EXCEPT !.foreign = a])
      /\ ForeignIds([t EXCEPT !.foreign = a]) = {a[i].foreign_table_id : i \in DOMAIN a}
  BY <1>2, ForeignReplaced
<1>5. {a[i].foreign_table_id : i \in DOMAIN a}
        \subseteq {s[i].foreign_table_id : i \in DOMAIN s} \cup {e.foreign_table_id}
  <2> SUFFICES ASSUME NEW i \in DOMAIN a
               PROVE  a[i].foreign_table_id \in {s[j].foreign_table_id : j \in DOMAIN s} \cup {e.foreign_table_id}
    OBVIOUS
  <2>1. CASE i <= Len(s)
    <3>1. i \in DOMAIN s /\ a[i] = s[i]
      BY <1>2, <1>3, <2>1
    <3> QED BY <3>1
  <2>2. CASE ~ (i <= Len(s))
    BY <1>2, <2>2
  <2> QED BY <2>1, <2>2
<1> QED BY <1>4, <1>5 DEF a, ForeignIds
-----------------------------------------------------------------------------
\* A column of the table is found by its name; one too many means none is.
LEMMA ColumnFound ==
  ASSUME NEW t, IsEntry(t), NEW c
  PROVE  LET i == find_column_by_name(t, c)
         IN  i \in 1 .. t.field_count + 1 /\ (i <= t.field_count => t.column[i].name = c)
<1> DEFINE at == {i \in 1 .. t.field_count : t.column[i].name = c}
<1>1. t.field_count \in Nat
  BY CatalogAssumption DEF IsEntry
<1>2. CASE at = {}
  BY <1>1, <1>2 DEF find_column_by_name
<1>3. CASE at # {}
  <2>1. find_column_by_name(t, c) \in at
    BY <1>3 DEF find_column_by_name
  <2> QED BY <2>1, <1>1
<1> QED BY <1>2, <1>3

\* What becomes of the columns of an entry when it gets an index on those of at.
WithIndex(t, at) ==
  [i \in DOMAIN t.column |-> IF i \in at THEN [t.column[i] EXCEPT !.indexed = TRUE] ELSE t.column[i]]

\* A new index has its file.
LEMMA AddIndexGood ==
  ASSUME NEW info, IsEntry(info), NEW at, at \subseteq 1 .. info.field_count, NEW ids
  PROVE  Good(info, add_index(info, at), ids) /\ add_index(info, at).ok
<1> DEFINE v == WithIndex(info, at)
           n == [info EXCEPT !.column = v]
           F == {IndexFileOf(current_db, info.id, info.column[i].name) : i \in at}
<1>1. add_index(info, at) = Outcome(TRUE, n, F)
  BY DEF add_index, WithIndex
<1>2. info.column \in [1 .. MAX_COLUMN_COUNT -> Column] /\ 1 .. info.field_count \subseteq 1 .. MAX_COLUMN_COUNT
  BY CatalogAssumption DEF IsEntry
<1>3. /\ v \in [1 .. MAX_COLUMN_COUNT -> Column]
      /\ \A i \in 1 .. MAX_COLUMN_COUNT :
           v[i].name = info.column[i].name /\ (v[i].indexed => i \in at \/ info.column[i].indexed)
  <2>1. \A i \in 1 .. MAX_COLUMN_COUNT : info.column[i] \in Column
    BY <1>2
  <2>2. \A col \in Column : /\ [col EXCEPT !.indexed = TRUE] \in Column
                            /\ [col EXCEPT !.indexed = TRUE].name = col.name
    BY DEF Column
  <2>3. DOMAIN info.column = 1 .. MAX_COLUMN_COUNT
    BY <1>2
  <2> QED BY <2>1, <2>2, <2>3 DEF WithIndex
<1> HIDE DEF v
<1>4. IsEntry(n)
  BY <1>2, <1>3, ColumnsReplaced
<1>5. /\ n.column = v /\ n.id = info.id /\ n.name = info.name
      /\ n.field_count = info.field_count /\ n.foreign = info.foreign
  BY FieldReplaced DEF Fields
<1> HIDE DEF n
<1>6. ForeignIds(n) = ForeignIds(info)
  BY <1>5 DEF ForeignIds
<1>7. \A f \in F : f[1] = current_db
  BY DEF IndexFileOf
<1> DEFINE o == Outcome(TRUE, n, F)
<1>8. o.ok = TRUE /\ o.info = n /\ o.files = F
  BY DEF Outcome
<1>9. ASSUME NEW i \in 1 .. info.field_count
      PROVE  /\ n.column[i].name = info.column[i].name
             /\ n.column[i].indexed =>
                  info.column[i].indexed \/ IndexFileOf(current_db, info.id, info.column[i].name) \in F
  BY <1>2, <1>3, <1>5
<1> HIDE DEF F
<1>10. Good(info, o, ids)
  BY <1>4, <1>5, <1>6, <1>7, <1>8, <1>9 DEF Good
<1> QED BY <1>1, <1>8, <1>10

\* What a clause does to an entry that is as good as another does it to that.
LEMMA GoodFrom ==
  ASSUME NEW info, NEW x, NEW o, NEW ids, Good(x, o, ids),
         x.id = info.id, x.name = info.name, x.field_count = info.field_count,
         \A i \in 1 .. info.field_count :
           x.column[i].name = info.column[i].name /\ (x.column[i].indexed => info.column[i].indexed),
         ForeignIds(x) \subseteq ForeignIds(info) \cup ids
  PROVE  Good(info, o, ids)
BY DEF Good

\* A clause that is refused without a trace.
LEMMA RefusedGood ==
  ASSUME NEW info, IsEntry(info), NEW ids
  PROVE  /\ Good(info, Refused(info), ids) /\ Harmless(info, Refused(info))
         /\ Refused(info).ok = FALSE /\ Refused(info).files = {} /\ Refused(info).info = info
BY DEF Good, Harmless, Refused, Outcome

\* The indexes of a constraint's columns.
LEMMA IndexedGood ==
  ASSUME NEW info, IsEntry(info), NEW columns, HasAll(info, columns), NEW ids
  PROVE  Good(info, Indexed(info, columns), ids) /\ Indexed(info, columns).ok
<1> DEFINE at == {i \in Numbers(info, columns) : /\ info.column[i].name \in IntColumns
                                                 /\ ~ info.column[i].indexed}
<1>1. at \subseteq 1 .. info.field_count
  BY DEF HasAll
<1>2. Indexed(info, columns) = add_index(info, at)
  BY DEF Indexed
<1> HIDE DEF at
<1> QED BY <1>1, <1>2, AddIndexGood

\* What the columns of a primary key become as far as they are found.
Bound(info, S) ==
  [info EXCEPT !.column = [i \in DOMAIN @ |->
     IF i \in S THEN [@[i] EXCEPT !.nullable = FALSE] ELSE @[i]]]

\* A column that becomes NOT NULL stays what it was otherwise.
LEMMA BoundGood ==
  ASSUME NEW info, IsEntry(info), NEW S, NEW bound, bound = Bound(info, S)
  PROVE  /\ IsEntry(bound)
         /\ bound.id = info.id /\ bound.name = info.name /\ bound.field_count = info.field_count
         /\ bound.foreign = info.foreign
         /\ \A i \in 1 .. MAX_COLUMN_COUNT :
              /\ bound.column[i].name = info.column[i].name /\ bound.column[i].indexed = info.column[i].indexed
              /\ bound.column[i].nullable => info.column[i].nullable
         /\ AllNullable(bound) = AllNullable(info)
<1> DEFINE v == [i \in DOMAIN info.column |->
                   IF i \in S THEN [info.column[i] EXCEPT !.nullable = FALSE] ELSE info.column[i]]
           all(w) == [i \in DOMAIN w |-> [w[i] EXCEPT !.nullable = TRUE]]
<1>1. bound = [info EXCEPT !.column = v]
  BY DEF Bound
<1>2. info.column \in [1 .. MAX_COLUMN_COUNT -> Column] /\ 1 .. info.field_count \subseteq 1 .. MAX_COLUMN_COUNT
  BY CatalogAssumption DEF IsEntry
<1>3. \A col \in Column : /\ [col EXCEPT !.nullable = FALSE] \in Column
                          /\ [col EXCEPT !.nullable = FALSE].name = col.name
                          /\ [col EXCEPT !.nullable = FALSE].indexed = col.indexed
                          /\ [col EXCEPT !.nullable = FALSE].nullable = FALSE
                          /\ [[col EXCEPT !.nullable = FALSE] EXCEPT !.nullable = TRUE] = [col EXCEPT !.nullable = TRUE]
  BY DEF Column
<1>4. /\ v \in [1 .. MAX_COLUMN_COUNT -> Column]
      /\ \A i \in 1 .. MAX_COLUMN_COUNT :
           /\ v[i].name = info.column[i].name /\ v[i].indexed = info.column[i].indexed
           /\ v[i].nullable => info.column[i].nullable
           /\ [v[i] EXCEPT !.nullable = TRUE] = [info.column[i] EXCEPT !.nullable = TRUE]
  <2>1. DOMAIN info.column = 1 .. MAX_COLUMN_COUNT /\ \A i \in 1 .. MAX_COLUMN_COUNT : info.column[i] \in Column
    BY <1>2
  <2>2. DOMAIN v = 1 .. MAX_COLUMN_COUNT
        /\ \A i \in 1 .. MAX_COLUMN_COUNT :
             v[i] = IF i \in S THEN [info.column[i] EXCEPT !.nullable = FALSE] ELSE info.column[i]
    BY <2>1
  <2>3. v = [i \in 1 .. MAX_COLUMN_COUNT |-> v[i]]
    BY <2>1
  <2> HIDE DEF v
  <2>4. ASSUME NEW i \in 1 .. MAX_COLUMN_COUNT
        PROVE  /\ v[i] \in Column
               /\ v[i].name = info.column[i].name /\ v[i].indexed = info.column[i].indexed
               /\ v[i].nullable => info.column[i].nullable
               /\ [v[i] EXCEPT !.nullable = TRUE] = [info.column[i] EXCEPT !.nullable = TRUE]
    <3> DEFINE col == info.column[i]
    <3>1. col \in Column
      BY <2>1
    <3>2. CASE i \in S
      <4>1. v[i] = [col EXCEPT !.nullable = FALSE]
        BY <2>2, <3>2
      <4> HIDE DEF col
      <4>2. /\ v[i] \in Column /\ v[i].name = col.name /\ v[i].indexed = col.indexed
            /\ v[i].nullable => col.nullable
            /\ [v[i] EXCEPT !.nullable = TRUE] = [col EXCEPT !.nullable = TRUE]
        BY <1>3, <3>1, <4>1
      <4> QED BY <4>2 DEF col
    <3>3. CASE i \notin S
      <4>1. v[i] = col
        BY <2>2, <3>3
      <4> QED BY <3>1, <4>1
    <3> QED BY <3>2, <3>3
  <2>5. v \in [1 .. MAX_COLUMN_COUNT -> Column]
    BY <2>3, <2>4
  <2> QED BY <2>4, <2>5
<1>5. all(v) = all(info.column)
  <2>1. DOMAIN v = 1 .. MAX_COLUMN_COUNT /\ DOMAIN info.column = 1 .. MAX_COLUMN_COUNT
    BY <1>2
  <2> HIDE DEF v
  <2> QED BY <1>4, <2>1
<1> HIDE DEF v
<1>6. IsEntry(bound)
  <2>1. \A i \in 1 .. info.field_count : v[i].name = info.column[i].name
    BY <1>2, <1>4
  <2>2. IsEntry([info EXCEPT !.column = v])
    BY <1>4, <2>1, ColumnsReplaced
  <2> QED BY <1>1, <2>2
<1>7. /\ bound.column = v /\ bound.id = info.id /\ bound.name = info.name
      /\ bound.field_count = info.field_count /\ bound.foreign = info.foreign
      /\ bound.unique = info.unique /\ bound.primary = info.primary
  BY <1>1, FieldReplaced DEF Fields
<1>8. AllNullable(bound) = AllNullable(info)
  <2>1. /\ AllNullable(bound) = [bound EXCEPT !.column = all(bound.column)]
        /\ AllNullable(info) = [info EXCEPT !.column = all(info.column)]
    BY DEF AllNullable
  <2> HIDE DEF all
  <2>2. ASSUME NEW w
        PROVE  [bound EXCEPT !.column = w] = [info EXCEPT !.column = w]
    <3>1. [bound EXCEPT !.column = w] = Fields(bound.id, bound.name, bound.field_count, w,
                                              bound.unique, bound.primary, bound.foreign)
      BY <1>6, FieldReplaced, ZenonT(60)
    <3>2. [info EXCEPT !.column = w] = Fields(info.id, info.name, info.field_count, w,
                                             info.unique, info.primary, info.foreign)
      BY FieldReplaced
    <3> QED BY <1>7, <3>1, <3>2
  <2> QED BY <1>5, <1>7, <2>1, <2>2
<1> QED BY <1>4, <1>6, <1>7, <1>8

\* Columns are found by their names only.
LEMMA SameNumbers ==
  ASSUME NEW t, NEW x, x.field_count = t.field_count,
         \A i \in 1 .. t.field_count : x.column[i].name = t.column[i].name,
         NEW columns
  PROVE  Numbers(x, columns) = Numbers(t, columns) /\ (HasAll(x, columns) <=> HasAll(t, columns))
<1>1. ASSUME NEW c PROVE find_column_by_name(x, c) = find_column_by_name(t, c)
  <2> DEFINE at(w) == {i \in 1 .. w.field_count : w.column[i].name = c}
  <2>1. at(x) = at(t)
    OBVIOUS
  <2>2. \A w : find_column_by_name(w, c) = IF at(w) = {} THEN w.field_count + 1 ELSE CHOOSE i \in at(w) : TRUE
    BY DEF find_column_by_name
  <2> HIDE DEF at
  <2> QED BY <2>1, <2>2
<1>2. Numbers(x, columns) = Numbers(t, columns)
  BY <1>1 DEF Numbers
<1> QED BY <1>2 DEF HasAll

\* A clause does what Good says, and nothing but NOT NULLs when it is refused.
Clause(info, outcome, ids) ==
  Good(info, outcome, ids) /\ (~ outcome.ok => Harmless(info, outcome) /\ outcome.files = {})

\* A primary key is as good a clause, and makes NOT NULL what it finds.
LEMMA PrimaryGood ==
  ASSUME NEW info, IsEntry(info), NEW columns, NEW ids
  PROVE  Clause(info, add_primary_key(info, columns), ids)
<1> DEFINE bound == Bound(info, Leading(info, columns))
           x     == [bound EXCEPT !.primary = Append(@, Numbers(info, columns))]
<1>1. CASE Len(info.primary) = MAX_PRIMARY_FIELD_COUNT
  BY <1>1, RefusedGood DEF add_primary_key, Clause
<1>2. /\ IsEntry(bound)
      /\ bound.id = info.id /\ bound.name = info.name /\ bound.field_count = info.field_count
      /\ bound.foreign = info.foreign
      /\ \A i \in 1 .. MAX_COLUMN_COUNT :
           /\ bound.column[i].name = info.column[i].name /\ bound.column[i].indexed = info.column[i].indexed
           /\ bound.column[i].nullable => info.column[i].nullable
      /\ AllNullable(bound) = AllNullable(info)
  BY BoundGood
<1>3. 1 .. info.field_count \subseteq 1 .. MAX_COLUMN_COUNT
  BY CatalogAssumption DEF IsEntry
<1>4. CASE Len(info.primary) # MAX_PRIMARY_FIELD_COUNT /\ ~ HasAll(info, columns)
  <2>1. add_primary_key(info, columns) = Refused(bound)
    BY <1>4 DEF add_primary_key, Bound
  <2> HIDE DEF bound
  <2>2. Good(bound, Refused(bound), ids) /\ Refused(bound).files = {} /\ Refused(bound).info = bound
    BY <1>2, RefusedGood
  <2>3. ForeignIds(bound) \subseteq ForeignIds(info) \cup ids
    BY <1>2 DEF ForeignIds
  <2>4. Good(info, Refused(bound), ids)
    BY <1>2, <1>3, <2>2, <2>3, GoodFrom
  <2>5. Harmless(info, Refused(bound))
    BY <1>2, <2>2 DEF Harmless
  <2> QED BY <2>1, <2>2, <2>4, <2>5 DEF Clause
<1>5. CASE Len(info.primary) # MAX_PRIMARY_FIELD_COUNT /\ HasAll(info, columns)
  <2>1. add_primary_key(info, columns) = Indexed(x, columns)
    BY <1>5 DEF add_primary_key, Bound
  <2> HIDE DEF bound
  <2>2. /\ x.id = info.id /\ x.name = info.name /\ x.field_count = info.field_count
        /\ x.column = bound.column /\ x.foreign = info.foreign
    BY <1>2, FieldReplaced DEF Fields
  <2>3. IsEntry(x)
    BY <1>2, KeysAreFree
  <2> HIDE DEF x
  <2>4. HasAll(x, columns)
    BY <1>2, <1>3, <1>5, <2>2, SameNumbers
  <2>5. Good(x, Indexed(x, columns), ids) /\ Indexed(x, columns).ok
    BY <2>3, <2>4, IndexedGood
  <2>6. ForeignIds(x) \subseteq ForeignIds(info) \cup ids
    BY <2>2 DEF ForeignIds
  <2>7. \A i \in 1 .. info.field_count :
          x.column[i].name = info.column[i].name /\ (x.column[i].indexed => info.column[i].indexed)
    BY <1>2, <1>3, <2>2
  <2>8. Good(info, Indexed(x, columns), ids)
    BY <2>2, <2>5, <2>6, <2>7, GoodFrom
  <2> QED BY <2>1, <2>5, <2>8 DEF Clause
<1> QED BY <1>1, <1>4, <1>5

\* A unique constraint is a good clause.
LEMMA UniqueGood ==
  ASSUME NEW info, IsEntry(info), NEW columns, NEW ids
  PROVE  Clause(info, add_unique(info, columns), ids)
<1> DEFINE x == [info EXCEPT !.unique = Append(@, Numbers(info, columns))]
<1>1. CASE Len(info.unique) = MAX_UNIQUE_CONSTRAINT_COUNT \/ ~ HasAll(info, columns)
  BY <1>1, RefusedGood DEF add_unique, Clause
<1>2. CASE ~ (Len(info.unique) = MAX_UNIQUE_CONSTRAINT_COUNT \/ ~ HasAll(info, columns))
  <2>1. add_unique(info, columns) = Indexed(x, columns)
    BY <1>2 DEF add_unique
  <2>2. /\ x.id = info.id /\ x.name = info.name /\ x.field_count = info.field_count
        /\ x.column = info.column /\ x.foreign = info.foreign
    BY FieldReplaced DEF Fields
  <2>3. IsEntry(x)
    BY KeysAreFree
  <2> HIDE DEF x
  <2>4. HasAll(x, columns)
    BY <1>2, <2>2, SameNumbers
  <2>5. Good(x, Indexed(x, columns), ids) /\ Indexed(x, columns).ok
    BY <2>3, <2>4, IndexedGood
  <2>6. ForeignIds(x) \subseteq ForeignIds(info) \cup ids
    BY <2>2 DEF ForeignIds
  <2>7. Good(info, Indexed(x, columns), ids)
    BY <2>2, <2>5, <2>6, GoodFrom
  <2> QED BY <2>1, <2>5, <2>7 DEF Clause
<1> QED BY <1>1, <1>2

\* A table that has the name is found by it.
LEMMA TableFound ==
  ASSUME NEW m, IsMapping(m), NEW name, name \in NamesOf(Tables(m))
  PROVE  LET loc == find_table_by_name(m, name)
         IN  loc \in 1 .. m.count /\ loc \in 1 .. MaxTables /\ m.slot[loc].name = name /\ m.slot[loc] \in Tables(m)
<1>1. \E i \in 1 .. m.count : m.slot[i].name = name
  BY DEF NamesOf, Tables
<1>2. find_table_by_name(m, name) \in 1 .. m.count /\ m.slot[find_table_by_name(m, name)].name = name
  BY <1>1 DEF find_table_by_name
<1>3. 1 .. m.count \subseteq 1 .. MaxTables
  BY CatalogAssumption DEF IsMapping
<1> QED BY <1>2, <1>3 DEF Tables

\* A foreign key that is accepted refers to a table of the mapping.
LEMMA ForeignGood ==
  ASSUME NEW m, IsMapping(m), NEW info, IsEntry(info), NEW f
  PROVE  Clause(info, add_foreign_key(m, info, f), IdsOf(Tables(m)))
<1> DEFINE ids      == IdsOf(Tables(m))
           other    == m.slot[find_table_by_name(m, f.foreign_table)]
           number   == [i \in DOMAIN f.columns |-> find_column_by_name(info, f.columns[i])]
           target   == [i \in DOMAIN f.columns |-> find_column_by_name(other, f.foreign_columns[i])]
           known    == HasAll(info, f.columns) /\ f.foreign_table \in NamesOf(Tables(m))
           accepted == /\ Len(info.foreign) < MAX_FOREIGN_FIELD_COUNT
                       /\ HasAll(info, f.columns)
                       /\ f.foreign_table \in NamesOf(Tables(m))
                       /\ \A i \in DOMAIN target : /\ target[i] # info.field_count + 1
                                                   /\ other.column[target[i]].indexed
           refers   == [c \in ToSet(number) |-> target[Max({i \in DOMAIN number : number[i] = c})]]
           e        == [name |-> f.name, foreign_table_id |-> other.id, foreign_column_ids |-> refers]
           x        == [info EXCEPT !.foreign = Append(@, e)]
<1>1. add_foreign_key(m, info, f) = IF accepted THEN Indexed(x, f.columns) ELSE Refused(info)
  BY DEF add_foreign_key
<1>2. accepted => known
  OBVIOUS
<1>3. e.foreign_table_id = other.id
  OBVIOUS
<1> HIDE DEF accepted, e
<1>4. CASE ~ accepted
  <2>1. add_foreign_key(m, info, f) = Refused(info)
    BY <1>1, <1>4
  <2> QED BY <2>1, RefusedGood DEF Clause
<1>5. CASE accepted
  <2>1. other.id \in ids
    BY <1>2, <1>5, TableFound DEF IdsOf
  <2>2. IsEntry(x) /\ ForeignIds(x) \subseteq ForeignIds(info) \cup ids
    BY <1>3, <2>1, ForeignAppended
  <2>3. x.id = info.id /\ x.name = info.name /\ x.field_count = info.field_count /\ x.column = info.column
    BY FieldReplaced DEF Fields
  <2>4. add_foreign_key(m, info, f) = Indexed(x, f.columns)
    BY <1>1, <1>5
  <2> HIDE DEF x
  <2>5. HasAll(x, f.columns)
    BY <1>2, <1>5, <2>3, SameNumbers
  <2>6. Good(x, Indexed(x, f.columns), ids) /\ Indexed(x, f.columns).ok
    BY <2>2, <2>5, IndexedGood
  <2>7. Good(info, Indexed(x, f.columns), ids)
    BY <2>2, <2>3, <2>6, GoodFrom
  <2> QED BY <2>4, <2>6, <2>7 DEF Clause
<1> QED BY <1>4, <1>5
-----------------------------------------------------------------------------
\* Numbers that are bounded have a least one.
LEMMA LeastExists ==
  ASSUME NEW S, S \subseteq Nat, S # {}
  PROVE  \E k \in S : \A j \in S : k <= j
<1>1. PICK x \in S : \A y \in S : ~ (<<y, x>> \in OpToRel(<, Nat))
  BY WFMin, NatLessThanWellFounded
<1>2. \A y \in S : ~ (y < x)
  BY <1>1, Zenon DEF OpToRel
<1> QED BY <1>2

\* A clause after others that were accepted.
LEMMA GoodThen ==
  ASSUME NEW start, NEW done, NEW next, NEW ids, Good(start, done, ids), Clause(done.info, next, ids)
  PROVE  Good(start, Then(done, next), ids)
<1>1. next = Outcome(next.ok, next.info, next.files) /\ Good(done.info, next, ids)
  BY DEF Clause, Good
<1>2. /\ \A f \in next.files \cup done.files : f[1] = current_db
      /\ ForeignIds(next.info) \subseteq ForeignIds(start) \cup ids
      /\ IsEntry(next.info)
      /\ next.info.id = start.id /\ next.info.name = start.name /\ next.info.field_count = start.field_count
  BY DEF Clause, Good
<1>3. ASSUME NEW i \in 1 .. start.field_count
      PROVE  /\ next.info.column[i].name = start.column[i].name
             /\ next.info.column[i].indexed =>
                  \/ start.column[i].indexed
                  \/ IndexFileOf(current_db, start.id, start.column[i].name) \in next.files \cup done.files
  BY DEF Clause, Good
<1>4. CASE next.ok
  <2> DEFINE o == Outcome(next.ok, next.info, next.files \cup done.files)
  <2>1. Then(done, next) = o
    BY <1>1, <1>4 DEF Then, Outcome
  <2>2. o.info = next.info /\ o.files = next.files \cup done.files /\ o.ok = next.ok
    BY DEF Outcome
  <2>3. o = Outcome(o.ok, o.info, o.files)
    BY <2>2
  <2> HIDE DEF o
  <2> QED BY <1>2, <1>3, <2>1, <2>2, <2>3 DEF Good
<1>5. CASE ~ next.ok
  <2> DEFINE o == Outcome(next.ok, next.info, done.files)
  <2>1. Then(done, next) = o
    BY <1>1, <1>5 DEF Then, Outcome
  <2>2. o.info = next.info /\ o.files = done.files /\ o.ok = next.ok
    BY DEF Outcome
  <2>3. o = Outcome(o.ok, o.info, o.files)
    BY <2>2
  <2>4. next.files \cup done.files = done.files
    BY <1>5 DEF Clause
  <2> HIDE DEF o
  <2> QED BY <1>2, <1>3, <2>1, <2>2, <2>3, <2>4 DEF Good
<1> QED BY <1>4, <1>5

\* The clauses of CREATE TABLE one by one.
Started(entry) == Outcome(TRUE, [entry EXCEPT !.primary = << >>, !.foreign = << >>], {})

OneMore(m, keys, foreign_keys, done, n) ==
  IF ~ done.ok THEN done
  ELSE Then(done, IF n <= Len(keys) THEN add_primary_key(done.info, keys[n])
                  ELSE add_foreign_key(m, done.info, foreign_keys[n - Len(keys)]))

Upto(m, entry, keys, foreign_keys, N, after) ==
  after = [n \in 0 .. N |-> IF n = 0 THEN Started(entry) ELSE OneMore(m, keys, foreign_keys, after[n - 1], n)]

\* What there is after each clause is a function: there is one up to each number.
LEMMA ClausesDef ==
  ASSUME NEW m, NEW entry, NEW keys, NEW foreign_keys, NEW N \in Nat, N = Len(keys) + Len(foreign_keys)
  PROVE  \E after : /\ Upto(m, entry, keys, foreign_keys, N, after)
                    /\ WithClauses(m, entry, keys, foreign_keys) = after[N]
<1> DEFINE Has(n, f) == Upto(m, entry, keys, foreign_keys, n, f)
           S == {n \in 0 .. N : ~ \E f : Has(n, f)}
<1>1. S = {}
  <2> SUFFICES ASSUME S # {} PROVE FALSE
    OBVIOUS
  <2>1. PICK n \in S : \A e \in S : n <= e
    <3>1. S \subseteq Nat
      OBVIOUS
    <3> HIDE DEF S
    <3> QED BY <3>1, LeastExists
  <2>2. n \in 0 .. N /\ ~ \E f : Has(n, f)
    BY <2>1
  <2>3. n # 0
    <3>1. Has(0, [i \in 0 .. 0 |-> Started(entry)])
      BY DEF Upto
    <3> HIDE DEF Has
    <3> QED BY <3>1, <2>2
  <2>4. n - 1 \in 0 .. N /\ n - 1 \notin S
    <3> HIDE DEF S
    <3> QED BY <2>1, <2>2, <2>3
  <2>5. PICK f : Has(n - 1, f)
    BY <2>4
  <2> DEFINE g == [i \in 0 .. n |-> IF i = n THEN OneMore(m, keys, foreign_keys, f[n - 1], n) ELSE f[i]]
  <2>6. Has(n, g)
    <3>1. ASSUME NEW i \in 0 .. n - 1
          PROVE  f[i] = IF i = 0 THEN Started(entry) ELSE OneMore(m, keys, foreign_keys, f[i - 1], i)
      BY <2>2, <2>3, <2>5 DEF Upto
    <3>2. ASSUME NEW i \in 0 .. n
          PROVE  g[i] = IF i = 0 THEN Started(entry) ELSE OneMore(m, keys, foreign_keys, g[i - 1], i)
      <4>1. CASE i = n
        BY <2>2, <2>3, <4>1
      <4>2. CASE i # n
        <5>1. i \in 0 .. n - 1 /\ g[i] = f[i] /\ (i # 0 => g[i - 1] = f[i - 1])
          BY <2>2, <4>2
        <5> HIDE DEF g
        <5> QED BY <3>1, <5>1
      <4> QED BY <4>1, <4>2
    <3>3. g = [i \in 0 .. n |-> g[i]]
      OBVIOUS
    <3> HIDE DEF g
    <3> QED BY <3>2, <3>3 DEF Upto
  <2> HIDE DEF Has
  <2> QED BY <2>2, <2>6
<1>2. N \notin S /\ N \in 0 .. N
  BY <1>1
<1>3. \E f : Has(N, f)
  BY <1>2
<1> DEFINE after == CHOOSE f : Has(N, f)
<1>4. Has(N, after)
  <2> HIDE DEF Has
  <2> QED BY <1>3
<1>5. WithClauses(m, entry, keys, foreign_keys) = after[N]
  BY DEF WithClauses, Upto, Started, OneMore
<1> HIDE DEF after
<1> QED BY <1>4, <1>5

\* Whatever the clauses, what they leave is good.
LEMMA ClausesGood ==
  ASSUME NEW m, IsMapping(m), NEW entry, IsEntry(entry), NEW keys, NEW foreign_keys,
         Len(keys) \in Nat, Len(foreign_keys) \in Nat
  PROVE  Good([entry EXCEPT !.primary = << >>, !.foreign = << >>],
              WithClauses(m, entry, keys, foreign_keys), IdsOf(Tables(m)))
<1> DEFINE N     == Len(keys) + Len(foreign_keys)
           ids   == IdsOf(Tables(m))
           start == [entry EXCEPT !.primary = << >>, !.foreign = << >>]
<1>1. N \in Nat
  OBVIOUS
<1>2. PICK after : /\ Upto(m, entry, keys, foreign_keys, N, after)
                   /\ WithClauses(m, entry, keys, foreign_keys) = after[N]
  <2> HIDE DEF N
  <2> QED BY <1>1, ClausesDef DEF N
<1>3. IsEntry(start)
  <2> DEFINE p == [entry EXCEPT !.primary = << >>]
  <2>1. IsEntry(p)
    BY KeysAreFree
  <2>2. << >> \in Seq({})
    OBVIOUS
  <2> HIDE DEF p
  <2>3. IsEntry([p EXCEPT !.foreign = << >>])
    BY <2>1, <2>2, ForeignReplaced
  <2> QED BY <2>3 DEF p
<1> HIDE DEF start
<1>4. Good(start, Outcome(TRUE, start, {}), ids)
  BY <1>3 DEF Good, Outcome
<1> DEFINE S == {n \in 0 .. N : ~ Good(start, after[n], ids)}
<1>5. S = {}
  <2> SUFFICES ASSUME S # {} PROVE FALSE
    OBVIOUS
  <2>1. PICK n \in S : \A e \in S : n <= e
    <3>1. S \subseteq Nat
      OBVIOUS
    <3> HIDE DEF S
    <3> QED BY <3>1, LeastExists
  <2>2. n \in 0 .. N /\ ~ Good(start, after[n], ids)
    BY <2>1
  <2>3. after[n] = IF n = 0 THEN Started(entry) ELSE OneMore(m, keys, foreign_keys, after[n - 1], n)
    BY <1>2, <2>2 DEF Upto
  <2>4. n # 0
    BY <1>4, <2>2, <2>3 DEF Started, start
  <2>5. n - 1 \in 0 .. N /\ n - 1 \notin S
    <3> HIDE DEF S, N
    <3> QED BY <1>1, <2>1, <2>2, <2>4
  <2> DEFINE done == after[n - 1]
  <2>6. Good(start, done, ids)
    BY <2>5
  <2>7. IsEntry(done.info)
    BY <2>6 DEF Good
  <2> HIDE DEF done
  <2>8. Good(start, OneMore(m, keys, foreign_keys, done, n), ids)
    <3>1. CASE ~ done.ok
      BY <2>6, <3>1 DEF OneMore
    <3>2. CASE done.ok /\ n <= Len(keys)
      <4>1. Clause(done.info, add_primary_key(done.info, keys[n]), ids)
        BY <2>7, PrimaryGood
      <4>2. OneMore(m, keys, foreign_keys, done, n) = Then(done, add_primary_key(done.info, keys[n]))
        BY <3>2 DEF OneMore
      <4> QED BY <2>6, <4>1, <4>2, GoodThen
    <3>3. CASE done.ok /\ ~ (n <= Len(keys))
      <4>1. Clause(done.info, add_foreign_key(m, done.info, foreign_keys[n - Len(keys)]), ids)
        BY <2>7, ForeignGood
      <4>2. OneMore(m, keys, foreign_keys, done, n)
              = Then(done, add_foreign_key(m, done.info, foreign_keys[n - Len(keys)]))
        BY <3>3 DEF OneMore
      <4> QED BY <2>6, <4>1, <4>2, GoodThen
    <3> QED BY <3>1, <3>2, <3>3
  <2> QED BY <2>2, <2>3, <2>4, <2>8 DEF done
<1>6. N \notin S /\ N \in 0 .. N
  BY <1>1, <1>5
<1> QED BY <1>2, <1>6 DEF start
-----------------------------------------------------------------------------
\* The id of a new table or database is none of those there are.
LEMMA NextIdIsNew ==
  ASSUME NEW S, IdsOf(S) \subseteq 0 .. MaxId
  PROVE  NextId(S) \in Nat /\ NextId(S) >= 1 /\ NextId(S) \notin IdsOf(S)
<1> DEFINE T == IdsOf(S) \cup {0}
           U == {MaxId - x : x \in T}
<1>1. T \subseteq 0 .. MaxId /\ 0 \in T /\ MaxId \in Nat
  BY CatalogAssumption
<1> HIDE DEF T
<1>2. U \subseteq Nat /\ U # {}
  BY <1>1
<1>3. PICK u \in U : \A v \in U : u <= v
  <2> HIDE DEF U
  <2> QED BY <1>2, LeastExists
<1>4. PICK x \in T : u = MaxId - x
  BY <1>3
<1>5. \A y \in T : x >= y
  <2>1. \A y \in T : MaxId - x <= MaxId - y
    BY <1>3, <1>4
  <2> QED BY <1>1, <2>1
<1>6. PICK k \in T : Max(T) = k /\ \A y \in T : k >= y
  BY <1>5 DEF Max
<1>7. NextId(S) = 1 + k
  BY <1>6 DEF NextId, T
<1>8. IdsOf(S) \subseteq T
  BY DEF T
<1>9. NextId(S) \in Nat /\ NextId(S) >= 1
  BY <1>1, <1>6, <1>7
<1>10. \A y \in T : y # NextId(S)
  BY <1>1, <1>6, <1>7
<1> QED BY <1>8, <1>9, <1>10

\* The columns that CREATE TABLE gives a slot.
NewColumns(slot, schema) ==
  [i \in DOMAIN slot.column |-> IF i <= Len(schema)
                                  THEN [name |-> schema[i], nullable |-> TRUE, indexed |-> FALSE]
                                  ELSE slot.column[i]]

\* A new table has its columns, and no index.
LEMMA NewEntryIsEntry ==
  ASSUME NEW slot, IsEntry(slot), NEW id \in 1 .. MaxId, NEW name, NEW schema \in Schemas,
         NEW entry, entry = NewEntry(slot, id, name, schema)
  PROVE  /\ IsEntry(entry) /\ entry.id = id /\ entry.name = name
         /\ \A i \in 1 .. entry.field_count : ~ entry.column[i].indexed
<1> DEFINE v == NewColumns(slot, schema)
           n == Fields(id, name, Len(schema), v, slot.unique, slot.primary, slot.foreign)
<1>1. /\ schema \in Seq(ToSet(schema)) /\ Len(schema) \in Nat /\ Len(schema) <= MAX_COLUMN_COUNT
      /\ \A i, j \in DOMAIN schema : schema[i] = schema[j] => i = j
      /\ DOMAIN schema = 1 .. Len(schema) /\ MAX_COLUMN_COUNT \in Nat
  BY CatalogAssumption DEF IsInjective
<1>2. \A i \in 1 .. Len(schema) : schema[i] \in Columns
  BY <1>1 DEF Columns, ToSet
<1>3. \A i \in 1 .. Len(schema) : [name |-> schema[i], nullable |-> TRUE, indexed |-> FALSE] \in Column
  BY <1>2 DEF Column
<1>4. /\ v \in [1 .. MAX_COLUMN_COUNT -> Column]
      /\ \A i \in 1 .. Len(schema) : v[i].name = schema[i] /\ ~ v[i].indexed
  <2>1. slot.column \in [1 .. MAX_COLUMN_COUNT -> Column]
    BY DEF IsEntry
  <2>2. DOMAIN slot.column = 1 .. MAX_COLUMN_COUNT
    BY <2>1
  <2> QED BY <1>1, <1>3, <2>1, <2>2 DEF NewColumns
<1>5. entry = n
  <2>1. entry = [slot EXCEPT !.id = id, !.name = name, !.field_count = Len(schema), !.column = v]
    BY DEF NewEntry, NewColumns
  <2> HIDE DEF v
  <2> QED BY <2>1 DEF IsEntry, Fields
<1> HIDE DEF v
<1>6. /\ n.id = id /\ n.name = name /\ n.field_count = Len(schema) /\ n.column = v
      /\ n.foreign = slot.foreign
      /\ n = [id |-> n.id, name |-> n.name, field_count |-> n.field_count, column |-> n.column,
              unique |-> n.unique, primary |-> n.primary, foreign |-> n.foreign]
  BY DEF Fields
<1> HIDE DEF n
<1>7. slot.foreign \in Seq(ToSet(slot.foreign))
  BY DEF IsEntry
<1>8. \A i, j \in 1 .. Len(schema) : v[i].name = v[j].name => i = j
  BY <1>1, <1>4
<1>9. IsEntry(n)
  BY <1>1, <1>4, <1>6, <1>7, <1>8 DEF IsEntry
<1> QED BY <1>4, <1>5, <1>6, <1>9

\* What the clauses start with.
LEMMA StartOfEntry ==
  ASSUME NEW entry, IsEntry(entry), NEW start, start = [entry EXCEPT !.primary = << >>, !.foreign = << >>]
  PROVE  /\ start.id = entry.id /\ start.name = entry.name /\ start.field_count = entry.field_count
         /\ start.column = entry.column /\ ForeignIds(start) = {}
<1>1. start = Fields(entry.id, entry.name, entry.field_count, entry.column, entry.unique, << >>, << >>)
  BY DEF IsEntry, Fields
<1>2. DOMAIN << >> = {}
  OBVIOUS
<1> QED BY <1>1, <1>2 DEF Fields, ForeignIds

\* What a table leaves behind is a slot that no table has.
LEMMA LeftBehindIsEntry ==
  ASSUME NEW info, IsEntry(info)
  PROVE  IsEntry(LeftBehind(info))
<1> DEFINE v == [i \in 1 .. MAX_COLUMN_COUNT |-> [AColumn EXCEPT !.indexed = info.column[i].indexed]]
           u == [EmptySlot EXCEPT !.unique = info.unique]
<1>1. IsEntry(u) /\ u.field_count = 0 /\ u.column = [i \in 1 .. MAX_COLUMN_COUNT |-> AColumn]
  <2>1. IsEntry(u)
    BY EmptyIsEntry, KeysAreFree
  <2> QED BY <2>1, EmptyIsEntry, FieldReplaced DEF Fields
<1>2. v \in [1 .. MAX_COLUMN_COUNT -> Column]
  <2>1. \A i \in 1 .. MAX_COLUMN_COUNT : info.column[i].indexed \in BOOLEAN
    BY DEF IsEntry, Column
  <2>2. \A b \in BOOLEAN : [AColumn EXCEPT !.indexed = b] \in Column
    BY DEF AColumn, Column
  <2> QED BY <2>1, <2>2
<1>3. LeftBehind(info) = [u EXCEPT !.column = v]
  BY DEF LeftBehind, EmptySlot
<1> HIDE DEF u, v
<1>4. 1 .. 0 = {}
  OBVIOUS
<1>5. \A i \in 1 .. u.field_count : v[i].name = u.column[i].name
  BY <1>1, <1>4
<1>6. IsEntry([u EXCEPT !.column = v])
  BY <1>1, <1>2, <1>5, ColumnsReplaced
<1> QED BY <1>3, <1>6
-----------------------------------------------------------------------------
\* A mapping of c tables whose slot at has become e.
Replaced(m, at, e, c) == [count |-> c, slot |-> [i \in 1 .. MaxTables |-> IF i = at THEN e ELSE m.slot[i]]]

\* The slots of a mapping are replaced.
LEMMA MappingField ==
  ASSUME NEW m, m = [count |-> m.count, slot |-> m.slot], NEW v
  PROVE  [m EXCEPT !.slot = v] = [count |-> m.count, slot |-> v]
OBVIOUS

\* What EXCEPT makes of a mapping.
LEMMA ReplacedIs ==
  ASSUME NEW m, IsMapping(m), NEW at \in 1 .. MaxTables, NEW e
  PROVE  [m EXCEPT !.slot[at] = e] = Replaced(m, at, e, m.count)
<1> DEFINE v == [m.slot EXCEPT ![at] = e]
           x == [m EXCEPT !.slot = v]
<1>1. m = [count |-> m.count, slot |-> m.slot] /\ m.slot = [i \in 1 .. MaxTables |-> m.slot[i]]
  BY DEF IsMapping
<1>2. [m EXCEPT !.slot[at] = e] = x
  BY <1>1
<1>3. v = [i \in 1 .. MaxTables |-> IF i = at THEN e ELSE m.slot[i]]
  BY <1>1
<1> HIDE DEF v
<1>4. x = [count |-> m.count, slot |-> v]
  BY <1>1, MappingField
<1> HIDE DEF x
<1> QED BY <1>2, <1>3, <1>4 DEF Replaced

\* The entry e may take the place of that at at: any may where no table is.
Fits(m, at, e) ==
  /\ IsEntry(e)
  /\ at \in 1 .. m.count => /\ e.id = m.slot[at].id /\ e.name = m.slot[at].name
                            /\ ForeignIds(e) \subseteq IdsOf(Tables(m))

\* A mapping has the ids of another if each of its tables has one of them.
LEMMA IdsKept ==
  ASSUME NEW n, NEW m, \A i \in 1 .. n.count : \E j \in 1 .. m.count : n.slot[i].id = m.slot[j].id
  PROVE  IdsOf(Tables(n)) \subseteq IdsOf(Tables(m))
BY DEF IdsOf, Tables

\* An entry that fits takes the place of another.
LEMMA SlotReplaced ==
  ASSUME NEW m, IsMapping(m), NEW at \in 1 .. MaxTables, NEW e, Fits(m, at, e),
         NEW n, n = Replaced(m, at, e, m.count)
  PROVE  /\ IsMapping(n) /\ n.count = m.count
         /\ \A i \in 1 .. MaxTables : n.slot[i] = IF i = at THEN e ELSE m.slot[i]
<1>1. /\ n = [count |-> n.count, slot |-> n.slot] /\ n.count = m.count
      /\ n.slot = [i \in 1 .. MaxTables |-> n.slot[i]]
      /\ \A i \in 1 .. MaxTables : n.slot[i] = IF i = at THEN e ELSE m.slot[i]
  BY DEF Replaced
<1>2. n.count \in 0 .. MaxTables /\ 1 .. n.count \subseteq 1 .. MaxTables
  BY <1>1, CatalogAssumption DEF IsMapping
<1>3. \A i \in 1 .. n.count : n.slot[i].id = m.slot[i].id /\ n.slot[i].name = m.slot[i].name
  BY <1>1, <1>2 DEF Fits
<1>4. IdsOf(Tables(n)) = IdsOf(Tables(m))
  <2>1. n.count = m.count /\ \A i \in 1 .. m.count : n.slot[i].id = m.slot[i].id
    BY <1>1, <1>3
  <2>2. IdsOf(Tables(n)) \subseteq IdsOf(Tables(m)) /\ IdsOf(Tables(m)) \subseteq IdsOf(Tables(n))
    BY <2>1, IdsKept
  <2> QED BY <2>2
<1>5. \A i \in 1 .. MaxTables : IsEntry(n.slot[i])
  BY <1>1 DEF IsMapping, Fits
<1>6. \A i \in 1 .. n.count : ForeignIds(n.slot[i]) \subseteq IdsOf(Tables(n))
  BY <1>1, <1>2, <1>4 DEF IsMapping, Fits
<1>7. \A i \in 1 .. n.count : n.slot[i].id \in 1 .. MaxId /\ n.slot[i].name \in TableNames
  BY <1>1, <1>3 DEF IsMapping
<1>8. \A i, j \in 1 .. n.count :
        i # j => n.slot[i].id # n.slot[j].id /\ n.slot[i].name # n.slot[j].name
  <2>1. \A i, j \in 1 .. m.count :
          i # j => m.slot[i].id # m.slot[j].id /\ m.slot[i].name # m.slot[j].name
    BY DEF IsMapping
  <2>2. n.count = m.count
    BY <1>1
  <2> QED BY <1>3, <2>1, <2>2
<1> QED BY <1>1, <1>2, <1>5, <1>6, <1>7, <1>8 DEF IsMapping

\* The ids of the tables are those that are given.
LEMMA IdsInRange ==
  ASSUME NEW m, IsMapping(m)
  PROVE  IdsOf(Tables(m)) \subseteq 1 .. MaxId /\ IdsOf(Tables(m)) \subseteq 0 .. MaxId
<1>1. \A i \in 1 .. m.count : m.slot[i].id \in 1 .. MaxId
  BY DEF IsMapping
<1>2. IdsOf(Tables(m)) \subseteq 1 .. MaxId
  BY <1>1 DEF IdsOf, Tables
<1>3. 1 .. MaxId \subseteq 0 .. MaxId
  BY CatalogAssumption
<1> QED BY <1>2, <1>3

\* A new table behind the others.
LEMMA TableAdded ==
  ASSUME NEW m, IsMapping(m), m.count + 1 <= MaxTables, NEW e, IsEntry(e),
         e.id \in 1 .. MaxId, e.id \notin IdsOf(Tables(m)),
         e.name \in TableNames, e.name \notin NamesOf(Tables(m)),
         ForeignIds(e) \subseteq IdsOf(Tables(m)),
         NEW n, n = Replaced(m, m.count + 1, e, m.count + 1)
  PROVE  /\ IsMapping(n) /\ n.count = m.count + 1
         /\ \A i \in 1 .. MaxTables : n.slot[i] = IF i = m.count + 1 THEN e ELSE m.slot[i]
<1> DEFINE at == m.count + 1
<1>1. /\ n = [count |-> n.count, slot |-> n.slot] /\ n.count = at
      /\ n.slot = [i \in 1 .. MaxTables |-> n.slot[i]]
      /\ \A i \in 1 .. MaxTables : n.slot[i] = IF i = at THEN e ELSE m.slot[i]
  BY DEF Replaced
<1>2. /\ m.count \in Nat /\ n.count \in 0 .. MaxTables /\ 1 .. n.count \subseteq 1 .. MaxTables
      /\ \A i \in 1 .. n.count : i = at \/ i \in 1 .. m.count
  BY <1>1, CatalogAssumption DEF IsMapping
<1>3. \A i \in 1 .. m.count : n.slot[i] = m.slot[i] /\ i \in 1 .. n.count
  BY <1>1, <1>2
<1>4. n.slot[at] = e
  BY <1>1, <1>2
<1>5. \A i \in 1 .. m.count : m.slot[i].id # e.id /\ m.slot[i].name # e.name
  BY DEF IdsOf, NamesOf, Tables
<1>6. IdsOf(Tables(m)) \subseteq IdsOf(Tables(n))
  <2>1. Tables(m) \subseteq Tables(n)
    BY <1>3 DEF Tables
  <2> QED BY <2>1 DEF IdsOf
<1>7. \A i \in 1 .. MaxTables : IsEntry(n.slot[i])
  BY <1>1 DEF IsMapping
<1>8. \A i \in 1 .. n.count : ForeignIds(n.slot[i]) \subseteq IdsOf(Tables(n))
  BY <1>2, <1>3, <1>4, <1>6 DEF IsMapping
<1>9. \A i \in 1 .. n.count : n.slot[i].id \in 1 .. MaxId /\ n.slot[i].name \in TableNames
  BY <1>2, <1>3, <1>4 DEF IsMapping
<1>10. ASSUME NEW i \in 1 .. n.count, NEW j \in 1 .. n.count, i # j
       PROVE  n.slot[i].id # n.slot[j].id /\ n.slot[i].name # n.slot[j].name
  <2>1. CASE i \in 1 .. m.count /\ j \in 1 .. m.count
    BY <1>3, <1>10, <2>1 DEF IsMapping
  <2>2. CASE i \in 1 .. m.count /\ j = at
    BY <1>3, <1>4, <1>5, <2>2
  <2>3. CASE i = at /\ j \in 1 .. m.count
    BY <1>3, <1>4, <1>5, <2>3
  <2> QED BY <1>2, <1>10, <2>1, <2>2, <2>3
<1> QED BY <1>1, <1>2, <1>7, <1>8, <1>9, <1>10 DEF IsMapping

\* The mapping without the table at loc: those behind it move up.
Without(m, loc) ==
  [count |-> m.count - 1,
   slot |-> [i \in 1 .. MaxTables |-> IF i \in loc .. m.count - 1 THEN m.slot[i + 1]
                                      ELSE IF i = m.count THEN LeftBehind(m.slot[i])
                                      ELSE m.slot[i]]]

\* The tables that are left are those of before.
LEMMA TableRemoved ==
  ASSUME NEW m, IsMapping(m), NEW loc \in 1 .. m.count,
         \A t \in Tables(m) \ {m.slot[loc]} : m.slot[loc].id \notin ForeignIds(t),
         NEW n, n = Without(m, loc)
  PROVE  /\ IsMapping(n)
         /\ \A i \in 1 .. n.count : \E j \in 1 .. m.count : j # loc /\ n.slot[i] = m.slot[j]
<1> DEFINE from(i) == IF i < loc THEN i ELSE i + 1
<1>1. MaxTables \in Nat /\ m.count \in Nat /\ m.count \in 1 .. MaxTables /\ loc \in 1 .. MaxTables
  BY CatalogAssumption DEF IsMapping
<1>2. /\ n = [count |-> n.count, slot |-> n.slot] /\ n.count = m.count - 1
      /\ n.slot = [i \in 1 .. MaxTables |-> n.slot[i]]
      /\ \A i \in 1 .. MaxTables : n.slot[i] = IF i \in loc .. m.count - 1 THEN m.slot[i + 1]
                                               ELSE IF i = m.count THEN LeftBehind(m.slot[i])
                                               ELSE m.slot[i]
  BY DEF Without
<1>3. ASSUME NEW i \in 1 .. n.count
      PROVE  /\ from(i) \in 1 .. m.count /\ from(i) # loc /\ n.slot[i] = m.slot[from(i)]
             /\ i \in 1 .. MaxTables
  <2>1. i \in 1 .. m.count - 1 /\ i \in 1 .. MaxTables /\ from(i) \in 1 .. m.count /\ from(i) # loc
    BY <1>1, <1>2
  <2>2. CASE i < loc
    <3>1. i \notin loc .. m.count - 1 /\ i # m.count
      BY <1>1, <2>1, <2>2
    <3> QED BY <1>2, <2>1, <2>2, <3>1
  <2>3. CASE ~ (i < loc)
    <3>1. i \in loc .. m.count - 1
      BY <1>1, <2>1, <2>3
    <3> QED BY <1>2, <2>1, <2>3, <3>1
  <2> QED BY <2>2, <2>3
<1>4. \A i, j \in 1 .. n.count : i # j => from(i) # from(j)
  BY <1>1, <1>2
<1>5. ASSUME NEW j \in 1 .. m.count, j # loc
      PROVE  \E i \in 1 .. n.count : from(i) = j
  <2>1. CASE j < loc
    <3>1. j \in 1 .. n.count /\ from(j) = j
      BY <1>1, <1>2, <2>1
    <3> QED BY <3>1
  <2>2. CASE ~ (j < loc)
    <3>1. j - 1 \in 1 .. n.count /\ from(j - 1) = j
      BY <1>1, <1>2, <1>5, <2>2
    <3> QED BY <3>1
  <2> QED BY <2>1, <2>2
<1> HIDE DEF from
<1>6. \A i \in 1 .. MaxTables : IsEntry(n.slot[i])
  <2> SUFFICES ASSUME NEW i \in 1 .. MaxTables PROVE IsEntry(n.slot[i])
    OBVIOUS
  <2>1. CASE i \in loc .. m.count - 1
    <3>1. i + 1 \in 1 .. MaxTables
      BY <1>1, <2>1
    <3>2. n.slot[i] = m.slot[i + 1]
      BY <1>2, <2>1
    <3> QED BY <3>1, <3>2 DEF IsMapping
  <2>2. CASE i \notin loc .. m.count - 1 /\ i = m.count
    <3>1. n.slot[i] = LeftBehind(m.slot[i])
      BY <1>2, <2>2
    <3>2. IsEntry(m.slot[i])
      BY DEF IsMapping
    <3> QED BY <3>1, <3>2, LeftBehindIsEntry
  <2>3. CASE i \notin loc .. m.count - 1 /\ i # m.count
    <3>1. n.slot[i] = m.slot[i]
      BY <1>2, <2>3
    <3> QED BY <3>1 DEF IsMapping
  <2> QED BY <2>1, <2>2, <2>3
<1>7. \A i \in 1 .. n.count : n.slot[i].id \in 1 .. MaxId /\ n.slot[i].name \in TableNames
  BY <1>3 DEF IsMapping
<1>8. ASSUME NEW i \in 1 .. n.count, NEW j \in 1 .. n.count, i # j
      PROVE  n.slot[i].id # n.slot[j].id /\ n.slot[i].name # n.slot[j].name
  <2>1. \A k, l \in 1 .. m.count :
          k # l => m.slot[k].id # m.slot[l].id /\ m.slot[k].name # m.slot[l].name
    BY DEF IsMapping
  <2>2. from(i) # from(j)
    BY <1>4, <1>8
  <2>3. /\ from(i) \in 1 .. m.count /\ n.slot[i] = m.slot[from(i)]
        /\ from(j) \in 1 .. m.count /\ n.slot[j] = m.slot[from(j)]
    BY <1>3
  <2> QED BY <2>1, <2>2, <2>3
<1>9. IdsOf(Tables(m)) \ {m.slot[loc].id} \subseteq IdsOf(Tables(n))
  <2> SUFFICES ASSUME NEW x \in IdsOf(Tables(m)), x # m.slot[loc].id
               PROVE  x \in IdsOf(Tables(n))
    OBVIOUS
  <2>1. PICK j \in 1 .. m.count : x = m.slot[j].id
    BY DEF IdsOf, Tables
  <2>2. PICK i \in 1 .. n.count : from(i) = j
    BY <1>5, <2>1
  <2>3. n.slot[i].id = x
    BY <1>3, <2>1, <2>2
  <2> QED BY <2>3 DEF IdsOf, Tables
<1>10. \A i \in 1 .. n.count : ForeignIds(n.slot[i]) \subseteq IdsOf(Tables(n))
  <2> SUFFICES ASSUME NEW i \in 1 .. n.count PROVE ForeignIds(n.slot[i]) \subseteq IdsOf(Tables(n))
    OBVIOUS
  <2>1. from(i) \in 1 .. m.count /\ from(i) # loc /\ n.slot[i] = m.slot[from(i)]
    BY <1>3
  <2>2. m.slot[from(i)] \in Tables(m) /\ m.slot[from(i)].id # m.slot[loc].id
    BY <2>1 DEF Tables, IsMapping
  <2>3. m.slot[loc].id \notin ForeignIds(m.slot[from(i)])
    BY <2>2
  <2>4. ForeignIds(m.slot[from(i)]) \subseteq IdsOf(Tables(m))
    BY <2>1 DEF IsMapping
  <2> QED BY <1>9, <2>1, <2>3, <2>4
<1>11. n.count \in 0 .. MaxTables
  BY <1>1, <1>2
<1>12. \A i \in 1 .. n.count : \E j \in 1 .. m.count : j # loc /\ n.slot[i] = m.slot[j]
  BY <1>3
<1> QED BY <1>2, <1>6, <1>7, <1>8, <1>10, <1>11, <1>12 DEF IsMapping
-----------------------------------------------------------------------------
\* The files of a database stay behind its tables if none of its own goes.
LEMMA FilesKept ==
  ASSUME NEW db, NEW m, NEW F, FilesBehind(db, m, F), NEW G, \A f \in F : f[1] = db => f \in G
  PROVE  FilesBehind(db, m, G)
<1>1. \A id, c : RecordFileOf(db, id)[1] = db /\ IndexFileOf(db, id, c)[1] = db
  BY DEF RecordFileOf, IndexFileOf
<1> QED BY <1>1 DEF FilesBehind, HasFiles

\* A mapping says what it says itself.
LEMMA SameAsItself ==
  ASSUME NEW m
  PROVE  SameTables(m, m)
BY DEF SameTables

\* The ids of databases are neither that of none nor the stray one.
LEMMA IdsAreGiven ==
  ASSUME DatabasesSound
  PROVE  /\ Ids \subseteq 1 .. MaxId /\ NoDb \notin Ids /\ StrayDb \notin Ids /\ NoDb # StrayDb
         /\ \A d \in Databases : d.id \in 1 .. MaxId /\ d.name \in DbNames
<1>1. \A d \in Databases : d \in [id : 1 .. MaxId, name : DbNames]
  <2> DEFINE R == [id : 1 .. MaxId, name : DbNames]
  <2>1. db_mapping \in Seq(R)
    BY DEF DatabasesSound
  <2> HIDE DEF R
  <2>2. \A i \in DOMAIN db_mapping : db_mapping[i] \in R
    BY <2>1
  <2> QED BY <2>2 DEF Databases, ToSet, R
<1>2. \A d \in Databases : d.id \in 1 .. MaxId /\ d.name \in DbNames
  BY <1>1
<1> QED BY <1>2, CatalogAssumption DEF Ids, IdsOf, NoDb, StrayDb

\* The tables of the database in use, of one that does not exist too.
LEMMA CurrentMapping ==
  ASSUME CInv, current_db # NoDb
  PROVE  /\ IsMapping(Mapping(current_db)) /\ FilesBehind(current_db, Mapping(current_db), files)
         /\ current_db \in Ids => SameTables(saved_tables[current_db], Mapping(current_db))
<1>1. CASE current_db \in DOMAIN table_mapping_map
  BY <1>1 DEF CInv, MappingsSound, Mapping
<1>2. CASE current_db \notin DOMAIN table_mapping_map
  <2>1. Mapping(current_db) = EmptyMapping /\ current_db \notin Ids
    BY <1>2 DEF CInv, DatabasesSound, Mapping
  <2>2. 1 .. EmptyMapping.count = {}
    BY EmptyIsEntry
  <2> QED BY <2>1, <2>2, EmptyIsEntry DEF FilesBehind
<1> QED BY <1>1, <1>2

(***************************************************************************)
(* A statement that changes the tables of the database in use, and its      *)
(* files: the mapping file has what memory has, or had it before.           *)
(***************************************************************************)
LEMMA MappingStep ==
  ASSUME CInv, current_db # NoDb,
         NEW new, IsMapping(new),
         table_mapping_map' = With(table_mapping_map, current_db, new),
         UNCHANGED <<db_mapping, saved_dbs, current_db>>,
         \/ saved_tables' = With(saved_tables, current_db, new)
         \/ /\ saved_tables' = saved_tables
            /\ current_db \in Ids => SameTables(saved_tables[current_db], new),
         FilesBehind(current_db, new, files'),
         \A f \in files : f[1] # current_db => f \in files'
  PROVE  CInv'
<1>1. Ids' = Ids /\ current_db' = current_db /\ db_mapping' = db_mapping /\ saved_dbs' = saved_dbs
  BY DEF Ids, Databases
<1>2. current_db \in Ids \cup {StrayDb}
  BY DEF CInv, DatabasesSound
<1>3. /\ DOMAIN table_mapping_map' = DOMAIN table_mapping_map \cup {current_db}
      /\ \A db \in DOMAIN table_mapping_map' :
           table_mapping_map'[db] = IF db = current_db THEN new ELSE table_mapping_map[db]
  BY DEF With
<1>4. /\ DOMAIN saved_tables \subseteq DOMAIN saved_tables'
      /\ DOMAIN saved_tables' \subseteq DOMAIN saved_tables \cup {current_db}
      /\ \A db \in DOMAIN saved_tables : db # current_db => saved_tables'[db] = saved_tables[db]
  BY DEF With
<1>5. DatabasesSound'
  <2>1. Ids \subseteq DOMAIN table_mapping_map' /\ DOMAIN table_mapping_map' \subseteq Ids \cup {StrayDb}
    BY <1>2, <1>3 DEF CInv, DatabasesSound
  <2>2. Ids \subseteq DOMAIN saved_tables' /\ DOMAIN saved_tables' \subseteq Ids \cup {StrayDb}
    BY <1>2, <1>4 DEF CInv, DatabasesSound
  <2>3. /\ db_mapping \in Seq([id : 1 .. MaxId, name : DbNames])
        /\ \A i, j \in DOMAIN db_mapping : db_mapping[i].id = db_mapping[j].id => i = j
        /\ saved_dbs = db_mapping
        /\ current_db \in Ids \cup {StrayDb, NoDb}
    BY DEF CInv, DatabasesSound
  <2> QED BY <1>1, <2>1, <2>2, <2>3 DEF DatabasesSound
<1>6. ASSUME NEW db \in DOMAIN table_mapping_map'
      PROVE  IsMapping(table_mapping_map'[db]) /\ FilesBehind(db, table_mapping_map'[db], files')
  <2>1. CASE db = current_db
    BY <1>3, <2>1
  <2>2. CASE db # current_db
    <3>1. db \in DOMAIN table_mapping_map /\ table_mapping_map'[db] = table_mapping_map[db]
      BY <1>3, <2>2
    <3>2. IsMapping(table_mapping_map[db]) /\ FilesBehind(db, table_mapping_map[db], files)
      BY <3>1 DEF CInv, MappingsSound
    <3>3. \A f \in files : f[1] = db => f \in files'
      BY <2>2
    <3>4. FilesBehind(db, table_mapping_map[db], files')
      BY <3>2, <3>3, FilesKept
    <3> QED BY <3>1, <3>2, <3>4
  <2> QED BY <2>1, <2>2
<1>7. ASSUME NEW db \in Ids
      PROVE  IsMapping(saved_tables'[db]) /\ SameTables(saved_tables'[db], table_mapping_map'[db])
  <2>1. /\ db \in DOMAIN saved_tables /\ db \in DOMAIN table_mapping_map
        /\ IsMapping(saved_tables[db]) /\ SameTables(saved_tables[db], table_mapping_map[db])
    BY DEF CInv, DatabasesSound, MappingsSound
  <2>2. CASE db # current_db
    BY <1>3, <1>4, <2>1, <2>2
  <2>3. CASE db = current_db
    <3>1. table_mapping_map'[db] = new
      BY <1>3, <2>3
    <3>2. CASE saved_tables' = With(saved_tables, current_db, new)
      <4>1. saved_tables'[db] = new
        BY <2>3, <3>2 DEF With
      <4> QED BY <3>1, <4>1, SameAsItself
    <3>3. CASE saved_tables' = saved_tables /\ (current_db \in Ids => SameTables(saved_tables[current_db], new))
      BY <2>1, <2>3, <3>1, <3>3
    <3> QED BY <3>2, <3>3
  <2> QED BY <2>2, <2>3
<1>8. MappingsSound'
  BY <1>1, <1>6, <1>7 DEF MappingsSound
<1> QED BY <1>5, <1>8 DEF CInv

\* What one table becomes: an entry of it, with files behind it.
LEMMA Altered ==
  ASSUME NEW m, IsMapping(m), NEW loc \in 1 .. m.count, NEW e, IsEntry(e),
         e.id = m.slot[loc].id, e.name = m.slot[loc].name, ForeignIds(e) \subseteq IdsOf(Tables(m)),
         NEW new, new = Replaced(m, loc, e, m.count),
         NEW db, NEW F, HasFiles(db, e, F),
         \A i \in 1 .. m.count : /\ RecordFileOf(db, m.slot[i].id) \in F
                                 /\ i # loc => HasFiles(db, m.slot[i], F)
  PROVE  /\ IsMapping(new) /\ FilesBehind(db, new, F) /\ new.count = m.count
         /\ \A i \in 1 .. m.count : new.slot[i] = IF i = loc THEN e ELSE m.slot[i]
<1>1. m.count \in Nat /\ 1 .. m.count \subseteq 1 .. MaxTables /\ loc \in 1 .. MaxTables
  BY CatalogAssumption DEF IsMapping
<1>3. /\ IsMapping(new) /\ new.count = m.count
      /\ \A i \in 1 .. MaxTables : new.slot[i] = IF i = loc THEN e ELSE m.slot[i]
  <2>1. Fits(m, loc, e)
    BY DEF Fits
  <2> DEFINE r == Replaced(m, loc, e, m.count)
  <2>2. IsMapping(r) /\ r.count = m.count
        /\ \A i \in 1 .. MaxTables : r.slot[i] = IF i = loc THEN e ELSE m.slot[i]
    BY <1>1, <2>1, SlotReplaced
  <2> HIDE DEF r
  <2>3. new = r
    BY DEF r
  <2> QED BY <2>2, <2>3
<1>4. ASSUME NEW i \in 1 .. new.count
      PROVE  RecordFileOf(db, new.slot[i].id) \in F /\ HasFiles(db, new.slot[i], F)
  <2>1. i \in 1 .. m.count /\ i \in 1 .. MaxTables
    BY <1>1, <1>3
  <2>2. RecordFileOf(db, m.slot[i].id) \in F /\ (i # loc => HasFiles(db, m.slot[i], F))
    BY <2>1
  <2>3. CASE i = loc
    <3>1. new.slot[i] = e /\ e.id = m.slot[i].id
      BY <1>3, <2>1, <2>3
    <3> QED BY <2>2, <3>1
  <2>4. CASE i # loc
    <3>1. new.slot[i] = m.slot[i]
      BY <1>3, <2>1, <2>4
    <3> QED BY <2>2, <2>4, <3>1
  <2> QED BY <2>3, <2>4
<1> QED BY <1>1, <1>3, <1>4 DEF FilesBehind
-----------------------------------------------------------------------------
\* A mapping of the same tables says the same.
LEMMA SameTablesKept ==
  ASSUME NEW s, NEW m, SameTables(s, m), NEW n, n.count = m.count,
         \A i \in 1 .. m.count :
           n.slot[i] = m.slot[i] \/ (/\ AllNullable(n.slot[i]) = AllNullable(m.slot[i])
                                     /\ \A c \in 1 .. MAX_COLUMN_COUNT :
                                          n.slot[i].column[c].nullable => m.slot[i].column[c].nullable)
  PROVE  SameTables(s, n)
<1>1. ASSUME NEW i \in 1 .. n.count
      PROVE  /\ AllNullable(s.slot[i]) = AllNullable(n.slot[i])
             /\ \A c \in 1 .. MAX_COLUMN_COUNT :
                  n.slot[i].column[c].nullable => s.slot[i].column[c].nullable
  <2>1. i \in 1 .. m.count
    OBVIOUS
  <2>2. /\ AllNullable(s.slot[i]) = AllNullable(m.slot[i])
        /\ \A c \in 1 .. MAX_COLUMN_COUNT :
             m.slot[i].column[c].nullable => s.slot[i].column[c].nullable
    BY <2>1 DEF SameTables
  <2>3. CASE n.slot[i] = m.slot[i]
    BY <2>2, <2>3
  <2>4. CASE n.slot[i] # m.slot[i]
    BY <2>1, <2>2, <2>4
  <2> QED BY <2>3, <2>4
<1>2. s.count = n.count
  BY DEF SameTables
<1> QED BY <1>1, <1>2 DEF SameTables

\* Files that are there stay behind the tables when there are more.
LEMMA MoreFiles ==
  ASSUME NEW db, NEW m, NEW F, FilesBehind(db, m, F), NEW G, F \subseteq G
  PROVE  FilesBehind(db, m, G)
BY DEF FilesBehind, HasFiles

\* The entry CREATE TABLE makes, with its clauses.
LEMMA CreatedEntry ==
  ASSUME NEW m, IsMapping(m), NEW slot, IsEntry(slot), NEW id \in 1 .. MaxId, NEW name,
         NEW schema \in Schemas, NEW keys, NEW foreign_keys, Len(keys) \in Nat, Len(foreign_keys) \in Nat,
         NEW done, done = WithClauses(m, NewEntry(slot, id, name, schema), keys, foreign_keys)
  PROVE  /\ IsEntry(done.info) /\ done.info.id = id /\ done.info.name = name
         /\ ForeignIds(done.info) \subseteq IdsOf(Tables(m))
         /\ HasFiles(current_db, done.info, done.files)
<1> DEFINE entry == NewEntry(slot, id, name, schema)
           start == [entry EXCEPT !.primary = << >>, !.foreign = << >>]
           w     == WithClauses(m, entry, keys, foreign_keys)
<1>1. /\ IsEntry(entry) /\ entry.id = id /\ entry.name = name
      /\ \A i \in 1 .. entry.field_count : ~ entry.column[i].indexed
  BY NewEntryIsEntry
<1> HIDE DEF entry
<1>2. Good(start, w, IdsOf(Tables(m)))
  BY <1>1, ClausesGood
<1>3. /\ start.id = entry.id /\ start.name = entry.name /\ start.field_count = entry.field_count
      /\ start.column = entry.column /\ ForeignIds(start) = {}
  BY <1>1, StartOfEntry
<1>4. done = w
  BY DEF entry
<1> HIDE DEF start, w
<1>5. Good(start, done, IdsOf(Tables(m)))
  BY <1>2, <1>4
<1>6. ASSUME NEW i \in 1 .. done.info.field_count, done.info.column[i].indexed
      PROVE  IndexFileOf(current_db, done.info.id, done.info.column[i].name) \in done.files
  <2>1. done.info.field_count = start.field_count /\ done.info.id = start.id
    BY <1>5 DEF Good
  <2>2. /\ done.info.column[i].name = start.column[i].name
        /\ done.info.column[i].indexed =>
             \/ start.column[i].indexed
             \/ IndexFileOf(current_db, start.id, start.column[i].name) \in done.files
    BY <1>5, <2>1 DEF Good
  <2>3. ~ start.column[i].indexed
    BY <1>1, <1>3, <2>1
  <2> QED BY <1>6, <2>1, <2>2, <2>3
<1>7. IsEntry(done.info) /\ done.info.id = id /\ done.info.name = name
      /\ ForeignIds(done.info) \subseteq IdsOf(Tables(m))
  BY <1>1, <1>3, <1>5 DEF Good
<1> QED BY <1>6, <1>7 DEF HasFiles

\* CREATE TABLE, whether a clause is refused or not.
LEMMA CreateTable ==
  ASSUME CInv, NEW name \in TableNames, NEW schema \in Schemas, NEW keys, NEW foreign_keys,
         Len(keys) \in Nat, Len(foreign_keys) \in Nat,
         create_table(name, schema, keys, foreign_keys)
  PROVE  CInv'
<1> DEFINE m    == Mapping(current_db)
           at   == m.count + 1
           id   == NextId(Tables(m))
           done == WithClauses(m, NewEntry(m.slot[at], id, name, schema), keys, foreign_keys)
           new  == IF done.ok THEN [count |-> at, slot |-> [m.slot EXCEPT ![at] = done.info]]
                   ELSE [m EXCEPT !.slot[at] = LeftBehind(done.info)]
<1>1. /\ current_db # NoDb /\ name \notin NamesOf(Tables(m)) /\ at <= MaxTables /\ id <= MaxId
      /\ table_mapping_map' = With(table_mapping_map, current_db, new)
      /\ UNCHANGED <<db_mapping, saved_dbs, current_db>>
  BY DEF create_table
<1>2. IF done.ok
        THEN /\ saved_tables' = With(saved_tables, current_db, new)
             /\ files' = files \cup done.files \cup {RecordFileOf(current_db, id)}
        ELSE /\ files' = files \cup done.files
             /\ saved_tables' = saved_tables
  BY DEF create_table
<1>3. /\ IsMapping(m) /\ FilesBehind(current_db, m, files)
      /\ current_db \in Ids => SameTables(saved_tables[current_db], m)
  BY <1>1, CurrentMapping
<1> HIDE DEF m
<1>4. /\ m.count \in Nat /\ at \in 1 .. MaxTables /\ 1 .. m.count \subseteq 1 .. MaxTables
      /\ at \notin 1 .. m.count /\ \A i \in 1 .. at : i # at => i \in 1 .. m.count
  <2>1. m.count \in 0 .. MaxTables /\ MaxTables \in Nat
    BY <1>3, CatalogAssumption DEF IsMapping
  <2> QED BY <1>1, <2>1
<1>5. id \in 1 .. MaxId /\ id \notin IdsOf(Tables(m))
  <2>1. IdsOf(Tables(m)) \subseteq 0 .. MaxId
    BY <1>3, IdsInRange
  <2>2. id \in Nat /\ id >= 1 /\ id \notin IdsOf(Tables(m))
    BY <2>1, NextIdIsNew
  <2> QED BY <1>1, <2>2, CatalogAssumption
<1> HIDE DEF at, id
<1>6. IsEntry(m.slot[at])
  BY <1>3, <1>4 DEF IsMapping
<1>7. /\ IsEntry(done.info) /\ done.info.id = id /\ done.info.name = name
      /\ ForeignIds(done.info) \subseteq IdsOf(Tables(m))
      /\ HasFiles(current_db, done.info, done.files)
  BY <1>3, <1>5, <1>6, CreatedEntry
<1> HIDE DEF done
<1>8. files \subseteq files'
  BY <1>2
<1>9. FilesBehind(current_db, m, files')
  BY <1>3, <1>8, MoreFiles
<1>10. CASE done.ok
  <2> DEFINE n == Replaced(m, at, done.info, at)
  <2>1. new = n
    <3>1. m.slot = [i \in 1 .. MaxTables |-> m.slot[i]]
      BY <1>3 DEF IsMapping
    <3>2. [m.slot EXCEPT ![at] = done.info] = [i \in 1 .. MaxTables |-> IF i = at THEN done.info ELSE m.slot[i]]
      BY <1>4, <3>1
    <3>3. [count |-> at, slot |-> [m.slot EXCEPT ![at] = done.info]] = n
      BY <3>2, Zenon DEF Replaced
    <3> HIDE DEF n
    <3> QED BY <1>10, <3>3, Zenon
  <2>2. /\ IsMapping(n) /\ n.count = at
        /\ \A i \in 1 .. MaxTables : n.slot[i] = IF i = at THEN done.info ELSE m.slot[i]
    BY <1>1, <1>3, <1>4, <1>5, <1>7, TableAdded DEF at
  <2> HIDE DEF n, new
  <2>3. FilesBehind(current_db, n, files')
    <3> SUFFICES ASSUME NEW i \in 1 .. n.count
                 PROVE  /\ RecordFileOf(current_db, n.slot[i].id) \in files'
                        /\ HasFiles(current_db, n.slot[i], files')
      BY DEF FilesBehind
    <3>1. CASE i = at
      <4>1. n.slot[i] = done.info
        BY <1>4, <2>2, <3>1
      <4>2. RecordFileOf(current_db, id) \in files' /\ done.files \subseteq files'
        BY <1>2, <1>10
      <4>3. HasFiles(current_db, done.info, files')
        BY <1>7, <4>2 DEF HasFiles
      <4> QED BY <1>7, <4>1, <4>2, <4>3
    <3>2. CASE i # at
      <4>1. i \in 1 .. m.count /\ n.slot[i] = m.slot[i]
        BY <1>4, <2>2, <3>2
      <4> QED BY <1>9, <4>1 DEF FilesBehind
    <3> QED BY <3>1, <3>2
  <2>4. saved_tables' = With(saved_tables, current_db, n) /\ table_mapping_map' = With(table_mapping_map, current_db, n)
    BY <1>1, <1>2, <1>10, <2>1
  <2> QED BY <1>1, <1>8, <2>2, <2>3, <2>4, MappingStep
<1>11. CASE ~ done.ok
  <2> DEFINE n == Replaced(m, at, LeftBehind(done.info), m.count)
  <2>1. new = n
    <3>1. [m EXCEPT !.slot[at] = LeftBehind(done.info)] = n
      BY <1>3, <1>4, ReplacedIs
    <3> HIDE DEF n
    <3> QED BY <1>11, <3>1, Zenon
  <2>2. Fits(m, at, LeftBehind(done.info))
    BY <1>4, <1>7, LeftBehindIsEntry DEF Fits
  <2>3. /\ IsMapping(n) /\ n.count = m.count
        /\ \A i \in 1 .. MaxTables : n.slot[i] = IF i = at THEN LeftBehind(done.info) ELSE m.slot[i]
    BY <1>3, <1>4, <2>2, SlotReplaced
  <2> HIDE DEF n, new
  <2>4. \A i \in 1 .. m.count : n.slot[i] = m.slot[i]
    BY <1>4, <2>3
  <2>5. FilesBehind(current_db, n, files')
    BY <1>9, <2>3, <2>4 DEF FilesBehind
  <2>6. current_db \in Ids => SameTables(saved_tables[current_db], n)
    BY <1>3, <2>3, <2>4, SameTablesKept
  <2>7. saved_tables' = saved_tables /\ table_mapping_map' = With(table_mapping_map, current_db, n)
    BY <1>1, <1>2, <1>11, <2>1
  <2> QED BY <1>1, <1>8, <2>3, <2>5, <2>6, <2>7, MappingStep
<1> QED BY <1>10, <1>11
-----------------------------------------------------------------------------
\* A statement on one table that does what a clause does.
LEMMA AlterStep ==
  ASSUME CInv, NEW name, IsTable(name), NEW done,
         Clause(TheTable(name), done, IdsOf(Tables(Mapping(current_db)))), Alter(name, done)
  PROVE  CInv'
<1> DEFINE m    == Mapping(current_db)
           loc  == find_table_by_name(m, name)
           info == m.slot[loc]
           ids  == IdsOf(Tables(m))
           new  == [m EXCEPT !.slot[loc] = done.info]
<1>1. /\ table_mapping_map' = With(table_mapping_map, current_db, new)
      /\ saved_tables' = IF done.ok THEN With(saved_tables, current_db, new) ELSE saved_tables
      /\ files' = files \cup done.files
      /\ UNCHANGED <<db_mapping, saved_dbs, current_db>>
  BY DEF Alter
<1>2. current_db # NoDb /\ name \in NamesOf(Tables(m))
  BY DEF IsTable
<1>3. Clause(info, done, ids)
  BY DEF TheTable
<1>4. /\ IsMapping(m) /\ FilesBehind(current_db, m, files)
      /\ current_db \in Ids => SameTables(saved_tables[current_db], m)
  BY <1>2, CurrentMapping
<1> HIDE DEF m
<1>5. loc \in 1 .. m.count /\ loc \in 1 .. MaxTables
  BY <1>2, <1>4, TableFound
<1> HIDE DEF loc
<1>6. /\ IsEntry(done.info) /\ done.info.id = info.id /\ done.info.name = info.name
      /\ done.info.field_count = info.field_count /\ ForeignIds(done.info) \subseteq ids
  <2>1. ForeignIds(info) \subseteq ids
    BY <1>4, <1>5 DEF IsMapping
  <2> QED BY <1>3, <2>1 DEF Clause, Good
<1>7. files \subseteq files' /\ done.files \subseteq files'
  BY <1>1
<1>8. FilesBehind(current_db, m, files')
  BY <1>4, <1>7, MoreFiles
<1>9. HasFiles(current_db, done.info, files')
  <2> SUFFICES ASSUME NEW i \in 1 .. done.info.field_count, done.info.column[i].indexed
               PROVE  IndexFileOf(current_db, done.info.id, done.info.column[i].name) \in files'
    BY DEF HasFiles
  <2>1. /\ i \in 1 .. info.field_count /\ done.info.column[i].name = info.column[i].name
        /\ \/ info.column[i].indexed
           \/ IndexFileOf(current_db, info.id, info.column[i].name) \in done.files
    BY <1>3, <1>6 DEF Clause, Good
  <2>2. HasFiles(current_db, info, files')
    BY <1>5, <1>8 DEF FilesBehind
  <2>3. IndexFileOf(current_db, info.id, info.column[i].name) \in files'
    BY <1>7, <2>1, <2>2 DEF HasFiles
  <2> QED BY <1>6, <2>1, <2>3
<1>10. \A i \in 1 .. m.count : /\ RecordFileOf(current_db, m.slot[i].id) \in files'
                               /\ i # loc => HasFiles(current_db, m.slot[i], files')
  BY <1>8 DEF FilesBehind
<1>11. /\ IsMapping(new) /\ FilesBehind(current_db, new, files') /\ new.count = m.count
       /\ \A i \in 1 .. m.count : new.slot[i] = IF i = loc THEN done.info ELSE m.slot[i]
  <2> DEFINE d == done.info
  <2>1. IsEntry(d) /\ d.id = info.id /\ d.name = info.name /\ ForeignIds(d) \subseteq ids /\ HasFiles(current_db, d, files')
    BY <1>6, <1>9
  <2> HIDE DEF d
  <2> DEFINE n == Replaced(m, loc, d, m.count)
  <2>2. /\ IsMapping(n) /\ FilesBehind(current_db, n, files') /\ n.count = m.count
        /\ \A i \in 1 .. m.count : n.slot[i] = IF i = loc THEN d ELSE m.slot[i]
    BY <1>4, <1>5, <1>10, <2>1, Altered
  <2>3. [m EXCEPT !.slot[loc] = d] = n
    BY <1>4, <1>5, ReplacedIs
  <2> HIDE DEF n
  <2>4. new = n
    BY <2>3 DEF d
  <2> QED BY <2>2, <2>4 DEF d
<1> HIDE DEF new
<1>12. CASE done.ok
  <2>1. saved_tables' = With(saved_tables, current_db, new)
    BY <1>1, <1>12
  <2> QED BY <1>1, <1>2, <1>7, <1>11, <2>1, MappingStep
<1>13. CASE ~ done.ok
  <2>1. saved_tables' = saved_tables
    BY <1>1, <1>13
  <2>2. Harmless(info, done)
    BY <1>3, <1>13 DEF Clause
  <2>3. ASSUME NEW i \in 1 .. m.count
        PROVE  \/ new.slot[i] = m.slot[i]
               \/ /\ AllNullable(new.slot[i]) = AllNullable(m.slot[i])
                  /\ \A c \in 1 .. MAX_COLUMN_COUNT :
                       new.slot[i].column[c].nullable => m.slot[i].column[c].nullable
    <3>1. CASE i = loc
      <4>1. new.slot[i] = done.info /\ m.slot[i] = info
        BY <1>11, <3>1
      <4> QED BY <2>2, <4>1 DEF Harmless
    <3>2. CASE i # loc
      BY <1>11, <3>2
    <3> QED BY <3>1, <3>2
  <2>4. current_db \in Ids => SameTables(saved_tables[current_db], new)
    BY <1>4, <1>11, <2>3, SameTablesKept
  <2> QED BY <1>1, <1>2, <1>7, <1>11, <2>1, <2>4, MappingStep
<1> QED BY <1>12, <1>13

\* The entry of a table there is.
LEMMA TheTableIsEntry ==
  ASSUME CInv, NEW name, IsTable(name)
  PROVE  IsEntry(TheTable(name)) /\ IsMapping(Mapping(current_db))
<1> DEFINE m == Mapping(current_db)
<1>1. current_db # NoDb /\ name \in NamesOf(Tables(m)) /\ TheTable(name) = m.slot[find_table_by_name(m, name)]
  BY DEF IsTable, TheTable
<1>2. IsMapping(m)
  BY <1>1, CurrentMapping
<1> HIDE DEF m
<1>3. IsEntry(TheTable(name))
  BY <1>1, <1>2, TableFound DEF IsMapping
<1> QED BY <1>2, <1>3 DEF m

\* What leaves a table its columns and adds no reference is as good.
LEMMA LessGood ==
  ASSUME NEW info, NEW x, IsEntry(x),
         x.id = info.id, x.name = info.name, x.field_count = info.field_count, x.column = info.column,
         ForeignIds(x) \subseteq ForeignIds(info), NEW ids
  PROVE  Clause(info, Outcome(TRUE, x, {}), ids)
BY DEF Clause, Good, Outcome

\* A sequence without its member number k.
LEMMA OneRemoved ==
  ASSUME NEW S, NEW s \in Seq(S), NEW k \in 1 .. Len(s)
  PROVE  /\ RemoveAt(s, k) \in Seq(S) /\ Len(RemoveAt(s, k)) = Len(s) - 1
         /\ \A j \in 1 .. Len(s) - 1 : RemoveAt(s, k)[j] = IF j < k THEN s[j] ELSE s[j + 1]
<1> DEFINE a == SubSeq(s, 1, k - 1)
           b == SubSeq(s, k + 1, Len(s))
<1>1. Len(s) \in Nat /\ k \in Nat /\ k >= 1 /\ k <= Len(s)
  OBVIOUS
<1>2. a \in Seq(S) /\ Len(a) = k - 1 /\ \A j \in 1 .. k - 1 : a[j] = s[j]
  BY <1>1
<1>3. b \in Seq(S) /\ Len(b) = Len(s) - k /\ \A j \in 1 .. Len(s) - k : b[j] = s[j + k]
  BY <1>1
<1> HIDE DEF a, b
<1>4. /\ a \o b \in Seq(S) /\ Len(a \o b) = Len(s) - 1
      /\ \A j \in 1 .. Len(s) - 1 : (a \o b)[j] = IF j <= Len(a) THEN a[j] ELSE b[j - Len(a)]
  <2>1. /\ a \o b \in Seq(S) /\ Len(a \o b) = Len(a) + Len(b)
        /\ \A j \in 1 .. Len(a) + Len(b) : (a \o b)[j] = IF j <= Len(a) THEN a[j] ELSE b[j - Len(a)]
    <3>1. a \in Seq(S) /\ b \in Seq(S)
      BY <1>2, <1>3
    <3>2. a \o b \in Seq(S) /\ Len(a \o b) = Len(a) + Len(b)
      BY <3>1
    <3>3. \A j \in 1 .. Len(a) + Len(b) : (a \o b)[j] = IF j <= Len(a) THEN a[j] ELSE b[j - Len(a)]
      BY <3>1
    <3> QED BY <3>2, <3>3
  <2>2. Len(a) + Len(b) = Len(s) - 1
    BY <1>1, <1>2, <1>3
  <2> QED BY <2>1, <2>2
<1>5. ASSUME NEW j \in 1 .. Len(s) - 1
      PROVE  (a \o b)[j] = IF j < k THEN s[j] ELSE s[j + 1]
  <2>1. CASE j < k
    BY <1>1, <1>2, <1>4, <2>1
  <2>2. CASE ~ (j < k)
    <3>1. j - Len(a) \in 1 .. Len(s) - k /\ (j - Len(a)) + k = j + 1 /\ ~ (j <= Len(a))
      BY <1>1, <1>2, <2>2
    <3> QED BY <1>3, <1>4, <2>2, <3>1
  <2> QED BY <2>1, <2>2
<1>6. RemoveAt(s, k) = a \o b
  BY DEF RemoveAt, a, b
<1> QED BY <1>4, <1>5, <1>6
-----------------------------------------------------------------------------
\* ALTER TABLE and CREATE INDEX.
LEMMA AddKeys ==
  ASSUME CInv, NEW name
  PROVE  /\ \A columns : AddPrimaryKey(name, columns) => CInv'
         /\ \A columns : AddUnique(name, columns) => CInv'
         /\ \A f : AddForeignKey(name, f) => CInv'
<1>1. ASSUME NEW columns, AddPrimaryKey(name, columns) PROVE CInv'
  <2>1. IsTable(name) /\ Alter(name, add_primary_key(TheTable(name), columns))
    BY <1>1 DEF AddPrimaryKey
  <2>2. Clause(TheTable(name), add_primary_key(TheTable(name), columns), IdsOf(Tables(Mapping(current_db))))
    BY <2>1, TheTableIsEntry, PrimaryGood
  <2> QED BY <2>1, <2>2, AlterStep
<1>2. ASSUME NEW columns, AddUnique(name, columns) PROVE CInv'
  <2>1. IsTable(name) /\ Alter(name, add_unique(TheTable(name), columns))
    BY <1>2 DEF AddUnique
  <2>2. Clause(TheTable(name), add_unique(TheTable(name), columns), IdsOf(Tables(Mapping(current_db))))
    BY <2>1, TheTableIsEntry, UniqueGood
  <2> QED BY <2>1, <2>2, AlterStep
<1>3. ASSUME NEW f, AddForeignKey(name, f) PROVE CInv'
  <2>1. IsTable(name) /\ Alter(name, add_foreign_key(Mapping(current_db), TheTable(name), f))
    BY <1>3 DEF AddForeignKey
  <2>2. Clause(TheTable(name), add_foreign_key(Mapping(current_db), TheTable(name), f),
               IdsOf(Tables(Mapping(current_db))))
    BY <2>1, TheTableIsEntry, ForeignGood
  <2> QED BY <2>1, <2>2, AlterStep
<1> QED BY <1>1, <1>2, <1>3

\* CREATE INDEX.
LEMMA CreateIndex ==
  ASSUME CInv, NEW name, NEW c, create_index(name, c)
  PROVE  CInv'
<1> DEFINE info == TheTable(name)
           i    == find_column_by_name(info, c)
<1>1. IsTable(name) /\ i <= info.field_count /\ Alter(name, add_index(info, {i}))
  BY DEF create_index
<1>2. IsEntry(info)
  BY <1>1, TheTableIsEntry
<1> HIDE DEF info
<1>3. i \in 1 .. info.field_count + 1 /\ info.field_count \in Nat
  BY <1>2, ColumnFound, CatalogAssumption DEF IsEntry
<1>4. {i} \subseteq 1 .. info.field_count
  <2> HIDE DEF i
  <2> QED BY <1>1, <1>3
<1> HIDE DEF i
<1>5. Clause(info, add_index(info, {i}), IdsOf(Tables(Mapping(current_db))))
  BY <1>2, <1>4, AddIndexGood DEF Clause
<1> QED BY <1>1, <1>5, AlterStep DEF info

\* ALTER TABLE DROP of a key.
LEMMA DropKeys ==
  ASSUME CInv, NEW name
  PROVE  /\ drop_primary_key(name) => CInv'
         /\ \A key : drop_foreign_key(name, key) => CInv'
<1> DEFINE info == TheTable(name)
           ids  == IdsOf(Tables(Mapping(current_db)))
<1>1. ASSUME drop_primary_key(name) PROVE CInv'
  <2> DEFINE x == [info EXCEPT !.primary = Front(@)]
  <2>1. IsTable(name) /\ Alter(name, Outcome(TRUE, x, {}))
    BY <1>1 DEF drop_primary_key
  <2>2. IsEntry(info)
    BY <2>1, TheTableIsEntry
  <2> HIDE DEF info
  <2>3. IsEntry(x)
    BY <2>2, KeysAreFree
  <2>4. /\ x.id = info.id /\ x.name = info.name /\ x.field_count = info.field_count
        /\ x.column = info.column /\ x.foreign = info.foreign
    BY <2>2, FieldReplaced DEF Fields
  <2> HIDE DEF x
  <2>5. ForeignIds(x) = ForeignIds(info)
    BY <2>4 DEF ForeignIds
  <2>6. Clause(info, Outcome(TRUE, x, {}), ids)
    BY <2>3, <2>4, <2>5, LessGood
  <2> QED BY <2>1, <2>6, AlterStep DEF info
<1>2. ASSUME NEW key, drop_foreign_key(name, key) PROVE CInv'
  <2> DEFINE its == {i \in DOMAIN info.foreign : info.foreign[i].name = key}
             k   == Min(its)
             s   == info.foreign
             x   == [info EXCEPT !.foreign = RemoveAt(s, k)]
  <2>1. IsTable(name) /\ its # {} /\ Alter(name, Outcome(TRUE, x, {}))
    BY <1>2 DEF drop_foreign_key
  <2>2. IsEntry(info)
    BY <2>1, TheTableIsEntry
  <2> HIDE DEF info
  <2>3. s \in Seq(ToSet(s)) /\ DOMAIN s = 1 .. Len(s)
    BY <2>2 DEF IsEntry
  <2>4. its \subseteq 1 .. Len(s) /\ its \subseteq Nat
    BY <2>3
  <2>5. k \in 1 .. Len(s)
    <3> HIDE DEF its
    <3>1. \E i \in its : \A j \in its : i <= j
      BY <2>1, <2>4, LeastExists
    <3>2. k \in its
      BY <3>1 DEF Min
    <3> QED BY <2>4, <3>2
  <2> HIDE DEF k, s, its
  <2> DEFINE d == RemoveAt(s, k)
  <2>6. /\ d \in Seq(ToSet(s)) /\ Len(d) = Len(s) - 1
        /\ \A j \in 1 .. Len(s) - 1 : d[j] = IF j < k THEN s[j] ELSE s[j + 1]
    BY <2>3, <2>5, OneRemoved
  <2> HIDE DEF d
  <2>7. /\ IsEntry([info EXCEPT !.foreign = d])
        /\ ForeignIds([info EXCEPT !.foreign = d]) = {d[i].foreign_table_id : i \in DOMAIN d}
    BY <2>2, <2>6, ForeignReplaced
  <2>8. {d[i].foreign_table_id : i \in DOMAIN d} \subseteq ForeignIds(info)
    <3> SUFFICES ASSUME NEW i \in DOMAIN d
                 PROVE  d[i].foreign_table_id \in ForeignIds(info)
      OBVIOUS
    <3>1. d[i] \in ToSet(s)
      BY <2>6
    <3>2. PICK j \in DOMAIN s : d[i] = s[j]
      BY <3>1 DEF ToSet
    <3> QED BY <3>2 DEF ForeignIds, s
  <2>9. x = [info EXCEPT !.foreign = d]
    BY DEF d
  <2>10. x.id = info.id /\ x.name = info.name /\ x.field_count = info.field_count /\ x.column = info.column
    BY <2>2, FieldReplaced DEF Fields
  <2> HIDE DEF x
  <2>11. Clause(info, Outcome(TRUE, x, {}), ids)
    BY <2>7, <2>8, <2>9, <2>10, LessGood
  <2> QED BY <2>1, <2>11, AlterStep DEF info
<1> QED BY <1>1, <1>2
-----------------------------------------------------------------------------
\* A file says its database, its table and, of an index, its column.
LEMMA FileNames ==
  ASSUME NEW db, NEW id, NEW c
  PROVE  /\ RecordFileOf(db, id)[1] = db /\ RecordFileOf(db, id)[2] = id /\ RecordFileOf(db, id)[3] = NoName
         /\ IndexFileOf(db, id, c)[1] = db /\ IndexFileOf(db, id, c)[2] = id /\ IndexFileOf(db, id, c)[3] = c
BY DEF RecordFileOf, IndexFileOf

\* The files of other tables stay when files of one table go.
LEMMA OthersKeepFiles ==
  ASSUME NEW db, NEW t, NEW id, t.id # id, NEW F, NEW gone, \A f \in gone : f[2] = id,
         RecordFileOf(db, t.id) \in F, HasFiles(db, t, F)
  PROVE  RecordFileOf(db, t.id) \in F \ gone /\ HasFiles(db, t, F \ gone)
<1>1. RecordFileOf(db, t.id) \in F \ gone
  BY FileNames
<1>2. ASSUME NEW i \in 1 .. t.field_count, t.column[i].indexed
      PROVE  IndexFileOf(db, t.id, t.column[i].name) \in F \ gone
  <2>1. IndexFileOf(db, t.id, t.column[i].name) \in F
    BY <1>2 DEF HasFiles
  <2>2. IndexFileOf(db, t.id, t.column[i].name)[2] = t.id
    BY FileNames
  <2> QED BY <2>1, <2>2
<1> QED BY <1>1, <1>2 DEF HasFiles

\* DROP TABLE, which no other table may refer to.
LEMMA DropTable ==
  ASSUME CInv, NEW name, drop_table(name)
  PROVE  CInv'
<1> DEFINE m    == Mapping(current_db)
           loc  == find_table_by_name(m, name)
           info == m.slot[loc]
           new  == [count |-> m.count - 1,
                    slot |-> [i \in DOMAIN m.slot |-> IF i \in loc .. m.count - 1 THEN m.slot[i + 1]
                                                      ELSE IF i = m.count THEN LeftBehind(m.slot[i])
                                                      ELSE m.slot[i]]]
           its  == {RecordFileOf(current_db, info.id)}
                   \cup {IndexFileOf(current_db, info.id, info.column[i].name) :
                           i \in {j \in 1 .. info.field_count : info.column[j].indexed}}
<1>1. /\ IsTable(name) /\ ~ ReferredTo(m, info.id, Tables(m) \ {info})
      /\ files' = files \ its
      /\ table_mapping_map' = With(table_mapping_map, current_db, new)
      /\ saved_tables' = With(saved_tables, current_db, new)
      /\ UNCHANGED <<db_mapping, saved_dbs, current_db>>
  BY DEF drop_table
<1>2. current_db # NoDb /\ name \in NamesOf(Tables(m))
  BY <1>1 DEF IsTable
<1>3. IsMapping(m) /\ FilesBehind(current_db, m, files)
  BY <1>2, CurrentMapping
<1> HIDE DEF m
<1>4. loc \in 1 .. m.count
  BY <1>2, <1>3, TableFound
<1> HIDE DEF loc
<1>5. \A f \in its : f[1] = current_db /\ f[2] = info.id
  BY FileNames
<1> HIDE DEF its
<1>6. \A t \in Tables(m) \ {m.slot[loc]} : m.slot[loc].id \notin ForeignIds(t)
  BY <1>1 DEF ReferredTo, ForeignIds
<1> DEFINE n == Without(m, loc)
<1>7. new = n
  <2>1. m.slot = [i \in 1 .. MaxTables |-> m.slot[i]]
    BY <1>3 DEF IsMapping
  <2>2. DOMAIN m.slot = 1 .. MaxTables
    BY <2>1
  <2> QED BY <2>2 DEF Without
<1>8. IsMapping(n) /\ \A i \in 1 .. n.count : \E j \in 1 .. m.count : j # loc /\ n.slot[i] = m.slot[j]
  BY <1>3, <1>4, <1>6, TableRemoved
<1> HIDE DEF new, n
<1>9. FilesBehind(current_db, n, files')
  <2> SUFFICES ASSUME NEW i \in 1 .. n.count
               PROVE  RecordFileOf(current_db, n.slot[i].id) \in files' /\ HasFiles(current_db, n.slot[i], files')
    BY DEF FilesBehind
  <2>1. PICK j \in 1 .. m.count : j # loc /\ n.slot[i] = m.slot[j]
    BY <1>8
  <2>2. m.slot[j].id # info.id
    BY <1>3, <1>4, <2>1 DEF IsMapping
  <2>3. RecordFileOf(current_db, m.slot[j].id) \in files /\ HasFiles(current_db, m.slot[j], files)
    BY <1>3 DEF FilesBehind
  <2>4. \A f \in its : f[2] = info.id
    BY <1>5
  <2> DEFINE t == m.slot[j]
  <2> HIDE DEF t, info
  <2>5. RecordFileOf(current_db, t.id) \in files \ its /\ HasFiles(current_db, t, files \ its)
    BY <2>2, <2>3, <2>4, OthersKeepFiles DEF t
  <2> QED BY <1>1, <2>1, <2>5 DEF t
<1>10. \A f \in files : f[1] # current_db => f \in files'
  BY <1>1, <1>5
<1>11. /\ table_mapping_map' = With(table_mapping_map, current_db, n)
       /\ saved_tables' = With(saved_tables, current_db, n)
  BY <1>1, <1>7
<1> QED BY <1>1, <1>2, <1>8, <1>9, <1>10, <1>11, MappingStep

\* The column at i has no index any more.
Unindexed(info, i) ==
  [info EXCEPT !.column = [j \in DOMAIN @ |-> IF j = i THEN [@[j] EXCEPT !.indexed = FALSE] ELSE @[j]]]

\* An index is gone, and no other.
LEMMA UnindexedIsEntry ==
  ASSUME NEW info, IsEntry(info), NEW i \in 1 .. info.field_count, NEW e, e = Unindexed(info, i)
  PROVE  /\ IsEntry(e) /\ e.id = info.id /\ e.name = info.name /\ e.field_count = info.field_count
         /\ ForeignIds(e) = ForeignIds(info)
         /\ \A j \in 1 .. info.field_count :
              /\ e.column[j].name = info.column[j].name
              /\ e.column[j].indexed => info.column[j].indexed /\ info.column[j].name # info.column[i].name
<1> DEFINE v == [j \in DOMAIN info.column |-> IF j = i THEN [info.column[j] EXCEPT !.indexed = FALSE]
                                              ELSE info.column[j]]
<1>1. e = [info EXCEPT !.column = v]
  BY DEF Unindexed
<1>2. /\ info.column \in [1 .. MAX_COLUMN_COUNT -> Column] /\ 1 .. info.field_count \subseteq 1 .. MAX_COLUMN_COUNT
      /\ \A j \in 1 .. info.field_count : info.column[i].name = info.column[j].name => i = j
  BY CatalogAssumption DEF IsEntry
<1>3. \A col \in Column : /\ [col EXCEPT !.indexed = FALSE] \in Column
                          /\ [col EXCEPT !.indexed = FALSE].name = col.name
                          /\ ~ [col EXCEPT !.indexed = FALSE].indexed
  BY DEF Column
<1>4. DOMAIN info.column = 1 .. MAX_COLUMN_COUNT /\ \A j \in 1 .. MAX_COLUMN_COUNT : info.column[j] \in Column
  BY <1>2
<1>5. v \in [1 .. MAX_COLUMN_COUNT -> Column]
  BY <1>3, <1>4
<1>6. \A j \in 1 .. MAX_COLUMN_COUNT :
        v[j] = IF j = i THEN [info.column[j] EXCEPT !.indexed = FALSE] ELSE info.column[j]
  BY <1>4
<1> HIDE DEF v
<1>7. \A j \in 1 .. MAX_COLUMN_COUNT :
        /\ v[j].name = info.column[j].name
        /\ v[j].indexed => info.column[j].indexed /\ i # j
  BY <1>3, <1>4, <1>6
<1>8. IsEntry(e)
  <2>1. \A j \in 1 .. info.field_count : v[j].name = info.column[j].name
    BY <1>2, <1>7
  <2>2. IsEntry([info EXCEPT !.column = v])
    BY <1>5, <2>1, ColumnsReplaced
  <2> QED BY <1>1, <2>2
<1>9. /\ e.column = v /\ e.id = info.id /\ e.name = info.name
      /\ e.field_count = info.field_count /\ e.foreign = info.foreign
  BY <1>1, FieldReplaced DEF Fields
<1>10. ForeignIds(e) = ForeignIds(info)
  BY <1>9 DEF ForeignIds
<1>11. ASSUME NEW j \in 1 .. info.field_count
       PROVE  /\ e.column[j].name = info.column[j].name
              /\ e.column[j].indexed => info.column[j].indexed /\ info.column[j].name # info.column[i].name
  <2>1. j \in 1 .. MAX_COLUMN_COUNT
    BY <1>2
  <2> QED BY <1>2, <1>7, <1>9, <2>1
<1> QED BY <1>8, <1>9, <1>10, <1>11

\* What DROP INDEX makes of the mapping.
LEMMA IndexDropped ==
  ASSUME NEW m, IsMapping(m), NEW loc \in 1 .. MaxTables, NEW i \in 1 .. m.slot[loc].field_count,
         NEW new, new = [m EXCEPT !.slot[loc].column[i].indexed = FALSE]
  PROVE  new = Replaced(m, loc, Unindexed(m.slot[loc], i), m.count)
<1> DEFINE info == m.slot[loc]
           f    == info.column
           X    == [f[i] EXCEPT !.indexed = FALSE]
           v    == [j \in DOMAIN f |-> IF j = i THEN [f[j] EXCEPT !.indexed = FALSE] ELSE f[j]]
           w    == [f EXCEPT ![i] = X]
<1>1. new = [m EXCEPT !.slot[loc] = [info EXCEPT !.column[i].indexed = FALSE]]
  OBVIOUS
<1>2. [info EXCEPT !.column[i].indexed = FALSE] = [info EXCEPT !.column = w]
  OBVIOUS
<1>3. IsEntry(info)
  BY DEF IsMapping
<1>4. f = [j \in 1 .. MAX_COLUMN_COUNT |-> f[j]] /\ i \in 1 .. MAX_COLUMN_COUNT
  <2>1. info.column \in [1 .. MAX_COLUMN_COUNT -> Column] /\ info.field_count \in 0 .. MAX_COLUMN_COUNT
    BY <1>3 DEF IsEntry
  <2> HIDE DEF info
  <2>2. f = [j \in 1 .. MAX_COLUMN_COUNT |-> f[j]]
    BY <2>1
  <2>3. i \in 1 .. MAX_COLUMN_COUNT
    BY <2>1, CatalogAssumption DEF info
  <2> QED BY <2>2, <2>3
<1>5. w = v
  <2> HIDE DEF info
  <2> QED BY <1>4
<1>6. [info EXCEPT !.column = v] = Unindexed(info, i)
  BY DEF Unindexed
<1> DEFINE e == Unindexed(info, i)
<1>7. [info EXCEPT !.column[i].indexed = FALSE] = e
  <2> HIDE DEF v, w, info
  <2> QED BY <1>2, <1>5, <1>6
<1>8. new = [m EXCEPT !.slot[loc] = e]
  <2> HIDE DEF e
  <2> QED BY <1>1, <1>7, Zenon
<1> HIDE DEF e
<1>9. [m EXCEPT !.slot[loc] = e] = Replaced(m, loc, e, m.count)
  BY ReplacedIs
<1> QED BY <1>8, <1>9 DEF e

\* DROP INDEX, which leaves the other indexes their files.
LEMMA DropIndex ==
  ASSUME CInv, NEW name, NEW c \in Columns, drop_index(name, c)
  PROVE  CInv'
<1> DEFINE m    == Mapping(current_db)
           loc  == find_table_by_name(m, name)
           info == m.slot[loc]
           i    == find_column_by_name(info, c)
           new  == [m EXCEPT !.slot[loc].column[i].indexed = FALSE]
           gone == {IndexFileOf(current_db, info.id, c)}
<1>1. /\ IsTable(name) /\ i <= info.field_count
      /\ files' = files \ gone
      /\ table_mapping_map' = With(table_mapping_map, current_db, new)
      /\ saved_tables' = With(saved_tables, current_db, new)
      /\ UNCHANGED <<db_mapping, saved_dbs, current_db>>
  BY DEF drop_index
<1>2. current_db # NoDb /\ name \in NamesOf(Tables(m))
  BY <1>1 DEF IsTable
<1>3. IsMapping(m) /\ FilesBehind(current_db, m, files)
  BY <1>2, CurrentMapping
<1> HIDE DEF m
<1>4. loc \in 1 .. m.count /\ loc \in 1 .. MaxTables
  BY <1>2, <1>3, TableFound
<1> HIDE DEF loc
<1>5. IsEntry(info)
  BY <1>3, <1>4 DEF IsMapping
<1> HIDE DEF info
<1>6. i \in 1 .. info.field_count /\ info.column[i].name = c
  <2>1. i \in 1 .. info.field_count + 1 /\ (i <= info.field_count => info.column[i].name = c)
    BY <1>5, ColumnFound
  <2>2. info.field_count \in Nat
    BY <1>5, CatalogAssumption DEF IsEntry
  <2> HIDE DEF i
  <2> QED BY <1>1, <2>1, <2>2
<1> HIDE DEF i
<1> DEFINE e == Unindexed(info, i)
<1>7. /\ IsEntry(e) /\ e.id = info.id /\ e.name = info.name /\ e.field_count = info.field_count
      /\ ForeignIds(e) = ForeignIds(info)
      /\ \A j \in 1 .. info.field_count :
           /\ e.column[j].name = info.column[j].name
           /\ e.column[j].indexed => info.column[j].indexed /\ info.column[j].name # info.column[i].name
  BY <1>5, <1>6, UnindexedIsEntry
<1> HIDE DEF e
<1> DEFINE n == Replaced(m, loc, e, m.count)
<1>8. new = n
  BY <1>3, <1>4, <1>6, IndexDropped DEF e, info
<1> HIDE DEF new
<1>9. HasFiles(current_db, e, files')
  <2> SUFFICES ASSUME NEW j \in 1 .. e.field_count, e.column[j].indexed
               PROVE  IndexFileOf(current_db, e.id, e.column[j].name) \in files'
    BY DEF HasFiles
  <2>1. j \in 1 .. info.field_count /\ info.column[j].indexed /\ info.column[j].name # c
        /\ e.column[j].name = info.column[j].name
    BY <1>6, <1>7
  <2>2. HasFiles(current_db, info, files)
    BY <1>3, <1>4 DEF FilesBehind, info
  <2>3. IndexFileOf(current_db, info.id, info.column[j].name) \in files
    BY <2>1, <2>2 DEF HasFiles
  <2>4. IndexFileOf(current_db, info.id, info.column[j].name) # IndexFileOf(current_db, info.id, c)
    BY <2>1, FileNames
  <2> QED BY <1>1, <1>7, <2>1, <2>3, <2>4
<1>10. ASSUME NEW k \in 1 .. m.count
       PROVE  RecordFileOf(current_db, m.slot[k].id) \in files' /\ (k # loc => HasFiles(current_db, m.slot[k], files'))
  <2> DEFINE t == m.slot[k]
  <2>1. RecordFileOf(current_db, t.id) \in files /\ HasFiles(current_db, t, files)
    BY <1>3 DEF FilesBehind
  <2>2. CASE k = loc
    <3>1. c # NoName
      BY CatalogAssumption
    <3>2. RecordFileOf(current_db, t.id) # IndexFileOf(current_db, info.id, c)
      BY <3>1, FileNames
    <3> QED BY <1>1, <2>1, <2>2, <3>2
  <2>3. CASE k # loc
    <3>1. t.id # info.id
      BY <1>3, <1>4, <2>3 DEF IsMapping, info
    <3>2. \A f \in gone : f[2] = info.id
      BY FileNames
    <3> HIDE DEF t, gone
    <3>3. RecordFileOf(current_db, t.id) \in files \ gone /\ HasFiles(current_db, t, files \ gone)
      BY <2>1, <3>1, <3>2, OthersKeepFiles
    <3> QED BY <1>1, <3>3 DEF t
  <2> QED BY <2>2, <2>3
<1>11. IsMapping(n) /\ FilesBehind(current_db, n, files')
  <2>1. ForeignIds(e) \subseteq IdsOf(Tables(m))
    BY <1>3, <1>4, <1>7 DEF IsMapping, info
  <2>2. e.id = m.slot[loc].id /\ e.name = m.slot[loc].name
    BY <1>7 DEF info
  <2> QED BY <1>3, <1>4, <1>7, <1>9, <1>10, <2>1, <2>2, Altered
<1>12. \A f \in files : f[1] # current_db => f \in files'
  BY <1>1, FileNames
<1>13. /\ table_mapping_map' = With(table_mapping_map, current_db, n)
       /\ saved_tables' = With(saved_tables, current_db, n)
  BY <1>1, <1>8
<1> HIDE DEF n
<1> QED BY <1>1, <1>2, <1>11, <1>12, <1>13, MappingStep
-----------------------------------------------------------------------------
\* What AllNullable keeps of an entry.
LEMMA AllNullableKeeps ==
  ASSUME NEW t, IsEntry(t)
  PROVE  /\ AllNullable(t).id = t.id /\ AllNullable(t).field_count = t.field_count
         /\ \A i \in 1 .. MAX_COLUMN_COUNT : /\ AllNullable(t).column[i].name = t.column[i].name
                                             /\ AllNullable(t).column[i].indexed = t.column[i].indexed
<1> DEFINE v == [i \in DOMAIN t.column |-> [t.column[i] EXCEPT !.nullable = TRUE]]
<1>1. AllNullable(t) = [t EXCEPT !.column = v]
  BY DEF AllNullable
<1>2. t.column \in [1 .. MAX_COLUMN_COUNT -> Column]
  BY DEF IsEntry
<1>3. \A col \in Column : /\ [col EXCEPT !.nullable = TRUE].name = col.name
                          /\ [col EXCEPT !.nullable = TRUE].indexed = col.indexed
  BY DEF Column
<1>4. \A i \in 1 .. MAX_COLUMN_COUNT : v[i].name = t.column[i].name /\ v[i].indexed = t.column[i].indexed
  BY <1>2, <1>3
<1> HIDE DEF v
<1>5. [t EXCEPT !.column = v].id = t.id /\ [t EXCEPT !.column = v].field_count = t.field_count
      /\ [t EXCEPT !.column = v].column = v
  BY FieldReplaced DEF Fields
<1> QED BY <1>1, <1>4, <1>5

\* The files behind a mapping are behind one that says the same.
LEMMA SameFiles ==
  ASSUME NEW s, IsMapping(s), NEW m, IsMapping(m), SameTables(s, m), NEW db, NEW F, FilesBehind(db, m, F)
  PROVE  FilesBehind(db, s, F)
<1> SUFFICES ASSUME NEW i \in 1 .. s.count
             PROVE  RecordFileOf(db, s.slot[i].id) \in F /\ HasFiles(db, s.slot[i], F)
  BY DEF FilesBehind
<1>1. i \in 1 .. m.count /\ i \in 1 .. MaxTables /\ AllNullable(s.slot[i]) = AllNullable(m.slot[i])
  <2>1. i \in 1 .. m.count
    BY DEF SameTables
  <2>2. m.count \in 0 .. MaxTables
    BY DEF IsMapping
  <2>3. i \in 1 .. MaxTables
    BY <2>1, <2>2, CatalogAssumption
  <2> QED BY <2>1, <2>3 DEF SameTables
<1> DEFINE x == s.slot[i]
           t == m.slot[i]
<1>2. IsEntry(x) /\ IsEntry(t) /\ AllNullable(x) = AllNullable(t)
  BY <1>1 DEF IsMapping
<1>3. RecordFileOf(db, t.id) \in F /\ HasFiles(db, t, F)
  BY <1>1 DEF FilesBehind
<1> HIDE DEF x, t
<1>4. /\ x.id = t.id /\ x.field_count = t.field_count
      /\ \A j \in 1 .. MAX_COLUMN_COUNT : x.column[j].name = t.column[j].name
                                          /\ x.column[j].indexed = t.column[j].indexed
  <2>1. /\ AllNullable(x).id = x.id /\ AllNullable(x).field_count = x.field_count
        /\ \A j \in 1 .. MAX_COLUMN_COUNT : /\ AllNullable(x).column[j].name = x.column[j].name
                                            /\ AllNullable(x).column[j].indexed = x.column[j].indexed
    BY <1>2, AllNullableKeeps
  <2>2. /\ AllNullable(t).id = t.id /\ AllNullable(t).field_count = t.field_count
        /\ \A j \in 1 .. MAX_COLUMN_COUNT : /\ AllNullable(t).column[j].name = t.column[j].name
                                            /\ AllNullable(t).column[j].indexed = t.column[j].indexed
    BY <1>2, AllNullableKeeps
  <2> QED BY <1>2, <2>1, <2>2
<1>5. 1 .. x.field_count \subseteq 1 .. MAX_COLUMN_COUNT
  BY <1>2, CatalogAssumption DEF IsEntry
<1>6. HasFiles(db, x, F)
  BY <1>3, <1>4, <1>5 DEF HasFiles
<1> QED BY <1>3, <1>4, <1>6 DEF x

\* A new database has a new id, and no tables.
LEMMA CreateDb ==
  ASSUME CInv, NEW name \in DbNames, create_db(name)
  PROVE  CInv'
<1> DEFINE id == NextId(Databases)
           d  == [id |-> id, name |-> name]
           R  == [id : 1 .. MaxId, name : DbNames]
<1>1. /\ id <= MaxId /\ db_mapping' = Append(db_mapping, d) /\ saved_dbs' = db_mapping'
      /\ table_mapping_map' = With(table_mapping_map, id, EmptyMapping)
      /\ saved_tables' = With(saved_tables, id, EmptyMapping)
      /\ files' = {f \in files : f[1] # id}
      /\ current_db' = current_db
  BY DEF create_db
<1>2. id \in 1 .. MaxId /\ id \notin Ids /\ id # StrayDb
  <2>1. Ids \subseteq 1 .. MaxId
    BY IdsAreGiven DEF CInv
  <2>2. IdsOf(Databases) \subseteq 0 .. MaxId
    BY <2>1, CatalogAssumption DEF Ids
  <2>3. id \in Nat /\ id >= 1 /\ id \notin IdsOf(Databases)
    BY <2>2, NextIdIsNew
  <2> QED BY <1>1, <2>3, CatalogAssumption DEF Ids, StrayDb
<1> HIDE DEF id
<1>3. d \in R /\ d.id = id
  BY <1>2
<1> HIDE DEF d
<1>4. db_mapping \in Seq(R) /\ \A i, j \in DOMAIN db_mapping : db_mapping[i].id = db_mapping[j].id => i = j
  BY DEF CInv, DatabasesSound
<1> HIDE DEF R
<1>5. /\ db_mapping' \in Seq(R) /\ DOMAIN db_mapping' = 1 .. Len(db_mapping) + 1
      /\ DOMAIN db_mapping = 1 .. Len(db_mapping) /\ Len(db_mapping) \in Nat
      /\ \A i \in DOMAIN db_mapping' : db_mapping'[i] = IF i <= Len(db_mapping) THEN db_mapping[i] ELSE d
  BY <1>1, <1>3, <1>4
<1>6. Ids' = Ids \cup {id}
  <2>1. Ids = {db_mapping[i].id : i \in DOMAIN db_mapping} /\ Ids' = {db_mapping'[i].id : i \in DOMAIN db_mapping'}
    BY DEF Ids, IdsOf, Databases, ToSet
  <2>2. \A i \in DOMAIN db_mapping' : db_mapping'[i].id \in Ids \cup {id}
    BY <1>3, <1>5, <2>1
  <2>3. \A i \in DOMAIN db_mapping : i \in DOMAIN db_mapping' /\ db_mapping'[i] = db_mapping[i]
    BY <1>5
  <2>4. Len(db_mapping) + 1 \in DOMAIN db_mapping' /\ db_mapping'[Len(db_mapping) + 1] = d
    BY <1>5
  <2>5. Ids \subseteq Ids'
    BY <2>1, <2>3
  <2>6. id \in Ids'
    BY <1>3, <2>1, <2>4
  <2> QED BY <2>1, <2>2, <2>5, <2>6
<1>7. \A i, j \in DOMAIN db_mapping' : db_mapping'[i].id = db_mapping'[j].id => i = j
  <2>1. \A i \in DOMAIN db_mapping : db_mapping[i].id # id
    BY <1>2 DEF Ids, IdsOf, Databases, ToSet
  <2> SUFFICES ASSUME NEW i \in DOMAIN db_mapping', NEW j \in DOMAIN db_mapping',
                      db_mapping'[i].id = db_mapping'[j].id
               PROVE  i = j
    OBVIOUS
  <2>2. CASE i <= Len(db_mapping) /\ j <= Len(db_mapping)
    BY <1>4, <1>5, <2>2
  <2>3. CASE ~ (i <= Len(db_mapping)) /\ ~ (j <= Len(db_mapping))
    BY <1>5, <2>3
  <2>4. CASE i <= Len(db_mapping) /\ ~ (j <= Len(db_mapping))
    BY <1>3, <1>5, <2>1, <2>4
  <2>5. CASE ~ (i <= Len(db_mapping)) /\ j <= Len(db_mapping)
    BY <1>3, <1>5, <2>1, <2>5
  <2> QED BY <2>2, <2>3, <2>4, <2>5
<1>8. /\ DOMAIN table_mapping_map' = DOMAIN table_mapping_map \cup {id}
      /\ \A db \in DOMAIN table_mapping_map' :
           table_mapping_map'[db] = IF db = id THEN EmptyMapping ELSE table_mapping_map[db]
      /\ DOMAIN saved_tables' = DOMAIN saved_tables \cup {id}
      /\ \A db \in DOMAIN saved_tables' :
           saved_tables'[db] = IF db = id THEN EmptyMapping ELSE saved_tables[db]
  BY <1>1 DEF With
<1>9. /\ current_db \in Ids \cup {StrayDb, NoDb}
      /\ Ids \subseteq DOMAIN table_mapping_map /\ DOMAIN table_mapping_map \subseteq Ids \cup {StrayDb}
      /\ Ids \subseteq DOMAIN saved_tables /\ DOMAIN saved_tables \subseteq Ids \cup {StrayDb}
  BY DEF CInv, DatabasesSound
<1>10. DatabasesSound'
  <2>1. /\ current_db' \in Ids' \cup {StrayDb, NoDb}
        /\ Ids' \subseteq DOMAIN table_mapping_map' /\ DOMAIN table_mapping_map' \subseteq Ids' \cup {StrayDb}
        /\ Ids' \subseteq DOMAIN saved_tables' /\ DOMAIN saved_tables' \subseteq Ids' \cup {StrayDb}
    BY <1>1, <1>6, <1>8, <1>9
  <2> QED BY <1>1, <1>5, <1>7, <2>1 DEF DatabasesSound, R
<1>11. ASSUME NEW db \in DOMAIN table_mapping_map'
       PROVE  IsMapping(table_mapping_map'[db]) /\ FilesBehind(db, table_mapping_map'[db], files')
  <2>1. CASE db = id
    <3>1. 1 .. EmptyMapping.count = {}
      BY EmptyIsEntry
    <3> QED BY <1>8, <2>1, <3>1, EmptyIsEntry DEF FilesBehind
  <2>2. CASE db # id
    <3>1. db \in DOMAIN table_mapping_map /\ table_mapping_map'[db] = table_mapping_map[db]
      BY <1>8, <2>2
    <3>2. IsMapping(table_mapping_map[db]) /\ FilesBehind(db, table_mapping_map[db], files)
      BY <3>1 DEF CInv, MappingsSound
    <3>3. \A f \in files : f[1] = db => f \in files'
      BY <1>1, <2>2
    <3>4. FilesBehind(db, table_mapping_map[db], files')
      BY <3>2, <3>3, FilesKept
    <3> QED BY <3>1, <3>2, <3>4
  <2> QED BY <2>1, <2>2
<1>12. ASSUME NEW db \in Ids'
       PROVE  IsMapping(saved_tables'[db]) /\ SameTables(saved_tables'[db], table_mapping_map'[db])
  <2>1. db \in DOMAIN saved_tables' /\ db \in DOMAIN table_mapping_map'
    BY <1>6, <1>8, <1>9
  <2>2. CASE db = id
    BY <1>8, <2>1, <2>2, EmptyIsEntry, SameAsItself
  <2>3. CASE db # id
    BY <1>6, <1>8, <2>1, <2>3 DEF CInv, MappingsSound
  <2> QED BY <2>2, <2>3
<1>13. MappingsSound'
  BY <1>11, <1>12 DEF MappingsSound
<1> QED BY <1>10, <1>13 DEF CInv

\* DROP DATABASE, whether there is one or not.
LEMMA DropDb ==
  ASSUME CInv, NEW name, drop_db(name)
  PROVE  CInv'
<1> DEFINE R == [id : 1 .. MaxId, name : DbNames]
<1>1. /\ db_mapping \in Seq(R) /\ \A i, j \in DOMAIN db_mapping : db_mapping[i].id = db_mapping[j].id => i = j
      /\ saved_dbs = db_mapping
      /\ Ids \subseteq DOMAIN table_mapping_map /\ DOMAIN table_mapping_map \subseteq Ids \cup {StrayDb}
      /\ Ids \subseteq DOMAIN saved_tables /\ DOMAIN saved_tables \subseteq Ids \cup {StrayDb}
  BY DEF CInv, DatabasesSound
<1> HIDE DEF R
<1>2. CASE name \notin NamesOf(Databases)
  <2>1. /\ current_db' = NoDb
        /\ UNCHANGED <<db_mapping, table_mapping_map, saved_dbs, saved_tables, files>>
    BY <1>2 DEF drop_db
  <2>2. Ids' = Ids
    BY <2>1 DEF Ids, Databases
  <2>3. DatabasesSound'
    BY <1>1, <2>1, <2>2 DEF DatabasesSound, R
  <2>4. MappingsSound'
    BY <2>1, <2>2 DEF CInv, MappingsSound
  <2> QED BY <2>3, <2>4 DEF CInv
<1>3. CASE name \in NamesOf(Databases)
  <2> DEFINE idx == CHOOSE i \in DOMAIN db_mapping : db_mapping[i].name = name
             id  == db_mapping[idx].id
  <2>1. /\ current_db' = NoDb
        /\ table_mapping_map' = Less(table_mapping_map, id)
        /\ saved_tables' = Less(saved_tables, id)
        /\ files' = {f \in files : f[1] # id}
        /\ db_mapping' = RemoveAt(db_mapping, idx)
        /\ saved_dbs' = db_mapping'
    BY <1>3 DEF drop_db
  <2>2. idx \in DOMAIN db_mapping
    <3>1. \E i \in DOMAIN db_mapping : db_mapping[i].name = name
      BY <1>3 DEF NamesOf, Databases, ToSet
    <3> QED BY <3>1
  <2> HIDE DEF idx
  <2>3. Len(db_mapping) \in Nat /\ idx \in 1 .. Len(db_mapping) /\ DOMAIN db_mapping = 1 .. Len(db_mapping)
    BY <1>1, <2>2
  <2>4. /\ db_mapping' \in Seq(R) /\ Len(db_mapping') = Len(db_mapping) - 1
        /\ \A j \in 1 .. Len(db_mapping) - 1 :
             db_mapping'[j] = IF j < idx THEN db_mapping[j] ELSE db_mapping[j + 1]
    <3>1. db_mapping \in Seq(R) /\ idx \in 1 .. Len(db_mapping) /\ db_mapping' = RemoveAt(db_mapping, idx)
      BY <1>1, <2>1, <2>3
    <3> QED BY <3>1, OneRemoved
  <2> DEFINE from(i) == IF i < idx THEN i ELSE i + 1
  <2>5. DOMAIN db_mapping' = 1 .. Len(db_mapping) - 1
    BY <2>4
  <2>6. \A i \in DOMAIN db_mapping' : /\ from(i) \in DOMAIN db_mapping /\ from(i) # idx
                                      /\ db_mapping'[i] = db_mapping[from(i)]
    BY <2>3, <2>4, <2>5
  <2>7. \A i, j \in DOMAIN db_mapping' : from(i) = from(j) => i = j
    BY <2>3, <2>5
  <2>8. ASSUME NEW j \in DOMAIN db_mapping, j # idx
        PROVE  \E i \in DOMAIN db_mapping' : from(i) = j
    <3>1. CASE j < idx
      <4>1. j \in DOMAIN db_mapping' /\ from(j) = j
        BY <2>3, <2>5, <3>1
      <4> QED BY <4>1
    <3>2. CASE ~ (j < idx)
      <4>1. j - 1 \in DOMAIN db_mapping' /\ from(j - 1) = j
        BY <2>3, <2>5, <2>8, <3>2
      <4> QED BY <4>1
    <3> QED BY <3>1, <3>2
  <2> HIDE DEF from
  <2>9. Ids = {db_mapping[i].id : i \in DOMAIN db_mapping} /\ Ids' = {db_mapping'[i].id : i \in DOMAIN db_mapping'}
    BY DEF Ids, IdsOf, Databases, ToSet
  <2> HIDE DEF id
  <2>10. Ids' \subseteq Ids /\ id \notin Ids'
    <3>1. \A i \in DOMAIN db_mapping' : db_mapping'[i].id \in Ids /\ db_mapping'[i].id # id
      BY <1>1, <2>2, <2>6, <2>9 DEF id
    <3> QED BY <2>9, <3>1
  <2>11. ASSUME NEW x \in Ids, x # id PROVE x \in Ids'
    <3>1. PICK j \in DOMAIN db_mapping : x = db_mapping[j].id
      BY <2>9
    <3>2. PICK i \in DOMAIN db_mapping' : from(i) = j
      BY <2>8, <2>11, <3>1 DEF id
    <3> QED BY <2>6, <2>9, <3>1, <3>2
  <2>12. \A i, j \in DOMAIN db_mapping' : db_mapping'[i].id = db_mapping'[j].id => i = j
    BY <1>1, <2>6, <2>7
  <2>13. /\ DOMAIN table_mapping_map' = DOMAIN table_mapping_map \ {id}
         /\ \A db \in DOMAIN table_mapping_map' : table_mapping_map'[db] = table_mapping_map[db]
         /\ DOMAIN saved_tables' = DOMAIN saved_tables \ {id}
         /\ \A db \in DOMAIN saved_tables' : saved_tables'[db] = saved_tables[db]
    BY <2>1 DEF Less
  <2>14. DatabasesSound'
    <3>1. /\ current_db' \in Ids' \cup {StrayDb, NoDb}
          /\ Ids' \subseteq DOMAIN table_mapping_map' /\ DOMAIN table_mapping_map' \subseteq Ids' \cup {StrayDb}
          /\ Ids' \subseteq DOMAIN saved_tables' /\ DOMAIN saved_tables' \subseteq Ids' \cup {StrayDb}
      BY <1>1, <2>1, <2>10, <2>11, <2>13
    <3> QED BY <2>1, <2>4, <2>12, <3>1 DEF DatabasesSound, R
  <2>15. ASSUME NEW db \in DOMAIN table_mapping_map'
         PROVE  IsMapping(table_mapping_map'[db]) /\ FilesBehind(db, table_mapping_map'[db], files')
    <3>1. /\ db \in DOMAIN table_mapping_map /\ db # id
          /\ table_mapping_map'[db] = table_mapping_map[db]
      BY <2>13
    <3>2. IsMapping(table_mapping_map[db]) /\ FilesBehind(db, table_mapping_map[db], files)
      BY <3>1 DEF CInv, MappingsSound
    <3>3. \A f \in files : f[1] = db => f \in files'
      BY <2>1, <3>1
    <3>4. FilesBehind(db, table_mapping_map[db], files')
      BY <3>2, <3>3, FilesKept
    <3> QED BY <3>1, <3>2, <3>4
  <2>16. ASSUME NEW db \in Ids'
         PROVE  IsMapping(saved_tables'[db]) /\ SameTables(saved_tables'[db], table_mapping_map'[db])
    <3>1. db \in Ids /\ db \in DOMAIN saved_tables' /\ db \in DOMAIN table_mapping_map'
      BY <1>1, <2>10, <2>13
    <3> QED BY <2>13, <3>1 DEF CInv, MappingsSound
  <2>17. MappingsSound'
    BY <2>15, <2>16 DEF MappingsSound
  <2> QED BY <2>14, <2>17 DEF CInv
<1> QED BY <1>2, <1>3

\* USE, of a database there is or not.
LEMMA UseDb ==
  ASSUME CInv, NEW name, use_db(name)
  PROVE  CInv'
<1>1. UNCHANGED <<db_mapping, table_mapping_map, saved_dbs, saved_tables, files>>
  BY DEF use_db
<1>2. current_db' \in Ids \cup {NoDb}
  <2>1. CASE name \in NamesOf(Databases)
    <3>1. \E d \in Databases : d.name = name
      BY <2>1 DEF NamesOf
    <3> DEFINE u == CHOOSE d \in Databases : d.name = name
    <3>2. u \in Databases
      BY <3>1
    <3>3. current_db' = u.id
      BY <2>1 DEF use_db
    <3> HIDE DEF u
    <3> QED BY <3>2, <3>3 DEF Ids, IdsOf
  <2>2. CASE name \notin NamesOf(Databases)
    BY <2>2 DEF use_db
  <2> QED BY <2>1, <2>2
<1>3. Ids' = Ids
  BY <1>1 DEF Ids, Databases
<1>4. DatabasesSound'
  BY <1>1, <1>2, <1>3 DEF CInv, DatabasesSound
<1>5. MappingsSound'
  BY <1>1, <1>3 DEF CInv, MappingsSound
<1> QED BY <1>4, <1>5 DEF CInv

\* A restart reads the tables that were there: what a stray database had is lost.
LEMMA RestartStep ==
  ASSUME CInv, Restart
  PROVE  CInv'
<1>1. /\ db_mapping' = saved_dbs /\ saved_dbs' = saved_dbs
      /\ table_mapping_map' = [db \in IdsOf(ToSet(saved_dbs)) |-> saved_tables[db]]
      /\ current_db' \in {NoDb, StrayDb}
      /\ saved_tables' = Less(saved_tables, StrayDb)
      /\ files' = {f \in files : f[1] # StrayDb}
  BY DEF Restart
<1>2. /\ db_mapping \in Seq([id : 1 .. MaxId, name : DbNames])
      /\ \A i, j \in DOMAIN db_mapping : db_mapping[i].id = db_mapping[j].id => i = j
      /\ saved_dbs = db_mapping
      /\ Ids \subseteq DOMAIN table_mapping_map
      /\ Ids \subseteq DOMAIN saved_tables /\ DOMAIN saved_tables \subseteq Ids \cup {StrayDb}
  BY DEF CInv, DatabasesSound
<1>3. Ids' = Ids /\ IdsOf(ToSet(saved_dbs)) = Ids /\ db_mapping' = db_mapping
  BY <1>1, <1>2 DEF Ids, Databases
<1>4. StrayDb \notin Ids
  BY IdsAreGiven DEF CInv
<1>5. DOMAIN saved_tables' = DOMAIN saved_tables \ {StrayDb}
      /\ \A db \in DOMAIN saved_tables' : saved_tables'[db] = saved_tables[db]
  BY <1>1 DEF Less
<1>6. DOMAIN table_mapping_map' = Ids /\ \A db \in Ids : table_mapping_map'[db] = saved_tables[db]
  BY <1>1, <1>3
<1>7. DatabasesSound'
  <2>1. /\ current_db' \in Ids' \cup {StrayDb, NoDb}
        /\ Ids' \subseteq DOMAIN table_mapping_map' /\ DOMAIN table_mapping_map' \subseteq Ids' \cup {StrayDb}
        /\ Ids' \subseteq DOMAIN saved_tables' /\ DOMAIN saved_tables' \subseteq Ids' \cup {StrayDb}
    BY <1>1, <1>2, <1>3, <1>4, <1>5, <1>6
  <2> QED BY <1>1, <1>2, <1>3, <2>1 DEF DatabasesSound
<1>8. ASSUME NEW db \in Ids
      PROVE  /\ IsMapping(table_mapping_map'[db]) /\ FilesBehind(db, table_mapping_map'[db], files')
             /\ IsMapping(saved_tables'[db]) /\ SameTables(saved_tables'[db], table_mapping_map'[db])
  <2> DEFINE s == saved_tables[db]
             m == table_mapping_map[db]
  <2>1. db \in DOMAIN table_mapping_map /\ db \in DOMAIN saved_tables'
    BY <1>2, <1>4, <1>5
  <2>2. table_mapping_map'[db] = s /\ saved_tables'[db] = s
    BY <1>5, <1>6, <2>1
  <2>3. IsMapping(s) /\ IsMapping(m) /\ SameTables(s, m) /\ FilesBehind(db, m, files)
    BY <2>1 DEF CInv, MappingsSound
  <2> HIDE DEF s, m
  <2>4. FilesBehind(db, s, files)
    BY <2>3, SameFiles
  <2>5. \A f \in files : f[1] = db => f \in files'
    BY <1>1, <1>4
  <2>6. FilesBehind(db, s, files')
    BY <2>4, <2>5, FilesKept
  <2> QED BY <2>2, <2>3, <2>6, SameAsItself
<1>9. MappingsSound'
  BY <1>3, <1>6, <1>8 DEF MappingsSound
<1> QED BY <1>7, <1>9 DEF CInv
-----------------------------------------------------------------------------
\* In an empty directory there is nothing.
LEMMA InitSound ==
  ASSUME Init
  PROVE  CInv
<1>1. DOMAIN << >> = {} /\ << >> \in Seq([id : 1 .. MaxId, name : DbNames])
  OBVIOUS
<1>2. Ids = {}
  BY <1>1 DEF Init, Ids, IdsOf, Databases, ToSet
<1>3. DatabasesSound
  BY <1>1, <1>2 DEF Init, DatabasesSound
<1>4. MappingsSound
  BY <1>1, <1>2 DEF Init, MappingsSound
<1> QED BY <1>3, <1>4 DEF CInv

\* A list of clauses is a sequence.
LEMMA ClausesAreLists ==
  ASSUME NEW S, NEW n \in Nat, NEW s \in BoundedSeq(S, n)
  PROVE  Len(s) \in Nat
<1>1. PICK k \in 0 .. n : s \in [1 .. k -> S]
  BY DEF BoundedSeq, SeqOf
<1> QED BY <1>1

\* Every statement, and a restart, leaves the catalog sound.
LEMMA NextSound ==
  ASSUME CInv, [Next]_vars
  PROVE  CInv'
<1>1. ASSUME NEW name \in DbNames, create_db(name) \/ drop_db(name) \/ use_db(name) PROVE CInv'
  BY <1>1, CreateDb, DropDb, UseDb
<1>2. ASSUME NEW name \in TableNames, NEW schema \in Schemas,
             NEW keys \in BoundedSeq(PrimaryKeys, MAX_PRIMARY_FIELD_COUNT),
             NEW foreign_keys \in BoundedSeq(ForeignKeys, MAX_FOREIGN_FIELD_COUNT),
             create_table(name, schema, keys, foreign_keys)
      PROVE  CInv'
  <2>1. Len(keys) \in Nat /\ Len(foreign_keys) \in Nat
    BY ClausesAreLists, CatalogAssumption DEF MAX_PRIMARY_FIELD_COUNT
  <2> QED BY <1>2, <2>1, CreateTable
<1>3. ASSUME NEW name \in TableNames, NEW c \in Columns, create_index(name, c) \/ drop_index(name, c) PROVE CInv'
  BY <1>3, CreateIndex, DropIndex
<1>4. ASSUME NEW name \in TableNames, drop_table(name) \/ drop_primary_key(name) PROVE CInv'
  BY <1>4, DropTable, DropKeys
<1>5. ASSUME NEW name \in TableNames, NEW key, AddPrimaryKey(name, key) \/ AddUnique(name, key) PROVE CInv'
  BY <1>5, AddKeys
<1>6. ASSUME NEW name \in TableNames, NEW f, AddForeignKey(name, f) \/ drop_foreign_key(name, f.name) PROVE CInv'
  BY <1>6, AddKeys, DropKeys
<1>7. CASE UNCHANGED vars
  <2>1. UNCHANGED <<db_mapping, table_mapping_map, current_db, saved_dbs, saved_tables, files>>
    BY <1>7 DEF vars
  <2>2. Ids' = Ids
    BY <2>1 DEF Ids, Databases
  <2>3. DatabasesSound'
    BY <2>1, <2>2 DEF CInv, DatabasesSound
  <2>4. MappingsSound'
    BY <2>1, <2>2 DEF CInv, MappingsSound
  <2> QED BY <2>3, <2>4 DEF CInv
<1>8. CASE Restart
  BY <1>8, RestartStep
<1> QED BY <1>1, <1>2, <1>3, <1>4, <1>5, <1>6, <1>7, <1>8 DEF Next

\* The catalog is sound in every state.
LEMMA CatalogSound == Spec => []CInv
<1>1. Init => CInv
  BY InitSound
<1>2. CInv /\ [Next]_vars => CInv'
  BY NextSound
<1> QED BY <1>1, <1>2, PTL DEF Spec
-----------------------------------------------------------------------------
(***************************************************************************)
(* TypeOK: ids, names and counts of databases and tables are in range, and   *)
(* what use_db and drop_db leave in use is a database, none or a stray one.  *)
(***************************************************************************)
THEOREM TypesHold == Spec => []TypeOK
<1>1. CInv => TypeOK
  <2> SUFFICES ASSUME CInv PROVE TypeOK
    OBVIOUS
  <2>1. /\ Ids \subseteq 1 .. MaxId /\ \A d \in Databases : d.id \in 1 .. MaxId /\ d.name \in DbNames
    BY IdsAreGiven DEF CInv
  <2>2. Ids \cup {StrayDb} \subseteq DbIds
    BY <2>1, CatalogAssumption DEF DbIds, StrayDb
  <2>3. /\ DOMAIN table_mapping_map \subseteq DbIds /\ DOMAIN saved_tables \subseteq DbIds
        /\ current_db \in DbIds \cup {NoDb}
    BY <2>2 DEF CInv, DatabasesSound
  <2>4. ASSUME NEW db \in DOMAIN table_mapping_map
        PROVE  LET m == table_mapping_map[db]
               IN  /\ m.count \in 0 .. MaxTables
                   /\ \A t \in Tables(m) : t.id \in 1 .. MaxId /\ t.name \in TableNames
    <3>1. IsMapping(table_mapping_map[db])
      BY DEF CInv, MappingsSound
    <3> HIDE DEF CInv
    <3> QED BY <3>1 DEF IsMapping, Tables
  <2>5. \A db \in DOMAIN table_mapping_map :
          LET m == table_mapping_map[db]
          IN  /\ m.count \in 0 .. MaxTables
              /\ \A t \in Tables(m) : t.id \in 1 .. MaxId /\ t.name \in TableNames
    BY <2>4
  <2> HIDE DEF CInv
  <2> QED BY <2>1, <2>3, <2>5, Zenon DEF TypeOK
<1> QED BY <1>1, CatalogSound, PTL

(***************************************************************************)
(* TablesApart: no two tables of a database have one name or one id, though  *)
(* NextId gives ids of dropped tables again and slots are taken again.       *)
(***************************************************************************)
THEOREM TablesStayApart == Spec => []TablesApart
<1>1. CInv => TablesApart
  BY DEF CInv, MappingsSound, IsMapping, TablesApart
<1> QED BY <1>1, CatalogSound, PTL

(***************************************************************************)
(* FilesBehindCatalog: each table's records and indexes have their files,    *)
(* whatever was created, dropped, refused halfway or restarted before.       *)
(***************************************************************************)
THEOREM FilesStayBehind == Spec => []FilesBehindCatalog
<1>1. CInv => FilesBehindCatalog
  BY DEF CInv, MappingsSound, FilesBehind, HasFiles, Tables, FilesBehindCatalog
<1> QED BY <1>1, CatalogSound, PTL

(***************************************************************************)
(* ForeignKeysResolve: a foreign key refers to a table there is, for         *)
(* drop_table refuses the table another one refers to.                       *)
(***************************************************************************)
THEOREM ForeignKeysStay == Spec => []ForeignKeysResolve
<1>1. CInv => ForeignKeysResolve
  <2> SUFFICES ASSUME CInv, NEW db \in DOMAIN table_mapping_map,
                      NEW t \in Tables(table_mapping_map[db]), NEW i \in DOMAIN t.foreign
               PROVE  t.foreign[i].foreign_table_id \in IdsOf(Tables(table_mapping_map[db]))
    BY DEF ForeignKeysResolve
  <2> DEFINE m == table_mapping_map[db]
  <2>1. IsMapping(m)
    BY DEF CInv, MappingsSound
  <2> HIDE DEF m
  <2>2. t \in Tables(m)
    BY DEF m
  <2>3. ForeignIds(t) \subseteq IdsOf(Tables(m))
    BY <2>1, <2>2 DEF IsMapping, Tables
  <2> QED BY <2>3 DEF ForeignIds, m
<1> QED BY <1>1, CatalogSound, PTL

(***************************************************************************)
(* CatalogSaved: the mapping files hold what memory holds, but for NOT NULLs *)
(* of a primary key that was refused halfway.                                *)
(***************************************************************************)
THEOREM CatalogStaysSaved == Spec => []CatalogSaved
<1>1. CInv => CatalogSaved
  <2> SUFFICES ASSUME CInv PROVE CatalogSaved
    OBVIOUS
  <2>1. saved_dbs = db_mapping /\ Ids \subseteq DOMAIN saved_tables /\ Ids \subseteq DOMAIN table_mapping_map
    BY DEF CInv, DatabasesSound
  <2>2. ASSUME NEW db \in Ids
        PROVE  LET m == Mapping(db)
                   s == saved_tables[db]
               IN  /\ db \in DOMAIN saved_tables
                   /\ s.count = m.count
                   /\ \A i \in 1 .. m.count :
                        /\ AllNullable(s.slot[i]) = AllNullable(m.slot[i])
                        /\ \A c \in DOMAIN m.slot[i].column :
                             m.slot[i].column[c].nullable => s.slot[i].column[c].nullable
    <3> DEFINE m == Mapping(db)
               s == saved_tables[db]
    <3>1. db \in DOMAIN saved_tables /\ db \in DOMAIN table_mapping_map /\ m = table_mapping_map[db]
      BY <2>1 DEF Mapping
    <3>2. IsMapping(m) /\ SameTables(s, m)
      BY <3>1 DEF CInv, MappingsSound
    <3> HIDE DEF m, s
    <3>3. ASSUME NEW i \in 1 .. m.count PROVE DOMAIN m.slot[i].column = 1 .. MAX_COLUMN_COUNT
      <4>1. i \in 1 .. MaxTables
        BY <3>2, CatalogAssumption DEF IsMapping
      <4>2. IsEntry(m.slot[i])
        BY <3>2, <4>1 DEF IsMapping
      <4> QED BY <4>2 DEF IsEntry
    <3> QED BY <3>1, <3>2, <3>3 DEF SameTables, m, s
  <2> QED BY <2>1, <2>2 DEF CatalogSaved, Ids
<1> QED BY <1>1, CatalogSound, PTL
===============================================================================
