------------------------------- MODULE Catalog -------------------------------
(***************************************************************************)
(* The catalog of ManageSystem (src/ms): the databases, the tables of each  *)
(* with their columns, indexes and constraints, and the files behind them.  *)
(*                                                                         *)
(* db_mapping lists the databases, table_mapping_map has a table mapping    *)
(* for each; a statement changes them in memory, then writes the mapping    *)
(* file it changed.  A table mapping is an array of slots, the first        *)
(* `count' of which are tables: what lies behind stays as it was.           *)
(*                                                                         *)
(* Columns are numbered from 1, a set of columns stands for a bitmap.  What *)
(* a statement only refuses, for its syntax, a length or the rows of a      *)
(* table, changes nothing and is left out.                                  *)
(***************************************************************************)
EXTENDS Naturals, Sequences, FiniteSets, SequencesExt

CONSTANTS DbNames, TableNames,
          Schemas,       \* the lists of columns tables are created with
          IntColumns,    \* the columns of type INT, which can have an index
          PrimaryKeys,   \* the lists of columns of PRIMARY KEY clauses
          Uniques,       \* the lists of columns of UNIQUE clauses
          ForeignKeys,   \* [name, columns, foreign_table, foreign_columns]
          MAX_DB_COUNT, MAX_TABLE_COUNT, MAX_COLUMN_COUNT,
          MAX_UNIQUE_CONSTRAINT_COUNT, MAX_FOREIGN_FIELD_COUNT,
          MaxTables,     \* the most tables of a database: bounds the model
          MaxId,         \* the highest id given: bounds the model
          NoName         \* the name of nothing

MAX_PRIMARY_FIELD_COUNT == 1

Columns == UNION {ToSet(s) : s \in Schemas}

\* CREATE TABLE refuses a column name that is there twice.
ASSUME CatalogAssumption ==
  /\ MAX_DB_COUNT \in Nat /\ MAX_TABLE_COUNT \in Nat /\ MAX_COLUMN_COUNT \in Nat
  /\ MAX_FOREIGN_FIELD_COUNT \in Nat /\ MaxTables \in Nat /\ MaxId \in Nat
  /\ \A s \in Schemas : s \in Seq(ToSet(s)) /\ Len(s) <= MAX_COLUMN_COUNT /\ IsInjective(s)
  /\ \A f \in ForeignKeys : Len(f.columns) = Len(f.foreign_columns)
  /\ NoName \notin TableNames \cup Columns

VARIABLES
  db_mapping,         \* the databases, in memory
  table_mapping_map,  \* the table mappings in memory, by database
  current_db,         \* the database in use, or NoDb
  saved_dbs,          \* global.txt
  saved_tables,       \* the files of the table mappings, by database
  files               \* the record and index files that exist

vars == <<db_mapping, table_mapping_map, current_db, saved_dbs, saved_tables, files>>

NoDb    == MaxId + 1
StrayDb == 0              \* an id no database has
DbIds   == StrayDb .. MaxId

\* A file: of a table, its records or the index of a column.
RecordFileOf(db, id)    == <<db, id, NoName>>
IndexFileOf(db, id, c)  == <<db, id, c>>

AColumn   == [name |-> NoName, nullable |-> FALSE, indexed |-> FALSE]
EmptySlot == [id |-> 0, name |-> NoName, field_count |-> 0,
              column |-> [i \in 1 .. MAX_COLUMN_COUNT |-> AColumn],
              unique |-> << >>, primary |-> << >>, foreign |-> << >>]
EmptyMapping == [count |-> 0, slot |-> [i \in 1 .. MaxTables |-> EmptySlot]]

Mapping(db) == IF db \in DOMAIN table_mapping_map THEN table_mapping_map[db] ELSE EmptyMapping

Tables(m)     == {m.slot[i] : i \in 1 .. m.count}
Databases     == ToSet(db_mapping)
IdsOf(S)      == {x.id : x \in S}
NamesOf(S)    == {x.name : x \in S}
NextId_Count(S) == 1 + Cardinality(S)   \* NextId that counts instead
NextId(S)     == 1 + Max(IdsOf(S) \cup {0})
With(f, x, v) == [y \in DOMAIN f \cup {x} |-> IF y = x THEN v ELSE f[y]]
Less(f, x)    == [y \in DOMAIN f \ {x} |-> f[y]]

\* Every variable has its type: the tables and databases have ids and names,
\* and what is in use is a database, none, or a stray one.
TypeOK ==
  /\ \A d \in Databases : d.id \in 1 .. MaxId /\ d.name \in DbNames
  /\ DOMAIN table_mapping_map \subseteq DbIds
  /\ \A db \in DOMAIN table_mapping_map :
       LET m == table_mapping_map[db]
       IN  /\ m.count \in 0 .. MaxTables
           /\ \A t \in Tables(m) : t.id \in 1 .. MaxId /\ t.name \in TableNames
  /\ current_db \in DbIds \cup {NoDb}
  /\ DOMAIN saved_tables \subseteq DbIds

\* load_system in an empty directory.  Nothing sets current_db: it is not in
\* use or, if the memory it lies in says so, a database that does not exist.
Init ==
  /\ db_mapping = << >> /\ saved_dbs = << >>
  /\ table_mapping_map = << >> /\ saved_tables = << >>
  /\ current_db \in {NoDb, StrayDb}
  /\ files = {}

\* load_system over the mapping files, in a new process.  What a database that
\* does not exist was given is forgotten: no later process comes upon it.
Restart ==
  /\ db_mapping' = saved_dbs
  /\ table_mapping_map' = [db \in IdsOf(ToSet(saved_dbs)) |-> saved_tables[db]]
  /\ current_db' \in {NoDb, StrayDb}
  /\ saved_tables' = Less(saved_tables, StrayDb)
  /\ files' = {f \in files : f[1] # StrayDb}
  /\ UNCHANGED saved_dbs
-----------------------------------------------------------------------------
create_db(name) ==
  LET id == NextId(Databases)
  IN  /\ name \notin NamesOf(Databases)
      /\ Len(db_mapping) + 1 < MAX_DB_COUNT
      /\ id <= MaxId
      /\ db_mapping' = Append(db_mapping, [id |-> id, name |-> name])
      /\ saved_dbs' = db_mapping'
      /\ table_mapping_map' = With(table_mapping_map, id, EmptyMapping)
      /\ saved_tables' = With(saved_tables, id, EmptyMapping)
      /\ files' = {f \in files : f[1] # id}
      /\ UNCHANGED current_db

\* No database is in use any more, whichever is dropped.
drop_db(name) ==
  /\ current_db' = NoDb
  /\ IF name \notin NamesOf(Databases)
       THEN UNCHANGED <<db_mapping, table_mapping_map, saved_dbs, saved_tables, files>>
       ELSE LET idx == CHOOSE i \in DOMAIN db_mapping : db_mapping[i].name = name
                id  == db_mapping[idx].id
            IN  /\ table_mapping_map' = Less(table_mapping_map, id)
                /\ saved_tables' = Less(saved_tables, id)
                /\ files' = {f \in files : f[1] # id}
                /\ db_mapping' = RemoveAt(db_mapping, idx)
                /\ saved_dbs' = db_mapping'

use_db(name) ==
  /\ current_db' = IF name \in NamesOf(Databases)
                     THEN (CHOOSE d \in Databases : d.name = name).id
                     ELSE NoDb
  /\ UNCHANGED <<db_mapping, table_mapping_map, saved_dbs, saved_tables, files>>
-----------------------------------------------------------------------------
find_table_by_name(m, name) == CHOOSE i \in 1 .. m.count : m.slot[i].name = name

\* The number of a column, one too many if the table has no such column.
find_column_by_name(info, c) ==
  LET at == {i \in 1 .. info.field_count : info.column[i].name = c}
  IN  IF at = {} THEN info.field_count + 1 ELSE CHOOSE i \in at : TRUE

Numbers(info, columns) == {find_column_by_name(info, columns[i]) : i \in DOMAIN columns}
HasAll(info, columns)  == Numbers(info, columns) \subseteq 1 .. info.field_count

\* The first columns of the list, up to one the table does not have.
Leading(info, columns) ==
  {find_column_by_name(info, columns[i]) :
     i \in {j \in DOMAIN columns : HasAll(info, SubSeq(columns, 1, j))}}

\* What a clause makes of the table's entry, and the files it creates.
Outcome(ok, info, new) == [ok |-> ok, info |-> info, files |-> new]
Refused(info)          == Outcome(FALSE, info, {})

\* A new index, of its column and in its file (an index file that exists is
\* given a new meta page and root).
add_index(info, at) ==
  Outcome(TRUE,
          [info EXCEPT !.column = [i \in DOMAIN @ |-> IF i \in at THEN [@[i] EXCEPT !.indexed = TRUE]
                                                     ELSE @[i]]],
          {IndexFileOf(current_db, info.id, info.column[i].name) : i \in at})

\* A constraint gives its columns of type INT an index.
Indexed(info, columns) ==
  add_index(info, {i \in Numbers(info, columns) : /\ info.column[i].name \in IntColumns
                                                  /\ ~ info.column[i].indexed})

\* The columns of a primary key become NOT NULL one by one, as they are found.
add_primary_key(info, columns) ==
  LET bound == [info EXCEPT !.column = [i \in DOMAIN @ |->
                   IF i \in Leading(info, columns) THEN [@[i] EXCEPT !.nullable = FALSE] ELSE @[i]]]
  IN  IF Len(info.primary) = MAX_PRIMARY_FIELD_COUNT THEN Refused(info)
      ELSE IF ~ HasAll(info, columns) THEN Refused(bound)
      ELSE Indexed([bound EXCEPT !.primary = Append(@, Numbers(info, columns))], columns)

add_unique(info, columns) ==
  IF Len(info.unique) = MAX_UNIQUE_CONSTRAINT_COUNT \/ ~ HasAll(info, columns)
    THEN Refused(info)
    ELSE Indexed([info EXCEPT !.unique = Append(@, Numbers(info, columns))], columns)

(***************************************************************************)
(* A foreign key refers to columns of another table that have an index.     *)
(* Whether the other table has the column is told by comparing its number   *)
(* with the number of columns of this table.                                *)
(***************************************************************************)
add_foreign_key(m, info, f) ==
  LET other    == m.slot[find_table_by_name(m, f.foreign_table)]
      number   == [i \in DOMAIN f.columns |-> find_column_by_name(info, f.columns[i])]
      target   == [i \in DOMAIN f.columns |-> find_column_by_name(other, f.foreign_columns[i])]
      accepted == /\ Len(info.foreign) < MAX_FOREIGN_FIELD_COUNT
                  /\ HasAll(info, f.columns)
                  /\ f.foreign_table \in NamesOf(Tables(m))
                  /\ \A i \in DOMAIN target : /\ target[i] # info.field_count + 1
                                              /\ other.column[target[i]].indexed
      entry    == [name |-> f.name, foreign_table_id |-> other.id,
                   foreign_column_ids |-> [c \in ToSet(number) |->
                      target[Max({i \in DOMAIN number : number[i] = c})]]]
  IN  IF accepted THEN Indexed([info EXCEPT !.foreign = Append(@, entry)], f.columns)
      ELSE Refused(info)
-----------------------------------------------------------------------------
\* What becomes of a slot that no table has: all that a new table does not set.
LeftBehind(info) ==
  [EmptySlot EXCEPT !.unique = info.unique,
                    !.column = [i \in DOMAIN @ |-> [AColumn EXCEPT !.indexed = info.column[i].indexed]]]

\* NewEntry that keeps the name the slot had.
NewEntry_OldName(slot, id, name, schema) ==
  [slot EXCEPT !.id = id, !.field_count = Len(schema),
               !.column = [i \in DOMAIN @ |->
                  IF i <= Len(schema)
                    THEN [name |-> schema[i], nullable |-> TRUE, indexed |-> FALSE]
                    ELSE @[i]]]

\* The entry of a new table in the slot it takes: the constraints are still
\* those of the table that had the slot before.
NewEntry(slot, id, name, schema) ==
  [slot EXCEPT !.id = id, !.name = name, !.field_count = Len(schema),
               !.column = [i \in DOMAIN @ |->
                  IF i <= Len(schema)
                    THEN [name |-> schema[i], nullable |-> TRUE, indexed |-> FALSE]
                    ELSE @[i]]]

\* The clauses of CREATE TABLE, the keys first, up to the first that is refused.
\* (An entry that is left behind has no foreign keys, before or after the keys.)
Then(done, next) == IF next.ok THEN [next EXCEPT !.files = @ \cup done.files]
                    ELSE [next EXCEPT !.files = done.files]

WithClauses(m, entry, keys, foreign_keys) ==
  LET after[n \in 0 .. Len(keys) + Len(foreign_keys)] ==
        IF n = 0 THEN Outcome(TRUE, [entry EXCEPT !.primary = << >>, !.foreign = << >>], {})
        ELSE IF ~ after[n - 1].ok THEN after[n - 1]
        ELSE Then(after[n - 1], IF n <= Len(keys)
                                  THEN add_primary_key(after[n - 1].info, keys[n])
                                  ELSE add_foreign_key(m, after[n - 1].info, foreign_keys[n - Len(keys)]))
  IN  after[Len(keys) + Len(foreign_keys)]

\* One database at a time has tables: bounds the model.
OnlyCurrentHasTables ==
  \A db \in DOMAIN table_mapping_map \ {current_db} : table_mapping_map[db] = EmptyMapping

(***************************************************************************)
(* CREATE TABLE, in the first slot behind the tables.  A clause that is     *)
(* refused leaves the slot, and the files of earlier clauses, as they are   *)
(* then.  The limit on tables is compared with the number of databases.     *)
(***************************************************************************)
create_table(name, schema, keys, foreign_keys) ==
  LET m    == Mapping(current_db)
      at   == m.count + 1
      id   == NextId(Tables(m))
      done == WithClauses(m, NewEntry(m.slot[at], id, name, schema), keys, foreign_keys)
      new  == IF done.ok THEN [count |-> at, slot |-> [m.slot EXCEPT ![at] = done.info]]
              ELSE [m EXCEPT !.slot[at] = LeftBehind(done.info)]
  IN  /\ current_db # NoDb
      /\ Len(db_mapping) + 1 < MAX_TABLE_COUNT
      /\ name \notin NamesOf(Tables(m))
      /\ at <= MaxTables /\ id <= MaxId /\ OnlyCurrentHasTables
      /\ table_mapping_map' = With(table_mapping_map, current_db, new)
      /\ IF done.ok
           THEN /\ saved_tables' = With(saved_tables, current_db, new)
                /\ files' = files \cup done.files \cup {RecordFileOf(current_db, id)}
           ELSE /\ files' = files \cup done.files
                /\ UNCHANGED saved_tables
      /\ UNCHANGED <<db_mapping, saved_dbs, current_db>>

\* A table of the database in use.
IsTable(name) == current_db # NoDb /\ name \in NamesOf(Tables(Mapping(current_db)))
TheTable(name) == LET m == Mapping(current_db) IN m.slot[find_table_by_name(m, name)]

\* ReferredTo that looks at the first foreign key of the first table only.
ReferredTo_First(m, id, from) ==
  m.count > 0 /\ m.slot[1] \in from /\ m.slot[1].foreign # << >>
    /\ m.slot[1].foreign[1].foreign_table_id = id

ReferredTo(m, id, from) == \E t \in from : \E i \in DOMAIN t.foreign : t.foreign[i].foreign_table_id = id

\* drop_table that removes the files of the table that moved into the slot.
drop_table_AfterShift(name) ==
  LET m    == Mapping(current_db)
      loc  == find_table_by_name(m, name)
      new  == [count |-> m.count - 1,
               slot |-> [i \in DOMAIN m.slot |-> IF i \in loc .. m.count - 1 THEN m.slot[i + 1] ELSE m.slot[i]]]
      info == new.slot[loc]
      its  == {RecordFileOf(current_db, info.id)}
              \cup {IndexFileOf(current_db, info.id, info.column[i].name) :
                      i \in {j \in 1 .. info.field_count : info.column[j].indexed}}
  IN  /\ IsTable(name)
      /\ ~ ReferredTo(m, m.slot[loc].id, Tables(m) \ {m.slot[loc]})
      /\ files' = files \ its
      /\ table_mapping_map' = With(table_mapping_map, current_db, new)
      /\ saved_tables' = With(saved_tables, current_db, new)
      /\ UNCHANGED <<db_mapping, saved_dbs, current_db>>

drop_table(name) ==
  LET m    == Mapping(current_db)
      loc  == find_table_by_name(m, name)
      info == m.slot[loc]
      new  == [count |-> m.count - 1,
               slot |-> [i \in DOMAIN m.slot |-> IF i \in loc .. m.count - 1 THEN m.slot[i + 1]
                                                 ELSE IF i = m.count THEN LeftBehind(m.slot[i])
                                                 ELSE m.slot[i]]]
      its  == {RecordFileOf(current_db, info.id)}
              \cup {IndexFileOf(current_db, info.id, info.column[i].name) :
                      i \in {j \in 1 .. info.field_count : info.column[j].indexed}}
  IN  /\ IsTable(name)
      /\ ~ ReferredTo(m, info.id, Tables(m) \ {info})
      /\ files' = files \ its
      /\ table_mapping_map' = With(table_mapping_map, current_db, new)
      /\ saved_tables' = With(saved_tables, current_db, new)
      /\ UNCHANGED <<db_mapping, saved_dbs, current_db>>

\* Alter that saves the mapping as it was before.
Alter_SavesFirst(name, done) ==
  LET m   == Mapping(current_db)
      new == [m EXCEPT !.slot[find_table_by_name(m, name)] = done.info]
  IN  /\ IsTable(name)
      /\ table_mapping_map' = With(table_mapping_map, current_db, new)
      /\ saved_tables' = IF done.ok THEN With(saved_tables, current_db, m) ELSE saved_tables
      /\ files' = files \cup done.files
      /\ UNCHANGED <<db_mapping, saved_dbs, current_db>>

\* ALTER TABLE and CREATE INDEX: the table's entry becomes the outcome's, which
\* is saved unless the statement was refused halfway.
Alter(name, done) ==
  LET m   == Mapping(current_db)
      new == [m EXCEPT !.slot[find_table_by_name(m, name)] = done.info]
  IN  /\ IsTable(name)
      /\ table_mapping_map' = With(table_mapping_map, current_db, new)
      /\ saved_tables' = IF done.ok THEN With(saved_tables, current_db, new) ELSE saved_tables
      /\ files' = files \cup done.files
      /\ UNCHANGED <<db_mapping, saved_dbs, current_db>>

AddPrimaryKey(name, columns) == IsTable(name) /\ Alter(name, add_primary_key(TheTable(name), columns))

AddUnique(name, columns) == IsTable(name) /\ Alter(name, add_unique(TheTable(name), columns))

AddForeignKey(name, f) ==
  /\ IsTable(name)
  /\ IsTable(f.foreign_table)
  /\ Alter(name, add_foreign_key(Mapping(current_db), TheTable(name), f))

create_index(name, c) ==
  /\ IsTable(name)
  /\ LET info == TheTable(name)
         i    == find_column_by_name(info, c)
     IN  /\ i <= info.field_count
         /\ c \in IntColumns
         /\ ~ info.column[i].indexed
         /\ Alter(name, add_index(info, {i}))

drop_index(name, c) ==
  /\ IsTable(name)
  /\ LET m    == Mapping(current_db)
         loc  == find_table_by_name(m, name)
         i    == find_column_by_name(m.slot[loc], c)
         new  == [m EXCEPT !.slot[loc].column[i].indexed = FALSE]
     IN  /\ i <= m.slot[loc].field_count
         /\ m.slot[loc].column[i].indexed
         /\ table_mapping_map' = With(table_mapping_map, current_db, new)
         /\ saved_tables' = With(saved_tables, current_db, new)
         /\ files' = files \ {IndexFileOf(current_db, m.slot[loc].id, c)}
  /\ UNCHANGED <<db_mapping, saved_dbs, current_db>>

drop_primary_key(name) ==
  /\ IsTable(name)
  /\ LET m == Mapping(current_db)
         info == TheTable(name)
     IN  /\ info.primary # << >>
         /\ ~ ReferredTo(m, info.id, Tables(m))
         /\ Alter(name, Outcome(TRUE, [info EXCEPT !.primary = Front(@)], {}))

drop_foreign_key(name, key) ==
  /\ IsTable(name)
  /\ LET info == TheTable(name)
         its  == {i \in DOMAIN info.foreign : info.foreign[i].name = key}
     IN  /\ its # {}
         /\ Alter(name, Outcome(TRUE, [info EXCEPT !.foreign = RemoveAt(@, Min(its))], {}))

Next ==
  \/ \E name \in DbNames : create_db(name) \/ drop_db(name) \/ use_db(name)
  \/ \E name \in TableNames :
       \/ \E schema \in Schemas, keys \in BoundedSeq(PrimaryKeys, MAX_PRIMARY_FIELD_COUNT),
             foreign_keys \in BoundedSeq(ForeignKeys, MAX_FOREIGN_FIELD_COUNT) :
            create_table(name, schema, keys, foreign_keys)
       \/ drop_table(name) \/ drop_primary_key(name)
       \/ \E c \in Columns : create_index(name, c) \/ drop_index(name, c)
       \/ \E key \in PrimaryKeys : AddPrimaryKey(name, key)
       \/ \E columns \in Uniques : AddUnique(name, columns)
       \/ \E f \in ForeignKeys : AddForeignKey(name, f) \/ drop_foreign_key(name, f.name)
  \/ Restart

Spec == Init /\ [][Next]_vars
-----------------------------------------------------------------------------
\* No two tables of a database have one name, or one id and so one file, though
\* ids are given again.
TablesApart ==
  \A db \in DOMAIN table_mapping_map :
     LET m == table_mapping_map[db]
     IN  \A i, j \in 1 .. m.count : i # j => /\ m.slot[i].id # m.slot[j].id
                                             /\ m.slot[i].name # m.slot[j].name

(***************************************************************************)
(* What the catalog names is there to be opened: each table's records, and  *)
(* the index of each column that has one (File::open and File::rm assert    *)
(* it).                                                                     *)
(***************************************************************************)
FilesBehindCatalog ==
  \A db \in DOMAIN table_mapping_map : \A t \in Tables(table_mapping_map[db]) :
     /\ RecordFileOf(db, t.id) \in files
     /\ \A i \in 1 .. t.field_count :
          t.column[i].indexed => IndexFileOf(db, t.id, t.column[i].name) \in files

\* A foreign key refers to a table of its database (describe_table asserts it,
\* validate_insert_data lets the row through with a warning if it does not).
ForeignKeysResolve ==
  \A db \in DOMAIN table_mapping_map :
     LET tables == Tables(table_mapping_map[db])
     IN  \A t \in tables : \A i \in DOMAIN t.foreign : t.foreign[i].foreign_table_id \in IdsOf(tables)

AllNullable(t) == [t EXCEPT !.column = [i \in DOMAIN @ |-> [@[i] EXCEPT !.nullable = TRUE]]]

(***************************************************************************)
(* A restart loses no table, index or constraint: the mapping files hold    *)
(* what the statements left in memory.  Only the NOT NULL of a primary key  *)
(* that was refused halfway is lost.                                        *)
(***************************************************************************)
CatalogSaved ==
  /\ saved_dbs = db_mapping
  /\ \A db \in IdsOf(Databases) :
       LET m == Mapping(db)
           s == saved_tables[db]
       IN  /\ db \in DOMAIN saved_tables
           /\ s.count = m.count
           /\ \A i \in 1 .. m.count :
                /\ AllNullable(s.slot[i]) = AllNullable(m.slot[i])
                /\ \A c \in DOMAIN m.slot[i].column :
                     m.slot[i].column[c].nullable => s.slot[i].column[c].nullable
=============================================================================
