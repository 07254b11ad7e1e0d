--------------------------------- MODULE Rows ---------------------------------
(***************************************************************************)
(* The rows of the tables of one database, their indexes and their          *)
(* constraints: INSERT, DELETE and UPDATE of QuerySystem, the validation of *)
(* ManageSystem, and the statements that add and drop indexes and keys of   *)
(* tables with rows.                                                        *)
(*                                                                         *)
(* A statement on several rows takes a step per row: what is validated for  *)
(* one row reads what was done to the rows before it.  Record files and     *)
(* index files are what RecordStore and IndexStore promise.  A WHERE clause *)
(* is a conjunction of equalities, a function from columns to values, as    *)
(* all the clauses of the validation are (Query has the others).  What a    *)
(* statement refuses for the shape of its clauses is in Catalog.            *)
(***************************************************************************)
EXTENDS RowCodec, Functions, Bags

CONSTANTS
  Tables,
  Fields,        \* the columns of each table
  Nullables,     \* the columns of each table declared without NOT NULL
  Rids,          \* the RIDs of each record file: bounds the model
  INDEX_KEY_MAX,
  Inserts,       \* for each table, the lists of rows of INSERT statements
  Conditions,    \* for each table, the WHERE clauses
  SetClauses,    \* for each table, the SET clauses
  Keys,          \* for each table, the sets of columns of keys
  ForeignKeys,   \* for each table, [table, ids]: ids[c] the column c refers to
  MAX_UNIQUE_CONSTRAINT_COUNT, MAX_FOREIGN_FIELD_COUNT,
  MaxDrops       \* the most indexes that are dropped: bounds the model

Columns(t) == DOMAIN Fields[t]
FieldType  == [type : {"STR", "INT", "FLOAT"}, str_len : Nat]

\* A value has the type of column c of t, or is NULL.
Fits(t, c, value) == value.type \in {"NUL", Fields[t][c].type}

ASSUME TablesAssumption ==
  /\ Fields \in [Tables -> Seq(FieldType)]
  /\ Nullables \in [Tables -> SUBSET Nat]
  /\ Rids \subseteq Nat /\ IsFiniteSet(Rids)
  /\ INDEX_KEY_MAX \in Nat

\* A WHERE clause compares with the type of its column (Query has the others).
\* An INSERT may have too few values; with too many the process stops.
ASSUME StatementsAssumption ==
  /\ \A t \in Tables : \A lists \in Inserts[t] : lists \in Seq(Seq(Value))
       /\ \A k \in DOMAIN lists : DOMAIN lists[k] \subseteq Columns(t)
  /\ \A t \in Tables : \A w \in Conditions[t] \cup SetClauses[t] :
       DOMAIN w \subseteq Columns(t) /\ \A c \in DOMAIN w : w[c] \in Value
  /\ \A t \in Tables : \A w \in Conditions[t] : \A c \in DOMAIN w : Fits(t, c, w[c])
  /\ \A t \in Tables : \A s \in Keys[t] : s \subseteq Columns(t)
  /\ \A t \in Tables : \A f \in ForeignKeys[t] :
       /\ f.table \in Tables /\ DOMAIN f.ids \subseteq Columns(t)
       /\ \A c \in DOMAIN f.ids : f.ids[c] \in Columns(f.table)

VARIABLES
  info,     \* the entry of each table: [nullable, primary, unique, foreign]
  rows,     \* the record file of each table: by RID, the row it was given
  entries,  \* the indexed columns of each table, the (key, RID) pairs of each
  dropped,  \* the indexes that were dropped, as <<table, column>>
  stmt,     \* the statement being run and the rows it still has to handle
  flag,     \* QuerySystem::flag: no error so far
  promise,  \* the rows of its table before and after it (history)
  lost      \* an UPDATE was refused a row it had deleted (history)

vars == <<info, rows, entries, dropped, stmt, flag, promise, lost>>
-----------------------------------------------------------------------------
Indexed(t) == DOMAIN entries[t]

\* A row as the record file gives it back, through the coding of rows.
Read(t, values) == from_bytes_to_record(Fields[t], from_record_to_bytes(Fields[t], values))

\* The row a RID leads to; memory that is no row if it leads nowhere.
RowAt(t, r) ==
  IF r \in DOMAIN rows[t]
    THEN Read(t, rows[t][r])
    ELSE [c \in Columns(t) |-> [type |-> Fields[t][c].type, n |-> Junk]]

\* compare_Value for EQ, of each column: NULL equals nothing.
Meets(values, where) ==
  \A c \in DOMAIN where : ~ isNull(where[c]) /\ values[c] = where[c]

\* The columns an index of t finds the rows of: ranges start at key zero.
SearchColumns(t, where) ==
  {c \in DOMAIN where \cap Indexed(t) : /\ where[c].type = "INT"
                                        /\ where[c].n \in 0 .. INDEX_KEY_MAX - 1}

\* search that forgets the other clauses when it has used an index.
search_IndexOnly(t, where) ==
  LET usable == SearchColumns(t, where)
      c      == Max(usable)
  IN  IF usable = {}
        THEN {r \in DOMAIN rows[t] : Meets(RowAt(t, r), where)}
        ELSE {e[2] : e \in {x \in entries[t][c] : x[1] = asInt(where[c])}}

(***************************************************************************)
(* search_where_clauses for equalities: the index of the last column that   *)
(* has one finds the rows, the other clauses are applied to them; without   *)
(* an index to use every row is read.                                       *)
(***************************************************************************)
search(t, where) ==
  LET usable == SearchColumns(t, where)
      c      == Max(usable)
  IN  IF usable = {}
        THEN {r \in DOMAIN rows[t] : Meets(RowAt(t, r), where)}
        ELSE {e[2] : e \in {x \in entries[t][c] : /\ x[1] = asInt(where[c])
                                                  /\ Meets(RowAt(t, x[2]), Restrict(where, DOMAIN where \ {c}))}}

\* What a unique or primary key of columns s compares of a row.
On(values, s) == Restrict(values, s)

HasNull(values, s) == \E c \in s : isNull(values[c])

\* The columns of t2 that the foreign key f of t refers to, and their values.
Referred(f, values) == [c \in Range(f.ids) |-> values[CHOOSE b \in DOMAIN f.ids : f.ids[b] = c]]
-----------------------------------------------------------------------------
\* insert_record: an integer for a FLOAT column is converted.
Converted(t, values) ==
  [i \in DOMAIN values |->
     IF i \in Columns(t) /\ values[i].type = "INT" /\ Fields[t][i].type = "FLOAT"
       THEN FloatV(values[i].n) ELSE values[i]]

\* ValidRow that does not count the values.
ValidRow_AnyCount(t, values) ==
  \A c \in DOMAIN values :
     /\ Fits(t, c, values[c])
     /\ isNull(values[c]) => c \in info[t].nullable
     /\ values[c].type = "STR" => values[c].n <= Fields[t][c].str_len

\* Types, NOT NULL and lengths.
ValidRow(t, values) ==
  /\ DOMAIN values = Columns(t)
  /\ \A c \in Columns(t) :
       /\ Fits(t, c, values[c])
       /\ isNull(values[c]) => c \in info[t].nullable
       /\ values[c].type = "STR" => values[c].n <= Fields[t][c].str_len

\* validate_insert_data without the primary key.
validate_insert_data_NoPrimary(t, values) ==
  /\ ValidRow(t, values)
  /\ \A s \in info[t].unique : HasNull(values, s) \/ search(t, On(values, s)) = {}
  /\ \A f \in info[t].foreign : HasNull(values, DOMAIN f.ids) \/ search(f.table, Referred(f, values)) # {}

\* validate_insert_data that looks for a referred row with NULLs, too.
validate_insert_data_NoForeign(t, values) ==
  /\ ValidRow(t, values)
  /\ \A s \in info[t].unique : HasNull(values, s) \/ search(t, On(values, s)) = {}
  /\ \A s \in info[t].primary : search(t, On(values, s)) = {}

\* validate_insert_data: a row fits its columns and the constraints.
validate_insert_data(t, values) ==
  /\ ValidRow(t, values)
  /\ \A s \in info[t].unique : HasNull(values, s) \/ search(t, On(values, s)) = {}
  /\ \A s \in info[t].primary : search(t, On(values, s)) = {}
  /\ \A f \in info[t].foreign :
       HasNull(values, DOMAIN f.ids) \/ search(f.table, Referred(f, values)) # {}

(***************************************************************************)
(* validate_delete_data: no row of another table refers to the row, or the  *)
(* columns it refers to stay (mask).  The test for NULL takes the numbers   *)
(* of the columns of the other table for those of this one; a number this   *)
(* table does not have reads behind the row, as `stray'.                    *)
(***************************************************************************)
validate_delete_data(t, values, mask, stray) ==
  \A t2 \in Tables \ {t} : \A f \in info[t2].foreign :
     \/ f.table # t
     \/ Range(f.ids) \cap mask = {}
     \/ \E c \in DOMAIN f.ids : IF c \in DOMAIN values THEN isNull(values[c]) ELSE stray
     \/ search(t2, [c \in DOMAIN f.ids |-> values[f.ids[c]]]) = {}

\* set_column_value, for the columns of a SET clause: a value of another type
\* is an error, and the column is left as it was.
Changed(t, values, sets) ==
  [c \in DOMAIN values |-> IF c \in DOMAIN sets /\ Fits(t, c, sets[c]) THEN sets[c] ELSE values[c]]

\* The pairs a row has in the index of column c.
EntriesOf(r, values, c) == IF isNull(values[c]) THEN {} ELSE {<<asInt(values[c]), r>>}

\* add_index: the pairs of the rows that are there already.
IndexOf(t, c) == UNION {EntriesOf(r, RowAt(t, r), c) : r \in DOMAIN rows[t]}

BagOf(f) == [x \in Range(f) |-> Cardinality({i \in DOMAIN f : f[i] = x})]

RowsOf(t) == BagOf([r \in DOMAIN rows[t] |-> RowAt(t, r)])
-----------------------------------------------------------------------------
NoStatement == [kind |-> "NONE", mask |-> {}, remove |-> << >>, add |-> << >>]
NoPromise   == [before |-> EmptyBag, after |-> EmptyBag]

Idle == stmt.remove = << >> /\ stmt.add = << >>

Init ==
  /\ info = [t \in Tables |-> [nullable |-> Nullables[t], primary |-> {}, unique |-> {}, foreign |-> {}]]
  /\ rows = [t \in Tables |-> << >>]
  /\ entries = [t \in Tables |-> << >>]
  /\ dropped = {}
  /\ stmt = NoStatement
  /\ flag = TRUE
  /\ promise = NoPromise
  /\ lost = FALSE

\* A statement begins, with what it promises of the rows of its table.  An
\* error is noted in flag, which is read at the end of the statement.
Begin(s, ok, after) ==
  /\ stmt = NoStatement
  /\ stmt' = s
  /\ flag' = (flag /\ ok)
  /\ promise' = [before |-> RowsOf(s.table), after |-> after]
  /\ UNCHANGED <<info, rows, entries, dropped, lost>>

\* Room for n more rows of t in the model.
Room(t, n) == Cardinality(DOMAIN rows[t]) + n <= Cardinality(Rids)

Insert(t, lists) ==
  LET add == [k \in DOMAIN lists |-> Converted(t, lists[k])]
  IN  /\ Room(t, Len(lists))
      /\ Begin([kind |-> "INSERT", table |-> t, mask |-> {}, remove |-> << >>, add |-> add],
               TRUE, RowsOf(t) (+) BagOf(add))

Delete(t, where) ==
  LET found == search(t, where)
      rest  == {r \in DOMAIN rows[t] : ~ Meets(RowAt(t, r), where)}
  IN  Begin([kind |-> "DELETE", table |-> t, mask |-> Columns(t),
             remove |-> [r \in found |-> RowAt(t, r)], add |-> << >>],
            TRUE, BagOf([r \in rest |-> RowAt(t, r)]))

\* update_record: the rows found are deleted, then inserted with the changes.
Update(t, sets, where) ==
  LET found == search(t, where)
      old   == [r \in found |-> RowAt(t, r)]
      new   == Converted(t, sets)
  IN  /\ Room(t, Cardinality(found))
      /\ Begin([kind |-> "UPDATE", table |-> t, mask |-> DOMAIN sets, remove |-> old,
                add |-> [r \in found |-> Changed(t, old[r], new)]],
               found = {} \/ \A c \in DOMAIN sets : Fits(t, c, new[c]),
               BagOf([r \in DOMAIN rows[t] |->
                        IF Meets(RowAt(t, r), where) THEN Changed(t, RowAt(t, r), new) ELSE RowAt(t, r)]))

\* RemoveNext that leaves the pairs of the row in the indexes.
RemoveNext_KeepsEntries ==
  LET t == stmt.table
      r == Min(DOMAIN stmt.remove)
  IN  /\ DOMAIN stmt.remove # {}
      /\ stmt' = [stmt EXCEPT !.remove = Restrict(@, DOMAIN @ \ {r})]
      /\ rows' = [rows EXCEPT ![t] = Restrict(@, DOMAIN @ \ {r})]
      /\ UNCHANGED <<info, entries, dropped, flag, promise, lost>>

\* The next row of delete_record's loop: deleted with its pairs, or refused.
\* (Rows are taken in the order of their RIDs; an index gives them in that of
\* their keys.)
RemoveNext ==
  LET t      == stmt.table
      r      == Min(DOMAIN stmt.remove)
      values == stmt.remove[r]
  IN  /\ DOMAIN stmt.remove # {}
      /\ stmt' = [stmt EXCEPT !.remove = Restrict(@, DOMAIN @ \ {r})]
      /\ \E stray \in BOOLEAN :
           IF validate_delete_data(t, values, stmt.mask, stray)
             THEN /\ rows' = [rows EXCEPT ![t] = Restrict(@, DOMAIN @ \ {r})]
                  /\ entries' = [entries EXCEPT ![t] =
                                   [c \in DOMAIN @ |-> @[c] \ EntriesOf(r, values, c)]]
                  /\ UNCHANGED flag
             ELSE flag' = FALSE /\ UNCHANGED <<rows, entries>>
      /\ UNCHANGED <<info, dropped, promise, lost>>

\* insert_record of the next row: stored under a free RID and put into the
\* indexes, or refused.
InsertNext ==
  LET t      == stmt.table
      k      == Min(DOMAIN stmt.add)
      values == stmt.add[k]
  IN  /\ DOMAIN stmt.remove = {} /\ DOMAIN stmt.add # {}
      /\ stmt' = [stmt EXCEPT !.add = Restrict(@, DOMAIN @ \ {k})]
      /\ IF validate_insert_data(t, values)
           THEN /\ \E r \in Rids \ DOMAIN rows[t] :
                     /\ rows' = [rows EXCEPT ![t] = [q \in DOMAIN @ \cup {r} |->
                                                       IF q = r THEN values ELSE @[q]]]
                     /\ entries' = [entries EXCEPT ![t] =
                                      [c \in DOMAIN @ |-> @[c] \cup EntriesOf(r, values, c)]]
                /\ UNCHANGED <<flag, lost>>
           ELSE /\ flag' = FALSE
                /\ lost' = (lost \/ stmt.kind = "UPDATE")
                /\ UNCHANGED <<rows, entries>>
      /\ UNCHANGED <<info, dropped, promise>>
\* The statement has come to its end: the next one may be read.
EndStatement ==
  /\ Idle /\ stmt # NoStatement
  /\ stmt' = NoStatement
  /\ flag' = TRUE
  /\ promise' = NoPromise
  /\ UNCHANGED <<info, rows, entries, dropped, lost>>
-----------------------------------------------------------------------------
\* A statement about the catalog of table t that is not refused.
Alter(t, entry) ==
  /\ stmt = NoStatement
  /\ info' = [info EXCEPT ![t] = entry]
  /\ UNCHANGED <<rows, dropped, stmt, flag, promise, lost>>

\* AddIndexes that leaves the rows that are there out of the new indexes.
AddIndexes_Empty(t, s) ==
  entries' = [entries EXCEPT ![t] = [c \in DOMAIN @ \cup {c \in s : Fields[t][c].type = "INT"} |->
                                       IF c \in DOMAIN @ THEN @[c] ELSE {}]]

\* add_index for the INT columns of s that have none, with the rows there are.
\* The path of an index that was dropped still has its old handle (OpenFiles):
\* such an index is not made again.
AddIndexes(t, s) ==
  LET new == {c \in s : Fields[t][c].type = "INT"} \ Indexed(t)
  IN  /\ \A c \in new : <<t, c>> \notin dropped
      /\ entries' = [entries EXCEPT ![t] = [c \in DOMAIN @ \cup new |->
                                              IF c \in DOMAIN @ THEN @[c] ELSE IndexOf(t, c)]]

create_index(t, c) ==
  /\ Fields[t][c].type = "INT" /\ c \notin Indexed(t)
  /\ AddIndexes(t, {c})
  /\ Alter(t, info[t])

drop_index(t, c) ==
  /\ stmt = NoStatement
  /\ c \in Indexed(t)
  /\ Cardinality(dropped) < MaxDrops
  /\ entries' = [entries EXCEPT ![t] = Restrict(@, DOMAIN @ \ {c})]
  /\ dropped' = dropped \cup {<<t, c>>}
  /\ UNCHANGED <<info, rows, stmt, flag, promise, lost>>

\* add_primary_key that does not look for NULLs.
add_primary_key_NullsPass(t, s) ==
  /\ \A r \in DOMAIN rows[t] : Cardinality(search(t, On(RowAt(t, r), s))) <= 1
  /\ info[t].primary = {}
  /\ AddIndexes(t, s)
  /\ Alter(t, [info[t] EXCEPT !.primary = {s}, !.nullable = @ \ s])

add_primary_key(t, s) ==
  /\ \A r \in DOMAIN rows[t] :
       LET values == RowAt(t, r)
       IN  ~ HasNull(values, s) /\ Cardinality(search(t, On(values, s))) <= 1
  /\ info[t].primary = {}
  /\ AddIndexes(t, s)
  /\ Alter(t, [info[t] EXCEPT !.primary = {s}, !.nullable = @ \ s])

\* Refused while a foreign key refers to the table, by whatever columns.
drop_primary_key(t) ==
  /\ info[t].primary # {}
  /\ \A t2 \in Tables : \A f \in info[t2].foreign : f.table # t
  /\ Alter(t, [info[t] EXCEPT !.primary = {}])
  /\ UNCHANGED entries

add_unique(t, s) ==
  /\ \A r \in DOMAIN rows[t] :
       LET values == RowAt(t, r)
       IN  HasNull(values, s) \/ Cardinality(search(t, On(values, s))) <= 1
  /\ s \notin info[t].unique    \* twice the same would add nothing to the model
  /\ Cardinality(info[t].unique) < MAX_UNIQUE_CONSTRAINT_COUNT
  /\ AddIndexes(t, s)
  /\ Alter(t, [info[t] EXCEPT !.unique = @ \cup {s}])

add_foreign_key(t, f) ==
  /\ \A r \in DOMAIN rows[t] :
       LET values == RowAt(t, r)
       IN  HasNull(values, DOMAIN f.ids) \/ search(f.table, Referred(f, values)) # {}
  /\ f \notin info[t].foreign
  /\ Cardinality(info[t].foreign) < MAX_FOREIGN_FIELD_COUNT
  /\ Range(f.ids) \subseteq Indexed(f.table)
  /\ AddIndexes(t, DOMAIN f.ids)
  /\ Alter(t, [info[t] EXCEPT !.foreign = @ \cup {f}])

drop_foreign_key(t, f) ==
  /\ f \in info[t].foreign
  /\ Alter(t, [info[t] EXCEPT !.foreign = @ \ {f}])
  /\ UNCHANGED entries

Next ==
  \/ \E t \in Tables :
       \/ \E lists \in Inserts[t] : Insert(t, lists)
       \/ \E w \in Conditions[t] : Delete(t, w)
       \/ \E w \in Conditions[t], sets \in SetClauses[t] : Update(t, sets, w)
       \/ \E c \in Columns(t) : create_index(t, c) \/ drop_index(t, c)
       \/ \E s \in Keys[t] : add_primary_key(t, s) \/ add_unique(t, s)
       \/ drop_primary_key(t)
       \/ \E f \in ForeignKeys[t] : add_foreign_key(t, f) \/ drop_foreign_key(t, f)
  \/ RemoveNext \/ InsertNext \/ EndStatement

Spec == Init /\ [][Next]_vars
-----------------------------------------------------------------------------
\* Every variable has its type: rows fit the columns of their tables, pairs
\* are of INT columns.
TypeOK ==
  /\ \A t \in Tables : info[t] \in [nullable : SUBSET Nullables[t],
                                    primary : SUBSET SUBSET Columns(t),
                                    unique : SUBSET SUBSET Columns(t),
                                    foreign : SUBSET ForeignKeys[t]]
  /\ \A t \in Tables : /\ DOMAIN rows[t] \subseteq Rids
                       /\ \A r \in DOMAIN rows[t] : IsRow(Fields[t], rows[t][r])
  /\ \A t \in Tables : \A c \in Indexed(t) :
       c \in Columns(t) /\ Fields[t][c].type = "INT" /\ entries[t][c] \subseteq Int \X Rids
  /\ stmt.kind \in {"NONE", "INSERT", "DELETE", "UPDATE"}
  /\ flag \in BOOLEAN /\ lost \in BOOLEAN

(***************************************************************************)
(* Every row is read as it was given, through from_record_to_bytes and      *)
(* from_bytes_to_record.                                                    *)
(***************************************************************************)
RowsReadBack ==
  \A t \in Tables : \A r \in DOMAIN rows[t] : Read(t, rows[t][r]) = rows[t][r]

(***************************************************************************)
(* An index has the pairs of the rows and no others, whatever the order in  *)
(* which rows came and went, were refused, and indexes were made and        *)
(* dropped: insert_record, delete_record and add_index keep them together.  *)
(***************************************************************************)
IndexesMatchRows ==
  \A t \in Tables : \A c \in Indexed(t) : entries[t][c] = IndexOf(t, c)

Agree(v, w, s) == \A c \in s : ~ isNull(v[c]) /\ v[c] = w[c]

(***************************************************************************)
(* Rows keep what the table's entry declares: no NULL where a column is NOT *)
(* NULL, no two rows that agree on a unique or primary key.  It is tested   *)
(* through an index when there is one, row by row in statements on many,    *)
(* and for the rows that are there when a key is added.                     *)
(***************************************************************************)
KeysHold ==
  \A t \in Tables :
     /\ \A r \in DOMAIN rows[t], c \in Columns(t) :
          isNull(RowAt(t, r)[c]) => c \in info[t].nullable
     /\ \A s \in info[t].unique \cup info[t].primary : \A q, r \in DOMAIN rows[t] :
          q # r => ~ Agree(RowAt(t, q), RowAt(t, r), s)

(***************************************************************************)
(* Between two statements every reference leads to a row: rows that others  *)
(* refer to are not deleted or changed (validate_delete_data), rows that    *)
(* refer to none are not inserted, and a foreign key is added over rows     *)
(* that respect it.  An UPDATE that lost a row (run update) is the          *)
(* exception.                                                               *)
(***************************************************************************)
ReferencesResolve ==
  Idle /\ ~ lost =>
    \A t \in Tables : \A f \in info[t].foreign : \A r \in DOMAIN rows[t] :
       LET values == RowAt(t, r)
       IN  \/ HasNull(values, DOMAIN f.ids)
           \/ \E q \in DOMAIN rows[f.table] :
                \A c \in DOMAIN f.ids : RowAt(f.table, q)[f.ids[c]] = values[c]

(***************************************************************************)
(* A statement that ends without an error did what it says: INSERT added    *)
(* its rows, DELETE removed the rows its clauses describe, UPDATE changed   *)
(* them, and no other row is touched.                                       *)
(***************************************************************************)
AcceptedStatementDone ==
  Idle /\ flag /\ stmt.kind # "NONE" => RowsOf(stmt.table) = promise.after

(***************************************************************************)
(* An UPDATE that was refused leaves the rows as they were (check/7-fk and  *)
(* check/15-null: a line "failed").                                         *)
(***************************************************************************)
FailedUpdateKeepsRows ==
  Idle /\ ~ flag /\ stmt.kind = "UPDATE" => RowsOf(stmt.table) = promise.before
=============================================================================
