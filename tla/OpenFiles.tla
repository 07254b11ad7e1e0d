------------------------------ MODULE OpenFiles ------------------------------
(***************************************************************************)
(* The record and index files ManageSystem (src/ms) has opened.  It keeps   *)
(* them in record_files and index_files, by path, for the rest of the       *)
(* process; the path of a table's file is made of ids, and ids are given    *)
(* again.                                                                  *)
(***************************************************************************)
EXTENDS Catalog

VARIABLE opened   \* the paths opened: TRUE if the file open is the one there now

\* After the files changed: a file that was removed stays open.
Kept == [f \in DOMAIN opened |-> opened[f] /\ f \in files']

\* The files of S found among those opened, or opened now.
Opened(S) == [f \in DOMAIN opened \cup S |-> IF f \in DOMAIN opened THEN Kept[f] ELSE TRUE]

\* A statement looks for the rows of a table, and may for an index of it.
get_record_file(name) ==
  /\ IsTable(name)
  /\ UNCHANGED vars
  /\ opened' = Opened({RecordFileOf(current_db, TheTable(name).id)})

get_index_file(name, c) ==
  /\ IsTable(name)
  /\ UNCHANGED vars
  /\ LET info == TheTable(name)
         i    == find_column_by_name(info, c)
     IN  /\ i <= info.field_count /\ info.column[i].indexed
         /\ opened' = Opened({IndexFileOf(current_db, info.id, c)})

\* CREATE TABLE and the statements that remove files open none.
Define ==
  /\ \/ \E name \in DbNames : create_db(name) \/ drop_db(name) \/ use_db(name)
     \/ \E name \in TableNames :
          \/ \E schema \in Schemas, keys \in BoundedSeq(PrimaryKeys, MAX_PRIMARY_FIELD_COUNT) :
               create_table(name, schema, keys, << >>)
          \/ drop_table(name)
          \/ \E c \in Columns : drop_index(name, c)
  /\ opened' = Kept

\* CREATE INDEX fills the index from the rows of the table.
CreateIndex(name, c) ==
  /\ create_index(name, c)
  /\ LET id == TheTable(name).id
     IN  opened' = Opened({RecordFileOf(current_db, id), IndexFileOf(current_db, id, c)})

EndAndRestart == Restart /\ opened' = << >>

OpenNext ==
  \/ \E name \in TableNames :
       \/ get_record_file(name)
       \/ \E c \in Columns : get_index_file(name, c) \/ CreateIndex(name, c)
  \/ Define \/ EndAndRestart

OpenSpec == Init /\ opened = << >> /\ [][OpenNext]_<<vars, opened>>
-----------------------------------------------------------------------------
(***************************************************************************)
(* An open RecordFile corresponds to one table and an open IndexFile to one *)
(* index of a table (README.md): what a statement finds for a table of the  *)
(* catalog is that table's file.                                            *)
(***************************************************************************)
OpenFileIsTheTables ==
  \A f \in DOMAIN opened \cap files : f[1] \in IdsOf(Databases) => opened[f]
=============================================================================
