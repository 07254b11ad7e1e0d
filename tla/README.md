# MyDBMS in TLA+

Specifications of MyDBMS, a small relational database in C++, written from its
source, model-checked with TLC and proved about with TLAPS.  Paths below are
those of the repository (`src/` is its root).

## 1. The system

One process reads SQL statements and runs them one after the other, without
threads.  What is hard in it is not concurrency inside a module but state that
is kept in several places at once: in the page cache and on disk, in a page and
in the tree that says how full it is, in the nodes of an index and in the links
between them, in the catalog and in the files it names, in the rows of a table
and in its indexes, in a statement as it is typed and in the calls it becomes.

| Component | State | Operations | Talks to |
|---|---|---|---|
| **fs** (`src/fs`): `Filesystem`, `File`, `BufferManager` | open files with their `used_pages`; the cache: a list of at most `BUFFER_MAX` = 60000 pages in order of use, and a map from (file, page) into it | `open_file`, `get_page` (with or without `bypass`), `close`, the destructor | the disk; hands out pointers into the cache |
| **rs** (`src/rs`): `RecordSystem`, `RecordFile` | meta page (number of pages, roots of the free space trees), free space pages, data pages with a header and a slot directory | `create_file`, `insert_record`, `delete_record`, `update_record`, `get_record`, `find_first`, `find_next` | a `File` of fs |
| **is** (`src/is`): `IndexSystem`, `IndexFile`, `IndexScan` | meta page (root, number of nodes, order `m`), nodes of a B+ tree with linked leaves | `create_file`, `insert_record`, `delete_record`, `delete_record_range`, `search`, `get_next_entry` | a `File` of fs |
| **ms** (`src/ms`): `ManageSystem` | `db_mapping`, a `TableMapping` for each database, the database in use, the handles of open record and index files | CREATE/DROP/USE DATABASE, CREATE/DROP TABLE, CREATE/DROP INDEX, ADD/DROP keys and UNIQUE; coding and validation of rows | rs, is, its own mapping files; asks qs for rows when a constraint is added or a row validated |
| **qs** (`src/qs`): `QuerySystem` | `flag`: no error so far in this statement | insert, search, delete, update rows; WHERE, joins, aggregates, groups, LIMIT | ms, rs, is |
| **front end** (`src/src`, `src/utils`, `SQL.g4`, `src/generated`, `src/antlr_runtime`) | the statement that is being read; the parser's stack of rules and its error state; the parse tree | `read_stmt`, the lexer, the rule functions, recovery from errors, the visit functions | ms, qs |

What makes each correct, and what is hard to test in it:

* **fs** - the cache is invisible: a user of pages works with the last content
  written, whatever is evicted, closed or cached again.  Evictions begin at
  60000 pages, which no test reaches.  A pointer that `get_page` returned is
  good until as many other pages were asked for.  An exit leaves everything on disk.
* **rs** - a record keeps its RID and its bytes while others come and go; a
  scan meets each once; page header, free space tree and meta page agree after
  any order of insertions and deletions.
* **is** - a search finds exactly the entries of its range; splits, borrows and
  merges keep the links and the separating keys right.
* **ms** - what the catalog names exists, ids and names stay apart although ids
  are given again, foreign keys do not dangle, a restart loses nothing; a row
  is read as it was given; keys and references hold however rows and
  constraints come and go.
* **qs** - a statement's rows are what its clauses say, whatever indexes there
  are and in whatever order tables are joined; rows and indexes agree.
* **front end** - only sentences of the grammar are run, each as it was typed,
  and no input keeps the parser at one place for ever.

`PROJECT.json` lists every component with its status and every hazard at its
line, with the properties that cover it or the reason why none does.

## 2. The modules

| Module | What it is | Code |
|---|---|---|
| `PageStore` | abstract: pages with a last written content and the content a crash leaves | what fs promises |
| `PageCache` | fs, one action per operation; refines `PageStore` | `src/fs` |
| `RecordPage` | a data page: slots, vacancies, header (operators only) | `vacancy_at`, `fix_page_header`, the page's part of insert and delete |
| `RecordStore` | abstract: records under their RIDs | what rs promises |
| `RecordFile` | a record file over `RecordPage`; refines `RecordStore` | `src/rs` |
| `IndexStore` | abstract: the set of (key, RID) entries | what is promises |
| `IndexFile` | the B+ tree; refines `IndexStore` | `src/is` |
| `Catalog` | the statements that define data | `src/ms`, catalog |
| `OpenFiles` | `Catalog` with the handles kept in `record_files`, `index_files` | `get_record_file`, `get_index_file` |
| `RowCodec` | values, and rows as bytes (operators only) | `src/ms/Value.h`, `from_record_to_bytes`, `from_bytes_to_record` |
| `Rows` | rows, indexes and constraints of several tables, a step for each row; over `RowCodec` | `insert_record`, `delete_record`, `update_record` of qs; validation, keys and indexes of ms |
| `Query` | WHERE with index ranges, joins, selectors, groups (operators only); over `RowCodec` | `src/qs` |
| `Select` | a SELECT statement, step by step; over `Query` | `search`, `search_entry` |
| `SqlGrammar` | the rules, and what may come next in them | `src/generated/SQLParser.cpp`, `LL1Analyzer` |
| `SqlParser` | the parser: rule functions, prediction, recovery | `Parser`, `ParserATNSimulator`, `DefaultErrorStrategy` |
| `Visitor` | which call a context of the tree makes, with which words | `src/src/MyVisitor.h` |
| `Console` | the whole front end: reader, lexer, parser, visitor | `src/utils`, `Lexer` |
| `PageCache_proofs`, `RecordFile_proofs`, `Rows_proofs`, `Catalog_proofs` | theorems about the module of that name; `Rows_proofs` has those about `RowCodec` too | |
| `IndexShape_proofs`, `IndexSplit_proofs`, `IndexFile_proofs`, `IndexDelete_proofs` | in this order: the shape of the tree of `IndexFile`; splits; searches, insertions and a leaf that leaves the tree; deletions, and the theorems about an index | |
| `MC...` | instances for TLC | |

What composes what: `RecordFile` and `IndexFile` stand on pages that keep their
content, which is what `PageStore` promises; `Rows` and `Query` on record files
and indexes as `RecordStore` and `IndexStore` promise them; `MCRows` puts `Rows`
and `Query` together (`LookupsFindRows`); `OpenFiles` is the catalog with its
files; `Console` joins the four modules of the front end, down to the calls that
`Catalog`, `Rows` and `Select` have as actions.

How state and actions correspond to the code:

* **`PageCache`.** `frame` is the memory of `BufferPage`s, `pages` and
  `buffer_map` the members of `BufferManager`, `used_pages` the one of `File`.
  `get_page` is `File::get_page` with `BufferManager::get_buffer` inside it: a
  hit, a new frame, or the frame of the last page of the list, which is written
  back by the requesting file before the new page is read (`AllocEvict` keeps
  this).  A page beyond the end of the file is read as anything, because `fread`
  then leaves the memory as it was.  `close` takes a step per page
  (`CloseNextPage`), so that a crash may fall between two; so does the
  destructor, which closes every file.  `handle` and `since` are history: the
  frame last returned for a page, and the pages asked for since.
  They are read only by the guard of `WritePage`, which is the contract of
  `File.h`: a caller uses its pointer soon.
* **`RecordPage`, `RecordFile`.** A page is a function from slots to offsets and
  sizes plus its header.  `vacancy_at` has the branches of the code, with
  unsigned wrap-around (`SizeT`).  `Insert` has three alternatives, as
  `alloc_vacancy` has: a used page, a page that looks new, a new group.  Each is the
  whole of `insert_record`: allocation, the record, `fix_page_header`, the free
  space tree (`Raised`, which stops where the code's loop stops) and the root's
  copy in the meta page.  `AllocAsserts` is the assertion of `alloc_vacancy`.
  The code's loops over the tree are recursive functions on its nodes: `LeafFor`
  on the way down, `Raised` on the way up.  Content is a size: `RecordStore` says where
  records are and how long, not what is in them.
* **`IndexFile`.** A node's linked list of pairs is a sequence that ends with the
  pair of number 0 and key `INDEX_KEY_MAX`.  `insert_record` and `delete_record`
  are functions on trees with the code's helpers by name (`overflow`,
  `underflow` for leaves and inner nodes).  The code's loops are recursive functions on
  the number of rounds: `LeafFor` from the root to a leaf, `SplitUp` and `ShrinkUp` from a leaf
  up, `Rounds` along the leaves for a search, which returns places (a page and a place in it).
  The numbers of the pairs of a node, which only serve the linked
  list, are positions.  The variable `distinct` says whether the behaviour is
  one of insertions with keys that repeat or one with deletions of distinct keys.
* **`Catalog`.** A table's entry is a record; the array of slots is kept with
  what lies behind the last table (`LeftBehind`: what the next table does not
  overwrite).  A statement is one step: change in memory, files, mapping file.
  A clause that is refused halfway leaves what it had done (`Outcome`); the
  clauses of a CREATE TABLE are taken in turn by a recursive function (`WithClauses`).
  Refusals that change nothing are left out.  `current_db` starts as anything:
  no database, or an id no database has.
* **`OpenFiles`.** `opened` says of each path in the handle maps whether the file
  that is open is still the file with that path.
* **`RowCodec`.** A value is its type and a number (of a string, its length).  A
  stored row is the bitmap of NULLs, the slots of the fixed columns, the ends of
  the strings and the strings.  The reader takes no slot for a NULL where the
  writer left one, and what it reads then is `Junk`, as in the code.
* **`Rows`.** A statement on several rows takes a step per row (`stmt` is what is
  left of it), because validating a row reads what was done to the rows before
  it.  UPDATE is what `update_record` does: all deletions, then the insertions one by one.
  WHERE is a conjunction of equalities, which is all the validation asks for.
* **`Query`, `Select`.** One step per sub-select, per round of the loop that
  places tables (`search_where_clauses` joins the table it likes best next),
  for the rest of the clauses, for the selectors, for LIMIT.  An index range
  follows the code's bounds, the wrong one of `>` and `>=` included.
* **`SqlGrammar`, `SqlParser`.** A rule is a sequence of elements (a token, a
  rule, an option, a loop, alternatives); what is left of it is the state of the
  ATN.  The parser's stack has a frame for each rule function that has not
  returned.  `sync`, `recover`, `recoverInline`, `consumeUntil` and the failsafe
  on `lastErrorIndex` are those of `DefaultErrorStrategy`; `execATN` reads on
  until one alternative is left.
* **`Visitor`.** A context is its place in the order in which rule functions
  returned, a word its place among the tokens.  A visit function picks the words
  the code picks (`getTokens(k, ...)` is `ctx->Identifier(...)`) and gives each
  the part it plays.  `NoDefault` is the null pointer a DEFAULT of another type
  leads to: the process ends (`VisitFails`).
* **`Console`.** The input is a sequence of pieces, not of characters: words,
  numbers, and each character the reader or the lexer takes notice of.

Conventions: a `..._Something` operator in front of a definition is that
definition with a plausible mistake; it is used by nothing; put in the
definition's place, it makes a run fail, which shows that its properties can ("mutants" in
`PROJECT.json`).  "map" there has the lines each definition was translated from.

## 3. What TLC checks

Runs that pass:

| Run | Instance | Shows |
|---|---|---|
| `cache` | 1 file, 3 pages, 2 contents, 2 frames | `ImplementsPageStore`: the cache is a page store through evictions, closes, clean exits and crashes; `CleanPageMatchesDisk`, why a clean page may be dropped; `CacheCoherent`, `CloseReachesEveryPage`, `PointerStaysGood`, `DirtyPageReachesDisk`; liveness: `ExitSavesEverything` |
| `records` | pages of 20 bytes with a header of 2, records of 4 and 8, levels in units of 2, 2 groups of 2 pages | `PagesSound`, `FreeSpaceTreeTrue`, `ScanMeetsEveryRecord`, `ImplementsRecordStore`; no assertion of `alloc_vacancy` fails |
| `tree` | order 3; either keys 0..2 with repetitions and 9 records (three levels), or distinct keys 0..3 with deletions and 9 pages | `SearchFindsRange`, `LinksFollowTree`, `Balanced`, `ImplementsIndexStore` |
| `ddl` | 1 database, 2 tables of one column, valid and invalid key lists, a foreign key, restarts | `TablesApart`, `FilesBehindCatalog`, `ForeignKeysResolve`, `CatalogSaved` |
| `rows` | tables P (x FLOAT NOT NULL, id INT) and C (ref INT, tag VARCHAR(2)), 2 RIDs each, statements on one and two rows, a key, a foreign key, one DROP INDEX | `RowsReadBack`, `IndexesMatchRows`, `KeysHold`, `ReferencesResolve`, `AcceptedStatementDone`, and with `Query`: `LookupsFindRows` |
| `select` | 33 queries over tables A, B, C; 5 x 4 x 2 contents with NULLs, 9 choices of indexes | `PartialResultsRight` after every round, `WhereRight`, `AnswerRight`; `EachRoundPlaces`, the measure by which the loop ends |
| `session` | 24 statements, one of every form, strings with a semicolon in them; each whole, with one piece lost, with one of 8 put in anywhere, with one replaced by one of 3; a statement behind it | `OnlySentencesRun`, `ChunkIsOneStatement`, `CallsSayTheStatement`; liveness: `EverySessionEnds` |

Why the bounds are enough.  Every hazard of the cache needs at most one frame
less than the pages in use; frames, pages and contents are interchangeable.
Page and record sizes in `records` are such that a page takes one large record
or several small ones, is filled to its last byte, and leaves holes in the
middle; two groups of two pages have a root above leaves, so levels rise and
sink, and a new group is opened.  Order 3 is the smallest order with inner
nodes that split.  Two tables are enough for a reference, for a shift in
the array of slots, for a reused id and for a name given again.  Two rows in a
statement are enough for the second to meet the first; P has an INSERT that breaks a key in
its second row, and a value too few, a string too long and an integer for a FLOAT are among
the values.  Three tables have every shape of join (by index, by scan, by a
third table's column), and every kind of clause, aggregate, group and LIMIT is in some query.
The statements of `session` have every alternative of every rule (but a comment and FLOAT) between
them.  Of two of their strings no statement with a minus is made, so that `ChunkIsOneStatement`
is about them, whole and with a quote too many or too few: a reader that stops within a string is
found, and one that does not stop behind it.  One slip reaches each way of recovery (a token deleted, one made up, tokens
skipped, a rule given up, the failsafe).  The bounds
that only bound the model are named there: `MAX_FSP`, `MaxRecords`, `MaxPages`
and `MaxPagesUsed` (`Insert` has the guard `2 * node_num + 1 <= MaxPages`, or `MaxPagesUsed` when
there are deletions: a split goes up no further than there are nodes), `MaxTables`, `MaxId`,
`OnlyCurrentHasTables`, `Rids`, `MaxDrops`, `Scripts`.  Deadlock is checked except in
`tree` and `deep`, where a full index is at the end of the bound, and in `select`
and `where`, where a query is answered and nothing is left to do.

Fairness.  `PageCache` has `FairSpec`: a close that has begun and the destructor
go on (`CloseNextPage`, `EndClose`, `ExitCloses`, `EndExit`), since they are
loops that wait for nothing; opening, asking for pages and leaving are up to the user
and have no fairness.  `Console` has `Fairness`: the process runs and its input is
there, which is weak fairness of `Next` because some step is possible until the
end (the deadlock check says so).  Under it `EverySessionEnds` says that
recovery from an error cannot go round at one token for ever.  Nothing is claimed
live elsewhere: those operations return in one step of the model, or end by a
measure (`EachRoundPlaces`).

Runs that find a disagreement between the code and what it says of itself
("findings" in `PROJECT.json`):

| Run | What happens |
|---|---|
| `cross` | A dirty page of file A is evicted for a page of file B: `File::get_page` of B writes it, into B.  Needs more than `BUFFER_MAX` pages of at least two files. |
| `deep` | The rightmost inner node of its parent underflows: the key that is drawn down is read from the pair of key `INDEX_KEY_MAX`, and the keys behind it are in the tree and found by no search.  Five distinct keys in three levels. |
| `stale` | `drop_table` then `create_table`: the new table has the id, the path and therefore the open handle of the file that was removed. |
| `update` | An UPDATE whose row is refused (a key that is there, a NULL, a missing reference) has deleted the row before. |
| `where` | `>` and `>=` on an indexed column: the lower bound becomes the maximum of the upper bound and the value, so no row is found. |

`cross` is why the theorems on contents are about one file, and `deep` why `tree`
has deletions in two levels only: with three the property fails.  `where` is why no query of
`select` has a lower bound on an indexed column; the next thing the code does with
such columns is in the list below (`<>`), and `select` stays clear of it too.

What else the code does that its users would not expect, met while modelling.  Most of it is in the models and would break a property, so the
instances of the passing runs stay clear of it, as the comments at the properties say:

* *rs.* A record that fills a page makes the vacancy of the next slot wrap around:
  the page gets level 0xFF, "never used", and the next insertion overwrites the
  record (no size in `records` is that large, and `PagesStaySound` assumes as much).
  `update_record` (not modelled) grows a record in place and leaves header and free
  space as they were.
* *is.* After the largest key of a leaf is deleted, a range search that starts above
  the keys that are left stops at the end of the leaf; `SearchFindsRange` of distinct
  keys is about searches from keys that are there.  A split gives a page back that is
  cached, and `create_node` then asks for its number with `bypass`: `PageCache` states
  the contract that is broken there (`GetPage`).  With repeated keys the order has to be
  odd: `insert_key_with_lrvalue` (`IndexFile.cpp:191`) finds the place of a split by its key, and with
  an even order, which `IndexSystem(int m)` lets a caller choose, a leaf gets out
  of the tree (`SearchFindsRange` fails for order 4; the program has 255).  Deletions of
  repeated keys go wrong for every order: a leaf that loses the last copy of the key above it
  makes a search stop there, and one that becomes empty finds its brother's place in the parent.
  `IndexFile.h:113` asks for keys that do not repeat, so `Delete` does (`distinct`); an
  index on a column without UNIQUE does not keep to it.  After a merge down to one node the
  parent of the dying node, not of the new root, is set to 0 (`IndexFile.cpp:586`, `:643`).
* *ms.* `create_table` compares the number of databases with `MAX_TABLE_COUNT`.  A new
  table inherits the UNIQUE constraints of the slot it gets.  `validate_delete_data`
  tests NULL at the wrong column's number, and references of a table to itself are not
  checked on deletion.
* *qs.* `<>` on an indexed column does not narrow the range of the index
  (`QuerySystem.cpp:583`), and is struck off with the other clauses on that column when the
  index is used (`QuerySystem.cpp:628`): the rows with that value are found.  A join through an index treats any comparison as equality and a NULL as key
  0; a joined table without rows loses its columns; a clause that names a table
  FROM does not have is not refused; a DELETE with an erroneous
  clause still deletes; an UPDATE with a value of another type still rewrites rows; an
  INSERT of too many values ends the process at an assertion.
* *front end.* LOAD and DUMP have no visit function and do nothing.  Characters that
  begin no token are dropped and not counted as errors.  A comment goes on to the next
  semicolon, over line ends (`src/check/6-pk(4).sql.sql:19` so takes the CREATE TABLE
  behind it along), and an apostrophe in it makes the reader wait for another.  A
  DEFAULT of another type than its column's ends the process; a string DEFAULT keeps
  its quotes.

## 4. What is proved

`PageCache_proofs`, for every number of files, pages, contents and frames (the
named assumptions of `PageCache`: at least one frame, file and content; page numbers
are naturals; `Nil` and `Absent` are nothing else): `TypeCorrect`,
`CacheStaysCoherent`, `CloseMissesNothing`, `PointersStayGood`.
`CacheCoherent` alone would be inductive, but `PointerStaysGood` is not: that a page
was not evicted too early depends on what the order of the list says of the past.
The inductive invariant `IInv` adds `RecencyOrder` (a page further back in the
list was last asked for before every page in front of it), `EvictedLongAgo` (a
page that was evicted was asked for before at least `BUFFER_MAX` others),
`HandleCurrent` and `FiniteHistory`.  The step that matters is the eviction: the
last page of a full list has, by `RecencyOrder`, the `BUFFER_MAX - 1` pages in
front of it in its history, and the new page makes `BUFFER_MAX`.

The same module, under `OneFileOnly` (`Files` has one member):
`CleanPagesMatchDisk`, `DirtyPagesAreWritten` (an action property: a dirty page that leaves the
cache is on disk after that step) and `OneFileImplementsPageStore`.  `IInv` together with
"a clean page shows the disk" is inductive, and every step of `PageCache` is a
write, a flush of one page, an exit, a crash, a start or a stutter of `PageStore`.
The assumption is needed: `cross` is a counterexample with two files.

`RecordFile_proofs`, for every size of page, header and level unit, every depth of the
tree and every number of groups, under `RoomBehindRecord` (no record takes the page but
for one slot): `PagesStaySound`.  The inductive invariant `GoodPages` says of each page that its
records are disjoint, the free place of the header is free, and that behind the last record
there is room for one more slot.  That last part is what makes `vacancy_at` exact:
an insertion asks for a level rounded up, the page offers one rounded down
(`LevelIsEnough`), and the level adds the slot that `free_size` has left out
already.  Without the assumption it fails, as section 3 says of a record that fills a page.

The same module, under the same assumption: `TypesHold`, `FreeSpaceStaysTrue`,
`ScanIsComplete`, `FileIsRecordStore`.  The inductive invariant is
`GoodPages /\ TreesTrue /\ UsedInOrder /\ FileEnds`.  `TreesTrue` is about the levels of
the leaves, the inner nodes and the roots in the meta page; a scan also needs that no record is behind
`page_cnt`, which is not inductive: the code assigns `page_cnt` for a page
never used whatever it was, and adds two for a new group whatever the last page is.  That is right because
the walk down the tree goes left whenever it can, so that pages come into use in the
order of their numbers, and a group is opened when no page before it is unused
(`UsedInOrder`); then the file ends behind its last page (`FileEnds`).  The refinement takes one
insertion, one deletion and one stutter at a time: the RID an insertion gives is new,
and every other record stays where it is.  The lemmas in front of it have what these
steps need of the tree: there are such functions as `LeafFor` and `Raised` (from the leaves up, by
the largest node there is none for), the leaf found has the level asked for and is the
first new page when a new page is taken, a tree with one leaf changed is a tree again, and nodes that the
loop does not reach are as they have to be; and that groups, leaves and page numbers
correspond one to one.

`Rows_proofs` first says of `RowCodec`, for every list of columns (`RowsAreReadBack`): a row with no NULL before
another value of its part, and none beside string content, is read as it was written.

Then, for every set of tables, statements, keys and RIDs: `RowsTypeCorrect`,
`IndexesFollowRows`, `RowsStayReadable`, `KeysAreKept`, `AcceptedIsDone`, under `ReadableTables` (in every
table a column that may be NULL is the last of its part of the row, and a string column
that may be NULL is the only one), which makes `RowsAreReadBack` fit every row; and
`ReferencesAreKept`, under `ReferencesSeen` as well.  The
assumption carries the weight: validation looks at rows as they are read, so indexes
and keys are right only as far as reading is.  The inductive invariant `Sound` has
`TypeOK`, `IndexesMatchRows`, `NullsDeclared` (a NULL is in a column declared for it),
`Functional` (every table has its entry, rows and indexes) and `StatementSound` (a row that a
statement has still to remove is in the record file, as it was read: what keeps the
removal from an index the one of the pair that is there); `KeysHold` is kept under it.
The proof has a step per action of `Rows`, and in each one per part.

* *References.* `ReferencesResolve` speaks of the time between statements, and it is not inductive: half-way
  through an UPDATE of the table referred to, the row is gone and will be inserted again.  `ReferencesSound` says
  that a referring row has its row in the table or among those the UPDATE has still to insert,
  and `RemovalsKept` that it inserts them with every column outside its SET clause as
  it was, so that a removal that touches no column of the reference need not be refused.
  `ReferencesSeen` is the part of foreign keys that `validate_delete_data` looks at as it should: to another
  table, of at least one column, each column to one of its own, and to columns that
  have no NULL, because the code tests for NULL at the number the column has in the
  referring table.  The tables of the runs satisfy both assumptions.
* *Accepted statements.* `AcceptedStatementDone` compares the rows at the end with those
  promised at the beginning.  The invariant in between is a `Balance` of counts: for each row
  value, those in the table and those still to add are those promised and those still to remove.

`Catalog_proofs`, for every set of names, schemas and clauses, every list of clauses
and every limit, from the assumption on constants alone: `TypesHold`, `TablesStayApart`,
`FilesStayBehind`, `ForeignKeysStay`, `CatalogStaysSaved`.  The inductive invariant is
`CInv == DatabasesSound /\ MappingsSound`.  The five properties are not inductive, each for its reason: a
dropped table leaves its entry behind the last one, where the next table finds it, so
entries are sound in every slot and not only in the used ones (`IsMapping`);
after a restart the mapping in memory is the one in the file, so the saved
mapping has to be as sound as the other, for every database; and `current_db` may be
an id no database has, whose mapping and files come and go with the rest.  The argument
goes from the inside out: what a clause makes of one entry (`Good`: the same name and columns,
a file for every new index, references to tables that are there), what a list of clauses
makes of it (`ClausesGood`, by the first clause after which it would not be good), what a mapping becomes when an entry is
replaced, added or removed (`SlotReplaced`, `TableAdded`, `TableRemoved`), and one
lemma per action.  A clause that is refused leaves the entry unsaved; that memory and file
then differ by no more than a NOT NULL is `Harmless`, and what `CatalogSaved` allows for.

`IndexDelete_proofs`, for every order from 3 to 255, every set of keys and every
number of records and pages: `ImplementsTheStore`, `SearchesFindTheirRange`, `LinksStayRight`,
`StaysBalanced`, `TypesHold`, for behaviours in which every deletion is calm (`CalmDeletion`); without
deletions this is no restriction, and repeated keys are covered there, when the order is odd
(`IndexFileAssumption`).

* *The invariant.* The properties follow the pointers of the tree, and a
  tree is what following them gives; an invariant that is to survive a split has to say it of single
  nodes.  `IInv` says that there is a record `g` that gives the set of nodes and, for each one, its level,
  the interval of leaves below it and the bounds of the keys below it, such that the parts fit:
  `Shape` (children lie one level below and side by side, each knows its parent, leaves are
  linked in the order of their intervals, keys lie between the bounds of
  their node, every leaf but the root has a key), `Fits` (the nodes are among the pages used, and no
  more of them lie beside or above each other), `Sizes` (how many keys a node has) and `Apart` (no entry is
  at two places).  Where keys repeat (not `strict`), the lower bound of a node may be a key
  in the first half of its list, because a split leaves equal keys on both sides, and the last key of a leaf is
  its upper bound: that is what a search needs, and what deletions would break.
* *Searches.* Every key has one leaf whose bounds hold it, and going down from the root ends there; the
  places of the entries are in the order of their keys, so the walk along the leaves
  begins at the first entry of the range, leaves none out and stops behind the last.
* *Insertions.* A node that has become too large is the one exception to `Sizes`; splitting it
  makes its parent the exception, one level up, and splitting the root ends it.  For each split
  `g` is changed by hand: a new node, the leaves and the bounds divided between two.  The number of
  rounds is bounded by the level, so `SplitUp` comes to its end.
* *Deletions.* A leaf that keeps a key loses the pair; a leaf with one pair borrows the first pair of its
  right brother (`BorrowKeeps`: one bound of `g` moves up) or leaves the tree and the chain of leaves
  (`DropKeeps`: its interval goes to a brother), and the parent loses a key or, as a root with
  two children, gives its place to the leaf that is left (`CollapseKeeps`).  In each case
  the entries that are left are those before but one, by a bijection of places.
* *Calm deletions.* `CalmIn` asks that the leaf does not take away a key its parent cannot spare, so
  that no inner node but the root falls below half of its keys.  Beyond it the properties are false, not
  only unproved: `deep` is the counterexample.  An inner node that borrows leaves the moved
  child with its old parent, and the rightmost one reads `INDEX_KEY_MAX` as the
  key between it and its brother.  Every deletion in a tree of two levels is calm, as all those
  of `tree` are.

Only model-checked:

* liveness (`ExitSavesEverything`, `EverySessionEnds`) and the measure `EachRoundPlaces`;
* inner nodes of an index that underflow: `deep` shows them wrong at the right end of
  their parent, and what they do elsewhere is not proved;
* `Query`, `Select` and the front end, and with them `LookupsFindRows`: their
  operators are recursive on trees, lists of clauses and rules, and what such a definition
  computes takes induction over data, which is beyond the installed provers.

## 5. Not modelled, and the plan

Not modelled:

* **The rest of the ANTLR runtime** and the generated tables.  `src/antlr_runtime` is a
  vendored library and about three quarters of the lines of the repository.  What
  decides whether a statement is accepted is modelled (rule functions, lookahead,
  prediction, recovery, the tree's accessors); the deserialiser of the automaton, the caches of
  prediction contexts and DFAs, tree patterns, XPath, listeners, streams of characters and the text
  of messages are not: this program uses them as a library does or not at all.
  `SqlGrammar` has the automaton by its rules, and prediction without its cache.
* **Operations only tests call**: `RecordFile::update_record`,
  `IndexFile::update_record`, `IndexFile::delete_record_range`.
* **An iterator that is used across a change** of its index: no caller does.
* **A crash inside a statement of `Catalog` or `Rows`**; `PageCache` has crashes between
  any two of its steps.
* **RIDs of 16 bits**, and the number of pages at which they are too few.
* Printing of tables and messages, the import and check scripts, the tests.

Done: fs with its refinement, liveness and proofs; rs with its refinement, both proved; is with its
refinement, both proved for insertions and calm deletions; the catalog with its proofs, and its open files; the coding of rows, rows with their
indexes and constraints, and their proofs; queries; the front end from the
input to the calls, with liveness.

Next, in this order:

1. `Catalog` with statements split at their writes and a crash between any two:
   a catalog that names a file that is not there (`ManageSystem.cpp:311`).
2. Proofs about inner nodes of `IndexFile` that merge with a right brother; of the type
   invariant and `ChunkIsOneStatement` of `Console`.
3. `RecordFile` with `update_record`; RIDs that wrap.
4. `Rows` with tables that refer to themselves, and clauses other than equalities
   in DELETE and UPDATE.
