SPECIFICATION Spec
CONSTANTS
  a = a
  x = x
  db1 = db1
  t1 = t1
  t2 = t2
  DbNames <- OneDb
  TableNames <- TwoTables
  Schemas <- OneSchema
  IntColumns <- IntA
  PrimaryKeys <- KeyOrBad
  Uniques <- UniqueA
  ForeignKeys <- ToT1
  MAX_DB_COUNT = 3
  MAX_TABLE_COUNT = 3
  MAX_COLUMN_COUNT = 2
  MAX_UNIQUE_CONSTRAINT_COUNT = 1
  MAX_FOREIGN_FIELD_COUNT = 1
  MaxTables = 2
  MaxId = 2
  NoName = NoName
INVARIANTS
  TypeOK
  TablesApart
  FilesBehindCatalog
  ForeignKeysResolve
  CatalogSaved
