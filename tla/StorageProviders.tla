--------------------------- MODULE StorageProviders ---------------------------
(***************************************************************************)
(* The two storage providers (core/storage/providers): one table, kept by    *)
(* MemoryStorageProvider in a Map or by SQLiteStorageProvider in a file.  A  *)
(* deployment uses one of them, and every service is written as if it did    *)
(* not matter which: here both are given the same calls, and their answers   *)
(* are compared.  They read a query differently: the memory provider         *)
(* compares JavaScript values, SQLite binds parameters and compares in       *)
(* three-valued logic, where nothing compares with NULL.                     *)
(*                                                                           *)
(* A row is known by its name, which the tables declare unique; the services *)
(* look a name up before they create it.  A name is the sequence of its      *)
(* segments; what SQLite's LIKE makes of "_" and of letter case is in        *)
(* AddressGroups.                                                            *)
(*                                                                           *)
(* The second half of the module is what the releases of the program do to   *)
(* the columns of one table of the SQLite provider.                          *)
(***************************************************************************)
EXTENDS StorageCache, OperationsStore, Sequences, SequencesExt

CONSTANTS
  RowNames,     (* the names rows may have, in the order they sort           *)
  ListPrefixes, (* what the services list by: `${prefix}%`                   *)
  States,       (* the values of a column that is never null                 *)
  Times         (* the values a nullable column may have                     *)

Names == ToSet(RowNames)
TableRows == [name : Names, state : States, due : Times \cup {NoRow}]

(* The text occurs in the name.                                              *)
Includes(name, text) ==
  \E i \in 0..Len(name) : IsPrefix(text, SubSeq(name, i + 1, Len(name)))

(* A prefix that occurs in a name begins it: names begin with their project. *)
ASSUME ProvidersAssumption ==
  /\ IsInjective(RowNames) /\ States \subseteq Nat /\ Times \subseteq Nat
  /\ \A n \in Names, p \in ListPrefixes : Includes(n, p) => IsPrefix(p, n)

VARIABLES
  memoryTable,   (* MemoryTable.records, in the order of the Map              *)
  sqliteTable    (* the rows of the table, by rowid                           *)

providerVars == <<memoryTable, sqliteTable>>

ProvidersInit == memoryTable = <<>> /\ sqliteTable = <<>>

(* QueryCondition, QueryFilter, and the QueryOptions the services use: a     *)
(* filter, the direction of a sort by name, and a page.                      *)
Condition(field, operator, value) == [field |-> field, operator |-> operator, value |-> value]
AllOf(conditions) == [conditions |-> conditions, operator |-> "and"]
AnyOf(conditions) == [conditions |-> conditions, operator |-> "or"]

-----------------------------------------------------------------------------
(* MemoryStorageProvider                                                     *)

(* compareValues(): null is less than every value.                           *)
CompareValues(a, b) ==
  CASE a = NoRow /\ b = NoRow -> 0
    [] a = NoRow /\ b # NoRow -> -1
    [] a # NoRow /\ b = NoRow -> 1
    [] OTHER -> a - b

MatchesCondition(row, c) ==
  LET value == row[c.field] IN
  CASE c.operator = "eq" -> value = c.value
    [] c.operator = "ne" -> value # c.value
    [] c.operator = "gt" -> CompareValues(value, c.value) > 0
    [] c.operator = "gte" -> CompareValues(value, c.value) >= 0
    [] c.operator = "lt" -> CompareValues(value, c.value) < 0
    [] c.operator = "lte" -> CompareValues(value, c.value) <= 0
    [] c.operator = "in" -> value \in ToSet(c.value)
    [] c.operator = "nin" -> value \notin ToSet(c.value)
    [] c.operator = "like" -> Includes(value, c.value)

MatchesFilter(row, filter) ==
  IF filter.operator = "and"
  THEN \A i \in DOMAIN filter.conditions : MatchesCondition(row, filter.conditions[i])
  ELSE \E i \in DOMAIN filter.conditions : MatchesCondition(row, filter.conditions[i])

(* Both sorts are stable; ASC and DESC are by name.                          *)
Sorted(rows, direction) ==
  LET Rank(row) == CHOOSE i \in DOMAIN RowNames : RowNames[i] = row.name IN
  CASE direction = "none" -> rows
    [] direction = "asc" -> SortSeq(rows, LAMBDA a, b : Rank(a) < Rank(b))
    [] direction = "desc" -> SortSeq(rows, LAMBDA a, b : Rank(a) > Rank(b))

Slice(rows, from, to) == SubSeq(rows, from + 1, IF to < Len(rows) THEN to ELSE Len(rows))

(* find(): without a limit, an offset is not looked at.                      *)
MemoryFind(query) ==
  LET found == Sorted(SelectSeq(memoryTable, LAMBDA row : MatchesFilter(row, query.filter)), query.sort)
      total == Len(found)
      next == query.offset + query.limit
      more == query.limit # 0 /\ next < total
  IN [data |-> IF query.limit = 0 THEN found ELSE Slice(found, query.offset, next),
      total |-> total, hasMore |-> more, nextCursor |-> IF more THEN next ELSE NoRow]

MemoryCount(filter) == Len(SelectSeq(memoryTable, LAMBDA row : MatchesFilter(row, filter)))

MemoryFindFirst(query) ==
  LET found == MemoryFind([query EXCEPT !.limit = 1]).data IN IF found = <<>> THEN NoRow ELSE Head(found)

MemoryCreate(row) == memoryTable' = Append(memoryTable, row)

MemoryCreateMany(rows) == memoryTable' = memoryTable \o rows

(* A row keeps its place in the Map when it is set again.                    *)
MemoryUpdateById(name, changes) ==
  memoryTable' = [i \in DOMAIN memoryTable |->
                    IF memoryTable[i].name = name THEN changes @@ memoryTable[i] ELSE memoryTable[i]]

MemoryUpdateMany(filter, changes) ==
  memoryTable' = [i \in DOMAIN memoryTable |->
                    IF MatchesFilter(memoryTable[i], filter) THEN changes @@ memoryTable[i]
                    ELSE memoryTable[i]]

MemoryDeleteById(name) == memoryTable' = SelectSeq(memoryTable, LAMBDA row : row.name # name)

MemoryDeleteMany(filter) ==
  memoryTable' = SelectSeq(memoryTable, LAMBDA row : ~MatchesFilter(row, filter))

-----------------------------------------------------------------------------
(* SQLiteStorageProvider.  serializeValue() keeps strings, numbers and null. *)

(* buildCondition(): the parameters of the clause.                           *)
ParametersOf(c) ==
  CASE c.operator \in {"eq", "ne"} /\ c.value = NoRow -> <<>>
    [] c.operator \in {"in", "nin"} -> c.value
    [] OTHER -> <<c.value>>

(* buildWhereClause(): the bindings of all the clauses, in their order.      *)
WhereParameters(filter) ==
  FoldLeft(LAMBDA params, c : params \o ParametersOf(c), <<>>, filter.conditions)

(* The clause is true of a row, given its bindings: a binding that is not    *)
(* there is NULL, and so is a comparison with NULL.                          *)
Clause(row, c, bound) ==
  LET value == row[c.field]
      Compares(Op(_, _)) == /\ value # NoRow /\ bound # <<>> /\ bound[1] # NoRow
                            /\ Op(value, bound[1])
  IN CASE c.operator = "eq" /\ c.value = NoRow -> value = NoRow
       [] c.operator = "ne" /\ c.value = NoRow -> value # NoRow
       [] c.operator = "eq" /\ c.value # NoRow -> Compares(=)
       [] c.operator = "ne" /\ c.value # NoRow -> Compares(#)
       [] c.operator = "gt" -> Compares(>)
       [] c.operator = "gte" -> Compares(>=)
       [] c.operator = "lt" -> Compares(<)
       [] c.operator = "lte" -> Compares(<=)
       [] c.operator = "in" -> value # NoRow /\ value \in ToSet(bound)
       [] c.operator = "nin" -> value # NoRow /\ value \notin ToSet(bound) /\ NoRow \notin ToSet(bound)
       [] c.operator = "like" -> Compares(LAMBDA name, prefix : IsPrefix(prefix, name))

Where(row, filter, params) ==
  LET From(i) == Len(WhereParameters(AllOf(SubSeq(filter.conditions, 1, i - 1))))
      To(i) == Len(WhereParameters(AllOf(SubSeq(filter.conditions, 1, i))))
      True(i) == Clause(row, filter.conditions[i], Slice(params, From(i), To(i)))
  IN IF filter.operator = "and" THEN \A i \in DOMAIN filter.conditions : True(i)
                                ELSE \E i \in DOMAIN filter.conditions : True(i)

(* buildQuery(): LIMIT and OFFSET follow the bindings of the filter, and an  *)
(* offset of zero is no OFFSET.                                              *)
PageParameters(query) ==
  IF query.limit = 0 THEN <<>>
  ELSE IF query.offset = 0 THEN <<query.limit>> ELSE <<query.limit, query.offset>>

Paged(found, page) ==
  CASE Len(page) = 0 -> found
    [] Len(page) = 1 -> Slice(found, 0, page[1])
    [] Len(page) = 2 -> Slice(found, page[2], page[2] + page[1])

(* The bindings of the count: all but those of the page.                     *)
CountParameters(query) ==
  LET params == WhereParameters(query.filter) \o PageParameters(query) IN
  SubSeq(params, 1, Len(params) - Len(PageParameters(query)))

SelectWhere(filter, params) == SelectSeq(sqliteTable, LAMBDA row : Where(row, filter, params))

(* find(): the rows, and a second query that counts all of them.             *)
SqliteFind(query) ==
  LET found == Sorted(SelectWhere(query.filter, WhereParameters(query.filter)), query.sort)
      data == Paged(found, PageParameters(query))
      total == Len(SelectWhere(query.filter, CountParameters(query)))
      limit == IF query.limit = 0 THEN Len(data) ELSE query.limit
      more == query.offset + Len(data) < total
  IN [data |-> data, total |-> total, hasMore |-> more,
      nextCursor |-> IF more THEN query.offset + limit ELSE NoRow]

SqliteCount(filter) == Len(SelectWhere(filter, WhereParameters(filter)))

SqliteFindFirst(query) ==
  LET found == SqliteFind([query EXCEPT !.limit = 1]).data IN IF found = <<>> THEN NoRow ELSE Head(found)

(* A new row has the highest rowid.                                          *)
SqliteCreate(row) == sqliteTable' = Append(sqliteTable, row)

(* The inserts are one transaction.                                          *)
SqliteCreateMany(rows) == sqliteTable' = sqliteTable \o rows

SqliteUpdateById(name, changes) ==
  sqliteTable' = [i \in DOMAIN sqliteTable |->
                    IF sqliteTable[i].name = name THEN changes @@ sqliteTable[i] ELSE sqliteTable[i]]

SqliteUpdateMany(filter, changes) ==
  sqliteTable' = [i \in DOMAIN sqliteTable |->
                    IF Where(sqliteTable[i], filter, WhereParameters(filter))
                    THEN changes @@ sqliteTable[i] ELSE sqliteTable[i]]

SqliteDeleteById(name) == sqliteTable' = SelectSeq(sqliteTable, LAMBDA row : row.name # name)

SqliteDeleteMany(filter) ==
  sqliteTable' = SelectSeq(sqliteTable, LAMBDA row : ~Where(row, filter, WhereParameters(filter)))

-----------------------------------------------------------------------------
(* The calls, in the forms the services make them.                           *)

NameIs(n) == AllOf(<<Condition("name", "eq", n)>>)
Changes == [state : States] \cup [due : Times \cup {NoRow}]

(* What the services filter by: a name or a prefix of names; a column that   *)
(* is never null by any operator; a nullable one for null, or compared with  *)
(* null ruled out beside it (cleanupExpiredTombstones() of Cloud Tasks).     *)
OnPresent == {Condition("state", o, s) : o \in {"eq", "ne", "gt", "gte", "lt", "lte"}, s \in States}
             \cup {Condition("state", o, v) : o \in {"in", "nin"}, v \in {<<s>> : s \in States}}
OnNullable == {Condition("due", o, t) : o \in {"eq", "ne", "gt", "gte", "lt", "lte"}, t \in Times}
NotNull == Condition("due", "ne", NoRow)
ServiceFilters ==
  {NameIs(n) : n \in Names}
  \cup {AllOf(<<Condition("name", "like", p)>>) : p \in ListPrefixes}
  \cup {AllOf(<<c>>) : c \in OnPresent \cup {Condition("due", "eq", NoRow), NotNull}}
  \cup {AllOf(<<c, NotNull>>) : c \in OnNullable}
  \cup {AllOf(<<NotNull, Condition("name", "like", p), c>>) : c \in OnNullable, p \in ListPrefixes}
  \cup {AnyOf(<<Condition("name", "eq", n), Condition("state", "lt", s)>>) : n \in Names, s \in States}

(* A page of zero is no page: what is found is asked for whole.              *)
ServiceQueries ==
  {q \in [filter : ServiceFilters, sort : {"none", "asc", "desc"}, limit : 0..1, offset : 0..1] :
     /\ q.limit = 0 => q.offset = 0
     /\ q.limit > 0 => q.sort # "none" \/ q.offset = 0}

FirstNamed(n) == [filter |-> NameIs(n), sort |-> "none", limit |-> 0, offset |-> 0]

(* create(), after the service found no row of that name                     *)
CreateRow(row) ==
  MemoryFindFirst(FirstNamed(row.name)) = NoRow /\ MemoryCreate(row) /\ SqliteCreate(row)

CreateRows(rows) ==
  /\ \A i \in DOMAIN rows : MemoryFindFirst(FirstNamed(rows[i].name)) = NoRow
  /\ MemoryCreateMany(rows) /\ SqliteCreateMany(rows)

(* The id is that of a row the service found by its name.                    *)
UpdateRow(name, changes) == MemoryUpdateById(name, changes) /\ SqliteUpdateById(name, changes)

UpdateRows(filter, changes) ==
  MemoryUpdateMany(filter, changes) /\ SqliteUpdateMany(filter, changes)

DeleteRow(name) == MemoryDeleteById(name) /\ SqliteDeleteById(name)

DeleteRows(filter) == MemoryDeleteMany(filter) /\ SqliteDeleteMany(filter)

ProvidersNext ==
  \/ \E row \in TableRows : CreateRow(row)
  \/ \E a, b \in Names, row \in TableRows : a # b /\ CreateRows(<<[row EXCEPT !.name = a], [row EXCEPT !.name = b]>>)
  \/ \E n \in Names, c \in Changes : UpdateRow(n, c)
  \/ \E f \in ServiceFilters, c \in Changes : UpdateRows(f, c)
  \/ \E n \in Names : DeleteRow(n)
  \/ \E f \in ServiceFilters : DeleteRows(f)

ProvidersSpec == ProvidersInit /\ [][ProvidersNext]_providerVars

-----------------------------------------------------------------------------
ProvidersTypeOK == memoryTable \in Seq(TableRows) /\ sqliteTable \in Seq(TableRows)

(* After the same calls the two providers hold the same rows, and give the   *)
(* same answer, page, total and cursor included, to every query a service    *)
(* makes: a service tested over one of them behaves so over the other.       *)
ProvidersAgree ==
  /\ memoryTable = sqliteTable
  /\ \A f \in ServiceFilters : MemoryCount(f) = SqliteCount(f)
  /\ \A n \in Names : MemoryFindFirst(FirstNamed(n)) = SqliteFindFirst(FirstNamed(n))
  /\ \A q \in ServiceQueries : MemoryFind(q) = SqliteFind(q)

ProvidersInvariant == ProvidersTypeOK /\ ProvidersAgree

-----------------------------------------------------------------------------
(***************************************************************************)
(* One table of the SQLite provider on a database file that outlives the     *)
(* process, as releases of the program declare it: createTable() at every    *)
(* start, with the schema synchronization of ADR-010, one statement per step.*)
(* createTable() runs without an await and in no transaction, so nothing but *)
(* the end of the process comes between two statements, and each is there to *)
(* stay.                                                                     *)
(***************************************************************************)
CONSTANTS
  Columns,
  Schemas,      (* what each release declares, in their order                *)
  RowIds

Required == "required"
Nullable == "nullable"
Schema == UNION {[cs -> {Required, Nullable}] : cs \in SUBSET Columns}

(* A table: its columns, and the columns in which each row has a value.      *)
SqlTables == [columns : Schema, rows : UNION {[ids -> SUBSET Columns] : ids \in SUBSET RowIds}]

ASSUME SqliteAssumption ==
  Schemas \in Seq(Schema) /\ Schemas # <<>> /\ NoRow \notin SqlTables

VARIABLES
  table,       (* the table, NoRow before it is created                      *)
  copyTable,   (* <table>_migration_tmp                                      *)
  release,     (* the release that runs, or ran last                         *)
  statement,   (* the statement createTable() is about to run; "serving"     *)
               (* after it, "failed" when it threw, "down" without a process *)
  adding,      (* columns syncTableSchema() has still to add                 *)
  written,     (* history: the values a client stored, by row                *)
  swapCut      (* history: a process ended between the DROP and the RENAME   *)

sqlFile == <<table, copyTable>>
sqliteVars == <<sqlFile, release, statement, adding, written, swapCut>>

SqliteInit ==
  /\ table = NoRow /\ copyTable = NoRow
  /\ release = 1 /\ statement = "down" /\ adding = {}
  /\ written = [r \in {} |-> {}] /\ swapCut = FALSE

Declared == DOMAIN Schemas[release]
Has(tbl, c) == c \in DOMAIN tbl.columns
NoRows == [r \in {} |-> {}]
Goes(next) == statement' = next /\ UNCHANGED <<release, written, swapCut>>

-----------------------------------------------------------------------------
(* initialize(): the release that ran before, or a later one.                *)
SqliteStarts(r) ==
  /\ statement = "down" /\ r >= release
  /\ release' = r /\ statement' = "create"
  /\ UNCHANGED <<sqlFile, adding, written, swapCut>>

(* CREATE TABLE IF NOT EXISTS; syncTableSchema() then looks at its columns.  *)
CreateSqlTable ==
  /\ statement = "create"
  /\ LET t == IF table = NoRow THEN [columns |-> Schemas[release], rows |-> NoRows] ELSE table
     IN  table' = t /\ adding' = {c \in Declared : ~Has(t, c)}
  /\ Goes("add") /\ UNCHANGED copyTable

(* ALTER TABLE ADD COLUMN, which SQLite refuses for a NOT NULL column without*)
(* a default: createTable() throws.                                          *)
AddColumn(c) ==
  /\ statement = "add" /\ c \in adding
  /\ adding' = adding \ {c}
  /\ \/ /\ Schemas[release][c] = Nullable
        /\ table' = [table EXCEPT !.columns = [d \in DOMAIN @ \cup {c} |->
                                                 IF d = c THEN Nullable ELSE @[d]]]
        /\ Goes("add")
     \/ Schemas[release][c] = Required /\ UNCHANGED table /\ Goes("failed")
  /\ UNCHANGED copyTable

(* A declared column must become nullable.                                   *)
NeedsRebuild ==
  \E c \in Declared : Schemas[release][c] = Nullable /\ table.columns[c] = Required

SchemaSynced ==
  /\ statement = "add" /\ adding = {}
  /\ Goes(IF NeedsRebuild THEN "dropCopy" ELSE "serving")
  /\ UNCHANGED <<sqlFile, adding>>

DropCopy ==
  /\ statement = "dropCopy"
  /\ copyTable' = NoRow
  /\ Goes("createCopy") /\ UNCHANGED <<table, adding>>

(* The columns the schema declares, and no others.                           *)
CreateCopy ==
  /\ statement = "createCopy"
  /\ copyTable' = [columns |-> Schemas[release], rows |-> NoRows]
  /\ Goes("copy") /\ UNCHANGED <<table, adding>>

(* INSERT ... SELECT of the columns both tables have.                        *)
Copied == [r \in DOMAIN table.rows |-> table.rows[r] \cap Declared]

(* A NULL in a column that is now required makes it fail.                    *)
CopyRows ==
  /\ statement = "copy"
  /\ IF \A r \in DOMAIN table.rows : \A c \in Declared :
          Schemas[release][c] = Required => c \in table.rows[r]
     THEN copyTable' = [copyTable EXCEPT !.rows = Copied] /\ Goes("drop")
     ELSE UNCHANGED copyTable /\ Goes("failed")
  /\ UNCHANGED <<table, adding>>

DropOldTable ==
  /\ statement = "drop"
  /\ table' = NoRow
  /\ Goes("rename") /\ UNCHANGED <<copyTable, adding>>

RenameCopy ==
  /\ statement = "rename"
  /\ table' = copyTable /\ copyTable' = NoRow
  /\ Goes("serving") /\ UNCHANGED adding

-----------------------------------------------------------------------------
(* create(): a value in every required column.                               *)
Insert(r, cs) ==
  /\ statement = "serving" /\ r \notin DOMAIN table.rows
  /\ cs \subseteq Declared
  /\ \A c \in DOMAIN table.columns : table.columns[c] = Required => c \in cs
  /\ table' = [table EXCEPT !.rows = [s \in DOMAIN @ \cup {r} |-> IF s = r THEN cs ELSE @[s]]]
  /\ written' = [s \in DOMAIN written \cup {r} |-> IF s = r THEN cs ELSE written[s]]
  /\ UNCHANGED <<copyTable, release, statement, adding, swapCut>>

(* close(), a crash, or the exit of a program that failed to start.          *)
ProcessEnds ==
  /\ statement # "down"
  /\ statement' = "down" /\ adding' = {}
  /\ swapCut' = (swapCut \/ statement = "rename")
  /\ UNCHANGED <<sqlFile, release, written>>

SqliteNext ==
  \/ \E r \in DOMAIN Schemas : SqliteStarts(r)
  \/ CreateSqlTable
  \/ \E c \in Columns : AddColumn(c)
  \/ SchemaSynced
  \/ DropCopy \/ CreateCopy \/ CopyRows \/ DropOldTable \/ RenameCopy
  \/ \E r \in RowIds : \E cs \in SUBSET Columns : Insert(r, cs)
  \/ ProcessEnds

SqliteSpec == SqliteInit /\ [][SqliteNext]_sqliteVars

-----------------------------------------------------------------------------

SqliteTypeOK ==
  /\ table \in SqlTables \cup {NoRow} /\ copyTable \in SqlTables \cup {NoRow}
  /\ \A t \in {table, copyTable} \ {NoRow} :
       \A r \in DOMAIN t.rows : t.rows[r] \subseteq DOMAIN t.columns
  /\ release \in DOMAIN Schemas
  /\ adding \subseteq Columns
  /\ statement \in {"down", "create", "add", "dropCopy", "createCopy", "copy", "drop", "rename",
                    "serving", "failed"}

(* Whatever the table went through, a release that serves finds every column *)
(* it declares, and may leave empty those it declares nullable (ADR-010).    *)
DeclaredColumnsFit ==
  statement = "serving" =>
    \A c \in Declared : /\ Has(table, c)
                        /\ Schemas[release][c] = Nullable => table.columns[c] = Nullable

(* Rows, and their values in columns every release declares, are lost by no *)
(* start, failed start or crash during a rebuild.  The exception the code has*)
(* is a process that ends between DROP TABLE and ALTER TABLE RENAME: the next*)
(* start creates the table anew (lines 636-637).                             *)
RowsSurvive ==
  statement = "serving" /\ ~swapCut =>
    /\ DOMAIN written = DOMAIN table.rows
    /\ \A r \in DOMAIN written : \A c \in Columns :
         (\A n \in DOMAIN Schemas : c \in DOMAIN Schemas[n]) =>
           (c \in written[r] <=> c \in table.rows[r])

(* A table fits the schema it is served with, and keeps its rows.            *)
SchemaInvariant == SqliteTypeOK /\ DeclaredColumnsFit /\ RowsSurvive

(* The storage below the services: the cache of the manager shows its table, *)
(* the tables of SQLite fit their schema and keep their rows, and a client   *)
(* that lists page by page misses no row as long as none is deleted          *)
(* meanwhile, and sees none twice as long as none is made.                   *)
StorageHolds == StorageInvariant /\ SchemaInvariant /\ OperationsInvariant
=============================================================================
