--------------------------- MODULE ModelGenerator ---------------------------
(***************************************************************************)
(* ModelGenerator (src/model_manager/generator.rs) over the adapter of a   *)
(* database type d, and the scripts it makes.                              *)
(***************************************************************************)
EXTENDS SchemaAdapters

DbTypes == {"sqlite", "mysql", "postgres"}

\* get_db_adapter_internal: one of three, by the database type.
By(d, sqlite, mysql, postgres) ==
    CASE d = "sqlite" -> sqlite [] d = "mysql" -> mysql [] d = "postgres" -> postgres

EnumsSql(d, m) == By(d, SqliteEnums(m), MySqlEnums(m), PostgresEnums(m))
CreateTableSql(d, m) == By(d, SqliteCreateTable(m), MySqlCreateTable(m), PostgresCreateTable(m))
IndexSql(d, x, table) == By(d, SqliteIndex(x, table), MySqlIndex(x, table), PostgresIndex(x, table))
DropTableSql(d, table) == By(d, SqliteDropTable(table), MySqlDropTable(table), PostgresDropTable(table))
AddColumnSql(d, table, c) ==
    By(d, SqliteAddColumn(table, c), MySqlAddColumn(table, c), PostgresAddColumn(table, c))
DropColumnSql(d, table, name) ==
    By(d, SqliteDropColumn(table, name), MySqlDropColumn(table, name), PostgresDropColumn(table, name))
ConstraintOf(d, c, table) ==
    By(d, SqliteConstraint(c, table), MySqlConstraint(c, table), PostgresConstraint(c, table))
DropConstraintSql(d, table, name) ==
    By(d, SqliteDropConstraint(table, name), MySqlDropConstraint(table, name),
       PostgresDropConstraint(table, name))
DropIndexSql(d, table, name) ==
    By(d, SqliteDropIndex(table, name), MySqlDropIndex(table, name), PostgresDropIndex(table, name))

CreateScript(d, m) ==
    AllOf(<<CreateTableSql(d, m)>> \o [i \in DOMAIN m.indexes |-> IndexSql(d, m.indexes[i], m.name)])

DropScript(d, table) == DropTableSql(d, table)

\* f of those of s that satisfy P.
Each(s, P(_), f(_)) == [i \in DOMAIN s |-> IF P(s[i]) THEN f(s[i]) ELSE None]

\* Columns are compared by name, constraints and indexes as a whole.  A
\* constraint is added by its clause alone.
MigrationScript(d, from, to) ==
    AllOf(  Each(to.cols, LAMBDA c : c.name \notin ColumnNames(from),
                 LAMBDA c : AddColumnSql(d, TableOf(to), c))
         \o Each(from.cols, LAMBDA c : c.name \notin ColumnNames(to),
                 LAMBDA c : DropColumnSql(d, TableOf(from), c.name))
         \o Each(to.constraints, LAMBDA c : ~Contains(from.constraints, c),
                 LAMBDA c : ConstraintOf(d, c, to.name))
         \o Each(from.constraints,
                 LAMBDA c : ~Contains(to.constraints, c) /\ c.kind \in TableLevel,
                 LAMBDA c : DropConstraintSql(d, TableOf(from), <<from.name, c.name>>))
         \o Each(to.indexes, LAMBDA x : ~Contains(from.indexes, x),
                 LAMBDA x : IndexSql(d, x, to.name))
         \o Each(from.indexes, LAMBDA x : ~Contains(to.indexes, x),
                 LAMBDA x : DropIndexSql(d, TableOf(from), IndexName(x, from.name))))

-----------------------------------------------------------------------------
(* split_script cuts at every semicolon, also at one inside a literal: the *)
(* database takes none of the pieces, so that the first stands for all.    *)

Semicolon(st) ==
    \/ st.k = "add_column" /\ st.def.default = "semicolon"
    \/ st.k = "create_table" /\ \E i \in DOMAIN st.parts :
            st.parts[i].k = "column" /\ st.parts[i].default = "semicolon"
FirstPiece(st) == IF Semicolon(st) THEN [k |-> "fragment"] ELSE st
Split(script) == [i \in DOMAIN script.of |-> FirstPiece(script.of[i])]
=============================================================================
