---------------------------- MODULE SchemaAdapters ----------------------------
(***************************************************************************)
(* What the three adapters of the model manager make of a model            *)
(* (src/model_manager/adapters).                                           *)
(***************************************************************************)
EXTENDS SchemaModels

-----------------------------------------------------------------------------
(* SqliteAdapter (sqlite_adapter.rs).                                      *)

SqliteType(c) == IF c.type \in {"integer", "bigint"} THEN "integer" ELSE "text"

SqliteColumn(c) ==
    IF c.pk /\ c.auto /\ c.type \notin {"integer", "bigint"} THEN Err
    ELSE [k |-> "column", name |-> c.name, type |-> SqliteType(c), default |-> c.default,
          has |-> Clause("pk", c.pk) \union Clause("auto", c.pk /\ c.auto)
                  \union Clause("not_null", ~c.nullable) \union Clause("unique", c.unique)
                  \union Clause("check", c.check)]

SqliteConstraint(c, table) == ConstraintSql(c, table, Unnamed)
\* Without a name if none is given.
SqlitePrimaryKey(cols, table) == PrimaryKey(cols, <<table, NoName>>)

SqliteIndex(x, table) == IF x.type # "btree" THEN Err ELSE CreateIndex(x, table)

\* The schema is a prefix of the name.
SqliteCreateTable(m) ==
    LET columns == [i \in DOMAIN m.cols |-> SqliteColumn(m.cols[i])]
        key == IF m.pk = {} THEN <<>> ELSE <<SqlitePrimaryKey(m.pk, TableOf(m))>>
        others == [i \in DOMAIN m.constraints |-> SqliteConstraint(m.constraints[i], TableOf(m))] IN
    CreateTable(TableOf(m), AllOf(columns \o key \o others))

SqliteDropTable(table) == [k |-> "drop_table", table |-> table, ifExists |-> TRUE]

\* Columns that SQLite cannot add, whether the table has them or not.
SqliteAddColumn(table, c) ==
    IF c.pk \/ c.unique \/ c.references \/ (~c.nullable /\ c.default = "none") THEN Err
    ELSE AddColumn(table, SqliteColumn(c))

SqliteDropColumn(table, name) == Err
SqliteDropConstraint(table, name) == Err
SqliteDropIndex(table, name) == [k |-> "drop_index", table |-> table, name |-> name]
SqliteEnums(m) == <<>>

-----------------------------------------------------------------------------
(* MySqlAdapter (mysql_adapter.rs).                                        *)

\* An enumeration is written out in the column.
MySqlType(c) == c.type

MySqlColumn(c) ==
    [k |-> "column", name |-> c.name, type |-> MySqlType(c), default |-> c.default,
     has |-> Clause("pk", c.pk) \union Clause("auto", c.auto)
             \union Clause("not_null", ~c.nullable) \union Clause("unique", c.unique /\ ~c.pk)]

MySqlConstraint(c, table) == ConstraintSql(c, table, Unnamed)
MySqlPrimaryKey(cols, table) == PrimaryKey(cols, <<table, "pk">>)

MySqlIndex(x, table) ==
    IF x.type \notin {"btree", "hash"} \/ x.partial THEN Err ELSE CreateIndex(x, table)

\* Without a key of the model, the columns that are marked make one, although
\* their definitions have it already.
MySqlKey(m) == IF m.pk # {} THEN m.pk
               ELSE {m.cols[i].name : i \in {j \in DOMAIN m.cols : m.cols[j].pk}}
MySqlCreateTable(m) ==
    LET columns == [i \in DOMAIN m.cols |-> MySqlColumn(m.cols[i])]
        key == IF MySqlKey(m) = {} THEN <<>> ELSE <<MySqlPrimaryKey(MySqlKey(m), m.name)>>
        others == [i \in DOMAIN m.constraints |-> MySqlConstraint(m.constraints[i], m.name)] IN
    CreateTable(TableOf(m), AllOf(columns \o key \o others))

MySqlDropTable(table) == [k |-> "drop_table", table |-> table, ifExists |-> TRUE]
MySqlAddColumn(table, c) == AddColumn(table, MySqlColumn(c))
MySqlDropColumn(table, name) == [k |-> "drop_column", table |-> table, name |-> name]
MySqlDropConstraint(table, name) == [k |-> "drop_constraint", table |-> table, name |-> name]
MySqlDropIndex(table, name) == [k |-> "drop_index", table |-> table, name |-> name]
MySqlEnums(m) == <<>>

-----------------------------------------------------------------------------
(* PostgresAdapter (postgres_adapter.rs).                                  *)

\* An enumeration is a type of its own, called by its bare name.
PostgresType(c) == c.type

\* That a column is the primary key is not written.
PostgresColumn(c) ==
    IF c.auto /\ c.type # "integer" THEN Err
    ELSE [k |-> "column", name |-> c.name, default |-> c.default,
          type |-> IF c.auto THEN "serial" ELSE PostgresType(c),
          has |-> Clause("not_null", ~c.nullable) \union Clause("unique", c.unique /\ ~c.pk)
                  \union Clause("check", c.check)]

PostgresConstraint(c, table) == ConstraintSql(c, table, Unnamed)
PostgresPrimaryKey(cols, table) == PrimaryKey(cols, <<table, "pk">>)

PostgresIndex(x, table) == IF x.type = "spatial" THEN Err ELSE CreateIndex(x, table)

PostgresCreateTable(m) ==
    LET columns == [i \in DOMAIN m.cols |-> PostgresColumn(m.cols[i])]
        key == IF m.pk = {} THEN <<>> ELSE <<PostgresPrimaryKey(m.pk, m.name)>>
        others == [i \in DOMAIN m.constraints |-> PostgresConstraint(m.constraints[i], m.name)] IN
    CreateTable(TableOf(m), AllOf(columns \o key \o others))

PostgresDropTable(table) == [k |-> "drop_table", table |-> table, ifExists |-> FALSE]
PostgresAddColumn(table, c) == AddColumn(table, PostgresColumn(c))
PostgresDropColumn(table, name) == [k |-> "drop_column", table |-> table, name |-> name]
PostgresDropConstraint(table, name) == [k |-> "drop_constraint", table |-> table, name |-> name]
PostgresDropIndex(table, name) == [k |-> "drop_index", table |-> table, name |-> name]

\* One CREATE TYPE, of an identifier that has the schema in it: all columns of
\* this abstraction are of the same enumeration.
PostgresEnums(m) ==
    IF \E i \in DOMAIN m.cols : m.cols[i].type = "enum"
    THEN <<[k |-> "create_type", name |-> <<m.schema, "enum">>]>> ELSE <<>>
=============================================================================
