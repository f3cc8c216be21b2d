---------------------------- MODULE SchemaModels ----------------------------
(***************************************************************************)
(* Model descriptors (src/model_manager/definitions.rs) and the statements *)
(* that adapters generate from them.  A statement is a record of what it   *)
(* does; Err stands for a generation that returns an error.                *)
(***************************************************************************)
EXTENDS Naturals, Sequences, SequencesExt

NoSchema == "none"
NoName == "none"
Err == [k |-> "err"]
None == [k |-> "none"]

\* DataType: the cases that adapters or databases tell apart.
DataTypes == {"integer", "bigint", "text", "enum"}
\* A default value may have a semicolon in it.
Defaults == {"none", "plain", "semicolon"}

Columns == [name : STRING, type : DataTypes, nullable : BOOLEAN, pk : BOOLEAN,
            unique : BOOLEAN, default : Defaults, auto : BOOLEAN,
            check : BOOLEAN, references : BOOLEAN]

\* Constraint; NotNull, DefaultValue and AutoIncrement are of columns only.
TableLevel == {"primary_key", "unique", "check", "foreign_key"}
Constraints == [kind : TableLevel \union {"column"}, name : STRING, cols : SUBSET STRING,
                ref : STRING]

IndexTypes == {"btree", "hash", "gin", "gist", "spatial"}
Indexes == [name : STRING, cols : SUBSET STRING, unique : BOOLEAN, type : IndexTypes,
            partial : BOOLEAN]

Descriptors == [name : STRING, schema : STRING, cols : Seq(Columns), pk : SUBSET STRING,
                constraints : Seq(Constraints), indexes : Seq(Indexes)]

\* A descriptor with nothing in it, as sync_schema compares with.
Empty(m) == [m EXCEPT !.cols = <<>>, !.pk = {}, !.constraints = <<>>, !.indexes = <<>>]

TableOf(m) == <<m.schema, m.name>>
ColumnNames(m) == {m.cols[i].name : i \in DOMAIN m.cols}
\* The name an index gets if it has none is made of its table and columns.
IndexName(x, table) == IF x.name # NoName THEN <<x.name, {}>> ELSE <<table, x.cols>>

\* A clause of a column definition, where it is wanted.
Clause(h, wanted) == IF wanted THEN {h} ELSE {}

\* What is put together in a script, or in a CREATE TABLE: in the order given,
\* each part in its place, or Err.
AllOf(parts) == IF \E i \in DOMAIN parts : parts[i] = Err THEN Err
                ELSE [k |-> "parts", of |-> RestrictValues(parts, LAMBDA p : p # None)]

ConstraintSql(c, table, unnamed) ==
    IF c.kind \notin TableLevel THEN None
    ELSE [k |-> "constraint", kind |-> c.kind, cols |-> c.cols, ref |-> c.ref,
          name |-> <<table, IF c.name = NoName THEN unnamed[c.kind] ELSE c.name>>]
Unnamed == [primary_key |-> "pk", unique |-> "unique", check |-> "check", foreign_key |-> "fk"]
PrimaryKey(cols, name) == [k |-> "constraint", kind |-> "primary_key", cols |-> cols,
                           ref |-> NoName, name |-> name]
CreateTable(table, parts) == IF parts = Err THEN Err
                             ELSE [k |-> "create_table", table |-> table, parts |-> parts.of]
AddColumn(table, def) == IF def = Err THEN Err ELSE [k |-> "add_column", table |-> table, def |-> def]
CreateIndex(x, table) ==
    [k |-> "create_index", name |-> IndexName(x, table), table |-> <<NoSchema, table>>,
     cols |-> x.cols, unique |-> x.unique, partial |-> x.partial]
=============================================================================
