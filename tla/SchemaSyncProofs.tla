-------------------------- MODULE SchemaSyncProofs --------------------------
(***************************************************************************)
(* Theorems about SchemaSync, for any tasks, databases, lists of models    *)
(* and migrations.                                                         *)
(*                                                                         *)
(* SyncOkMeansComplete rests on what is still to be executed: whatever a   *)
(* model asks for is there, or its statement is in what is left of the     *)
(* script (OnItsWay).  It needs what scripts contain (CreateFacts,         *)
(* AdditiveFacts), what a statement that is accepted does (Executed), and  *)
(* that an answer that something exists is true, unless the model names    *)
(* something twice (ExistsMeets).                                          *)
(*                                                                         *)
(* SyncErrorsHaveCause rests on the same invariant, read the other way:    *)
(* every statement that is left is made from the model (OwnScript), the    *)
(* types it needs are there or will be (EnumsLeft), and indexes come last  *)
(* (BeforeIndexes), so that a statement that is refused (StatementError)   *)
(* or a script that is not generated (CreateScriptError,                   *)
(* AdditiveScriptError) points at the model.                               *)
(***************************************************************************)
EXTENDS SchemaSync, SequenceTheorems, WellFoundedInduction, TLAPS

-----------------------------------------------------------------------------
(* What the statements of a script are.                                    *)

Kinds == {"constraint", "fragment", "create_type", "create_table", "add_column", "create_index",
          "drop_table", "drop_column", "drop_constraint", "drop_index"}
DropKinds == {"drop_table", "drop_column", "drop_constraint", "drop_index"}

\* What generate_migration_script and the others put into a script.
IsAddColumn(st, table, c) == st.k = "add_column" /\ st.table = table /\ st.def.name = c.name
IsCreateIndex(st, m, x) ==
    st.k = "create_index" /\ st.table = <<NoSchema, m.name>> /\ st.name = IndexName(x, m.name)
IsCreateTable(st, m) ==
    /\ st.k = "create_table" /\ st.table = TableOf(m)
    /\ \A i \in DOMAIN m.cols : \E j \in DOMAIN st.parts :
            st.parts[j].k = "column" /\ st.parts[j].name = m.cols[i].name

\* A script that is not empty has a first place (SequencesExt defines Min by
\* CHOOSE).
LEMMA LeastPlace ==
    ASSUME NEW S, S \subseteq Nat, S # {}
    PROVE  Min(S) \in S /\ \A x \in S : Min(S) <= x
<1> DEFINE R == {p \in Nat \X Nat : p[1] < p[2]}
<1>1. OpToRel(<, Nat) = R
  BY DEF OpToRel
<1>2. IsWellFoundedOn(R, Nat)
  BY <1>1, NatLessThanWellFounded
<1>3. \E x \in S : \A y \in S : ~(<<y, x>> \in R)
  <2> HIDE DEF R
  <2> QED
    BY <1>2, WFMin
<1>4. PICK x \in S : \A y \in S : ~(<<y, x>> \in R)
  BY <1>3
<1>5. ASSUME NEW y \in S PROVE x <= y
  <2>1. ~(<<y, x>> \in R) /\ x \in Nat /\ y \in Nat
    BY <1>4
  <2>2. ~(y < x)
    BY <2>1
  <2> QED
    BY <2>1, <2>2
<1> QED
  BY <1>5 DEF Min

Has(s, v) == \E j \in DOMAIN s : s[j] = v

\* What is in one of two sequences is in both together.
LEMMA ConcatElements ==
    ASSUME NEW U, NEW s \in Seq(U), NEW r \in Seq(U), NEW both, both = s \o r
    PROVE  /\ both \in Seq(U)
           /\ \A v : Has(s, v) \/ Has(r, v) => Has(both, v)
           /\ \A v : Has(both, v) => Has(s, v) \/ Has(r, v)
           /\ \A i \in DOMAIN s : i \in DOMAIN both /\ both[i] = s[i]
           /\ \A q \in DOMAIN both : Has(r, both[q]) \/ (q \in DOMAIN s /\ both[q] = s[q])
           /\ \A q \in DOMAIN both : q \notin DOMAIN s => \A i \in DOMAIN s : i < q
<1>1. /\ Len(s) \in Nat /\ DOMAIN s = 1..Len(s) /\ Len(r) \in Nat /\ DOMAIN r = 1..Len(r)
      /\ both \in Seq(U) /\ DOMAIN both = 1..(Len(s) + Len(r))
      /\ \A i \in 1..(Len(s) + Len(r)) : both[i] = IF i <= Len(s) THEN s[i] ELSE r[i - Len(s)]
  BY LenProperties, ConcatProperties
<1>2. ASSUME NEW v, Has(s, v) PROVE Has(both, v)
  BY <1>1, <1>2 DEF Has
<1>3. ASSUME NEW v, Has(r, v) PROVE Has(both, v)
  <2>1. PICK i \in DOMAIN r : r[i] = v
    BY <1>3 DEF Has
  <2>2. Len(s) + i \in DOMAIN both /\ both[Len(s) + i] = v
    BY <1>1, <2>1
  <2> QED
    BY <2>2 DEF Has
<1>4. ASSUME NEW q \in DOMAIN both
      PROVE  \/ q \in DOMAIN s /\ both[q] = s[q]
             \/ Has(r, both[q]) /\ \A i \in DOMAIN s : i < q
  <2>1. CASE q <= Len(s)
    BY <1>1, <2>1
  <2>2. CASE ~(q <= Len(s))
    <3>1. q - Len(s) \in DOMAIN r /\ both[q] = r[q - Len(s)]
      BY <1>1, <2>2
    <3>2. \A i \in DOMAIN s : i < q
      BY <1>1, <2>2
    <3> QED
      BY <3>1, <3>2 DEF Has
  <2> QED
    BY <2>1, <2>2
<1>5. ASSUME NEW v, Has(both, v) PROVE Has(s, v) \/ Has(r, v)
  BY <1>4, <1>5 DEF Has
<1>6. \A i \in DOMAIN s : i \in DOMAIN both /\ both[i] = s[i]
  BY <1>1
<1>7. \A q \in DOMAIN both : Has(r, both[q]) \/ (q \in DOMAIN s /\ both[q] = s[q])
  BY <1>4
<1>8. \A q \in DOMAIN both : q \notin DOMAIN s => \A i \in DOMAIN s : i < q
  BY <1>4
<1> QED
  BY <1>1, <1>2, <1>3, <1>5, <1>6, <1>7, <1>8

\* AllOf leaves out the parts that are nothing.
LEMMA AllOfFacts ==
    ASSUME NEW parts, AllOf(parts) # Err
    PROVE  /\ \A i \in DOMAIN parts : parts[i] # Err
           /\ DOMAIN AllOf(parts).of = {i \in DOMAIN parts : parts[i] # None}
           /\ \A i \in DOMAIN AllOf(parts).of : AllOf(parts).of[i] = parts[i]
BY DEF AllOf, RestrictValues, Restrict

\* AllOf is an error only if a part is.
LEMMA AllOfErrs ==
    ASSUME NEW parts, AllOf(parts) = Err
    PROVE  Has(parts, Err)
BY DEF AllOf, Has, Err

\* The definition of a column, and the clauses of a CREATE TABLE, in the
\* dialect of a type of database.
ColumnSql(d, c) == By(d, SqliteColumn(c), MySqlColumn(c), PostgresColumn(c))

\* create_column of each adapter: when it is an error, and which columns of a
\* CREATE TABLE have a key of their own.
LEMMA DefinitionFacts ==
    ASSUME NEW d \in DbTypes, NEW c, NEW def, def = ColumnSql(d, c)
    PROVE  /\ def = Err => \/ d = "sqlite" /\ c.pk /\ c.auto /\ c.type \notin {"integer", "bigint"}
                           \/ d = "postgres" /\ c.auto /\ c.type # "integer"
           /\ def # Err =>
                /\ def.k = "column" /\ def.name = c.name /\ def.default = c.default
                /\ IsKey(def) => c.pk /\ d # "postgres"
                /\ d = "postgres" /\ def.type = "enum" => c.type = "enum"
<1>1. CASE d = "sqlite"
  BY <1>1 DEF ColumnSql, By, SqliteColumn, Err, IsKey, Clause
<1>2. CASE d = "mysql"
  BY <1>2 DEF ColumnSql, By, MySqlColumn, Err, IsKey, Clause
<1>3. CASE d = "postgres"
  BY <1>3 DEF ColumnSql, By, PostgresColumn, PostgresType, Err, IsKey, Clause
<1> QED
  BY <1>1, <1>2, <1>3 DEF DbTypes

\* Columns that SQLite does not add.
NotAdded(d, c) == d = "sqlite" /\ (c.pk \/ c.unique \/ c.references \/ (~c.nullable /\ c.default = "none"))

\* add_column of each adapter is for the column it is given.
LEMMA ColumnFacts ==
    ASSUME NEW d \in DbTypes, NEW table, NEW c, NEW st, st = AddColumnSql(d, table, c)
    PROVE  /\ st = Err => NotAdded(d, c) \/ ColumnSql(d, c) = Err
           /\ st # Err =>
                /\ st.k = "add_column" /\ st.table = table /\ st.def = ColumnSql(d, c)
                /\ IsAddColumn(st, table, c) /\ ~NotAdded(d, c) /\ ColumnSql(d, c) # Err
<1>1. st = IF NotAdded(d, c) THEN Err ELSE AddColumn(table, ColumnSql(d, c))
  BY DEF AddColumnSql, ColumnSql, By, DbTypes, NotAdded, SqliteAddColumn, MySqlAddColumn, PostgresAddColumn
<1>2. ColumnSql(d, c) # Err => ColumnSql(d, c).name = c.name
  BY DefinitionFacts
<1>3. ColumnSql(d, c) # Err =>
        AddColumn(table, ColumnSql(d, c)) = [k |-> "add_column", table |-> table, def |-> ColumnSql(d, c)]
  BY DEF AddColumn
<1>4. ColumnSql(d, c) = Err => AddColumn(table, ColumnSql(d, c)) = Err
  BY DEF AddColumn
<1> QED
  BY <1>1, <1>2, <1>3, <1>4 DEF Err, IsAddColumn

\* Indexes that a dialect does not have.
NoIndex(d, x) ==
    \/ d = "sqlite" /\ x.type # "btree"
    \/ d = "mysql" /\ (x.type \notin {"btree", "hash"} \/ x.partial)
    \/ d = "postgres" /\ x.type = "spatial"

\* create_index of each adapter is for the index it is given.
LEMMA IndexFacts ==
    ASSUME NEW d \in DbTypes, NEW m, NEW x, NEW st, st = IndexSql(d, x, m.name)
    PROVE  /\ st = Err => NoIndex(d, x)
           /\ st # Err => IsCreateIndex(st, m, x) /\ st.cols = x.cols
<1>1. st = Err \/ st = CreateIndex(x, m.name)
  BY DEF IndexSql, By, DbTypes, SqliteIndex, MySqlIndex, PostgresIndex
<1>2. st = Err => NoIndex(d, x)
  BY DEF IndexSql, By, DbTypes, SqliteIndex, MySqlIndex, PostgresIndex, NoIndex, CreateIndex, Err
<1> QED
  BY <1>1, <1>2 DEF CreateIndex, IsCreateIndex

\* Statements of other kinds.
LEMMA OtherFacts ==
    ASSUME NEW d \in DbTypes, NEW table, NEW name
    PROVE  /\ DropColumnSql(d, table, name) = Err \/ DropColumnSql(d, table, name).k = "drop_column"
           /\ DropConstraintSql(d, table, name) = Err \/ DropConstraintSql(d, table, name).k = "drop_constraint"
           /\ DropIndexSql(d, table, name) = Err \/ DropIndexSql(d, table, name).k = "drop_index"
           /\ DropTableSql(d, table).k = "drop_table"
           /\ \A c : ConstraintOf(d, c, name) = None \/ ConstraintOf(d, c, name).k = "constraint"
BY DEF DropColumnSql, SqliteDropColumn, MySqlDropColumn, PostgresDropColumn,
   DropConstraintSql, SqliteDropConstraint, MySqlDropConstraint, PostgresDropConstraint,
   DropIndexSql, SqliteDropIndex, MySqlDropIndex, PostgresDropIndex,
   DropTableSql, SqliteDropTable, MySqlDropTable, PostgresDropTable,
   ConstraintOf, SqliteConstraint, MySqlConstraint, PostgresConstraint, ConstraintSql, By, DbTypes

-----------------------------------------------------------------------------
(* Scripts that are cut, and scripts of migrations.                        *)

\* A function on the places of a sequence is a sequence.
LEMMA EachSeq ==
    ASSUME NEW T, NEW s \in Seq(T), NEW g, g = [i \in DOMAIN s |-> g[i]],
           NEW U, \A i \in DOMAIN g : g[i] \in U
    PROVE  g \in Seq(U)
<1>1. Len(s) \in Nat /\ DOMAIN s = 1..Len(s)
  BY LenProperties
<1> QED
  BY <1>1, SeqDef

\* A part of a script: a statement, or nothing, or an error.
IsPart(st) == st = Err \/ st = None \/ st.k \in Kinds \ {"fragment"}

\* The script that the parts make, once it is split: every part that is not
\* left out is in its place, cut or as it is.
LEMMA SplitFacts ==
    ASSUME NEW U, NEW all \in Seq(U), AllOf(all) # Err
    PROVE  /\ DOMAIN Split(AllOf(all)) \subseteq Nat
           /\ \A p \in DOMAIN Split(AllOf(all)) : p \in DOMAIN all
           /\ \A p \in DOMAIN all : /\ all[p] # Err
                                    /\ all[p] # None => p \in DOMAIN Split(AllOf(all))
           /\ \A p \in DOMAIN Split(AllOf(all)) : all[p] \in U \ {Err, None}
           /\ \A p \in DOMAIN Split(AllOf(all)) : Split(AllOf(all))[p] = FirstPiece(all[p])
<1> DEFINE of == AllOf(all).of
           script == Split(AllOf(all))
<1>1. /\ Len(all) \in Nat /\ DOMAIN all = 1..Len(all) /\ \A i \in DOMAIN all : all[i] \in U
  BY LenProperties, ElementOfSeq
<1>2. /\ \A i \in DOMAIN all : all[i] # Err
      /\ DOMAIN of = {i \in DOMAIN all : all[i] # None}
      /\ \A i \in DOMAIN of : of[i] = all[i]
  BY AllOfFacts
<1>3. /\ DOMAIN script = DOMAIN of
      /\ \A p \in DOMAIN script : script[p] = FirstPiece(of[p])
  BY DEF Split
<1> HIDE DEF of, script
<1>4. DOMAIN script \subseteq Nat
  BY <1>1, <1>2, <1>3
<1> QED
  BY <1>1, <1>2, <1>3, <1>4 DEF script

\* A script that ends with the statements that create the indexes: each of
\* what comes before is in its place.
ComesFrom(script, U, heads, indexes) ==
    /\ DOMAIN script \subseteq Nat
    /\ \A p \in DOMAIN script : \E v \in U \ {Err, None} : script[p] = FirstPiece(v)
    /\ \A i \in DOMAIN heads : heads[i] # None =>
        /\ heads[i] # Err /\ i \in DOMAIN script /\ script[i] = FirstPiece(heads[i])
        /\ \A q \in DOMAIN script : script[q].k = "create_index" => i < q
    /\ \A v : Has(indexes, v) /\ v # None => v # Err /\ Has(script, FirstPiece(v))

\* What AllOf and split_script make of a list of parts whose last are of
\* indexes.
LEMMA ScriptFacts ==
    ASSUME NEW U, NEW heads \in Seq(U), NEW indexes \in Seq(U), NEW all, all = heads \o indexes,
           AllOf(all) # Err, NEW script, script = Split(AllOf(all)),
           \A i \in DOMAIN heads : heads[i].k # "create_index"
    PROVE  ComesFrom(script, U, heads, indexes)
<1>1. /\ all \in Seq(U)
      /\ \A v : Has(heads, v) \/ Has(indexes, v) => Has(all, v)
  BY ConcatElements
<1>2. /\ \A i \in DOMAIN heads : i \in DOMAIN all /\ all[i] = heads[i]
      /\ \A q \in DOMAIN all : q \notin DOMAIN heads => \A i \in DOMAIN heads : i < q
  BY ConcatElements
<1>3. /\ DOMAIN script \subseteq Nat
      /\ \A p \in DOMAIN script : p \in DOMAIN all
      /\ \A p \in DOMAIN all : all[p] # Err /\ (all[p] # None => p \in DOMAIN script)
      /\ \A p \in DOMAIN script : all[p] \in U \ {Err, None}
  BY <1>1, SplitFacts
<1>4. \A p \in DOMAIN script : script[p] = FirstPiece(all[p])
  BY <1>1, SplitFacts, Zenon
<1>5. ASSUME NEW i \in DOMAIN heads, heads[i] # None
      PROVE  /\ heads[i] # Err /\ i \in DOMAIN script /\ script[i] = FirstPiece(heads[i])
             /\ \A q \in DOMAIN script : script[q].k = "create_index" => i < q
  <2>1. heads[i] # Err /\ i \in DOMAIN script /\ script[i] = FirstPiece(heads[i])
    BY <1>2, <1>1, <1>3, <1>4, <1>5
  <2>2. ASSUME NEW q \in DOMAIN script, script[q].k = "create_index" PROVE q \notin DOMAIN heads
    <3> SUFFICES ASSUME q \in DOMAIN heads PROVE FALSE
      OBVIOUS
    <3>1. all[q] = heads[q] /\ script[q] = FirstPiece(all[q])
      BY <1>2, <1>3, <1>4
    <3>2. all[q].k # "create_index"
      BY <3>1
    <3> QED
      BY <2>2, <3>1, <3>2 DEF FirstPiece
  <2> QED
    BY <1>2, <1>1, <1>3, <2>1, <2>2
<1>6. ASSUME NEW v, Has(indexes, v), v # None PROVE v # Err /\ Has(script, FirstPiece(v))
  <2>1. PICK p \in DOMAIN all : all[p] = v
    BY <1>1, <1>6 DEF Has
  <2>2. v # Err /\ p \in DOMAIN script /\ script[p] = FirstPiece(v)
    BY <1>1, <1>3, <1>4, <1>6, <2>1
  <2> QED
    BY <2>2 DEF Has
<1>7. \A p \in DOMAIN script : \E v \in U \ {Err, None} : script[p] = FirstPiece(v)
  BY <1>3, <1>4
<1> QED
  BY <1>3, <1>5, <1>6, <1>7 DEF ComesFrom

\* A script of a migration has what each of its six parts has.
LEMMA MigrationFacts ==
    ASSUME NEW d \in DbTypes, NEW from \in Descriptors, NEW to \in Descriptors,
           MigrationScript(d, from, to) # Err,
           NEW script, script = Split(MigrationScript(d, from, to))
    PROVE  DOMAIN script \subseteq Nat /\ \A p \in DOMAIN script : script[p].k \in Kinds
<1> DEFINE s1 == Each(to.cols, LAMBDA c : c.name \notin ColumnNames(from),
                      LAMBDA c : AddColumnSql(d, TableOf(to), c))
           s2 == Each(from.cols, LAMBDA c : c.name \notin ColumnNames(to),
                      LAMBDA c : DropColumnSql(d, TableOf(from), c.name))
           s3 == Each(to.constraints, LAMBDA c : ~Contains(from.constraints, c),
                      LAMBDA c : ConstraintOf(d, c, to.name))
           s4 == Each(from.constraints,
                      LAMBDA c : ~Contains(to.constraints, c) /\ c.kind \in TableLevel,
                      LAMBDA c : DropConstraintSql(d, TableOf(from), <<from.name, c.name>>))
           s5 == Each(to.indexes, LAMBDA x : ~Contains(from.indexes, x),
                      LAMBDA x : IndexSql(d, x, to.name))
           s6 == Each(from.indexes, LAMBDA x : ~Contains(to.indexes, x),
                      LAMBDA x : DropIndexSql(d, TableOf(from), IndexName(x, from.name)))
           all == s1 \o s2 \o s3 \o s4 \o s5 \o s6
           parts == {st \in {s1[i] : i \in DOMAIN s1} \union {s2[i] : i \in DOMAIN s2}
                            \union {s3[i] : i \in DOMAIN s3} \union {s4[i] : i \in DOMAIN s4}
                            \union {s5[i] : i \in DOMAIN s5} \union {s6[i] : i \in DOMAIN s6} : IsPart(st)}
<1>1. /\ from.cols \in Seq(Columns) /\ to.cols \in Seq(Columns)
      /\ from.constraints \in Seq(Constraints) /\ to.constraints \in Seq(Constraints)
      /\ from.indexes \in Seq(Indexes) /\ to.indexes \in Seq(Indexes)
  BY DEF Descriptors
<1>2. all = s1 \o s2 \o s3 \o s4 \o s5 \o s6
  OBVIOUS
<1>3. AllOf(all) # Err /\ script = Split(AllOf(all))
  BY DEF MigrationScript
<1>4. /\ s1 = [i \in DOMAIN to.cols |-> s1[i]] /\ s2 = [i \in DOMAIN from.cols |-> s2[i]]
      /\ s3 = [i \in DOMAIN to.constraints |-> s3[i]] /\ s4 = [i \in DOMAIN from.constraints |-> s4[i]]
      /\ s5 = [i \in DOMAIN to.indexes |-> s5[i]] /\ s6 = [i \in DOMAIN from.indexes |-> s6[i]]
  BY DEF Each
<1>5. \A i \in DOMAIN s1 : IsPart(s1[i])
  BY ColumnFacts DEF Each, IsPart, Kinds
<1>6. \A i \in DOMAIN s2 : IsPart(s2[i])
  BY OtherFacts DEF Each, IsPart, Kinds
<1>7. \A i \in DOMAIN s3 : IsPart(s3[i])
  BY OtherFacts DEF Each, IsPart, Kinds
<1>8. \A i \in DOMAIN s4 : IsPart(s4[i])
  BY OtherFacts DEF Each, IsPart, Kinds
<1>9. \A i \in DOMAIN s5 : IsPart(s5[i])
  <2>1. ASSUME NEW x PROVE IsPart(IndexSql(d, x, to.name))
    <3> DEFINE st == IndexSql(d, x, to.name)
    <3>1. st # Err => IsCreateIndex(st, to, x)
      BY IndexFacts
    <3> QED
      BY <3>1 DEF IsPart, IsCreateIndex, Kinds
  <2> QED
    BY <2>1 DEF Each, IsPart
<1>10. \A i \in DOMAIN s6 : IsPart(s6[i])
  BY OtherFacts DEF Each, IsPart, Kinds
<1> HIDE DEF s1, s2, s3, s4, s5, s6, all, IsPart
<1>11. /\ \A i \in DOMAIN s1 : s1[i] \in parts
       /\ \A i \in DOMAIN s2 : s2[i] \in parts
       /\ \A i \in DOMAIN s3 : s3[i] \in parts
       /\ \A i \in DOMAIN s4 : s4[i] \in parts
       /\ \A i \in DOMAIN s5 : s5[i] \in parts
       /\ \A i \in DOMAIN s6 : s6[i] \in parts
  BY <1>5, <1>6, <1>7, <1>8, <1>9, <1>10
<1>12. \A st \in parts : st = Err \/ st = None \/ st.k \in Kinds \ {"fragment"}
  BY DEF IsPart
<1> HIDE DEF parts
<1>13. s1 \in Seq(parts)
  BY <1>1, <1>4, <1>11, EachSeq
<1>14. s2 \in Seq(parts)
  BY <1>1, <1>4, <1>11, EachSeq
<1>15. s3 \in Seq(parts)
  BY <1>1, <1>4, <1>11, EachSeq
<1>16. s4 \in Seq(parts)
  BY <1>1, <1>4, <1>11, EachSeq
<1>17. s5 \in Seq(parts)
  BY <1>1, <1>4, <1>11, EachSeq
<1>18. s6 \in Seq(parts)
  BY <1>1, <1>4, <1>11, EachSeq
<1>19. all \in Seq(parts)
  BY <1>2, <1>13, <1>14, <1>15, <1>16, <1>17, <1>18, ConcatProperties
<1>20. /\ DOMAIN script \subseteq Nat
       /\ \A p \in DOMAIN script : all[p] \in parts \ {Err, None}
  BY <1>3, <1>19, SplitFacts
<1>21. \A p \in DOMAIN script : script[p] = FirstPiece(all[p])
  BY <1>3, <1>19, SplitFacts, Zenon
<1>22. \A p \in DOMAIN script : script[p].k \in Kinds
  BY <1>12, <1>20, <1>21 DEF FirstPiece, Kinds
<1> QED
  BY <1>20, <1>22

\* A script that begins with nothing has only what adds something.
LEMMA BareScript ==
    ASSUME NEW d \in DbTypes, NEW from \in Descriptors, NEW to \in Descriptors,
           from.cols = <<>>, from.constraints = <<>>, from.indexes = <<>>,
           NEW adds, adds = [i \in DOMAIN to.cols |-> AddColumnSql(d, TableOf(to), to.cols[i])],
           NEW cons, cons = [i \in DOMAIN to.constraints |-> ConstraintOf(d, to.constraints[i], to.name)],
           NEW indexes, indexes = [i \in DOMAIN to.indexes |-> IndexSql(d, to.indexes[i], to.name)]
    PROVE  MigrationScript(d, from, to) = AllOf((adds \o cons) \o indexes)
<1> DEFINE s1 == Each(to.cols, LAMBDA c : c.name \notin ColumnNames(from),
                      LAMBDA c : AddColumnSql(d, TableOf(to), c))
           s2 == Each(from.cols, LAMBDA c : c.name \notin ColumnNames(to),
                      LAMBDA c : DropColumnSql(d, TableOf(from), c.name))
           s3 == Each(to.constraints, LAMBDA c : ~Contains(from.constraints, c),
                      LAMBDA c : ConstraintOf(d, c, to.name))
           s4 == Each(from.constraints,
                      LAMBDA c : ~Contains(to.constraints, c) /\ c.kind \in TableLevel,
                      LAMBDA c : DropConstraintSql(d, TableOf(from), <<from.name, c.name>>))
           s5 == Each(to.indexes, LAMBDA x : ~Contains(from.indexes, x),
                      LAMBDA x : IndexSql(d, x, to.name))
           s6 == Each(from.indexes, LAMBDA x : ~Contains(to.indexes, x),
                      LAMBDA x : DropIndexSql(d, TableOf(from), IndexName(x, from.name)))
<1>1. /\ to.cols \in Seq(Columns) /\ to.constraints \in Seq(Constraints) /\ to.indexes \in Seq(Indexes)
  BY DEF Descriptors
<1>2. MigrationScript(d, from, to) = AllOf(s1 \o s2 \o s3 \o s4 \o s5 \o s6)
  BY DEF MigrationScript
<1>3. ColumnNames(from) = {} /\ (\A c : ~Contains(from.constraints, c)) /\ \A x : ~Contains(from.indexes, x)
  BY EmptySeq DEF ColumnNames, Contains
<1>4. s1 = adds
  BY <1>3 DEF Each
<1>5. s3 = cons
  BY <1>3 DEF Each
<1>6. s5 = indexes
  BY <1>3 DEF Each
<1>7. s2 = <<>> /\ s4 = <<>> /\ s6 = <<>>
  BY EmptySeq DEF Each
<1> HIDE DEF s1, s2, s3, s4, s5, s6
<1> DEFINE U == {adds[i] : i \in DOMAIN adds} \union {cons[i] : i \in DOMAIN cons}
                \union {indexes[i] : i \in DOMAIN indexes}
<1>8. /\ adds = [i \in DOMAIN to.cols |-> adds[i]] /\ cons = [i \in DOMAIN to.constraints |-> cons[i]]
      /\ indexes = [i \in DOMAIN to.indexes |-> indexes[i]]
  OBVIOUS
<1>9. /\ \A i \in DOMAIN adds : adds[i] \in U
      /\ \A i \in DOMAIN cons : cons[i] \in U
      /\ \A i \in DOMAIN indexes : indexes[i] \in U
  OBVIOUS
<1> HIDE DEF U
<1>10. adds \in Seq(U)
  BY <1>1, <1>8, <1>9, EachSeq
<1>11. cons \in Seq(U)
  BY <1>1, <1>8, <1>9, EachSeq
<1>12. indexes \in Seq(U)
  BY <1>1, <1>8, <1>9, EachSeq
<1>13. adds \o <<>> = adds /\ (adds \o cons) \o <<>> = adds \o cons
       /\ ((adds \o cons) \o indexes) \o <<>> = (adds \o cons) \o indexes
  BY <1>10, <1>11, <1>12, ConcatProperties, ConcatEmptySeq
<1> QED
  BY <1>2, <1>4, <1>5, <1>6, <1>7, <1>13

-----------------------------------------------------------------------------
(* Scripts that create a table.                                            *)

\* The clauses of a CREATE TABLE: the columns, the key of the model, if it has
\* one, and the constraints.
KeySql(d, m) ==
    By(d, IF m.pk = {} THEN <<>> ELSE <<SqlitePrimaryKey(m.pk, TableOf(m))>>,
          IF MySqlKey(m) = {} THEN <<>> ELSE <<MySqlPrimaryKey(MySqlKey(m), m.name)>>,
          IF m.pk = {} THEN <<>> ELSE <<PostgresPrimaryKey(m.pk, m.name)>>)
HasModelKey(d, m) == m.pk # {} \/ (d = "mysql" /\ \E i \in DOMAIN m.cols : m.cols[i].pk)
ConstraintsOn(d, m) == IF d = "sqlite" THEN TableOf(m) ELSE m.name

\* CREATE TABLE of each adapter has its columns, its key and its constraints
\* in this order.
LEMMA TableClauses ==
    ASSUME NEW d \in DbTypes, NEW m,
           NEW columns, columns = [i \in DOMAIN m.cols |-> ColumnSql(d, m.cols[i])],
           NEW others, others = [i \in DOMAIN m.constraints |->
                                    ConstraintOf(d, m.constraints[i], ConstraintsOn(d, m))]
    PROVE  CreateTableSql(d, m) = CreateTable(TableOf(m), AllOf((columns \o KeySql(d, m)) \o others))
<1>1. CASE d = "sqlite"
  <2>1. /\ columns = [i \in DOMAIN m.cols |-> SqliteColumn(m.cols[i])]
        /\ others = [i \in DOMAIN m.constraints |-> SqliteConstraint(m.constraints[i], TableOf(m))]
        /\ KeySql(d, m) = IF m.pk = {} THEN <<>> ELSE <<SqlitePrimaryKey(m.pk, TableOf(m))>>
    BY <1>1 DEF ColumnSql, ConstraintOf, ConstraintsOn, KeySql, By
  <2>2. CreateTableSql(d, m) = SqliteCreateTable(m)
    BY <1>1 DEF CreateTableSql, By
  <2> QED
    BY <2>1, <2>2 DEF SqliteCreateTable
<1>2. CASE d = "mysql"
  <2>1. /\ columns = [i \in DOMAIN m.cols |-> MySqlColumn(m.cols[i])]
        /\ others = [i \in DOMAIN m.constraints |-> MySqlConstraint(m.constraints[i], m.name)]
        /\ KeySql(d, m) = IF MySqlKey(m) = {} THEN <<>> ELSE <<MySqlPrimaryKey(MySqlKey(m), m.name)>>
    BY <1>2 DEF ColumnSql, ConstraintOf, ConstraintsOn, KeySql, By
  <2>2. CreateTableSql(d, m) = MySqlCreateTable(m)
    BY <1>2 DEF CreateTableSql, By
  <2> QED
    BY <2>1, <2>2 DEF MySqlCreateTable
<1>3. CASE d = "postgres"
  <2>1. /\ columns = [i \in DOMAIN m.cols |-> PostgresColumn(m.cols[i])]
        /\ others = [i \in DOMAIN m.constraints |-> PostgresConstraint(m.constraints[i], m.name)]
        /\ KeySql(d, m) = IF m.pk = {} THEN <<>> ELSE <<PostgresPrimaryKey(m.pk, m.name)>>
    BY <1>3 DEF ColumnSql, ConstraintOf, ConstraintsOn, KeySql, By
  <2>2. CreateTableSql(d, m) = PostgresCreateTable(m)
    BY <1>3 DEF CreateTableSql, By
  <2> QED
    BY <2>1, <2>2 DEF PostgresCreateTable
<1> QED
  BY <1>1, <1>2, <1>3 DEF DbTypes

IsKeyClause(p) == p.k = "constraint" /\ p.kind = "primary_key"

\* A CREATE TABLE has at most one key that is made of the model, or in MySQL
\* of its columns.
LEMMA KeyFacts ==
    ASSUME NEW d \in DbTypes, NEW m, NEW key, key = KeySql(d, m)
    PROVE  key = <<>> \/ \E p : key = <<p>> /\ IsKeyClause(p) /\ HasModelKey(d, m)
<1>1. \A cols, name : IsKeyClause(PrimaryKey(cols, name))
  BY DEF IsKeyClause, PrimaryKey
<1>2. MySqlKey(m) # {} => m.pk # {} \/ \E i \in DOMAIN m.cols : m.cols[i].pk
  BY DEF MySqlKey
<1>3. CASE d = "sqlite"
  BY <1>1, <1>3 DEF KeySql, By, SqlitePrimaryKey, HasModelKey
<1>4. CASE d = "mysql"
  BY <1>1, <1>2, <1>4 DEF KeySql, By, MySqlPrimaryKey, HasModelKey
<1>5. CASE d = "postgres"
  BY <1>1, <1>5 DEF KeySql, By, PostgresPrimaryKey, HasModelKey
<1> QED
  BY <1>3, <1>4, <1>5 DEF DbTypes

\* A constraint of an adapter is of the kind of the model's, or left out.
LEMMA ConstraintFacts ==
    ASSUME NEW d \in DbTypes, NEW c, NEW table, NEW p, p = ConstraintOf(d, c, table)
    PROVE  \/ p = None
           \/ p.k = "constraint" /\ p.kind = c.kind /\ p.ref = c.ref /\ c.kind \in TableLevel
BY DEF ConstraintOf, SqliteConstraint, MySqlConstraint, PostgresConstraint, ConstraintSql, By, DbTypes

\* A sequence of nothing, or of one.
LEMMA AtMostOne ==
    ASSUME NEW U, NEW s, s = <<>> \/ \E p \in U : s = <<p>>
    PROVE  s \in Seq(U) /\ Len(s) \in {0, 1} /\ DOMAIN s = 1..Len(s) /\ (Len(s) = 1 => s = <<s[1]>>)
<1>1. CASE s = <<>>
  BY <1>1
<1>2. ASSUME NEW p \in U, s = <<p>>
      PROVE  s \in Seq(U) /\ Len(s) \in {0, 1} /\ DOMAIN s = 1..Len(s) /\ (Len(s) = 1 => s = <<s[1]>>)
  BY <1>2
<1> QED
  BY <1>1, <1>2

\* Where the places of three sequences are, of which the second has at most
\* one.
LEMMA ThreePlaces ==
    ASSUME NEW U, NEW s \in Seq(U), NEW k \in Seq(U), NEW r \in Seq(U), Len(k) \in {0, 1}
    PROVE  LET all == (s \o k) \o r IN
           /\ all \in Seq(U) /\ DOMAIN all = 1..(Len(s) + Len(k) + Len(r))
           /\ \A q \in DOMAIN all :
                /\ q <= Len(s) => q \in DOMAIN s /\ all[q] = s[q]
                /\ q > Len(s) /\ q <= Len(s) + Len(k) => Len(k) = 1 /\ q = Len(s) + 1 /\ all[q] = k[1]
                /\ q > Len(s) + Len(k) =>
                    q - (Len(s) + Len(k)) \in DOMAIN r /\ all[q] = r[q - (Len(s) + Len(k))]
<1> DEFINE b == s \o k
           all == b \o r
<1>1. /\ Len(s) \in Nat /\ DOMAIN s = 1..Len(s) /\ Len(k) \in Nat /\ Len(r) \in Nat /\ DOMAIN r = 1..Len(r)
  BY LenProperties
<1>2. /\ b \in Seq(U) /\ Len(b) = Len(s) + Len(k)
      /\ \A i \in 1..(Len(s) + Len(k)) : b[i] = IF i <= Len(s) THEN s[i] ELSE k[i - Len(s)]
  BY ConcatProperties
<1>3. b \in Seq(U)
  BY <1>2
<1> HIDE DEF b
<1>4. /\ all \in Seq(U) /\ Len(all) = Len(b) + Len(r)
      /\ \A i \in 1..(Len(b) + Len(r)) : all[i] = IF i <= Len(b) THEN b[i] ELSE r[i - Len(b)]
  BY <1>3, ConcatProperties
<1> HIDE DEF all
<1>5. DOMAIN all = 1..(Len(s) + Len(k) + Len(r))
  BY <1>1, <1>2, <1>4, LenProperties
<1>6. ASSUME NEW q \in DOMAIN all
      PROVE  /\ q <= Len(s) => q \in DOMAIN s /\ all[q] = s[q]
             /\ q > Len(s) /\ q <= Len(s) + Len(k) => Len(k) = 1 /\ q = Len(s) + 1 /\ all[q] = k[1]
             /\ q > Len(s) + Len(k) =>
                    q - (Len(s) + Len(k)) \in DOMAIN r /\ all[q] = r[q - (Len(s) + Len(k))]
  <2>1. q \in Nat /\ q >= 1 /\ q <= Len(s) + Len(k) + Len(r) /\ Len(b) = Len(s) + Len(k)
    BY <1>1, <1>2, <1>5
  <2>2. ASSUME q <= Len(s) PROVE q \in DOMAIN s /\ all[q] = s[q]
    BY <1>1, <1>2, <1>4, <2>1, <2>2
  <2>3. ASSUME q > Len(s), q <= Len(s) + Len(k) PROVE Len(k) = 1 /\ q = Len(s) + 1 /\ all[q] = k[1]
    <3> DEFINE n == Len(s)
               l == Len(k)
    <3>1. l = 0 \/ l = 1
      OBVIOUS
    <3>2. n \in Nat /\ q \in Nat /\ q > n /\ q <= n + l
      BY <1>1, <2>1, <2>3
    <3> HIDE DEF n, l
    <3>3. l = 1 /\ q = n + 1
      BY <3>1, <3>2
    <3>4. Len(k) = 1 /\ q = Len(s) + 1
      BY <3>3 DEF n, l
    <3>5. all[q] = b[q] /\ b[q] = k[q - Len(s)] /\ q - Len(s) = 1
      BY <1>1, <1>2, <1>4, <2>1, <2>3, <3>4
    <3> QED
      BY <3>4, <3>5
  <2>4. ASSUME q > Len(s) + Len(k)
        PROVE  q - (Len(s) + Len(k)) \in DOMAIN r /\ all[q] = r[q - (Len(s) + Len(k))]
    BY <1>1, <1>4, <2>1, <2>4
  <2> QED
    BY <2>2, <2>3, <2>4
<1> QED
  BY <1>4, <1>5, <1>6 DEF all, b

\* What a clause of a CREATE TABLE is made of, and what makes a primary key.
IsClause(d, m, p) ==
    \/ \E i \in DOMAIN m.cols : p = ColumnSql(d, m.cols[i])
    \/ IsKeyClause(p)
    \/ \E i \in DOMAIN m.constraints :
            p.k = "constraint" /\ p.kind = m.constraints[i].kind /\ p.ref = m.constraints[i].ref
MakesKey(d, m, x) ==
    \/ \E i \in DOMAIN m.cols : m.cols[i].pk /\ d # "postgres" /\ x = <<"column", i>>
    \/ \E i \in DOMAIN m.constraints : m.constraints[i].kind = "primary_key" /\ x = <<"constraint", i>>
    \/ HasModelKey(d, m) /\ x = <<"model", 0>>

\* CREATE TABLE of each adapter is of the model's table, has all its columns,
\* and nothing that is not of the model; it is an error only if a column is.
LEMMA CreateTableFacts ==
    ASSUME NEW d \in DbTypes, NEW m \in Descriptors, NEW st, st = CreateTableSql(d, m)
    PROVE  /\ st = Err => \E i \in DOMAIN m.cols : ColumnSql(d, m.cols[i]) = Err
           /\ st # Err =>
                /\ IsCreateTable(st, m)
                /\ \A j \in DOMAIN st.parts : IsClause(d, m, st.parts[j])
                /\ \A i, j \in DOMAIN st.parts :
                    i # j /\ IsKey(st.parts[i]) /\ IsKey(st.parts[j]) =>
                        \E x, y : x # y /\ MakesKey(d, m, x) /\ MakesKey(d, m, y)
<1> DEFINE columns == [i \in DOMAIN m.cols |-> ColumnSql(d, m.cols[i])]
           key == KeySql(d, m)
           others == [i \in DOMAIN m.constraints |-> ConstraintOf(d, m.constraints[i], ConstraintsOn(d, m))]
           U == {columns[i] : i \in DOMAIN columns} \union {key[1]}
                \union {others[i] : i \in DOMAIN others}
           all == (columns \o key) \o others
<1>1. st = CreateTable(TableOf(m), AllOf(all))
  BY TableClauses
<1>2. m.cols \in Seq(Columns) /\ m.constraints \in Seq(Constraints)
  BY DEF Descriptors
<1>3. /\ columns = [i \in DOMAIN m.cols |-> columns[i]] /\ DOMAIN columns = DOMAIN m.cols
      /\ \A i \in DOMAIN m.cols : columns[i] = ColumnSql(d, m.cols[i])
  OBVIOUS
<1>4. /\ others = [i \in DOMAIN m.constraints |-> others[i]] /\ DOMAIN others = DOMAIN m.constraints
      /\ \A i \in DOMAIN m.constraints :
            \/ others[i] = None
            \/ /\ others[i].k = "constraint" /\ others[i].kind = m.constraints[i].kind
               /\ others[i].ref = m.constraints[i].ref
  BY ConstraintFacts
<1>5. key = <<>> \/ \E p : key = <<p>> /\ IsKeyClause(p) /\ HasModelKey(d, m)
  BY KeyFacts
<1> HIDE DEF columns, key, others
<1>6. /\ \A i \in DOMAIN columns : columns[i] \in U
      /\ \A i \in DOMAIN others : others[i] \in U
      /\ key = <<>> \/ \E p \in U : key = <<p>>
  <2>1. key = <<>> \/ \E p \in U : key = <<p>>
    BY <1>5
  <2> QED
    BY <2>1
<1> HIDE DEF U
<1>7. columns \in Seq(U)
  BY <1>2, <1>3, <1>6, EachSeq
<1>8. others \in Seq(U)
  BY <1>2, <1>4, <1>6, EachSeq
<1>9. key \in Seq(U) /\ Len(key) \in {0, 1} /\ (Len(key) = 1 => key = <<key[1]>>)
  BY <1>6, AtMostOne
<1>10. Len(key) = 1 => IsKeyClause(key[1]) /\ HasModelKey(d, m)
  BY <1>5
<1> DEFINE n == Len(columns)
           l == Len(key)
<1>11. n \in Nat /\ (l = 0 \/ l = 1) /\ DOMAIN columns = 1..n
  BY <1>7, <1>9, LenProperties
<1>12. /\ DOMAIN all = 1..(n + l + Len(others)) /\ Len(others) \in Nat
       /\ \A q \in DOMAIN all :
            /\ q <= n => q \in DOMAIN columns /\ all[q] = columns[q]
            /\ q > n /\ q <= n + l => l = 1 /\ q = n + 1 /\ all[q] = key[1]
            /\ q > n + l => q - (n + l) \in DOMAIN others /\ all[q] = others[q - (n + l)]
  BY <1>7, <1>8, <1>9, ThreePlaces, LenProperties
<1> HIDE DEF all, n, l
<1>13. ASSUME NEW q \in DOMAIN all
       PROVE  \/ q \in 1..n /\ q \in DOMAIN m.cols /\ all[q] = ColumnSql(d, m.cols[q])
              \/ q = n + 1 /\ l = 1 /\ IsKeyClause(all[q]) /\ HasModelKey(d, m)
              \/ /\ q - (n + l) \in DOMAIN m.constraints /\ q \in Nat /\ q > n + l
                 /\ \/ all[q] = None
                    \/ /\ all[q].k = "constraint" /\ all[q].kind = m.constraints[q - (n + l)].kind
                       /\ all[q].ref = m.constraints[q - (n + l)].ref
  <2>1. q \in Nat /\ q >= 1
    BY <1>11, <1>12
  <2>2. CASE q <= n
    BY <1>3, <1>11, <1>12, <2>1, <2>2
  <2>3. CASE q > n /\ q <= n + l
    BY <1>10, <1>12, <2>3 DEF l
  <2>4. CASE q > n + l
    BY <1>4, <1>12, <2>1, <2>4
  <2> QED
    BY <1>11, <2>1, <2>2, <2>3, <2>4
<1>14. ASSUME st = Err PROVE \E i \in DOMAIN m.cols : ColumnSql(d, m.cols[i]) = Err
  <2>1. AllOf(all) = Err
    BY <1>1, <1>14 DEF CreateTable, Err
  <2>2. PICK q \in DOMAIN all : all[q] = Err
    BY <2>1, AllOfErrs DEF Has
  <2> QED
    BY <1>13, <2>2 DEF Err, None, IsKeyClause
<1>15. ASSUME st # Err
       PROVE  /\ st.k = "create_table" /\ st.table = TableOf(m)
              /\ DOMAIN st.parts = {q \in DOMAIN all : all[q] # None}
              /\ \A q \in DOMAIN st.parts : st.parts[q] = all[q]
              /\ \A q \in DOMAIN all : all[q] # Err
  <2>1. AllOf(all) # Err
    BY <1>1, <1>15 DEF CreateTable
  <2>2. st.k = "create_table" /\ st.table = TableOf(m) /\ st.parts = AllOf(all).of
    BY <1>1, <2>1 DEF CreateTable
  <2> QED
    BY <2>1, <2>2, AllOfFacts
<1>16. ASSUME st # Err PROVE IsCreateTable(st, m)
  <2> SUFFICES ASSUME NEW i \in DOMAIN m.cols
               PROVE  \E j \in DOMAIN st.parts :
                        st.parts[j].k = "column" /\ st.parts[j].name = m.cols[i].name
    BY <1>15, <1>16 DEF IsCreateTable
  <2>1. i \in DOMAIN all /\ all[i] = ColumnSql(d, m.cols[i])
    <3>1. i \in 1..n
      BY <1>3, <1>11
    <3>2. i \in DOMAIN all /\ i <= n
      BY <1>11, <1>12, <3>1
    <3> QED
      BY <1>3, <1>12, <3>2
  <2>2. all[i].k = "column" /\ all[i].name = m.cols[i].name
    BY <1>15, <1>16, <2>1, DefinitionFacts
  <2>3. all[i] # None
    BY <2>2 DEF None
  <2> QED
    BY <1>15, <1>16, <2>1, <2>2, <2>3
<1>17. ASSUME st # Err, NEW j \in DOMAIN st.parts PROVE IsClause(d, m, st.parts[j])
  <2>1. j \in DOMAIN all /\ all[j] # None /\ st.parts[j] = all[j]
    BY <1>15, <1>17
  <2> QED
    BY <1>13, <2>1 DEF IsClause
<1>18. ASSUME st # Err, NEW q \in DOMAIN st.parts, IsKey(st.parts[q])
       PROVE  \/ q \in 1..n /\ MakesKey(d, m, <<"column", q>>)
              \/ q = n + 1 /\ l = 1 /\ MakesKey(d, m, <<"model", 0>>)
              \/ q \in Nat /\ q > n + l /\ MakesKey(d, m, <<"constraint", q - (n + l)>>)
  <2>1. q \in DOMAIN all /\ all[q] # None /\ all[q] # Err /\ IsKey(all[q])
    BY <1>15, <1>18
  <2>2. CASE q \in 1..n /\ q \in DOMAIN m.cols /\ all[q] = ColumnSql(d, m.cols[q])
    <3>1. m.cols[q].pk /\ d # "postgres"
      BY <2>1, <2>2, DefinitionFacts
    <3> QED
      BY <2>2, <3>1 DEF MakesKey
  <2>3. CASE q = n + 1 /\ l = 1 /\ IsKeyClause(all[q]) /\ HasModelKey(d, m)
    BY <2>3 DEF MakesKey
  <2>4. CASE /\ q - (n + l) \in DOMAIN m.constraints /\ q \in Nat /\ q > n + l
             /\ all[q].k = "constraint" /\ all[q].kind = m.constraints[q - (n + l)].kind
    <3>1. m.constraints[q - (n + l)].kind = "primary_key"
      BY <2>1, <2>4 DEF IsKey
    <3> QED
      BY <2>4, <3>1 DEF MakesKey
  <2> QED
    BY <1>13, <2>1, <2>2, <2>3, <2>4
<1>19. ASSUME st # Err, NEW i \in DOMAIN st.parts, NEW j \in DOMAIN st.parts, i # j,
              IsKey(st.parts[i]), IsKey(st.parts[j])
       PROVE  \E x, y : x # y /\ MakesKey(d, m, x) /\ MakesKey(d, m, y)
  <2> DEFINE origin(q) == IF q \in 1..n THEN <<"column", q>>
                          ELSE IF q = n + 1 /\ l = 1 THEN <<"model", 0>>
                          ELSE <<"constraint", q - (n + l)>>
  <2>1. MakesKey(d, m, origin(i)) /\ i \in Nat
    BY <1>11, <1>18, <1>19
  <2>2. MakesKey(d, m, origin(j)) /\ j \in Nat
    BY <1>11, <1>18, <1>19
  <2>3. origin(i) # origin(j)
    BY <1>11, <1>19, <2>1, <2>2
  <2> HIDE DEF origin
  <2> QED
    BY <2>1, <2>2, <2>3
<1> QED
  BY <1>14, <1>16, <1>17, <1>19

\* The statements that sync_schema executes for a model.
HasSemicolon(m) == \E i \in DOMAIN m.cols : m.cols[i].default = "semicolon"
FromModel(d, m, st) ==
    \/ st.k = "fragment" /\ HasSemicolon(m)
    \/ st.k = "create_table" /\ st = CreateTableSql(d, m)
    \/ st.k = "add_column" /\ \E i \in DOMAIN m.cols : st = AddColumnSql(d, TableOf(m), m.cols[i])
    \/ st.k = "constraint" /\ \E i \in DOMAIN m.constraints : m.constraints[i].kind \in TableLevel
    \/ st.k = "create_index" /\ \E i \in DOMAIN m.indexes : st = IndexSql(d, m.indexes[i], m.name)

\* split_script leaves a statement as it is, or cuts it at a semicolon of the
\* model.
LEMMA PieceFacts ==
    ASSUME NEW d \in DbTypes, NEW m \in Descriptors, NEW st, FromModel(d, m, st),
           NEW piece, piece = FirstPiece(st)
    PROVE  /\ FromModel(d, m, piece) /\ piece.k \in {st.k, "fragment"}
           /\ piece.k = "fragment" \/ piece = st
           /\ st.k = "create_index" => piece = st
<1>1. ASSUME Semicolon(st) PROVE HasSemicolon(m)
  <2>1. CASE st.k = "add_column" /\ st.def.default = "semicolon"
    <3>1. PICK i \in DOMAIN m.cols : st = AddColumnSql(d, TableOf(m), m.cols[i])
      BY <2>1 DEF FromModel
    <3>2. st # Err
      BY <2>1 DEF Err
    <3>3. st.def = ColumnSql(d, m.cols[i]) /\ ColumnSql(d, m.cols[i]) # Err
      BY <3>1, <3>2, ColumnFacts
    <3>4. st.def.default = m.cols[i].default
      BY <3>3, DefinitionFacts
    <3> QED
      BY <2>1, <3>4 DEF HasSemicolon
  <2>2. ASSUME st.k = "create_table", NEW j \in DOMAIN st.parts, st.parts[j].k = "column",
               st.parts[j].default = "semicolon"
        PROVE  HasSemicolon(m)
    <3>1. st = CreateTableSql(d, m) /\ st # Err
      BY <2>2 DEF FromModel, Err
    <3>2. IsClause(d, m, st.parts[j])
      BY <2>2, <3>1, CreateTableFacts
    <3>3. PICK i \in DOMAIN m.cols : st.parts[j] = ColumnSql(d, m.cols[i])
      BY <2>2, <3>2 DEF IsClause, IsKeyClause
    <3>4. st.parts[j] # Err
      BY <2>2 DEF Err
    <3>5. st.parts[j].default = m.cols[i].default
      BY <3>3, <3>4, DefinitionFacts
    <3> QED
      BY <2>2, <3>5 DEF HasSemicolon
  <2> QED
    BY <1>1, <2>1, <2>2 DEF Semicolon
<1>2. CASE Semicolon(st)
  <2>1. piece = [k |-> "fragment"]
    BY <1>2 DEF FirstPiece
  <2>2. st.k # "create_index"
    BY <1>2 DEF Semicolon
  <2> QED
    BY <1>1, <1>2, <2>1, <2>2 DEF FromModel
<1>3. CASE ~Semicolon(st)
  BY <1>3 DEF FirstPiece
<1> QED
  BY <1>2, <1>3

\* All statements that create an index come last.
BeforeIndexes(script, p) == \A q \in DOMAIN script : script[q].k = "create_index" => p < q

\* generate_create_table_script: one table, and all indexes of the model after
\* it.
LEMMA CreateFacts ==
    ASSUME NEW d \in DbTypes, NEW m \in Descriptors, CreateScript(d, m) # Err
    PROVE  LET script == Split(CreateScript(d, m)) IN
           /\ DOMAIN script \subseteq Nat
           /\ \A p \in DOMAIN script :
                script[p].k \in {"fragment", "create_table", "create_index"} /\ FromModel(d, m, script[p])
           /\ \E p \in DOMAIN script :
                (script[p].k = "fragment" \/ IsCreateTable(script[p], m)) /\ BeforeIndexes(script, p)
           /\ \A i \in DOMAIN m.indexes : \E p \in DOMAIN script :
                IsCreateIndex(script[p], m, m.indexes[i])
<1> DEFINE first == CreateTableSql(d, m)
           heads == <<first>>
           indexes == [i \in DOMAIN m.indexes |-> IndexSql(d, m.indexes[i], m.name)]
           U == {first} \union {indexes[i] : i \in DOMAIN indexes}
           all == heads \o indexes
           script == Split(CreateScript(d, m))
<1>1. script = Split(AllOf(all)) /\ AllOf(all) # Err
  BY DEF CreateScript
<1>2. m.indexes \in Seq(Indexes)
  BY DEF Descriptors
<1>3. /\ indexes = [i \in DOMAIN m.indexes |-> indexes[i]] /\ DOMAIN indexes = DOMAIN m.indexes
      /\ \A i \in DOMAIN m.indexes : indexes[i] = IndexSql(d, m.indexes[i], m.name)
  OBVIOUS
<1>4. first = CreateTableSql(d, m) /\ 1 \in DOMAIN heads /\ heads[1] = first
      /\ \A i \in DOMAIN heads : heads[i] = first
  OBVIOUS
<1>5. all = heads \o indexes
  OBVIOUS
<1>6. heads \in Seq(U) /\ \A i \in DOMAIN indexes : indexes[i] \in U
  OBVIOUS
<1>7. \A st \in U : st = first \/ \E i \in DOMAIN m.indexes : st = IndexSql(d, m.indexes[i], m.name)
  OBVIOUS
<1> HIDE DEF first, heads, indexes, U, all, script
<1>8. indexes \in Seq(U)
  BY <1>2, <1>3, <1>6, EachSeq
<1>9. first = Err \/ IsCreateTable(first, m)
  BY <1>4, CreateTableFacts
<1>10. \A i \in DOMAIN heads : heads[i].k # "create_index"
  BY <1>4, <1>9 DEF Err, IsCreateTable
<1>11. ComesFrom(script, U, heads, indexes)
  BY <1>1, <1>5, <1>6, <1>8, <1>10, ScriptFacts
<1>12. ASSUME NEW st \in U, st # Err
       PROVE  FromModel(d, m, st) /\ st.k \in {"create_table", "create_index"}
  <2>1. CASE st = first
    BY <1>4, <1>9, <1>12, <2>1 DEF FromModel, IsCreateTable
  <2>2. ASSUME NEW i \in DOMAIN m.indexes, st = IndexSql(d, m.indexes[i], m.name)
        PROVE  FromModel(d, m, st) /\ st.k = "create_index"
    <3>1. IsCreateIndex(st, m, m.indexes[i])
      BY <1>12, <2>2, IndexFacts
    <3> QED
      BY <2>2, <3>1 DEF FromModel, IsCreateIndex
  <2> QED
    BY <1>7, <2>1, <2>2
<1>13. ASSUME NEW p \in DOMAIN script
       PROVE  script[p].k \in {"fragment", "create_table", "create_index"} /\ FromModel(d, m, script[p])
  <2>1. PICK v \in U \ {Err, None} : script[p] = FirstPiece(v)
    BY <1>11 DEF ComesFrom
  <2>2. FromModel(d, m, v) /\ v.k \in {"create_table", "create_index"}
    BY <1>12
  <2> QED
    BY <2>1, <2>2, PieceFacts
<1>14. /\ 1 \in DOMAIN script /\ BeforeIndexes(script, 1)
       /\ script[1].k = "fragment" \/ IsCreateTable(script[1], m)
  <2>1. first # None
    BY <1>9 DEF None, Err, IsCreateTable
  <2>2. /\ first # Err /\ 1 \in DOMAIN script /\ script[1] = FirstPiece(first)
        /\ \A q \in DOMAIN script : script[q].k = "create_index" => 1 < q
    BY <1>4, <1>11, <2>1 DEF ComesFrom
  <2> QED
    BY <1>9, <2>2 DEF BeforeIndexes, FirstPiece
<1>15. ASSUME NEW i \in DOMAIN m.indexes
       PROVE  \E p \in DOMAIN script : IsCreateIndex(script[p], m, m.indexes[i])
  <2> DEFINE st == indexes[i]
  <2>1. st = IndexSql(d, m.indexes[i], m.name) /\ Has(indexes, st) /\ st \in U
    BY <1>3, <1>6 DEF Has
  <2> HIDE DEF st
  <2>2. st = Err \/ IsCreateIndex(st, m, m.indexes[i])
    BY <2>1, IndexFacts
  <2>3. st # None
    BY <2>2 DEF None, Err, IsCreateIndex
  <2>4. st # Err /\ Has(script, FirstPiece(st))
    BY <1>11, <2>1, <2>3 DEF ComesFrom
  <2>5. FirstPiece(st) = st
    BY <1>12, <2>1, <2>2, <2>4, PieceFacts DEF IsCreateIndex
  <2> QED
    BY <2>2, <2>4, <2>5 DEF Has
<1> QED
  BY <1>11, <1>13, <1>14, <1>15 DEF script, ComesFrom

\* The statements before the table create the types that it needs.
LEMMA EnumsFacts ==
    ASSUME NEW d \in DbTypes, NEW m
    PROVE  /\ DOMAIN EnumsSql(d, m) \subseteq Nat
           /\ \A p \in DOMAIN EnumsSql(d, m) : EnumsSql(d, m)[p].k = "create_type"
           /\ d = "postgres" /\ (\E i \in DOMAIN m.cols : m.cols[i].type = "enum") =>
                \E p \in DOMAIN EnumsSql(d, m) :
                    EnumsSql(d, m)[p].k = "create_type" /\ EnumsSql(d, m)[p].name = <<m.schema, "enum">>
<1> DEFINE st == [k |-> "create_type", name |-> <<m.schema, "enum">>]
<1>1. \/ EnumsSql(d, m) = <<>> /\ ~(d = "postgres" /\ \E i \in DOMAIN m.cols : m.cols[i].type = "enum")
      \/ EnumsSql(d, m) = <<st>>
  BY DEF EnumsSql, By, DbTypes, SqliteEnums, MySqlEnums, PostgresEnums
<1>2. st.k = "create_type" /\ st.name = <<m.schema, "enum">>
  OBVIOUS
<1> HIDE DEF st
<1>3. CASE /\ EnumsSql(d, m) = <<>>
           /\ ~(d = "postgres" /\ \E i \in DOMAIN m.cols : m.cols[i].type = "enum")
  <2>1. DOMAIN EnumsSql(d, m) = {}
    BY <1>3
  <2> QED
    BY <1>3, <2>1
<1>4. CASE EnumsSql(d, m) = <<st>>
  <2>1. DOMAIN EnumsSql(d, m) = {1} /\ EnumsSql(d, m)[1] = st
    BY <1>4
  <2> QED
    BY <1>2, <2>1
<1> QED
  BY <1>1, <1>3, <1>4

-----------------------------------------------------------------------------
(* What statements do to the schema.                                       *)

\* A schema has its parts, and an index is of a table and columns that are
\* there.
Shape(s) ==
    /\ s = [tables |-> s.tables, indexes |-> s.indexes, types |-> s.types]
    /\ s.tables = [n \in DOMAIN s.tables |-> s.tables[n]]
    /\ \A n \in DOMAIN s.tables :
        /\ s.tables[n] = [cols |-> s.tables[n].cols, key |-> s.tables[n].key, cons |-> s.tables[n].cons]
        /\ s.tables[n].key \in BOOLEAN
    /\ \A x \in s.indexes : HasTable(s, x.table) /\ x.cols \subseteq s.tables[x.table].cols

\* A call has a list of models and the statements that are left of a script.
IsCall(c) ==
    /\ c = [phase |-> c.phase, op |-> c.op, models |-> c.models, at |-> c.at, script |-> c.script]
    /\ c.phase \in Phases /\ c.models \in Seq(Descriptors)
    /\ c.phase # "idle" => c.at \in DOMAIN c.models
    /\ DOMAIN c.script \subseteq Nat /\ \A p \in DOMAIN c.script : c.script[p].k \in Kinds
    /\ c.phase \in {"enums_again", "migrate"} => c.op = "sync_schema"
    /\ c.op = "sync_schema" =>
        /\ c.phase \in {"enums", "create", "enums_again", "migrate"}
        /\ \A p \in DOMAIN c.script : c.script[p].k \notin DropKinds
CallInv ==
    /\ call = [t \in Tasks |-> call[t]] /\ \A t \in Tasks : IsCall(call[t])
    /\ upset = [t \in Tasks |-> upset[t]]

\* IndexThere and Complete, in a database of a type.
IndexIn(d, s, m, x) ==
    \E y \in s.indexes : /\ y.name = IndexName(x, m.name)
                        /\ d = "mysql" => y.table = <<NoSchema, m.name>>
CompleteIn(d, s, m) ==
    /\ HasTable(s, TableOf(m)) /\ ColumnNames(m) \subseteq s.tables[TableOf(m)].cols
    /\ \A i \in DOMAIN m.indexes : IndexIn(d, s, m, m.indexes[i])

\* A model that names a column or a constraint twice: what the database says
\* of its CREATE TABLE can be taken for success.
Named(d, m) == RepeatsName(d, CreateTableSql(d, m))
DoneIn(d, s, m) == Named(d, m) \/ CompleteIn(d, s, m)

\* What a model asks for is there, or its statement is still to be executed,
\* or a piece of that statement, with which the call will fail: and its table
\* and columns will be there before an index is created.
TableLeft(s, c, m) ==
    \/ HasTable(s, TableOf(m)) /\ ColumnNames(m) \subseteq s.tables[TableOf(m)].cols
    \/ \E p \in DOMAIN c.script :
            (c.script[p].k = "fragment" \/ IsCreateTable(c.script[p], m)) /\ BeforeIndexes(c.script, p)
ColumnsLeft(s, c, m) ==
    \A i \in DOMAIN m.cols :
        \/ m.cols[i].name \in s.tables[TableOf(m)].cols
        \/ \E p \in DOMAIN c.script :
                /\ c.script[p].k = "fragment" \/ IsAddColumn(c.script[p], TableOf(m), m.cols[i])
                /\ BeforeIndexes(c.script, p)
IndexesLeft(d, s, c, m) ==
    \A i \in DOMAIN m.indexes :
        \/ IndexIn(d, s, m, m.indexes[i])
        \/ \E p \in DOMAIN c.script : IsCreateIndex(c.script[p], m, m.indexes[i])
EnumsLeft(d, s, c, m) ==
    d = "postgres" /\ (\E i \in DOMAIN m.cols : m.cols[i].type = "enum") =>
        \/ <<m.schema, "enum">> \in s.types
        \/ \E p \in DOMAIN c.script :
                c.script[p].k = "create_type" /\ c.script[p].name = <<m.schema, "enum">>

\* The statements that are left are of the phase, and made for the model.
KindsOf(phase) ==
    CASE phase \in {"enums", "enums_again"} -> {"create_type"}
      [] phase = "create" -> {"fragment", "create_table", "create_index"}
      [] phase = "migrate" -> {"fragment", "add_column", "constraint", "create_index"}
OwnScript(d, c, m) ==
    \A p \in DOMAIN c.script :
        /\ c.script[p].k \in KindsOf(c.phase)
        /\ c.phase \in {"create", "migrate"} => FromModel(d, m, c.script[p])

\* The models before are complete, and this one will be, unless it names
\* something twice.
PhaseLeft(d, s, c, m) ==
    /\ c.phase = "create" => TableLeft(s, c, m) /\ IndexesLeft(d, s, c, m)
    /\ c.phase \in {"enums_again", "migrate"} => HasTable(s, TableOf(m))
    /\ c.phase = "migrate" => ColumnsLeft(s, c, m) /\ IndexesLeft(d, s, c, m)
OnItsWay(d, s, c) ==
    LET m == c.models[c.at] IN
    /\ \A i \in DOMAIN c.models : i < c.at => DoneIn(d, s, c.models[i])
    /\ OwnScript(d, c, m) /\ EnumsLeft(d, s, c, m)
    /\ ~Named(d, m) => PhaseLeft(d, s, c, m)
SyncInv ==
    \A t \in Tasks : call[t].op = "sync_schema" /\ upset[t] = {} => OnItsWay(dbType, schema, call[t])

SchemaInv == TypeOK /\ Shape(schema) /\ CallInv /\ SyncInv

\* The schema has as much as it had.
Grows(s, r) ==
    /\ \A n \in DOMAIN s.tables : HasTable(r, n) /\ s.tables[n].cols \subseteq r.tables[n].cols
    /\ s.indexes \subseteq r.indexes /\ s.types \subseteq r.types

\* One of the tables is another.
LEMMA TableFacts ==
    ASSUME NEW s, Shape(s), NEW n \in DOMAIN s.tables, NEW x,
           x = [cols |-> x.cols, key |-> x.key, cons |-> x.cons], x.key \in BOOLEAN,
           NEW r, r.tables = [s.tables EXCEPT ![n] = x],
           r.indexes \subseteq s.indexes, r = [tables |-> r.tables, indexes |-> r.indexes, types |-> r.types],
           \A y \in r.indexes : y.table = n => y.cols \subseteq x.cols
    PROVE  Shape(r)
BY DEF Shape, HasTable

\* A CREATE TABLE that is accepted adds its table.
LEMMA CreatesTable ==
    ASSUME NEW s, Shape(s), NEW d, NEW st, st.k = "create_table", ~HasTable(s, st.table),
           NEW r, r = After(s, st)
    PROVE  /\ Shape(r) /\ Grows(s, r) /\ HasTable(r, st.table)
           /\ \A j \in DOMAIN st.parts : st.parts[j].k = "column" =>
                    st.parts[j].name \in r.tables[st.table].cols
<1> DEFINE x == [cols |-> {p.name : p \in {q \in Parts(st) : q.k = "column"}},
                 key |-> \E p \in Parts(st) : IsKey(p),
                 cons |-> {p.name : p \in {q \in Parts(st) : q.k = "constraint"}}]
           n == st.table
<1>1. r = [s EXCEPT !.tables = [m \in DOMAIN s.tables \union {n} |-> IF m = n THEN x ELSE s.tables[m]]]
  BY DEF After, Put
<1>2. /\ x.key \in BOOLEAN /\ x = [cols |-> x.cols, key |-> x.key, cons |-> x.cons]
      /\ \A j \in DOMAIN st.parts : st.parts[j].k = "column" => st.parts[j].name \in x.cols
  BY DEF Parts
<1> HIDE DEF x
<1>3. /\ r.tables = [m \in DOMAIN s.tables \union {n} |-> IF m = n THEN x ELSE s.tables[m]]
      /\ r.indexes = s.indexes /\ r.types = s.types
      /\ r = [tables |-> r.tables, indexes |-> r.indexes, types |-> r.types]
  BY <1>1 DEF Shape
<1>4. Shape(r)
  <2>1. n \notin DOMAIN s.tables
    BY DEF HasTable
  <2>2. \A m \in DOMAIN r.tables : /\ r.tables[m] = [cols |-> r.tables[m].cols, key |-> r.tables[m].key, cons |-> r.tables[m].cons]
                                   /\ r.tables[m].key \in BOOLEAN
    BY <1>2, <1>3 DEF Shape
  <2>3. \A y \in r.indexes : HasTable(r, y.table) /\ y.cols \subseteq r.tables[y.table].cols
    BY <1>3, <2>1 DEF Shape, HasTable
  <2> QED
    BY <1>3, <2>2, <2>3 DEF Shape
<1>5. Grows(s, r)
  BY <1>3 DEF Grows, HasTable
<1>6. HasTable(r, n) /\ r.tables[n] = x
  BY <1>3 DEF HasTable
<1> QED
  BY <1>2, <1>4, <1>5, <1>6

\* An ADD COLUMN that is accepted adds its column.
LEMMA AddsColumn ==
    ASSUME NEW s, Shape(s), NEW st, st.k = "add_column", HasTable(s, st.table),
           NEW r, r = After(s, st)
    PROVE  Shape(r) /\ Grows(s, r) /\ HasTable(r, st.table) /\ st.def.name \in r.tables[st.table].cols
<1> DEFINE n == st.table
           y == s.tables[n]
           cols == y.cols \union {st.def.name}
           key == y.key \/ IsKey(st.def)
           x == [cols |-> cols, key |-> key, cons |-> y.cons]
<1>1. n \in DOMAIN s.tables
  BY DEF HasTable
<1>2. key \in BOOLEAN
  BY Zenon
<1>3. r = [s EXCEPT !.tables[n].cols = cols, !.tables[n].key = key]
  BY DEF After
<1>4. st.def.name \in cols /\ y.cols \subseteq cols
  OBVIOUS
<1> HIDE DEF cols, key
<1>5. y = [cols |-> y.cols, key |-> y.key, cons |-> y.cons]
  BY <1>1 DEF Shape
<1>6. r.tables = [s.tables EXCEPT ![n] = x]
  <2> DEFINE once == [s.tables EXCEPT ![n].cols = cols]
             twice == [once EXCEPT ![n].key = key]
  <2>1. once[n] = [cols |-> cols, key |-> y.key, cons |-> y.cons]
    BY <1>1, <1>5
  <2>2. twice[n] = x
    BY <1>1, <2>1
  <2>3. twice = [s.tables EXCEPT ![n] = twice[n]]
    BY <1>1
  <2>4. r.tables = twice
    BY <1>3 DEF Shape
  <2> QED
    BY <2>2, <2>3, <2>4
<1>7. /\ r.indexes = s.indexes /\ r.types = s.types
      /\ r = [tables |-> r.tables, indexes |-> r.indexes, types |-> r.types]
  BY <1>3 DEF Shape
<1>8. x.cols = cols /\ x.key \in BOOLEAN /\ x = [cols |-> x.cols, key |-> x.key, cons |-> x.cons]
  BY <1>2
<1> HIDE DEF x
<1>9. \A z \in r.indexes : z.table = n => z.cols \subseteq x.cols
  BY <1>4, <1>7, <1>8 DEF Shape
<1>10. Shape(r)
  <2>1. r.indexes \subseteq s.indexes
    BY <1>7
  <2> QED
    BY <1>1, <1>6, <1>7, <1>8, <1>9, <2>1, TableFacts
<1>11. r.tables[n] = x /\ HasTable(r, n)
  BY <1>1, <1>6 DEF HasTable
<1>12. Grows(s, r)
  BY <1>1, <1>4, <1>6, <1>7, <1>8 DEF Grows, HasTable
<1> QED
  BY <1>4, <1>8, <1>10, <1>11, <1>12

\* A CREATE INDEX that is accepted adds its index.
LEMMA CreatesIndex ==
    ASSUME NEW s, Shape(s), NEW st, st.k = "create_index", HasTable(s, st.table),
           st.cols \subseteq s.tables[st.table].cols,
           NEW r, r = After(s, st)
    PROVE  /\ Shape(r) /\ Grows(s, r)
           /\ \E x \in r.indexes : x.name = st.name /\ x.table = st.table
<1> DEFINE y == [name |-> st.name, table |-> st.table, cols |-> st.cols]
<1>1. r.tables = s.tables /\ r.indexes = s.indexes \union {y} /\ r.types = s.types
      /\ r = [tables |-> r.tables, indexes |-> r.indexes, types |-> r.types]
  BY DEF After, Shape
<1>2. y.name = st.name /\ y.table = st.table /\ y.cols = st.cols
  OBVIOUS
<1> HIDE DEF y
<1> QED
  BY <1>1, <1>2 DEF Shape, Grows, HasTable

\* Statements that drop something.
LEMMA DropsSomething ==
    ASSUME NEW s, Shape(s), NEW d \in DbTypes, NEW st, st.k \in DropKinds, Answer(d, s, st) = "ok",
           NEW r, r = After(s, st)
    PROVE  Shape(r)
<1>1. s = [tables |-> s.tables, indexes |-> s.indexes, types |-> s.types]
  BY DEF Shape
<1>2. CASE st.k = "drop_table"
  <2>1. r.tables = [n \in DOMAIN s.tables \ {st.table} |-> s.tables[n]]
        /\ r.indexes = {x \in s.indexes : x.table # st.table}
        /\ r = [tables |-> r.tables, indexes |-> r.indexes, types |-> r.types]
    BY <1>1, <1>2 DEF After
  <2> QED
    BY <2>1 DEF Shape, HasTable
<1>3. CASE st.k = "drop_column"
  <2> DEFINE n == st.table
             y == s.tables[n]
             x == [cols |-> y.cols \ {st.name}, key |-> y.key, cons |-> y.cons]
  <2>1. n \in DOMAIN s.tables
    BY <1>3 DEF Answer, HasTable
  <2>2. y = [cols |-> y.cols, key |-> y.key, cons |-> y.cons] /\ y.key \in BOOLEAN
    BY <2>1 DEF Shape
  <2>3. r = [s EXCEPT !.tables[st.table].cols = @ \ {st.name},
                      !.indexes = {z \in @ : z.table # st.table \/ st.name \notin z.cols}]
    BY <1>3 DEF After
  <2>4. r.tables = [s.tables EXCEPT ![n] = x]
        /\ r.indexes = {z \in s.indexes : z.table # st.table \/ st.name \notin z.cols}
        /\ r = [tables |-> r.tables, indexes |-> r.indexes, types |-> r.types]
    <3>1. r.tables = [s.tables EXCEPT ![n].cols = @ \ {st.name}]
      BY <1>1, <2>3
    <3>2. [y EXCEPT !.cols = @ \ {st.name}] = x
      <4> DEFINE left == y.cols \ {st.name}
      <4> SUFFICES [y EXCEPT !.cols = left] = [cols |-> left, key |-> y.key, cons |-> y.cons]
        OBVIOUS
      <4> HIDE DEF left
      <4> QED
        BY <2>2
    <3>3. r.tables = [s.tables EXCEPT ![n] = x]
      BY <3>1, <3>2
    <3> HIDE DEF x
    <3> QED
      BY <1>1, <2>3, <3>3
  <2>5. x.cols = s.tables[n].cols \ {st.name} /\ x.key = s.tables[n].key
        /\ x = [cols |-> x.cols, key |-> x.key, cons |-> x.cons]
    OBVIOUS
  <2> HIDE DEF x
  <2>6. \A z \in r.indexes : z.table = n => z.cols \subseteq x.cols
    BY <2>1, <2>4, <2>5 DEF Shape
  <2>7. r.indexes \subseteq s.indexes /\ x.key \in BOOLEAN
    BY <2>2, <2>4, <2>5
  <2> QED
    BY <2>1, <2>4, <2>5, <2>6, <2>7, TableFacts
<1>4. CASE st.k = "drop_constraint"
  <2> DEFINE n == st.table
             y == s.tables[n]
             x == [cols |-> y.cols, key |-> y.key, cons |-> y.cons \ {st.name}]
  <2>1. n \in DOMAIN s.tables
    BY <1>4 DEF Answer, HasTable
  <2>2. y = [cols |-> y.cols, key |-> y.key, cons |-> y.cons] /\ y.key \in BOOLEAN
    BY <2>1 DEF Shape
  <2>3. r = [s EXCEPT !.tables[st.table].cons = @ \ {st.name}]
    BY <1>4 DEF After
  <2>4. r.tables = [s.tables EXCEPT ![n] = x] /\ r.indexes = s.indexes
        /\ r = [tables |-> r.tables, indexes |-> r.indexes, types |-> r.types]
    <3>1. r.tables = [s.tables EXCEPT ![n].cons = @ \ {st.name}]
      BY <1>1, <2>3
    <3>2. [y EXCEPT !.cons = @ \ {st.name}] = x
      BY <2>2
    <3>3. r.tables = [s.tables EXCEPT ![n] = x]
      BY <3>1, <3>2
    <3> HIDE DEF x
    <3> QED
      BY <1>1, <2>3, <3>3
  <2>5. x.cols = s.tables[n].cols /\ x.key = s.tables[n].key
        /\ x = [cols |-> x.cols, key |-> x.key, cons |-> x.cons]
    OBVIOUS
  <2> HIDE DEF x
  <2>6. \A z \in r.indexes : z.table = n => z.cols \subseteq x.cols
    BY <2>1, <2>4, <2>5 DEF Shape
  <2>7. r.indexes \subseteq s.indexes /\ x.key \in BOOLEAN
    BY <2>2, <2>4, <2>5
  <2> QED
    BY <2>1, <2>4, <2>5, <2>6, <2>7, TableFacts
<1>5. CASE st.k = "drop_index"
  <2>1. r.tables = s.tables /\ r.indexes = {x \in s.indexes : x.name # st.name}
        /\ r = [tables |-> r.tables, indexes |-> r.indexes, types |-> r.types]
    BY <1>1, <1>5 DEF After
  <2> QED
    BY <2>1 DEF Shape, HasTable
<1> QED
  BY <1>2, <1>3, <1>4, <1>5 DEF DropKinds

\* What a statement that is accepted does to the schema.
LEMMA Executed ==
    ASSUME NEW s, Shape(s), NEW d \in DbTypes, NEW st, st.k \in Kinds, Answer(d, s, st) = "ok",
           NEW r, r = After(s, st)
    PROVE  /\ Shape(r)
           /\ st.k \notin DropKinds => Grows(s, r)
           /\ st.k = "create_table" =>
                /\ HasTable(r, st.table)
                /\ \A j \in DOMAIN st.parts : st.parts[j].k = "column" =>
                        st.parts[j].name \in r.tables[st.table].cols
           /\ st.k = "add_column" => HasTable(r, st.table) /\ st.def.name \in r.tables[st.table].cols
           /\ st.k = "create_index" => \E x \in r.indexes : x.name = st.name /\ x.table = st.table
           /\ st.k = "create_type" => st.name \in r.types
<1>1. CASE st.k = "create_type"
  <2>1. r.tables = s.tables /\ r.indexes = s.indexes /\ r.types = s.types \union {st.name}
        /\ r = [tables |-> r.tables, indexes |-> r.indexes, types |-> r.types]
    BY <1>1 DEF After, Shape
  <2> QED
    BY <1>1, <2>1 DEF Shape, Grows, HasTable
<1>2. CASE st.k = "create_table"
  <2>1. ~HasTable(s, st.table)
    BY <1>2 DEF Answer
  <2> QED
    BY <1>2, <2>1, CreatesTable
<1>3. CASE st.k = "add_column"
  <2>1. HasTable(s, st.table)
    BY <1>3 DEF Answer
  <2> QED
    BY <1>3, <2>1, AddsColumn
<1>4. CASE st.k = "create_index"
  <2>1. HasTable(s, st.table) /\ st.cols \subseteq s.tables[st.table].cols
    BY <1>4 DEF Answer
  <2> QED
    BY <1>4, <2>1, CreatesIndex
<1>5. CASE st.k \in DropKinds
  BY <1>5, DropsSomething DEF DropKinds
<1>6. st.k \notin {"constraint", "fragment"}
  BY DEF Answer
<1> QED
  BY <1>1, <1>2, <1>3, <1>4, <1>5, <1>6 DEF Kinds, DropKinds

-----------------------------------------------------------------------------
(* Calls that are on their way.                                            *)

\* What is there stays there while nothing is dropped.
LEMMA StaysOnItsWay ==
    ASSUME NEW d, NEW s, NEW r, Grows(s, r), NEW c, OnItsWay(d, s, c)
    PROVE  OnItsWay(d, r, c)
<1> DEFINE m == c.models[c.at]
<1>1. \A n \in DOMAIN s.tables : HasTable(r, n) /\ s.tables[n].cols \subseteq r.tables[n].cols
  BY DEF Grows
<1>2. ASSUME NEW x, NEW y, IndexIn(d, s, x, y) PROVE IndexIn(d, r, x, y)
  BY <1>2 DEF Grows, IndexIn
<1>3. ASSUME NEW x, DoneIn(d, s, x) PROVE DoneIn(d, r, x)
  BY <1>1, <1>2, <1>3 DEF DoneIn, CompleteIn, HasTable
<1>4. ASSUME TableLeft(s, c, m) PROVE TableLeft(r, c, m)
  BY <1>1, <1>4 DEF TableLeft, HasTable
<1>5. ASSUME IndexesLeft(d, s, c, m) PROVE IndexesLeft(d, r, c, m)
  BY <1>2, <1>5 DEF IndexesLeft
<1>6. ASSUME HasTable(s, TableOf(m)), ColumnsLeft(s, c, m) PROVE ColumnsLeft(r, c, m)
  BY <1>1, <1>6 DEF ColumnsLeft, HasTable
<1>7. ASSUME HasTable(s, TableOf(m)) PROVE HasTable(r, TableOf(m))
  BY <1>1, <1>7 DEF HasTable
<1>8. ASSUME EnumsLeft(d, s, c, m) PROVE EnumsLeft(d, r, c, m)
  BY <1>8 DEF EnumsLeft, Grows
<1> HIDE DEF m
<1>9. /\ \A i \in DOMAIN c.models : i < c.at => DoneIn(d, s, c.models[i])
      /\ OwnScript(d, c, m) /\ EnumsLeft(d, s, c, m)
      /\ ~Named(d, m) => PhaseLeft(d, s, c, m)
  BY DEF OnItsWay, m
<1>10. PhaseLeft(d, s, c, m) => PhaseLeft(d, r, c, m)
  BY <1>4, <1>5, <1>6, <1>7 DEF PhaseLeft
<1>11. /\ \A i \in DOMAIN c.models : i < c.at => DoneIn(d, r, c.models[i])
       /\ OwnScript(d, c, m) /\ EnumsLeft(d, r, c, m)
       /\ ~Named(d, m) => PhaseLeft(d, r, c, m)
  BY <1>3, <1>8, <1>9, <1>10
<1>12. m = c.models[c.at]
  BY DEF m
<1> QED
  BY <1>11, <1>12 DEF OnItsWay

\* What a statement adds for a model is there.
Met(d, s, m, st) ==
    /\ st.k # "fragment"
    /\ \A x : IsAddColumn(st, TableOf(m), x) => x.name \in s.tables[TableOf(m)].cols
    /\ \A x : IsCreateIndex(st, m, x) => IndexIn(d, s, m, x)
    /\ st.k = "create_type" => st.name \in s.types
TableMet(s, m, st) ==
    IsCreateTable(st, m) => HasTable(s, TableOf(m)) /\ ColumnNames(m) \subseteq s.tables[TableOf(m)].cols

NewCall(c, phase, script) ==
    [phase |-> phase, op |-> c.op, models |-> c.models, at |-> c.at, script |-> script]

\* A statement that has done what it is for is not needed.
LEMMA RestOnItsWay ==
    ASSUME NEW d, NEW s, NEW c, OnItsWay(d, s, c), NEW p \in DOMAIN c.script,
           Met(d, s, c.models[c.at], c.script[p]),
           c.phase = "create" /\ ~Named(d, c.models[c.at]) => TableMet(s, c.models[c.at], c.script[p]),
           NEW e, e = NewCall(c, c.phase, Restrict(c.script, DOMAIN c.script \ {p}))
    PROVE  OnItsWay(d, s, e)
<1> DEFINE m == c.models[c.at]
<1>1. /\ e.phase = c.phase /\ e.models = c.models /\ e.at = c.at
      /\ DOMAIN e.script = DOMAIN c.script \ {p}
      /\ \A q \in DOMAIN e.script : e.script[q] = c.script[q]
  BY DEF NewCall, Restrict
<1>2. \A q \in DOMAIN e.script : BeforeIndexes(c.script, q) => BeforeIndexes(e.script, q)
  BY <1>1 DEF BeforeIndexes
<1>3. Met(d, s, m, c.script[p])
  OBVIOUS
<1>4. ASSUME c.phase = "create", ~Named(d, m), TableLeft(s, c, m) PROVE TableLeft(s, e, m)
  <2>1. TableMet(s, m, c.script[p])
    BY <1>4
  <2> HIDE DEF m
  <2> SUFFICES ASSUME ~(HasTable(s, TableOf(m)) /\ ColumnNames(m) \subseteq s.tables[TableOf(m)].cols)
               PROVE  \E q \in DOMAIN e.script :
                        /\ e.script[q].k = "fragment" \/ IsCreateTable(e.script[q], m)
                        /\ BeforeIndexes(e.script, q)
    BY DEF TableLeft
  <2>2. PICK q \in DOMAIN c.script :
            (c.script[q].k = "fragment" \/ IsCreateTable(c.script[q], m)) /\ BeforeIndexes(c.script, q)
    BY <1>4 DEF TableLeft
  <2>3. q # p
    BY <1>3, <2>1, <2>2 DEF Met, TableMet
  <2> QED
    BY <1>1, <1>2, <2>2, <2>3
<1>5. ASSUME IndexesLeft(d, s, c, m) PROVE IndexesLeft(d, s, e, m)
  <2> SUFFICES ASSUME NEW i \in DOMAIN m.indexes, ~IndexIn(d, s, m, m.indexes[i])
               PROVE  \E q \in DOMAIN e.script : IsCreateIndex(e.script[q], m, m.indexes[i])
    BY DEF IndexesLeft
  <2>1. PICK q \in DOMAIN c.script : IsCreateIndex(c.script[q], m, m.indexes[i])
    BY <1>5 DEF IndexesLeft
  <2>2. q # p
    BY <1>3, <2>1 DEF Met
  <2> HIDE DEF m
  <2> QED
    BY <1>1, <2>1, <2>2
<1>6. ASSUME ColumnsLeft(s, c, m) PROVE ColumnsLeft(s, e, m)
  <2> HIDE DEF m
  <2> SUFFICES ASSUME NEW i \in DOMAIN m.cols, m.cols[i].name \notin s.tables[TableOf(m)].cols
               PROVE  \E q \in DOMAIN e.script :
                        /\ e.script[q].k = "fragment" \/ IsAddColumn(e.script[q], TableOf(m), m.cols[i])
                        /\ BeforeIndexes(e.script, q)
    BY DEF ColumnsLeft
  <2>1. PICK q \in DOMAIN c.script :
            /\ c.script[q].k = "fragment" \/ IsAddColumn(c.script[q], TableOf(m), m.cols[i])
            /\ BeforeIndexes(c.script, q)
    BY <1>6 DEF ColumnsLeft
  <2>2. q # p
    BY <1>3, <2>1 DEF Met
  <2> QED
    BY <1>1, <1>2, <2>1, <2>2
<1>7. ASSUME EnumsLeft(d, s, c, m) PROVE EnumsLeft(d, s, e, m)
  <2> HIDE DEF m
  <2> SUFFICES ASSUME d = "postgres", \E i \in DOMAIN m.cols : m.cols[i].type = "enum",
                      <<m.schema, "enum">> \notin s.types
               PROVE  \E q \in DOMAIN e.script :
                        e.script[q].k = "create_type" /\ e.script[q].name = <<m.schema, "enum">>
    BY DEF EnumsLeft
  <2>1. PICK q \in DOMAIN c.script :
            c.script[q].k = "create_type" /\ c.script[q].name = <<m.schema, "enum">>
    BY <1>7 DEF EnumsLeft
  <2>2. q # p
    BY <1>3, <2>1 DEF Met
  <2> QED
    BY <1>1, <2>1, <2>2
<1>8. ASSUME OwnScript(d, c, m) PROVE OwnScript(d, e, m)
  BY <1>1, <1>8 DEF OwnScript
<1> HIDE DEF m
<1>9. /\ \A i \in DOMAIN c.models : i < c.at => DoneIn(d, s, c.models[i])
      /\ OwnScript(d, c, m) /\ EnumsLeft(d, s, c, m)
      /\ ~Named(d, m) => PhaseLeft(d, s, c, m)
  BY DEF OnItsWay, m
<1>10. ASSUME ~Named(d, m), PhaseLeft(d, s, c, m) PROVE PhaseLeft(d, s, e, m)
  BY <1>1, <1>4, <1>5, <1>6, <1>10 DEF PhaseLeft
<1>11. /\ \A i \in DOMAIN e.models : i < e.at => DoneIn(d, s, e.models[i])
       /\ OwnScript(d, e, m) /\ EnumsLeft(d, s, e, m)
       /\ ~Named(d, m) => PhaseLeft(d, s, e, m)
  BY <1>1, <1>7, <1>8, <1>9, <1>10
<1>12. m = e.models[e.at]
  BY <1>1 DEF m
<1> QED
  BY <1>11, <1>12 DEF OnItsWay

\* A statement that is accepted does what it is for.
LEMMA OkMeets ==
    ASSUME NEW s, Shape(s), NEW d \in DbTypes, NEW st, st.k \in Kinds, Answer(d, s, st) = "ok",
           NEW r, r = After(s, st), NEW m
    PROVE  Met(d, r, m, st) /\ TableMet(r, m, st)
<1>1. st.k # "fragment"
  BY DEF Answer
<1>2. ASSUME NEW x, IsAddColumn(st, TableOf(m), x) PROVE x.name \in r.tables[TableOf(m)].cols
  <2>1. st.k = "add_column" /\ st.table = TableOf(m) /\ st.def.name = x.name
    BY <1>2 DEF IsAddColumn
  <2> QED
    BY <2>1, Executed
<1>3. ASSUME NEW x, IsCreateIndex(st, m, x) PROVE IndexIn(d, r, m, x)
  <2>1. st.k = "create_index" /\ st.table = <<NoSchema, m.name>> /\ st.name = IndexName(x, m.name)
    BY <1>3 DEF IsCreateIndex
  <2>2. \E y \in r.indexes : y.name = st.name /\ y.table = st.table
    BY <2>1, Executed
  <2> QED
    BY <2>1, <2>2 DEF IndexIn
<1>4. ASSUME IsCreateTable(st, m)
      PROVE  HasTable(r, TableOf(m)) /\ ColumnNames(m) \subseteq r.tables[TableOf(m)].cols
  <2>1. /\ st.k = "create_table" /\ st.table = TableOf(m)
        /\ \A i \in DOMAIN m.cols : \E j \in DOMAIN st.parts :
                st.parts[j].k = "column" /\ st.parts[j].name = m.cols[i].name
    BY <1>4 DEF IsCreateTable
  <2>2. HasTable(r, st.table) /\ \A j \in DOMAIN st.parts : st.parts[j].k = "column" =>
                st.parts[j].name \in r.tables[st.table].cols
    BY <2>1, Executed
  <2> QED
    BY <2>1, <2>2 DEF ColumnNames
<1>5. st.k = "create_type" => st.name \in r.types
  BY Executed
<1> QED
  BY <1>1, <1>2, <1>3, <1>4, <1>5 DEF Met, TableMet

\* What a database can answer, if rows do not come in its way.
LEMMA Answers ==
    ASSUME NEW s, NEW d, NEW st, st.k \in Kinds
    PROVE  Answer(d, s, st) \in {"ok", "exists", "table_exists", "error"}
<1>1. AnswerToRepeated(d, st) \in {"exists", "table_exists", "error"}
  BY DEF AnswerToRepeated
<1> QED
  BY <1>1 DEF Answer, Kinds

\* The answer that something exists is taken for success: it does, or the
\* statement names something twice.
LEMMA ExistsMeets ==
    ASSUME NEW s, NEW d \in DbTypes, NEW st, st.k \in Kinds,
           NEW a, a = Answer(d, s, st), a \in {"exists", "table_exists"}, NEW m
    PROVE  /\ Met(d, s, m, st)
           /\ a = "table_exists" => st.k = "create_table" /\ (HasTable(s, st.table) \/ RepeatsName(d, st))
           /\ a = "exists" => st.k # "create_table" \/ RepeatsName(d, st)
<1>1. CASE st.k = "create_type"
  BY <1>1 DEF Answer, Met, IsAddColumn, IsCreateIndex
<1>2. CASE st.k = "create_table"
  <2>1. Met(d, s, m, st)
    BY <1>2 DEF Met, IsAddColumn, IsCreateIndex
  <2>2. CASE HasTable(s, st.table)
    BY <1>2, <2>1, <2>2 DEF Answer
  <2>3. CASE RepeatsName(d, st)
    BY <1>2, <2>1, <2>3
  <2>4. ASSUME ~HasTable(s, st.table), ~RepeatsName(d, st) PROVE a \in {"ok", "error"}
    BY <1>2, <2>4 DEF Answer
  <2> QED
    BY <2>2, <2>3, <2>4
<1>3. CASE st.k = "add_column"
  <2>1. st.def.name \in s.tables[st.table].cols /\ a = "exists"
    BY <1>3 DEF Answer
  <2> QED
    BY <1>3, <2>1 DEF Met, IsAddColumn, IsCreateIndex
<1>4. CASE st.k = "create_index"
  <2>1. IndexNameTaken(d, s, st) /\ a = "exists"
    BY <1>4 DEF Answer
  <2>2. ASSUME NEW x, IsCreateIndex(st, m, x) PROVE IndexIn(d, s, m, x)
    BY <2>1, <2>2 DEF IndexNameTaken, IsCreateIndex, IndexIn
  <2> QED
    BY <1>4, <2>1, <2>2 DEF Met, IsAddColumn
<1>5. CASE st.k \in {"constraint", "fragment"} \union DropKinds
  BY <1>5 DEF Answer, DropKinds
<1> QED
  BY <1>1, <1>2, <1>3, <1>4, <1>5 DEF Kinds, DropKinds

\* At the end of a script, its model is complete, unless it names something
\* twice.
LEMMA EndOnItsWay ==
    ASSUME NEW d, NEW s, NEW c, OnItsWay(d, s, c), DOMAIN c.script = {}, c.phase \in {"create", "migrate"}
    PROVE  DoneIn(d, s, c.models[c.at])
<1> DEFINE m == c.models[c.at]
<1> SUFFICES ASSUME ~Named(d, m) PROVE CompleteIn(d, s, m)
  BY DEF DoneIn
<1>1. PhaseLeft(d, s, c, m)
  BY DEF OnItsWay
<1> HIDE DEF m
<1>2. CASE c.phase = "create"
  <2>1. TableLeft(s, c, m) /\ IndexesLeft(d, s, c, m)
    BY <1>1, <1>2 DEF PhaseLeft
  <2> QED
    BY <2>1 DEF TableLeft, IndexesLeft, CompleteIn
<1>3. CASE c.phase = "migrate"
  <2>1. HasTable(s, TableOf(m)) /\ ColumnsLeft(s, c, m) /\ IndexesLeft(d, s, c, m)
    BY <1>1, <1>3 DEF PhaseLeft
  <2> QED
    BY <2>1 DEF ColumnsLeft, IndexesLeft, CompleteIn, ColumnNames
<1> QED
  BY <1>2, <1>3

-----------------------------------------------------------------------------
(* The calls after a statement.                                            *)

\* The calls are well formed if the new one of a step is.
LEMMA PutCall ==
    ASSUME CallInv, NEW t \in Tasks, NEW c, IsCall(c), call' = [call EXCEPT ![t] = c],
           upset' = [u \in Tasks |-> upset'[u]]
    PROVE  CallInv'
<1>1. call = [u \in Tasks |-> call[u]] /\ \A u \in Tasks : IsCall(call[u])
  BY DEF CallInv
<1>2. call' = [u \in Tasks |-> call'[u]] /\ \A u \in Tasks : call'[u] = IF u = t THEN c ELSE call[u]
  BY <1>1
<1>3. \A u \in Tasks : IsCall(call'[u])
  BY <1>1, <1>2
<1> QED
  BY <1>2, <1>3 DEF CallInv

\* A task without a call.
LEMMA IdleCall == IsCall(Idle)
BY DEF IsCall, Idle, Phases

\* What of a script is left is of the same kinds.
LEMMA RestCall ==
    ASSUME NEW c, IsCall(c), NEW p, NEW e, e = NewCall(c, c.phase, Restrict(c.script, DOMAIN c.script \ {p}))
    PROVE  IsCall(e)
<1>1. /\ e = [phase |-> e.phase, op |-> e.op, models |-> e.models, at |-> e.at, script |-> e.script]
      /\ e.phase = c.phase /\ e.op = c.op /\ e.models = c.models /\ e.at = c.at
      /\ DOMAIN e.script = DOMAIN c.script \ {p}
      /\ \A q \in DOMAIN e.script : e.script[q] = c.script[q]
  BY DEF NewCall, Restrict
<1> QED
  BY <1>1 DEF IsCall

\* The statements of a new script.
IsScript(script) == DOMAIN script \subseteq Nat /\ \A p \in DOMAIN script : script[p].k \in Kinds
Additive(script) == \A p \in DOMAIN script : script[p].k \notin DropKinds

\* A call that goes on to another script.
LEMMA ScriptCall ==
    ASSUME NEW c, IsCall(c), c.phase # "idle", NEW script, IsScript(script), Additive(script),
           NEW phase \in {"create", "enums_again", "migrate"},
           phase \in {"enums_again", "migrate"} => c.op = "sync_schema",
           NEW e, e = NewCall(c, phase, script)
    PROVE  IsCall(e)
<1>1. /\ e = [phase |-> e.phase, op |-> e.op, models |-> e.models, at |-> e.at, script |-> e.script]
      /\ e.phase = phase /\ e.op = c.op /\ e.models = c.models /\ e.at = c.at /\ e.script = script
  BY DEF NewCall
<1> QED
  BY <1>1 DEF IsCall, Phases, IsScript, Additive

\* The script of types, as one of a call.
LEMMA EnumsScript ==
    ASSUME NEW d \in DbTypes, NEW m
    PROVE  IsScript(EnumsSql(d, m)) /\ Additive(EnumsSql(d, m))
BY EnumsFacts DEF IsScript, Additive, Kinds, DropKinds

\* A call that works on a model.
LEMMA ModelFacts ==
    ASSUME CallInv, NEW t \in Tasks, call[t].phase # "idle"
    PROVE  /\ IsCall(call[t]) /\ Model(t) = call[t].models[call[t].at] /\ Model(t) \in Descriptors
           /\ call[t].at \in 1..Len(call[t].models) /\ Len(call[t].models) \in Nat
<1>1. IsCall(call[t])
  BY DEF CallInv
<1>2. call[t].models \in Seq(Descriptors) /\ call[t].at \in DOMAIN call[t].models
  BY <1>1 DEF IsCall
<1> QED
  BY <1>1, <1>2, LenProperties DEF Model

\* The statement that a task waits for is one of its script.
LEMMA CurrentFacts ==
    ASSUME CallInv, NEW t \in Tasks, Waiting(t)
    PROVE  /\ Place(t) \in DOMAIN call[t].script /\ Current(t) = call[t].script[Place(t)]
           /\ \A q \in DOMAIN call[t].script : Place(t) <= q
           /\ Current(t).k \in Kinds
           /\ call[t].op = "sync_schema" => Current(t).k \notin DropKinds
<1>1. IsCall(call[t])
  BY DEF CallInv
<1>2. DOMAIN call[t].script # {} /\ DOMAIN call[t].script \subseteq Nat
  BY <1>1 DEF IsCall, Waiting
<1>3. Place(t) \in DOMAIN call[t].script /\ \A q \in DOMAIN call[t].script : Place(t) <= q
  BY <1>2, LeastPlace DEF Place
<1> QED
  BY <1>1, <1>3 DEF IsCall, Current

\* Goes replaces phase and script.
LEMMA GoesFacts ==
    ASSUME CallInv, NEW t \in Tasks, NEW phase, NEW script, Goes(t, phase, script)
    PROVE  call' = [call EXCEPT ![t] = NewCall(call[t], phase, script)] /\ back' = NoOne
<1> DEFINE c == call[t]
           once == [call EXCEPT ![t].phase = phase]
           twice == [once EXCEPT ![t].script = script]
<1>1. call = [u \in Tasks |-> call[u]] /\ IsCall(c)
  BY DEF CallInv
<1>2. c = [phase |-> c.phase, op |-> c.op, models |-> c.models, at |-> c.at, script |-> c.script]
  BY <1>1 DEF IsCall
<1>3. once[t] = [phase |-> phase, op |-> c.op, models |-> c.models, at |-> c.at, script |-> c.script]
  BY <1>1, <1>2
<1>4. twice[t] = NewCall(c, phase, script)
  BY <1>1, <1>3 DEF NewCall
<1>5. twice = [call EXCEPT ![t] = twice[t]]
  BY <1>1
<1> QED
  BY <1>4, <1>5 DEF Goes

\* What a call becomes by the answer to a statement.
LEMMA HandleFacts ==
    ASSUME CallInv, dbType \in DbTypes, NEW t \in Tasks, Waiting(t), NEW a, Handle(t, a)
    PROVE  \E c : /\ call' = [call EXCEPT ![t] = c] /\ IsCall(c)
                  /\ \/ /\ c = NewCall(call[t], call[t].phase, Rest(t)) /\ back' = NoOne
                        /\ a \in {"ok", "exists", "table_exists", "duplicate"}
                        /\ ~(a = "table_exists" /\ call[t].phase = "create" /\ Current(t).k = "create_table")
                     \/ /\ c = Idle /\ back'.res = "Err" /\ back'.by = t /\ back'.op = call[t].op
                        /\ call[t].op = "sync_schema" =>
                                a \notin {"ok", "exists", "table_exists", "duplicate"}
                     \/ /\ c = NewCall(call[t], "enums_again", EnumsSql(dbType, Model(t)))
                        /\ back' = NoOne
                        /\ a = "table_exists" /\ call[t].phase = "create"
                        /\ Current(t).k = "create_table"
<1> DEFINE rest == NewCall(call[t], call[t].phase, Rest(t))
           again == NewCall(call[t], "enums_again", EnumsSql(dbType, Model(t)))
<1>1. IsCall(call[t])
  BY DEF CallInv
<1>2. IsCall(rest)
  BY <1>1, RestCall DEF Rest
<1>3. ASSUME Return(t, "Err")
      PROVE  /\ call' = [call EXCEPT ![t] = Idle] /\ IsCall(Idle)
             /\ back'.res = "Err" /\ back'.by = t /\ back'.op = call[t].op
  BY <1>3, IdleCall DEF Return
<1>4. ASSUME Goes(t, call[t].phase, Rest(t)) PROVE call' = [call EXCEPT ![t] = rest] /\ back' = NoOne
  BY <1>4, GoesFacts
<1>5. ASSUME Goes(t, "enums_again", EnumsSql(dbType, Model(t)))
      PROVE  call' = [call EXCEPT ![t] = again] /\ back' = NoOne
  BY <1>5, GoesFacts
<1>6. ASSUME call[t].op = "sync_schema", call[t].phase = "create" PROVE IsCall(again)
  BY <1>1, <1>6, EnumsScript, ScriptCall
<1> HIDE DEF rest, again
<1>7. CASE a = "ok"
  <2>1. Goes(t, call[t].phase, Rest(t))
    BY <1>7 DEF Handle
  <2> QED
    BY <1>2, <1>4, <1>7, <2>1 DEF rest
<1>8. CASE a # "ok" /\ call[t].phase = "create" /\ Current(t).k = "create_table" /\ a = "table_exists"
  <2>1. OnTableExists(t)
    BY <1>8 DEF Handle, TableAlreadyExists
  <2>2. CASE call[t].op = "sync_schema"
    <3>1. Goes(t, "enums_again", EnumsSql(dbType, Model(t)))
      BY <2>1, <2>2 DEF OnTableExists
    <3> QED
      BY <1>5, <1>6, <1>8, <2>2, <3>1 DEF again
  <2>3. CASE call[t].op # "sync_schema"
    <3>1. Return(t, "Err")
      BY <2>1, <2>3 DEF OnTableExists
    <3> QED
      BY <1>3, <2>3, <3>1
  <2> QED
    BY <2>2, <2>3
<1>9. CASE /\ a # "ok"
           /\ ~(call[t].phase = "create" /\ Current(t).k = "create_table" /\ a = "table_exists")
  <2>1. CASE /\ Return(t, "Err")
             /\ call[t].op = "sync_schema" => a \notin {"exists", "table_exists", "duplicate"}
    BY <1>3, <1>9, <2>1
  <2>2. CASE Goes(t, call[t].phase, Rest(t)) /\ a \in {"table_exists", "exists", "duplicate"}
    BY <1>2, <1>4, <1>9, <2>2 DEF rest
  <2>3. \/ /\ Return(t, "Err")
           /\ call[t].op = "sync_schema" => a \notin {"exists", "table_exists", "duplicate"}
        \/ Goes(t, call[t].phase, Rest(t)) /\ a \in {"table_exists", "exists", "duplicate"}
    <3>1. call[t].op = "sync_schema" => call[t].phase \notin {"drop", "script"}
      BY <1>1 DEF IsCall
    <3>2. CASE call[t].phase \in {"drop", "script"}
      BY <1>9, <3>1, <3>2 DEF Handle, TableAlreadyExists
    <3>3. CASE call[t].phase \notin {"drop", "script"}
      BY <1>9, <3>3 DEF Handle, TableAlreadyExists, GeneralAlreadyExists
    <3> QED
      BY <3>2, <3>3
  <2> QED
    BY <2>1, <2>2, <2>3
<1> QED
  BY <1>7, <1>8, <1>9

-----------------------------------------------------------------------------
(* The calls after a phase, and calls that begin.                          *)

\* The model with which sync_schema compares is a model with nothing in it.
LEMMA EmptyFacts ==
    ASSUME NEW m \in Descriptors
    PROVE  /\ Empty(m) \in Descriptors
           /\ Empty(m).cols = <<>> /\ Empty(m).constraints = <<>> /\ Empty(m).indexes = <<>>
<1>1. <<>> \in Seq(Columns) /\ <<>> \in Seq(Constraints) /\ <<>> \in Seq(Indexes)
  BY EmptySeq
<1> QED
  BY <1>1 DEF Empty, Descriptors

\* The script with which sync_schema adds to a table.
LEMMA AdditiveFacts ==
    ASSUME dbType \in DbTypes, NEW m \in Descriptors, AdditiveScript(m) # Err
    PROVE  LET script == Split(AdditiveScript(m)) IN
           /\ DOMAIN script \subseteq Nat
           /\ \A p \in DOMAIN script :
                /\ script[p].k \in {"fragment", "add_column", "constraint", "create_index"}
                /\ FromModel(dbType, m, script[p])
           /\ \A i \in DOMAIN m.cols : \E p \in DOMAIN script :
                /\ script[p].k = "fragment" \/ IsAddColumn(script[p], TableOf(m), m.cols[i])
                /\ BeforeIndexes(script, p)
           /\ \A i \in DOMAIN m.indexes : \E p \in DOMAIN script :
                IsCreateIndex(script[p], m, m.indexes[i])
<1> DEFINE adds == [i \in DOMAIN m.cols |-> AddColumnSql(dbType, TableOf(m), m.cols[i])]
           cons == [i \in DOMAIN m.constraints |-> ConstraintOf(dbType, m.constraints[i], m.name)]
           indexes == [i \in DOMAIN m.indexes |-> IndexSql(dbType, m.indexes[i], m.name)]
           heads == adds \o cons
           all == heads \o indexes
           U == {adds[i] : i \in DOMAIN adds} \union {cons[i] : i \in DOMAIN cons}
                \union {indexes[i] : i \in DOMAIN indexes}
           script == Split(AdditiveScript(m))
<1>1. AdditiveScript(m) = AllOf(all)
  BY EmptyFacts, BareScript DEF AdditiveScript
<1>2. script = Split(AllOf(all)) /\ AllOf(all) # Err
  BY <1>1
<1>3. heads = adds \o cons
  OBVIOUS
<1>4. all = heads \o indexes
  OBVIOUS
<1>5. /\ m.cols \in Seq(Columns) /\ m.constraints \in Seq(Constraints) /\ m.indexes \in Seq(Indexes)
  BY DEF Descriptors
<1>6. /\ adds = [i \in DOMAIN m.cols |-> adds[i]] /\ DOMAIN adds = DOMAIN m.cols
      /\ \A i \in DOMAIN m.cols : adds[i] = AddColumnSql(dbType, TableOf(m), m.cols[i])
  OBVIOUS
<1>7. /\ cons = [i \in DOMAIN m.constraints |-> cons[i]] /\ DOMAIN cons = DOMAIN m.constraints
      /\ \A i \in DOMAIN m.constraints : cons[i] = ConstraintOf(dbType, m.constraints[i], m.name)
  OBVIOUS
<1>8. /\ indexes = [i \in DOMAIN m.indexes |-> indexes[i]] /\ DOMAIN indexes = DOMAIN m.indexes
      /\ \A i \in DOMAIN m.indexes : indexes[i] = IndexSql(dbType, m.indexes[i], m.name)
  OBVIOUS
<1>9. /\ \A i \in DOMAIN adds : adds[i] \in U
      /\ \A i \in DOMAIN cons : cons[i] \in U
      /\ \A i \in DOMAIN indexes : indexes[i] \in U
  OBVIOUS
<1>10. \A st \in U : \/ \E i \in DOMAIN adds : st = adds[i]
                     \/ \E i \in DOMAIN cons : st = cons[i]
                     \/ \E i \in DOMAIN indexes : st = indexes[i]
  OBVIOUS
<1> HIDE DEF adds, cons, indexes, heads, all, U, script
<1>11. adds \in Seq(U)
  BY <1>5, <1>6, <1>9, EachSeq
<1>12. cons \in Seq(U)
  BY <1>5, <1>7, <1>9, EachSeq
<1>13. indexes \in Seq(U)
  BY <1>5, <1>8, <1>9, EachSeq
<1>14. ASSUME NEW i \in DOMAIN adds
       PROVE  adds[i] = Err \/ IsAddColumn(adds[i], TableOf(m), m.cols[i])
  BY <1>6, ColumnFacts
<1>15. ASSUME NEW i \in DOMAIN cons
       PROVE  cons[i] = None \/ (cons[i].k = "constraint" /\ m.constraints[i].kind \in TableLevel)
  BY <1>7, ConstraintFacts
<1>16. ASSUME NEW i \in DOMAIN indexes
       PROVE  indexes[i] = Err \/ IsCreateIndex(indexes[i], m, m.indexes[i])
  BY <1>8, IndexFacts
<1>17. /\ heads \in Seq(U)
       /\ \A i \in DOMAIN adds : i \in DOMAIN heads /\ heads[i] = adds[i]
       /\ \A q \in DOMAIN heads : Has(cons, heads[q]) \/ (q \in DOMAIN adds /\ heads[q] = adds[q])
  <2>1. heads \in Seq(U)
    BY <1>3, <1>11, <1>12, ConcatElements
  <2>2. \A i \in DOMAIN adds : i \in DOMAIN heads /\ heads[i] = adds[i]
    BY <1>3, <1>11, <1>12, ConcatElements
  <2>3. \A q \in DOMAIN heads : Has(cons, heads[q]) \/ (q \in DOMAIN adds /\ heads[q] = adds[q])
    BY <1>3, <1>11, <1>12, ConcatElements
  <2> QED
    BY <2>1, <2>2, <2>3
<1>18. \A i \in DOMAIN heads : heads[i].k # "create_index"
  BY <1>14, <1>15, <1>17 DEF Has, Err, None, IsAddColumn
<1>19. ComesFrom(script, U, heads, indexes)
  BY <1>2, <1>4, <1>13, <1>17, <1>18, ScriptFacts
<1>20. ASSUME NEW st \in U, st # Err, st # None
       PROVE  /\ FromModel(dbType, m, st)
              /\ st.k \in {"add_column", "constraint", "create_index"}
  <2>1. ASSUME NEW i \in DOMAIN adds, st = adds[i]
        PROVE  FromModel(dbType, m, st) /\ st.k = "add_column"
    BY <1>6, <1>14, <1>20, <2>1 DEF FromModel, IsAddColumn
  <2>2. ASSUME NEW i \in DOMAIN cons, st = cons[i]
        PROVE  FromModel(dbType, m, st) /\ st.k = "constraint"
    BY <1>7, <1>15, <1>20, <2>2 DEF FromModel
  <2>3. ASSUME NEW i \in DOMAIN indexes, st = indexes[i]
        PROVE  FromModel(dbType, m, st) /\ st.k = "create_index"
    BY <1>8, <1>16, <1>20, <2>3 DEF FromModel, IsCreateIndex
  <2> QED
    BY <1>10, <2>1, <2>2, <2>3
<1>21. ASSUME NEW p \in DOMAIN script
       PROVE  /\ script[p].k \in {"fragment", "add_column", "constraint", "create_index"}
              /\ FromModel(dbType, m, script[p])
  <2>1. PICK v \in U \ {Err, None} : script[p] = FirstPiece(v)
    BY <1>19 DEF ComesFrom
  <2>2. FromModel(dbType, m, v) /\ v.k \in {"add_column", "constraint", "create_index"}
    BY <1>20
  <2> QED
    BY <2>1, <2>2, PieceFacts
<1>22. ASSUME NEW i \in DOMAIN m.cols
       PROVE  \E p \in DOMAIN script :
                /\ script[p].k = "fragment" \/ IsAddColumn(script[p], TableOf(m), m.cols[i])
                /\ BeforeIndexes(script, p)
  <2>1. i \in DOMAIN heads /\ heads[i] = adds[i]
    BY <1>6, <1>17
  <2>2. adds[i] # None
    BY <1>6, <1>14 DEF None, Err, IsAddColumn
  <2>3. /\ adds[i] # Err /\ i \in DOMAIN script /\ script[i] = FirstPiece(adds[i])
        /\ BeforeIndexes(script, i)
    BY <1>19, <2>1, <2>2 DEF ComesFrom, BeforeIndexes
  <2>4. IsAddColumn(adds[i], TableOf(m), m.cols[i])
    BY <1>6, <1>14, <2>3
  <2>5. script[i].k = "fragment" \/ IsAddColumn(script[i], TableOf(m), m.cols[i])
    BY <2>3, <2>4 DEF FirstPiece
  <2> QED
    BY <2>3, <2>5
<1>23. ASSUME NEW i \in DOMAIN m.indexes
       PROVE  \E p \in DOMAIN script : IsCreateIndex(script[p], m, m.indexes[i])
  <2> DEFINE st == indexes[i]
  <2>1. i \in DOMAIN indexes /\ st \in U /\ Has(indexes, st)
    BY <1>8, <1>9 DEF Has
  <2>2. st = Err \/ IsCreateIndex(st, m, m.indexes[i])
    BY <1>16, <2>1
  <2> HIDE DEF st
  <2>3. st # None
    BY <2>2 DEF None, Err, IsCreateIndex
  <2>4. st # Err /\ Has(script, FirstPiece(st))
    BY <1>19, <2>1, <2>3 DEF ComesFrom
  <2>5. FirstPiece(st) = st
    BY <1>20, <2>1, <2>2, <2>3, <2>4, PieceFacts DEF IsCreateIndex
  <2> QED
    BY <2>2, <2>4, <2>5 DEF Has
<1>24. DOMAIN script \subseteq Nat
  BY <1>19 DEF ComesFrom
<1> QED
  BY <1>21, <1>22, <1>23, <1>24 DEF script

NextCall(d, c) ==
    [phase |-> "enums", op |-> c.op, models |-> c.models, at |-> c.at + 1,
     script |-> EnumsSql(d, c.models[c.at + 1])]

\* NextModel begins the next model, or ends the call after the last.
LEMMA NextModelFacts ==
    ASSUME CallInv, dbType \in DbTypes, NEW t \in Tasks, call[t].phase # "idle",
           call[t].phase \notin {"enums", "enums_again"}, NextModel(t)
    PROVE  \E c : /\ call' = [call EXCEPT ![t] = c] /\ IsCall(c)
                  /\ \/ c = NextCall(dbType, call[t]) /\ back' = NoOne
                     \/ c = Idle /\ call[t].at = Len(call[t].models)
<1> DEFINE c == call[t]
           script == EnumsSql(dbType, c.models[c.at + 1])
           new == NextCall(dbType, c)
           once == [call EXCEPT ![t].at = c.at + 1]
           twice == [once EXCEPT ![t].phase = "enums"]
           thrice == [twice EXCEPT ![t].script = script]
<1>1. call = [u \in Tasks |-> call[u]]
  BY DEF CallInv
<1>2. IsCall(c) /\ c.at \in 1..Len(c.models) /\ Len(c.models) \in Nat
  BY ModelFacts
<1>3. CASE c.at < Len(c.models)
  <2>1. call' = [call EXCEPT ![t].at = @ + 1, ![t].phase = "enums", ![t].script = script] /\ back' = NoOne
    BY <1>3 DEF NextModel
  <2>2. call' = thrice
    BY <2>1
  <2>3. c = [phase |-> c.phase, op |-> c.op, models |-> c.models, at |-> c.at, script |-> c.script]
    BY <1>2 DEF IsCall
  <2>4. once[t] = [phase |-> c.phase, op |-> c.op, models |-> c.models, at |-> c.at + 1, script |-> c.script]
    BY <1>1, <2>3
  <2>5. twice[t] = [phase |-> "enums", op |-> c.op, models |-> c.models, at |-> c.at + 1, script |-> c.script]
    BY <1>1, <2>4
  <2>6. thrice[t] = new
    BY <1>1, <2>5 DEF NextCall
  <2>7. thrice = [call EXCEPT ![t] = thrice[t]]
    BY <1>1
  <2>8. IsScript(script) /\ Additive(script)
    BY EnumsScript
  <2>9. IsCall(new)
    <3>1. c.at + 1 \in DOMAIN c.models
      BY <1>2, <1>3, LenProperties DEF IsCall
    <3>2. /\ new.phase = "enums" /\ new.op = c.op /\ new.models = c.models /\ new.at = c.at + 1
          /\ new.script = script
          /\ new = [phase |-> new.phase, op |-> new.op, models |-> new.models, at |-> new.at,
                    script |-> new.script]
      BY DEF NextCall
    <3> HIDE DEF new, script
    <3> QED
      BY <1>2, <2>8, <3>1, <3>2 DEF IsCall, IsScript, Additive, Phases
  <2> HIDE DEF thrice, new
  <2>10. call' = [call EXCEPT ![t] = new] /\ IsCall(new) /\ back' = NoOne
    BY <2>1, <2>2, <2>6, <2>7, <2>9
  <2> QED
    BY <2>10 DEF new
<1>4. CASE ~(c.at < Len(c.models))
  <2>1. call' = [call EXCEPT ![t] = Idle]
    BY <1>4 DEF NextModel, Return
  <2>2. c.at = Len(c.models)
    BY <1>2, <1>4
  <2> QED
    BY <2>1, <2>2, IdleCall
<1> QED
  BY <1>3, <1>4

\* What a call becomes when all statements of a phase are executed.
LEMMA EndPhaseFacts ==
    ASSUME CallInv, dbType \in DbTypes, NEW t \in Tasks, EndPhase(t)
    PROVE  \E c : /\ call' = [call EXCEPT ![t] = c] /\ IsCall(c)
                  /\ \/ /\ call[t].phase = "enums" /\ CreateScript(dbType, Model(t)) # Err
                        /\ c = NewCall(call[t], "create", Split(CreateScript(dbType, Model(t))))
                        /\ back' = NoOne
                     \/ /\ call[t].phase = "enums_again" /\ AdditiveScript(Model(t)) # Err
                        /\ c = NewCall(call[t], "migrate", Split(AdditiveScript(Model(t))))
                        /\ back' = NoOne
                     \/ /\ c = Idle /\ back'.res = "Err" /\ back'.by = t /\ back'.op = call[t].op
                        /\ \/ call[t].phase = "enums" /\ CreateScript(dbType, Model(t)) = Err
                           \/ call[t].phase = "enums_again" /\ AdditiveScript(Model(t)) = Err
                     \/ /\ call[t].phase \notin {"enums", "enums_again"}
                        /\ c = NextCall(dbType, call[t]) /\ back' = NoOne
                     \/ /\ call[t].phase \notin {"enums", "enums_again"}
                        /\ c = Idle /\ call[t].at = Len(call[t].models)
<1> DEFINE create == CreateScript(dbType, Model(t))
           add == AdditiveScript(Model(t))
<1>1. call[t].phase # "idle"
  BY DEF EndPhase
<1>2. IsCall(call[t]) /\ Model(t) \in Descriptors
  BY <1>1, ModelFacts
<1>3. ASSUME Return(t, "Err")
      PROVE  /\ call' = [call EXCEPT ![t] = Idle] /\ IsCall(Idle)
             /\ back'.res = "Err" /\ back'.by = t /\ back'.op = call[t].op
  BY <1>3, IdleCall DEF Return
<1>4. CASE call[t].phase = "enums"
  <2>1. Generated(t, "create", create)
    BY <1>4 DEF EndPhase
  <2>2. CASE create = Err
    BY <1>3, <1>4, <2>1, <2>2 DEF Generated
  <2>3. CASE create # Err
    <3>1. Goes(t, "create", Split(create))
      BY <2>1, <2>3 DEF Generated
    <3>2. IsScript(Split(create)) /\ Additive(Split(create))
      BY <1>2, <2>3, CreateFacts DEF IsScript, Additive, Kinds, DropKinds
    <3> DEFINE c == NewCall(call[t], "create", Split(create))
    <3>3. IsCall(c)
      BY <1>1, <1>2, <3>2, ScriptCall
    <3>4. call' = [call EXCEPT ![t] = c] /\ back' = NoOne
      BY <3>1, GoesFacts
    <3> QED
      BY <1>4, <2>3, <3>3, <3>4
  <2> QED
    BY <2>2, <2>3
<1>5. CASE call[t].phase = "enums_again"
  <2>1. Generated(t, "migrate", add)
    BY <1>5 DEF EndPhase
  <2>2. CASE add = Err
    BY <1>3, <1>5, <2>1, <2>2 DEF Generated
  <2>3. CASE add # Err
    <3>1. Goes(t, "migrate", Split(add))
      BY <2>1, <2>3 DEF Generated
    <3>2. IsScript(Split(add)) /\ Additive(Split(add))
      BY <1>2, <2>3, AdditiveFacts DEF IsScript, Additive, Kinds, DropKinds
    <3> DEFINE c == NewCall(call[t], "migrate", Split(add))
    <3>3. call[t].op = "sync_schema"
      BY <1>2, <1>5 DEF IsCall
    <3>4. IsCall(c)
      BY <1>1, <1>2, <3>2, <3>3, ScriptCall
    <3>5. call' = [call EXCEPT ![t] = c] /\ back' = NoOne
      BY <3>1, GoesFacts
    <3> QED
      BY <1>5, <2>3, <3>4, <3>5
  <2> QED
    BY <2>2, <2>3
<1>6. CASE call[t].phase \notin {"enums", "enums_again"}
  <2>1. NextModel(t)
    BY <1>6 DEF EndPhase
  <2> QED
    BY <1>1, <1>6, <2>1, NextModelFacts
<1> QED
  BY <1>4, <1>5, <1>6

\* Calls that begin.
LEMMA BeginFacts ==
    ASSUME NEW t \in Tasks, NEW op, NEW ms \in Seq(Descriptors), ms # <<>>,
           NEW phase \in {"enums", "drop", "script"}, NEW script, IsScript(script),
           phase = "enums" => Additive(script), op = "sync_schema" => phase = "enums",
           NEW c, c = [phase |-> phase, op |-> op, models |-> ms, at |-> 1, script |-> script]
    PROVE  IsCall(c)
<1>1. 1 \in DOMAIN ms
  BY LenProperties, EmptySeq
<1>2. /\ c = [phase |-> c.phase, op |-> c.op, models |-> c.models, at |-> c.at, script |-> c.script]
      /\ c.phase = phase /\ c.op = op /\ c.models = ms /\ c.at = 1 /\ c.script = script
  OBVIOUS
<1> QED
  BY <1>1, <1>2 DEF IsCall, Phases, IsScript, Additive

-----------------------------------------------------------------------------
(* Steps.                                                                  *)

\* A schema has what it has.
LEMMA GrowsSelf == ASSUME NEW s PROVE Grows(s, s)
BY DEF Grows, HasTable

\* The types follow from the shape of the schema and of the calls.
LEMMA TypeFacts ==
    ASSUME dbType' \in Databases, Shape(schema'), CallInv',
           \A t \in Tasks : upset'[t] \subseteq Upsets, calls' \in 0..MaxCalls, faults' \in 0..MaxFaults
    PROVE  TypeOK'
<1>1. \A n \in DOMAIN schema'.tables : schema'.tables[n].key \in BOOLEAN
  BY DEF Shape
<1>2. \A x \in schema'.indexes :
        HasTable(schema', x.table) /\ x.cols \subseteq schema'.tables[x.table].cols
  BY DEF Shape
<1>3. \A t \in Tasks : IsCall(call'[t])
  BY DEF CallInv
<1>4. \A t \in Tasks :
        /\ call'[t].phase \in Phases
        /\ call'[t].phase # "idle" => call'[t].at \in DOMAIN call'[t].models
        /\ call'[t].phase \in {"enums_again", "migrate"} => call'[t].op = "sync_schema"
  BY <1>3 DEF IsCall
<1> QED
  BY <1>1, <1>2, <1>4 DEF TypeOK, HasTable

\* A step of t leaves the calls of the others on their way, unless it upsets
\* them.
LEMMA PutSync ==
    ASSUME SyncInv, CallInv, NEW t \in Tasks, NEW c, call' = [call EXCEPT ![t] = c], dbType' = dbType,
           \A u \in Tasks \ {t} : upset'[u] = {} /\ call[u].op = "sync_schema" =>
                upset[u] = {} /\ Grows(schema, schema'),
           c.op = "sync_schema" /\ upset'[t] = {} => OnItsWay(dbType, schema', c)
    PROVE  SyncInv'
<1> SUFFICES ASSUME NEW u \in Tasks, call'[u].op = "sync_schema", upset'[u] = {}
             PROVE  OnItsWay(dbType', schema', call'[u])
  BY DEF SyncInv
<1>1. call'[u] = IF u = t THEN c ELSE call[u]
  BY DEF CallInv
<1>2. CASE u = t
  BY <1>1, <1>2
<1>3. CASE u # t
  <2>1. call'[u] = call[u] /\ upset[u] = {} /\ Grows(schema, schema')
    BY <1>1, <1>3
  <2>2. OnItsWay(dbType, schema, call[u])
    BY <2>1 DEF SyncInv
  <2> QED
    BY <2>1, <2>2, StaysOnItsWay
<1> QED
  BY <1>2, <1>3

\* A script of the types is on its way to them.
LEMMA EnumsOnTheirWay ==
    ASSUME NEW d \in DbTypes, NEW s, NEW m, NEW c, c.script = EnumsSql(d, m),
           c.phase \in {"enums", "enums_again"}
    PROVE  OwnScript(d, c, m) /\ EnumsLeft(d, s, c, m)
<1> DEFINE script == EnumsSql(d, m)
<1>1. \A p \in DOMAIN script : script[p].k = "create_type"
  BY EnumsFacts
<1>2. d = "postgres" /\ (\E i \in DOMAIN m.cols : m.cols[i].type = "enum") =>
        \E p \in DOMAIN script : script[p].k = "create_type" /\ script[p].name = <<m.schema, "enum">>
  BY EnumsFacts
<1>3. c.script = script
  OBVIOUS
<1> HIDE DEF script
<1>4. OwnScript(d, c, m)
  BY <1>1, <1>3 DEF OwnScript, KindsOf
<1>5. EnumsLeft(d, s, c, m)
  BY <1>2, <1>3 DEF EnumsLeft
<1> QED
  BY <1>4, <1>5

\* A call that begins keeps the invariant.
LEMMA BeginStep ==
    ASSUME SchemaInv, NEW t \in Tasks, NEW op, NEW ms \in Seq(Descriptors), ms # <<>>,
           NEW phase \in {"enums", "drop", "script"}, NEW script, IsScript(script),
           phase = "enums" => Additive(script),
           op = "sync_schema" => phase = "enums" /\ script = EnumsSql(dbType, ms[1]),
           Begin(t, op, ms, phase, script)
    PROVE  SchemaInv'
<1> DEFINE c == [phase |-> phase, op |-> op, models |-> ms, at |-> 1, script |-> script]
<1>1. IsCall(c)
  BY BeginFacts
<1>2. TypeOK /\ Shape(schema) /\ CallInv /\ SyncInv
  BY DEF SchemaInv
<1>3. /\ call' = [call EXCEPT ![t] = c] /\ upset' = [upset EXCEPT ![t] = {}]
      /\ dbType' = dbType /\ schema' = schema /\ faults' = faults
      /\ calls < MaxCalls /\ calls' = calls + 1
  BY DEF Begin
<1>4. upset' = [u \in Tasks |-> upset'[u]] /\ \A u \in Tasks : upset'[u] = IF u = t THEN {} ELSE upset[u]
  BY <1>2, <1>3 DEF CallInv
<1> DEFINE m == ms[1]
<1>5. /\ c.phase = phase /\ c.op = op /\ c.models = ms /\ c.at = 1 /\ c.script = script
      /\ c.models[c.at] = m
  OBVIOUS
<1> HIDE DEF c, m
<1>6. ASSUME c.op = "sync_schema" PROVE OnItsWay(dbType, schema', c)
  <2>1. dbType \in DbTypes /\ c.phase = "enums" /\ c.script = EnumsSql(dbType, m)
    BY <1>2, <1>5, <1>6, DatabasesAssumption DEF TypeOK, m
  <2>2. OwnScript(dbType, c, m) /\ EnumsLeft(dbType, schema', c, m)
    BY <2>1, EnumsOnTheirWay
  <2>3. \A i \in DOMAIN c.models : ~(i < c.at)
    BY <1>5, LenProperties
  <2>4. PhaseLeft(dbType, schema', c, m)
    BY <2>1 DEF PhaseLeft
  <2> QED
    BY <1>5, <2>1, <2>2, <2>3, <2>4 DEF OnItsWay
<1>7. CallInv'
  BY <1>1, <1>2, <1>3, <1>4, PutCall
<1>8. SyncInv'
  BY <1>2, <1>3, <1>4, <1>6, GrowsSelf, PutSync
<1>9. calls' \in 0..MaxCalls
  BY <1>2, <1>3, BoundsAssumption DEF TypeOK
<1>10. TypeOK'
  BY <1>2, <1>3, <1>4, <1>7, <1>9, TypeFacts DEF TypeOK
<1> QED
  BY <1>2, <1>3, <1>7, <1>8, <1>10 DEF SchemaInv

\* So does the application's own migration,
LEMMA MigrateStep ==
    ASSUME SchemaInv, NEW t \in Tasks, NEW from \in Descriptors, NEW to \in Descriptors, MigrateOwn(t, from, to)
    PROVE  SchemaInv'
<1> DEFINE script == MigrationScript(dbType, from, to)
<1>1. script # Err /\ Begin(t, "migration", <<to>>, "script", Split(script))
  BY DEF MigrateOwn
<1>2. dbType \in DbTypes
  BY DatabasesAssumption DEF SchemaInv, TypeOK
<1> DEFINE all == Split(MigrationScript(dbType, from, to))
<1>3. IsScript(all)
  <2> HIDE DEF all
  <2>1. all = Split(MigrationScript(dbType, from, to)) /\ MigrationScript(dbType, from, to) # Err
    BY <1>1 DEF all
  <2> QED
    BY <1>2, <2>1, MigrationFacts DEF IsScript
<1> DEFINE ms == <<to>>
<1>4. ms \in Seq(Descriptors) /\ ms # <<>>
  OBVIOUS
<1>5. Begin(t, "migration", ms, "script", all)
  BY <1>1
<1> HIDE DEF script, all, ms
<1> QED
  BY <1>3, <1>4, <1>5, BeginStep

\* drop_model,
LEMMA DropStep ==
    ASSUME SchemaInv, NEW t \in Tasks, NEW m \in Descriptors, DropModel(t, m)
    PROVE  SchemaInv'
<1> DEFINE st == DropScript(dbType, TableOf(m))
<1>1. dbType \in DbTypes
  BY DatabasesAssumption DEF SchemaInv, TypeOK
<1>2. st.k = "drop_table"
  BY <1>1, OtherFacts DEF DropScript
<1> HIDE DEF st
<1> DEFINE ms == <<m>>
           script == <<st>>
<1>3. IsScript(script)
  BY <1>2 DEF IsScript, Kinds
<1>4. ms \in Seq(Descriptors) /\ ms # <<>>
  OBVIOUS
<1>5. Begin(t, "drop_model", ms, "drop", script)
  BY DEF DropModel, st
<1> HIDE DEF ms, script
<1> QED
  BY <1>3, <1>4, <1>5, BeginStep

\* and sync_schema or apply_model.
LEMMA EnumsStep ==
    ASSUME SchemaInv, NEW t \in Tasks, NEW op, NEW ms \in Seq(Descriptors), ms # <<>>,
           Begin(t, op, ms, "enums", EnumsSql(dbType, ms[1]))
    PROVE  SchemaInv'
<1>1. dbType \in DbTypes
  BY DatabasesAssumption DEF SchemaInv, TypeOK
<1> DEFINE script == EnumsSql(dbType, ms[1])
<1>2. IsScript(script) /\ Additive(script)
  BY <1>1, EnumsScript
<1> HIDE DEF script
<1>3. Begin(t, op, ms, "enums", script)
  BY DEF script
<1>4. script = EnumsSql(dbType, ms[1])
  BY DEF script
<1> QED
  BY <1>2, <1>3, <1>4, BeginStep

\* A statement of t that drops something upsets the others.
LEMMA UpsetFacts ==
    ASSUME CallInv, TypeOK, NEW t \in Tasks, NEW st, NEW own, own \subseteq Upsets, Upset(t, st, own)
    PROVE  /\ upset' = [u \in Tasks |-> upset'[u]]
           /\ \A u \in Tasks : upset'[u] \subseteq Upsets
           /\ upset'[t] = upset[t] \union own
           /\ \A u \in Tasks \ {t} : upset'[u] = {} =>
                upset[u] = {} /\ (call[u].phase = "idle" \/ st.k \notin DropKinds)
<1>1. \A u \in Tasks : upset[u] \subseteq Upsets
  BY DEF TypeOK
<1>2. upset' = [u \in Tasks |->
        IF u = t THEN upset[u] \union own
        ELSE IF call[u].phase # "idle" /\ Drops(st) THEN upset[u] \union {"dropped"}
        ELSE upset[u]]
  BY DEF Upset
<1>3. Drops(st) <=> st.k \in DropKinds
  BY DEF Drops, DropKinds
<1>4. \A u \in Tasks \ {t} :
        \/ upset'[u] = upset[u] \union {"dropped"}
        \/ upset'[u] = upset[u] /\ (call[u].phase = "idle" \/ st.k \notin DropKinds)
  BY <1>2, <1>3
<1>5. upset' = [u \in Tasks |-> upset'[u]] /\ upset'[t] = upset[t] \union own
  BY <1>2
<1>6. ASSUME NEW u \in Tasks PROVE upset'[u] \subseteq Upsets
  BY <1>1, <1>4, <1>5 DEF Upsets
<1>7. ASSUME NEW u \in Tasks \ {t}, upset'[u] = {}
      PROVE  upset[u] = {} /\ (call[u].phase = "idle" \/ st.k \notin DropKinds)
  BY <1>4, <1>7
<1> QED
  BY <1>5, <1>6, <1>7

\* The effect of a statement that is accepted.
LEMMA EffectFacts ==
    ASSUME SchemaInv, NEW t \in Tasks, Waiting(t), Answer(dbType, schema, Current(t)) = "ok",
           schema' = After(schema, Current(t))
    PROVE  Shape(schema') /\ (Current(t).k \notin DropKinds => Grows(schema, schema'))
<1>1. dbType \in DbTypes
  BY DatabasesAssumption DEF SchemaInv, TypeOK
<1>2. Current(t).k \in Kinds
  BY CurrentFacts DEF SchemaInv
<1> QED
  BY <1>1, <1>2, Executed DEF SchemaInv

\* sync_schema goes on with the rest of its script.
LEMMA GoesOn ==
    ASSUME SchemaInv, NEW t \in Tasks, Waiting(t), call[t].op = "sync_schema", upset[t] = {},
           NEW a, a = Answer(dbType, schema, Current(t)), a \in {"ok", "exists", "table_exists"},
           ~(a = "table_exists" /\ call[t].phase = "create" /\ Current(t).k = "create_table"),
           \/ a = "ok" /\ schema' = After(schema, Current(t))
           \/ a # "ok" /\ schema' = schema,
           NEW c, c = NewCall(call[t], call[t].phase, Rest(t))
    PROVE  OnItsWay(dbType, schema', c)
<1> DEFINE m == call[t].models[call[t].at]
<1>1. dbType \in DbTypes /\ CallInv /\ Shape(schema)
  BY DatabasesAssumption DEF SchemaInv, TypeOK
<1>2. /\ Place(t) \in DOMAIN call[t].script /\ Current(t) = call[t].script[Place(t)]
      /\ Current(t).k \in Kinds /\ Current(t).k \notin DropKinds
  BY <1>1, CurrentFacts
<1>3. OnItsWay(dbType, schema, call[t])
  BY DEF SchemaInv, SyncInv
<1> HIDE DEF m
<1>4. CASE a = "ok"
  <2>1. Met(dbType, schema', m, Current(t)) /\ TableMet(schema', m, Current(t))
    BY <1>1, <1>2, <1>4, OkMeets
  <2>2. Grows(schema, schema')
    BY <1>2, <1>4, EffectFacts
  <2>3. OnItsWay(dbType, schema', call[t])
    BY <1>3, <2>2, StaysOnItsWay
  <2> QED
    BY <1>2, <2>1, <2>3, RestOnItsWay DEF Rest, m
<1>5. CASE a \in {"exists", "table_exists"}
  <2>1. /\ Met(dbType, schema, m, Current(t))
        /\ a = "table_exists" => Current(t).k = "create_table"
        /\ a = "exists" => Current(t).k # "create_table" \/ RepeatsName(dbType, Current(t))
    BY <1>1, <1>2, <1>5, ExistsMeets
  <2>2. ASSUME call[t].phase = "create", ~Named(dbType, m) PROVE TableMet(schema, m, Current(t))
    <3>1. FromModel(dbType, m, Current(t))
      BY <1>2, <1>3, <2>2 DEF OnItsWay, OwnScript, m
    <3>2. Current(t).k = "create_table" => ~RepeatsName(dbType, Current(t))
      BY <2>2, <3>1 DEF FromModel, Named
    <3> QED
      BY <1>5, <2>1, <2>2, <3>2 DEF TableMet, IsCreateTable
  <2>3. schema' = schema
    BY <1>5
  <2>4. OnItsWay(dbType, schema, c)
    BY <1>2, <1>3, <2>1, <2>2, RestOnItsWay DEF Rest, m
  <2> QED
    BY <2>3, <2>4
<1> QED
  BY <1>4, <1>5

\* A statement that is executed, or refused, keeps the invariant: if it goes
\* on, the statement has done what it is for or it was done before.
LEMMA ExecuteStep ==
    ASSUME SchemaInv, NEW t \in Tasks, Execute(t)
    PROVE  SchemaInv'
<1> DEFINE a == Answer(dbType, schema, Current(t))
<1>1. TypeOK /\ Shape(schema) /\ CallInv /\ SyncInv /\ dbType \in DbTypes
  BY DatabasesAssumption DEF SchemaInv, TypeOK
<1>2. /\ Waiting(t) /\ Handle(t, a) /\ dbType' = dbType /\ calls' = calls /\ faults' = faults
      /\ schema' = IF a = "ok" THEN After(schema, Current(t)) ELSE schema
      /\ \/ a = "ok" /\ Upset(t, Current(t), {})
         \/ a # "ok" /\ upset' = upset
  BY DEF Execute
<1>3. a = Answer(dbType, schema, Current(t))
  OBVIOUS
<1> HIDE DEF a
<1>4. PICK c : /\ call' = [call EXCEPT ![t] = c] /\ IsCall(c)
               /\ \/ /\ c = NewCall(call[t], call[t].phase, Rest(t))
                     /\ a \in {"ok", "exists", "table_exists"}
                     /\ ~(a = "table_exists" /\ call[t].phase = "create" /\ Current(t).k = "create_table")
                  \/ c = Idle
                  \/ /\ c = NewCall(call[t], "enums_again", EnumsSql(dbType, Model(t)))
                     /\ a = "table_exists" /\ call[t].phase = "create"
                     /\ Current(t).k = "create_table"
  <2>1. Current(t).k \in Kinds
    BY <1>1, <1>2, CurrentFacts
  <2>2. a # "duplicate"
    BY <1>3, <2>1, Answers
  <2> QED
    BY <1>1, <1>2, <2>2, HandleFacts
<1>5. /\ upset' = [u \in Tasks |-> upset'[u]] /\ \A u \in Tasks : upset'[u] \subseteq Upsets
      /\ upset'[t] = upset[t]
      /\ \A u \in Tasks \ {t} : upset'[u] = {} =>
            upset[u] = {} /\ (a # "ok" \/ call[u].phase = "idle" \/ Current(t).k \notin DropKinds)
  <2>1. CASE a = "ok" /\ Upset(t, Current(t), {})
    <3> DEFINE own == {}
               st == Current(t)
    <3>1. own \subseteq Upsets /\ upset[t] \union own = upset[t] /\ Upset(t, st, own)
      BY <2>1
    <3> HIDE DEF own, st
    <3>2. /\ upset' = [u \in Tasks |-> upset'[u]] /\ \A u \in Tasks : upset'[u] \subseteq Upsets
          /\ upset'[t] = upset[t] \union own
          /\ \A u \in Tasks \ {t} : upset'[u] = {} =>
                upset[u] = {} /\ (call[u].phase = "idle" \/ st.k \notin DropKinds)
      BY <1>1, <3>1, UpsetFacts
    <3> QED
      BY <3>1, <3>2 DEF st
  <2>2. CASE a # "ok" /\ upset' = upset
    BY <1>1, <2>2 DEF CallInv, TypeOK
  <2> QED
    BY <1>2, <2>1, <2>2
<1>6. /\ Shape(schema')
      /\ schema' = schema \/ (a = "ok" /\ (Current(t).k \notin DropKinds => Grows(schema, schema')))
  <2>1. CASE a = "ok"
    BY <1>2, <2>1, EffectFacts DEF a
  <2>2. CASE a # "ok"
    BY <1>1, <1>2, <2>2
  <2> QED
    BY <2>1, <2>2
<1>7. CallInv'
  BY <1>1, <1>4, <1>5, PutCall
<1>8. ASSUME NEW u \in Tasks \ {t}, upset'[u] = {}, call[u].op = "sync_schema"
      PROVE  upset[u] = {} /\ Grows(schema, schema')
  <2>1. call[u].phase # "idle"
    BY <1>1, <1>8 DEF CallInv, IsCall
  <2> QED
    BY <1>5, <1>6, <1>8, <2>1, GrowsSelf
<1>9. ASSUME c.op = "sync_schema", upset'[t] = {} PROVE OnItsWay(dbType, schema', c)
  <2>1. upset[t] = {}
    BY <1>5, <1>9
  <2>2. CASE /\ c = NewCall(call[t], call[t].phase, Rest(t))
             /\ a \in {"ok", "exists", "table_exists"}
             /\ ~(a = "table_exists" /\ call[t].phase = "create" /\ Current(t).k = "create_table")
    <3>1. call[t].op = "sync_schema"
      BY <1>9, <2>2 DEF NewCall
    <3>2. \/ a = "ok" /\ schema' = After(schema, Current(t))
          \/ a # "ok" /\ schema' = schema
      BY <1>2
    <3> QED
      BY <1>3, <1>2, <2>1, <2>2, <3>1, <3>2, GoesOn
  <2>3. CASE c = Idle
    BY <1>9, <2>3 DEF Idle
  <2>4. CASE /\ c = NewCall(call[t], "enums_again", EnumsSql(dbType, Model(t)))
             /\ a = "table_exists" /\ call[t].phase = "create" /\ Current(t).k = "create_table"
    <3> DEFINE m == call[t].models[call[t].at]
    <3>1. c.op = call[t].op /\ c.phase = "enums_again" /\ c.models = call[t].models /\ c.at = call[t].at
      BY <2>4 DEF NewCall
    <3>2. OnItsWay(dbType, schema, call[t])
      BY <1>1, <1>9, <2>1, <3>1 DEF SyncInv
    <3>3. Current(t).k \in Kinds /\ Place(t) \in DOMAIN call[t].script /\ Current(t) = call[t].script[Place(t)]
      BY <1>1, <1>2, CurrentFacts
    <3>4. (HasTable(schema, Current(t).table) \/ RepeatsName(dbType, Current(t))) /\ schema' = schema
      BY <1>1, <1>2, <2>4, <3>3, ExistsMeets DEF a
    <3>5. Model(t) = m /\ m \in Descriptors
      BY <1>1, <2>4, ModelFacts
    <3> HIDE DEF m
    <3>6. Current(t).table = TableOf(m) /\ Current(t) = CreateTableSql(dbType, m)
      <4>1. FromModel(dbType, m, Current(t))
        BY <2>4, <3>2, <3>3 DEF OnItsWay, OwnScript, m
      <4>2. Current(t) = CreateTableSql(dbType, m) /\ Current(t) # Err
        BY <2>4, <4>1 DEF FromModel, Err
      <4>3. IsCreateTable(Current(t), m)
        BY <1>1, <3>5, <4>2, CreateTableFacts
      <4> QED
        BY <4>2, <4>3 DEF IsCreateTable
    <3>7. c.script = EnumsSql(dbType, m)
      BY <2>4, <3>5 DEF NewCall
    <3>8. OwnScript(dbType, c, m) /\ EnumsLeft(dbType, schema, c, m)
      BY <1>1, <3>1, <3>7, EnumsOnTheirWay
    <3>9. ~Named(dbType, m) => PhaseLeft(dbType, schema, c, m)
      BY <3>1, <3>4, <3>6 DEF Named, PhaseLeft
    <3> QED
      BY <3>1, <3>2, <3>4, <3>8, <3>9 DEF OnItsWay, m
  <2> QED
    BY <1>4, <2>2, <2>3, <2>4
<1>10. SyncInv'
  BY <1>1, <1>2, <1>4, <1>8, <1>9, PutSync
<1>11. TypeOK'
  BY <1>1, <1>2, <1>5, <1>6, <1>7, TypeFacts DEF TypeOK
<1> QED
  BY <1>6, <1>7, <1>10, <1>11 DEF SchemaInv

\* Two tasks that race for a table in PostgreSQL: the call is upset.
LEMMA RaceStep ==
    ASSUME SchemaInv, NEW t \in Tasks, Race(t)
    PROVE  SchemaInv'
<1>1. TypeOK /\ Shape(schema) /\ CallInv /\ SyncInv /\ dbType \in DbTypes
  BY DatabasesAssumption DEF SchemaInv, TypeOK
<1>2. /\ Waiting(t) /\ Handle(t, "exists") /\ upset' = [upset EXCEPT ![t] = @ \union {"raced"}]
      /\ dbType' = dbType /\ schema' = schema /\ calls' = calls /\ faults' = faults
  BY DEF Race
<1>3. PICK c : call' = [call EXCEPT ![t] = c] /\ IsCall(c)
  BY <1>1, <1>2, HandleFacts
<1>4. /\ upset' = [u \in Tasks |-> upset'[u]] /\ upset'[t] = upset[t] \union {"raced"}
      /\ \A u \in Tasks \ {t} : upset'[u] = upset[u]
  BY <1>1, <1>2 DEF CallInv
<1>5. \A u \in Tasks : upset'[u] \subseteq Upsets
  BY <1>1, <1>4 DEF TypeOK, Upsets
<1>6. CallInv'
  BY <1>1, <1>3, <1>4, PutCall
<1>7. SyncInv'
  BY <1>1, <1>2, <1>3, <1>4, GrowsSelf, PutSync
<1>8. TypeOK'
  BY <1>1, <1>2, <1>5, <1>6, TypeFacts DEF TypeOK
<1> QED
  BY <1>1, <1>2, <1>6, <1>7, <1>8 DEF SchemaInv

\* So is the call for whose statement rows are in the way.
LEMMA DuplicatesStep ==
    ASSUME SchemaInv, NEW t \in Tasks, Duplicates(t)
    PROVE  SchemaInv'
<1>1. TypeOK /\ Shape(schema) /\ CallInv /\ SyncInv /\ dbType \in DbTypes
  BY DatabasesAssumption DEF SchemaInv, TypeOK
<1>2. /\ Waiting(t) /\ Handle(t, AnswerToDuplicates(dbType))
      /\ upset' = [upset EXCEPT ![t] = @ \union {"duplicates"}]
      /\ dbType' = dbType /\ schema' = schema /\ calls' = calls /\ faults' = faults
  BY DEF Duplicates
<1>3. PICK c : call' = [call EXCEPT ![t] = c] /\ IsCall(c)
  BY <1>1, <1>2, HandleFacts
<1>4. /\ upset' = [u \in Tasks |-> upset'[u]] /\ upset'[t] = upset[t] \union {"duplicates"}
      /\ \A u \in Tasks \ {t} : upset'[u] = upset[u]
  BY <1>1, <1>2 DEF CallInv
<1>5. \A u \in Tasks : upset'[u] \subseteq Upsets
  BY <1>1, <1>4 DEF TypeOK, Upsets
<1>6. CallInv'
  BY <1>1, <1>3, <1>4, PutCall
<1>7. SyncInv'
  BY <1>1, <1>2, <1>3, <1>4, GrowsSelf, PutSync
<1>8. TypeOK'
  BY <1>1, <1>2, <1>5, <1>6, TypeFacts DEF TypeOK
<1> QED
  BY <1>1, <1>2, <1>6, <1>7, <1>8 DEF SchemaInv

\* A statement that fails upsets its own call, and others if it has dropped
\* something.
LEMMA FaultStep ==
    ASSUME SchemaInv, NEW t \in Tasks, Fault(t)
    PROVE  SchemaInv'
<1>1. TypeOK /\ Shape(schema) /\ CallInv /\ SyncInv /\ dbType \in DbTypes
  BY DatabasesAssumption DEF SchemaInv, TypeOK
<1>2. /\ Waiting(t) /\ Handle(t, "error") /\ Upset(t, Current(t), {"failed"})
      /\ dbType' = dbType /\ calls' = calls /\ faults < MaxFaults /\ faults' = faults + 1
      /\ \/ schema' = schema
         \/ Answer(dbType, schema, Current(t)) = "ok" /\ schema' = After(schema, Current(t))
  BY DEF Fault
<1>3. PICK c : call' = [call EXCEPT ![t] = c] /\ IsCall(c)
  BY <1>1, <1>2, HandleFacts
<1>4. {"failed"} \subseteq Upsets
  BY DEF Upsets
<1>5. /\ upset' = [u \in Tasks |-> upset'[u]] /\ \A u \in Tasks : upset'[u] \subseteq Upsets
      /\ upset'[t] = upset[t] \union {"failed"}
      /\ \A u \in Tasks \ {t} : upset'[u] = {} =>
            upset[u] = {} /\ (call[u].phase = "idle" \/ Current(t).k \notin DropKinds)
  BY <1>1, <1>2, <1>4, UpsetFacts
<1>6. Shape(schema') /\ (Current(t).k \notin DropKinds => Grows(schema, schema'))
  BY <1>1, <1>2, EffectFacts, GrowsSelf
<1>7. ASSUME NEW u \in Tasks \ {t}, upset'[u] = {}, call[u].op = "sync_schema"
      PROVE  upset[u] = {} /\ Grows(schema, schema')
  <2>1. call[u].phase # "idle"
    BY <1>1, <1>7 DEF CallInv, IsCall
  <2> QED
    BY <1>5, <1>6, <1>7, <2>1
<1>8. CallInv'
  BY <1>1, <1>3, <1>5, PutCall
<1>9. upset'[t] # {}
  BY <1>5
<1>10. SyncInv'
  BY <1>1, <1>2, <1>3, <1>7, <1>9, PutSync
<1>11. faults' \in 0..MaxFaults
  BY <1>1, <1>2, BoundsAssumption DEF TypeOK
<1>12. TypeOK'
  BY <1>1, <1>2, <1>5, <1>6, <1>8, <1>11, TypeFacts DEF TypeOK
<1> QED
  BY <1>6, <1>8, <1>10, <1>12 DEF SchemaInv

-----------------------------------------------------------------------------
(* The invariant, and sync_schema that returns Ok.                         *)

\* The end of a phase leaves the call on its way, and sync_schema does not
\* come to the next model, or to the end, before the model is complete.
LEMMA EndSync ==
    ASSUME SchemaInv, NEW t \in Tasks, call[t].op = "sync_schema", upset[t] = {}, ~Waiting(t),
           call[t].phase \notin {"idle", "enums", "enums_again"}
    PROVE  \A i \in DOMAIN call[t].models : i <= call[t].at => DoneIn(dbType, schema, call[t].models[i])
<1>1. CallInv /\ OnItsWay(dbType, schema, call[t])
  BY DEF SchemaInv, SyncInv
<1>2. call[t].at \in 1..Len(call[t].models) /\ Len(call[t].models) \in Nat /\ IsCall(call[t])
  BY <1>1, ModelFacts
<1>3. call[t].phase \in {"create", "migrate"}
  BY <1>2 DEF IsCall
<1>4. DOMAIN call[t].script = {}
  BY DEF Waiting
<1>5. DoneIn(dbType, schema, call[t].models[call[t].at])
  BY <1>1, <1>3, <1>4, EndOnItsWay
<1>6. \A i \in DOMAIN call[t].models : i < call[t].at => DoneIn(dbType, schema, call[t].models[i])
  BY <1>1 DEF OnItsWay
<1>7. DOMAIN call[t].models \subseteq Nat
  BY <1>2, LenProperties DEF IsCall
<1> QED
  BY <1>2, <1>5, <1>6, <1>7

\* When the statements of the types are executed, they are known.
LEMMA EnumsDone ==
    ASSUME NEW d, NEW s, NEW b, OnItsWay(d, s, b), DOMAIN b.script = {},
           NEW c, NEW m, m = b.models[b.at]
    PROVE  EnumsLeft(d, s, c, m)
BY DEF OnItsWay, EnumsLeft

\* The end of a phase keeps the invariant: the next script has what the model
\* asks for.
LEMMA EndPhaseStep ==
    ASSUME SchemaInv, NEW t \in Tasks, EndPhase(t)
    PROVE  SchemaInv'
<1> DEFINE create == CreateScript(dbType, Model(t))
           add == AdditiveScript(Model(t))
           m == call[t].models[call[t].at]
<1>1. TypeOK /\ Shape(schema) /\ CallInv /\ SyncInv /\ dbType \in DbTypes
  BY DatabasesAssumption DEF SchemaInv, TypeOK
<1>2. /\ call[t].phase # "idle" /\ ~Waiting(t)
      /\ dbType' = dbType /\ schema' = schema /\ upset' = upset /\ calls' = calls /\ faults' = faults
  BY DEF EndPhase
<1>3. PICK c : /\ call' = [call EXCEPT ![t] = c] /\ IsCall(c)
               /\ \/ call[t].phase = "enums" /\ create # Err /\ c = NewCall(call[t], "create", Split(create))
                  \/ call[t].phase = "enums_again" /\ add # Err /\ c = NewCall(call[t], "migrate", Split(add))
                  \/ c = Idle
                  \/ call[t].phase \notin {"enums", "enums_again"} /\ c = NextCall(dbType, call[t])
  BY <1>1, EndPhaseFacts
<1>4. /\ IsCall(call[t]) /\ Model(t) = m /\ m \in Descriptors
      /\ call[t].at \in 1..Len(call[t].models) /\ Len(call[t].models) \in Nat
  BY <1>1, <1>2, ModelFacts
<1> HIDE DEF create, add, m
<1>5. upset' = [u \in Tasks |-> upset'[u]] /\ \A u \in Tasks : upset'[u] \subseteq Upsets
  BY <1>1, <1>2 DEF CallInv, TypeOK
<1>6. CallInv'
  BY <1>1, <1>3, <1>5, PutCall
<1>7. ASSUME c.op = "sync_schema", upset'[t] = {} PROVE OnItsWay(dbType, schema', c)
  <2>1. ASSUME call[t].op = "sync_schema" PROVE OnItsWay(dbType, schema, call[t])
    BY <1>1, <1>2, <1>7, <2>1 DEF SyncInv
  <2>2. CASE call[t].phase = "enums" /\ create # Err /\ c = NewCall(call[t], "create", Split(create))
    <3>1. /\ c.op = call[t].op /\ c.phase = "create" /\ c.models = call[t].models
          /\ c.at = call[t].at /\ c.script = Split(create)
      BY <2>2 DEF NewCall
    <3>2. create = CreateScript(dbType, m)
      BY <1>4 DEF create
    <3>3. /\ \A p \in DOMAIN c.script :
                /\ c.script[p].k \in {"fragment", "create_table", "create_index"}
                /\ FromModel(dbType, m, c.script[p])
          /\ \E p \in DOMAIN c.script :
                (c.script[p].k = "fragment" \/ IsCreateTable(c.script[p], m)) /\ BeforeIndexes(c.script, p)
          /\ \A i \in DOMAIN m.indexes : \E p \in DOMAIN c.script :
                IsCreateIndex(c.script[p], m, m.indexes[i])
      BY <1>1, <1>4, <2>2, <3>1, <3>2, CreateFacts
    <3>4. TableLeft(schema, c, m) /\ IndexesLeft(dbType, schema, c, m) /\ OwnScript(dbType, c, m)
      BY <3>1, <3>3 DEF TableLeft, IndexesLeft, OwnScript, KindsOf
    <3>5. EnumsLeft(dbType, schema, c, m)
      BY <1>2, <1>7, <2>1, <3>1, EnumsDone DEF m, Waiting
    <3>6. PhaseLeft(dbType, schema, c, m)
      BY <3>1, <3>4 DEF PhaseLeft
    <3> QED
      BY <1>2, <1>7, <2>1, <3>1, <3>4, <3>5, <3>6 DEF OnItsWay, m
  <2>3. CASE call[t].phase = "enums_again" /\ add # Err /\ c = NewCall(call[t], "migrate", Split(add))
    <3>1. /\ c.op = call[t].op /\ c.phase = "migrate" /\ c.models = call[t].models
          /\ c.at = call[t].at /\ c.script = Split(add)
      BY <2>3 DEF NewCall
    <3>2. add = AdditiveScript(m)
      BY <1>4 DEF add
    <3>3. /\ \A p \in DOMAIN c.script :
                /\ c.script[p].k \in {"fragment", "add_column", "constraint", "create_index"}
                /\ FromModel(dbType, m, c.script[p])
          /\ \A i \in DOMAIN m.cols : \E p \in DOMAIN c.script :
                /\ c.script[p].k = "fragment" \/ IsAddColumn(c.script[p], TableOf(m), m.cols[i])
                /\ BeforeIndexes(c.script, p)
          /\ \A i \in DOMAIN m.indexes : \E p \in DOMAIN c.script :
                IsCreateIndex(c.script[p], m, m.indexes[i])
      BY <1>1, <1>4, <2>3, <3>1, <3>2, AdditiveFacts
    <3>4. ColumnsLeft(schema, c, m) /\ IndexesLeft(dbType, schema, c, m) /\ OwnScript(dbType, c, m)
      BY <3>1, <3>3 DEF ColumnsLeft, IndexesLeft, OwnScript, KindsOf
    <3>5. EnumsLeft(dbType, schema, c, m)
      BY <1>2, <1>7, <2>1, <3>1, EnumsDone DEF m, Waiting
    <3>6. OnItsWay(dbType, schema, call[t])
      BY <1>7, <2>1, <3>1
    <3>7. Named(dbType, m) \/ HasTable(schema, TableOf(m))
      BY <2>3, <3>6 DEF OnItsWay, PhaseLeft, m
    <3>8. ~Named(dbType, m) => PhaseLeft(dbType, schema, c, m)
      BY <3>1, <3>4, <3>7 DEF PhaseLeft
    <3> QED
      BY <1>2, <3>1, <3>4, <3>5, <3>6, <3>8 DEF OnItsWay, m
  <2>4. CASE c = Idle
    BY <1>7, <2>4 DEF Idle
  <2>5. CASE call[t].phase \notin {"enums", "enums_again"} /\ c = NextCall(dbType, call[t])
    <3>1. c.op = call[t].op /\ c.phase = "enums" /\ c.models = call[t].models /\ c.at = call[t].at + 1
      BY <2>5 DEF NextCall
    <3>2. \A i \in DOMAIN call[t].models :
            i <= call[t].at => DoneIn(dbType, schema, call[t].models[i])
      BY <1>2, <1>7, <2>5, <3>1, EndSync
    <3>3. DOMAIN call[t].models \subseteq Nat
      BY <1>4, LenProperties DEF IsCall
    <3>4. \A i \in DOMAIN c.models : i < c.at => DoneIn(dbType, schema, c.models[i])
      BY <1>4, <3>1, <3>2, <3>3
    <3> DEFINE next == c.models[c.at]
    <3>5. c.script = EnumsSql(dbType, next)
      BY <2>5, <3>1 DEF NextCall
    <3> HIDE DEF next
    <3>6. OwnScript(dbType, c, next) /\ EnumsLeft(dbType, schema, c, next)
      BY <1>1, <3>1, <3>5, EnumsOnTheirWay
    <3>7. PhaseLeft(dbType, schema, c, next)
      BY <3>1 DEF PhaseLeft
    <3> QED
      BY <1>2, <3>1, <3>4, <3>6, <3>7 DEF OnItsWay, next
  <2> QED
    BY <1>3, <2>2, <2>3, <2>4, <2>5
<1>8. SyncInv'
  BY <1>1, <1>2, <1>3, <1>7, GrowsSelf, PutSync
<1>9. TypeOK'
  BY <1>1, <1>2, <1>5, <1>6, TypeFacts DEF TypeOK
<1> QED
  BY <1>1, <1>2, <1>6, <1>8, <1>9 DEF SchemaInv

\* Models are taken from lists of descriptors.
LEMMA ModelsAreDescriptors ==
    /\ \A ms \in Lists : ms \in Seq(Descriptors) /\ ms # <<>>
    /\ Models \subseteq Descriptors
BY ListsAssumption, ElementOfSeq, LenProperties DEF Models

\* The invariant holds at the start,
LEMMA SchemaInit == Init => SchemaInv
<1> SUFFICES ASSUME Init PROVE SchemaInv
  OBVIOUS
<1>1. Shape(schema)
  BY DEF Init, EmptySchema, NoTables, Shape, HasTable
<1>2. CallInv
  BY IdleCall DEF Init, CallInv
<1>3. TypeOK
  BY BoundsAssumption DEF Init, TypeOK, EmptySchema, NoTables, Idle, Phases, HasTable
<1>4. SyncInv
  BY DEF Init, SyncInv, Idle
<1> QED
  BY <1>1, <1>2, <1>3, <1>4 DEF SchemaInv

\* every step keeps it,
LEMMA SchemaStep == SchemaInv /\ [Next]_vars => SchemaInv'
<1> SUFFICES ASSUME SchemaInv, [Next]_vars PROVE SchemaInv'
  OBVIOUS
<1>1. CASE UNCHANGED vars
  BY <1>1 DEF vars, SchemaInv, TypeOK, CallInv, SyncInv
<1>2. ASSUME NEW t \in Tasks, NEW ms \in Lists, SyncSchema(t, ms) PROVE SchemaInv'
  BY <1>2, ModelsAreDescriptors, EnumsStep DEF SyncSchema
<1>3. ASSUME NEW t \in Tasks, NEW m \in Models, ApplyModel(t, m) PROVE SchemaInv'
  <2> DEFINE ms == <<m>>
  <2>1. ms \in Seq(Descriptors) /\ ms # <<>> /\ ms[1] = m
    BY ModelsAreDescriptors
  <2>2. Begin(t, "apply_model", ms, "enums", EnumsSql(dbType, ms[1]))
    BY <1>3, <2>1 DEF ApplyModel
  <2> HIDE DEF ms
  <2> QED
    BY <2>1, <2>2, EnumsStep
<1>4. ASSUME NEW t \in Tasks, NEW m \in Models, DropModel(t, m) PROVE SchemaInv'
  BY <1>4, ModelsAreDescriptors, DropStep
<1>5. ASSUME NEW t \in Tasks, NEW p \in Migrations, MigrateOwn(t, p[1], p[2]) PROVE SchemaInv'
  <2>1. p[1] \in Descriptors /\ p[2] \in Descriptors
    BY MigrationsAssumption
  <2> QED
    BY <1>5, <2>1, MigrateStep
<1>6. ASSUME NEW t \in Tasks, EndPhase(t) \/ Execute(t) \/ Race(t) \/ Duplicates(t) \/ Fault(t)
      PROVE  SchemaInv'
  BY <1>6, EndPhaseStep, ExecuteStep, RaceStep, DuplicatesStep, FaultStep
<1> QED
  BY <1>1, <1>2, <1>3, <1>4, <1>5, <1>6 DEF Next

\* and so it always holds.
THEOREM Invariance == Spec => []SchemaInv
BY SchemaInit, SchemaStep, PTL DEF Spec

\* In every reachable state the calls, what has come in their way and the
\* schema of the database are well formed: an index is of a table and of
\* columns that are there, whatever statements of several calls are executed
\* in between.
THEOREM TypeCorrect == Spec => []TypeOK
<1>1. SchemaInv => TypeOK
  BY DEF SchemaInv
<1> QED
  BY <1>1, Invariance, PTL

\* Only the end of the last model's script returns Ok.
LEMMA OkFacts ==
    ASSUME SchemaInv, Next, NEW t \in Tasks, Synced(t, "Ok")
    PROVE  /\ call[t].op = "sync_schema" /\ ~Waiting(t) /\ schema' = schema
           /\ call[t].phase \notin {"idle", "enums", "enums_again"}
           /\ call[t].at = Len(call[t].models)
<1>1. CallInv /\ dbType \in DbTypes
  BY DatabasesAssumption DEF SchemaInv, TypeOK
<1>2. back' # NoOne /\ back'.by = t /\ back'.res = "Ok" /\ back'.op = "sync_schema"
  BY DEF Synced
<1>3. ASSUME NEW u \in Tasks, NEW op, NEW ms, NEW phase, NEW script, Begin(u, op, ms, phase, script)
      PROVE  FALSE
  BY <1>2, <1>3 DEF Begin
<1>4. ASSUME NEW u \in Tasks, Waiting(u), NEW a, Handle(u, a) PROVE FALSE
  BY <1>1, <1>2, <1>4, HandleFacts
<1>5. ASSUME NEW u \in Tasks, EndPhase(u)
      PROVE  u = t /\ call[t].op = "sync_schema" /\ ~Waiting(t) /\ schema' = schema
             /\ call[t].phase \notin {"idle", "enums", "enums_again"}
             /\ call[t].at = Len(call[t].models)
  <2>1. call[u].phase # "idle" /\ ~Waiting(u) /\ schema' = schema
    BY <1>5 DEF EndPhase
  <2>2. /\ call[u].phase \notin {"enums", "enums_again"} /\ call[u].at = Len(call[u].models)
    BY <1>1, <1>2, <1>5, EndPhaseFacts
  <2>3. back'.by = u /\ back'.op = call[u].op
    <3>1. NextModel(u)
      BY <1>5, <2>2 DEF EndPhase
    <3>2. Return(u, "Ok")
      BY <1>2, <3>1 DEF NextModel
    <3> QED
      BY <3>2 DEF Return
  <2> QED
    BY <1>2, <2>1, <2>2, <2>3
<1>6. PICK u \in Tasks : EndPhase(u)
  BY <1>3, <1>4 DEF Next, SyncSchema, ApplyModel, DropModel, MigrateOwn, Execute, Race, Duplicates, Fault
<1> QED
  BY <1>5, <1>6

\* When sync_schema returns Ok, every table of the list is there with all
\* columns and indexes of its model, unless something was dropped meanwhile,
\* tasks raced for a table in PostgreSQL, or the database spoke of a duplicate
\* that is not what the statement makes (rows in the way of a unique index, a
\* name that the model has twice); for any tasks, databases and lists of
\* models.
THEOREM SyncOkCorrect == Spec => SyncOkMeansComplete
<1>1. ASSUME SchemaInv, [Next]_vars, NEW t \in Tasks, Synced(t, "Ok"), upset[t] = {},
             NEW i \in DOMAIN call[t].models
      PROVE  NamesTwice(call[t].models[i]) \/ Complete(schema', call[t].models[i])
  <2>1. Next
    BY <1>1 DEF Synced, vars
  <2>2. /\ call[t].op = "sync_schema" /\ ~Waiting(t) /\ schema' = schema
        /\ call[t].phase \notin {"idle", "enums", "enums_again"}
        /\ call[t].at = Len(call[t].models)
    BY <1>1, <2>1, OkFacts
  <2>3. IsCall(call[t])
    BY <1>1 DEF SchemaInv, CallInv
  <2>4. i <= call[t].at
    BY <2>2, <2>3, LenProperties DEF IsCall
  <2>5. DoneIn(dbType, schema, call[t].models[i])
    BY <1>1, <2>2, <2>4, EndSync
  <2> QED
    BY <2>2, <2>5 DEF DoneIn, Named, NamesTwice, CompleteIn, Complete, IndexIn, IndexThere
<1>2. SchemaInv /\ [Next]_vars =>
        [\A t \in Tasks : Synced(t, "Ok") /\ upset[t] = {} =>
            \A i \in DOMAIN call[t].models :
                NamesTwice(call[t].models[i]) \/ Complete(schema', call[t].models[i])]_vars
  BY <1>1
<1> QED
  BY <1>2, Invariance, PTL DEF Spec, SyncOkMeansComplete

-----------------------------------------------------------------------------
(* sync_schema that returns an error.                                      *)

\* Models that a dialect does not take, in the terms of its statements.
LEMMA UnsupportedFacts ==
    ASSUME dbType \in DbTypes, NEW m,
           \/ HasSemicolon(m) \/ Named(dbType, m)
           \/ \E i \in DOMAIN m.cols : ColumnSql(dbType, m.cols[i]) = Err
           \/ \E i \in DOMAIN m.indexes :
                NoIndex(dbType, m.indexes[i]) \/ ~(m.indexes[i].cols \subseteq ColumnNames(m))
           \/ \E x, y : x # y /\ MakesKey(dbType, m, x) /\ MakesKey(dbType, m, y)
           \/ m.schema # NoSchema /\ m.indexes # <<>>
           \/ m.schema # NoSchema /\ dbType = "postgres" /\ \E i \in DOMAIN m.cols : m.cols[i].type = "enum"
    PROVE  Unsupported(m)
<1>1. CASE HasSemicolon(m)
  BY <1>1 DEF HasSemicolon, Unsupported, HasColumn
<1>2. ASSUME NEW i \in DOMAIN m.cols, ColumnSql(dbType, m.cols[i]) = Err PROVE Unsupported(m)
  <2>1. OddColumn(m.cols[i])
    BY <1>2, DefinitionFacts DEF OddColumn, DbTypes
  <2> QED
    BY <2>1 DEF Unsupported, HasColumn
<1>3. ASSUME NEW i \in DOMAIN m.indexes, NoIndex(dbType, m.indexes[i]) PROVE Unsupported(m)
  <2>1. OddIndex(m.indexes[i])
    BY <1>3 DEF OddIndex, NoIndex, DbTypes
  <2> QED
    BY <2>1 DEF Unsupported, HasIndex
<1>4. ASSUME NEW i \in DOMAIN m.indexes, ~(m.indexes[i].cols \subseteq ColumnNames(m)) PROVE Unsupported(m)
  BY <1>4 DEF Unsupported, HasIndex
<1>5. ASSUME NEW x, NEW y, x # y, MakesKey(dbType, m, x), MakesKey(dbType, m, y) PROVE Unsupported(m)
  <2>1. ASSUME NEW z, MakesKey(dbType, m, z) PROVE z \in PrimaryKeys(m)
    BY <2>1 DEF MakesKey, PrimaryKeys, HasModelKey, HasColumn
  <2>2. HasKeyTwice(m)
    BY <1>5, <2>1 DEF HasKeyTwice
  <2> QED
    BY <2>2 DEF Unsupported
<1>6. CASE m.schema # NoSchema /\ m.indexes # <<>>
  BY <1>6 DEF Unsupported
<1>7. CASE m.schema # NoSchema /\ dbType = "postgres" /\ \E i \in DOMAIN m.cols : m.cols[i].type = "enum"
  BY <1>7 DEF Unsupported, HasColumn
<1>8. CASE Named(dbType, m)
  BY <1>8 DEF Named, NamesTwice, Unsupported
<1> QED
  BY <1>1, <1>2, <1>3, <1>4, <1>5, <1>6, <1>7, <1>8

\* No column is of a type that is not known, when the statements of the types
\* are executed, except in a schema.
LEMMA TypesFacts ==
    ASSUME dbType \in DbTypes, NEW c, NEW m, EnumsLeft(dbType, schema, c, m),
           \A p \in DOMAIN c.script : c.script[p].k # "create_type",
           NEW i \in DOMAIN m.cols, ColumnSql(dbType, m.cols[i]) # Err,
           ~TypeKnown(dbType, schema, ColumnSql(dbType, m.cols[i]))
    PROVE  Unsupported(m)
<1> DEFINE def == ColumnSql(dbType, m.cols[i])
<1>1. def # Err /\ ~TypeKnown(dbType, schema, def)
  OBVIOUS
<1>2. dbType = "postgres" /\ def.type = "enum" => m.cols[i].type = "enum"
  BY DefinitionFacts
<1> HIDE DEF def
<1>3. dbType = "postgres" /\ m.cols[i].type = "enum" /\ <<NoSchema, "enum">> \notin schema.types
  BY <1>1, <1>2 DEF TypeKnown
<1>4. <<m.schema, "enum">> \in schema.types
  BY <1>3 DEF EnumsLeft
<1>5. m.schema # NoSchema
  BY <1>3, <1>4
<1> QED
  BY <1>3, <1>5, UnsupportedFacts

\* A CREATE TABLE of the model is refused for a name or a key that is there
\* twice, a type in a schema, or a table it refers to.
LEMMA CreateTableError ==
    ASSUME dbType \in DbTypes, NEW c, NEW m \in Descriptors, EnumsLeft(dbType, schema, c, m),
           \A p \in DOMAIN c.script : c.script[p].k # "create_type",
           NEW st, st = CreateTableSql(dbType, m), st # Err, Answer(dbType, schema, st) = "error"
    PROVE  Unsupported(m) \/ RefersToNothing(m)
<1>1. /\ st.k = "create_table"
      /\ \A j \in DOMAIN st.parts : IsClause(dbType, m, st.parts[j])
      /\ \A i, j \in DOMAIN st.parts :
            i # j /\ IsKey(st.parts[i]) /\ IsKey(st.parts[j]) =>
                \E x, y : x # y /\ MakesKey(dbType, m, x) /\ MakesKey(dbType, m, y)
  BY CreateTableFacts DEF IsCreateTable
<1>2. CASE RepeatsName(dbType, st)
  BY <1>2, UnsupportedFacts DEF Named
<1> SUFFICES ASSUME ~RepeatsName(dbType, st) PROVE Unsupported(m) \/ RefersToNothing(m)
  BY <1>2
<1>3. \/ \E i, j \in DOMAIN st.parts : i # j /\ IsKey(st.parts[i]) /\ IsKey(st.parts[j])
      \/ \E j \in DOMAIN st.parts :
            \/ st.parts[j].k = "column" /\ ~TypeKnown(dbType, schema, st.parts[j])
            \/ /\ st.parts[j].k = "constraint" /\ st.parts[j].kind = "foreign_key" /\ dbType # "sqlite"
               /\ ~HasTable(schema, <<NoSchema, st.parts[j].ref>>)
  <2> SUFFICES ASSUME \A i, j \in DOMAIN st.parts : IsKey(st.parts[i]) /\ IsKey(st.parts[j]) => i = j,
                      \A p \in Parts(st) :
                        /\ p.k = "column" => TypeKnown(dbType, schema, p)
                        /\ p.k = "constraint" /\ p.kind = "foreign_key" =>
                                dbType = "sqlite" \/ HasTable(schema, <<NoSchema, p.ref>>)
               PROVE  FALSE
    BY DEF Parts
  <2> QED
    BY <1>1 DEF Answer
<1>4. ASSUME NEW i \in DOMAIN st.parts, NEW j \in DOMAIN st.parts, i # j, IsKey(st.parts[i]), IsKey(st.parts[j])
      PROVE  Unsupported(m)
  BY <1>1, <1>4, UnsupportedFacts
<1>5. ASSUME NEW j \in DOMAIN st.parts, st.parts[j].k = "column", ~TypeKnown(dbType, schema, st.parts[j])
      PROVE  Unsupported(m)
  <2>1. PICK i \in DOMAIN m.cols : st.parts[j] = ColumnSql(dbType, m.cols[i])
    BY <1>1, <1>5 DEF IsClause, IsKeyClause
  <2>2. ColumnSql(dbType, m.cols[i]) # Err
    BY <1>5, <2>1 DEF Err
  <2> QED
    BY <1>5, <2>1, <2>2, TypesFacts
<1>6. ASSUME NEW j \in DOMAIN st.parts, st.parts[j].k = "constraint", st.parts[j].kind = "foreign_key",
             dbType # "sqlite", ~HasTable(schema, <<NoSchema, st.parts[j].ref>>)
      PROVE  RefersToNothing(m)
  <2>1. \A i \in DOMAIN m.cols : st.parts[j] # ColumnSql(dbType, m.cols[i])
    <3>1. ASSUME NEW i \in DOMAIN m.cols
          PROVE  ColumnSql(dbType, m.cols[i]) = Err \/ ColumnSql(dbType, m.cols[i]).k = "column"
      BY DefinitionFacts
    <3> QED
      BY <1>6, <3>1 DEF Err
  <2>2. PICK i \in DOMAIN m.constraints :
            st.parts[j].kind = m.constraints[i].kind /\ st.parts[j].ref = m.constraints[i].ref
    BY <1>1, <1>6, <2>1 DEF IsClause, IsKeyClause
  <2> QED
    BY <1>6, <2>2 DEF RefersToNothing
<1> QED
  BY <1>3, <1>4, <1>5, <1>6

\* An ADD COLUMN is refused for a type in a schema, or in MySQL for a second
\* key.
LEMMA AddColumnError ==
    ASSUME dbType \in DbTypes, NEW c, NEW m \in Descriptors, EnumsLeft(dbType, schema, c, m),
           \A p \in DOMAIN c.script : c.script[p].k # "create_type",
           HasTable(schema, TableOf(m)), NEW i \in DOMAIN m.cols,
           NEW st, st = AddColumnSql(dbType, TableOf(m), m.cols[i]), st # Err,
           Answer(dbType, schema, st) = "error"
    PROVE  Unsupported(m) \/ Unextendable(m)
<1> DEFINE def == ColumnSql(dbType, m.cols[i])
<1>1. /\ st.k = "add_column" /\ st.table = TableOf(m) /\ st.def = def
      /\ ~NotAdded(dbType, m.cols[i]) /\ def # Err
  BY ColumnFacts
<1>2. def.name = m.cols[i].name /\ (IsKey(def) => m.cols[i].pk /\ dbType # "postgres")
  BY <1>1, DefinitionFacts
<1> HIDE DEF def
<1>3. def.name \notin schema.tables[TableOf(m)].cols
      /\ (~TypeKnown(dbType, schema, def) \/ IsKey(def))
  BY <1>1 DEF Answer
<1>4. CASE ~TypeKnown(dbType, schema, def)
  BY <1>1, <1>4, TypesFacts DEF def
<1>5. CASE IsKey(def)
  <2>1. dbType = "mysql" /\ m.cols[i].pk /\ m.cols[i].name \notin schema.tables[TableOf(m)].cols
    BY <1>1, <1>2, <1>3, <1>5 DEF NotAdded, DbTypes
  <2> QED
    BY <2>1 DEF Unextendable, HasColumn
<1> QED
  BY <1>3, <1>4, <1>5

\* A CREATE INDEX is refused for a schema or for columns the model lacks, once
\* the table has all columns.
LEMMA CreateIndexError ==
    ASSUME dbType \in DbTypes, NEW m \in Descriptors, HasTable(schema, TableOf(m)),
           ColumnNames(m) \subseteq schema.tables[TableOf(m)].cols, NEW i \in DOMAIN m.indexes,
           NEW st, st = IndexSql(dbType, m.indexes[i], m.name), st # Err,
           Answer(dbType, schema, st) = "error"
    PROVE  Unsupported(m)
<1>1. /\ st.k = "create_index" /\ st.table = <<NoSchema, m.name>> /\ st.cols = m.indexes[i].cols
  <2> DEFINE x == m.indexes[i]
  <2>1. st = IndexSql(dbType, x, m.name) /\ x = m.indexes[i]
    OBVIOUS
  <2> HIDE DEF x
  <2>2. IsCreateIndex(st, m, x)
    BY <2>1, IndexFacts
  <2>3. st.cols = x.cols
    BY <2>1, IndexFacts
  <2> QED
    BY <2>1, <2>2, <2>3 DEF IsCreateIndex
<1>2. CASE m.schema = NoSchema
  <2>1. st.table = TableOf(m)
    BY <1>1, <1>2 DEF TableOf
  <2>2. ~(st.cols \subseteq schema.tables[TableOf(m)].cols)
    BY <1>1, <2>1 DEF Answer
  <2>3. ~(m.indexes[i].cols \subseteq ColumnNames(m))
    BY <1>1, <2>2
  <2> QED
    BY <2>3, UnsupportedFacts
<1>3. CASE m.schema # NoSchema
  <2>1. m.indexes # <<>>
    BY EmptySeq
  <2> QED
    BY <1>3, <2>1, UnsupportedFacts
<1> QED
  BY <1>2, <1>3

Cause(t) ==
    \/ Unsupported(Model(t)) \/ RefersToNothing(Model(t))
    \/ call[t].phase \in {"enums_again", "migrate"} /\ Unextendable(Model(t))

\* A statement of sync_schema to which the database answers with an error has
\* a cause.
LEMMA StatementError ==
    ASSUME SchemaInv, NEW t \in Tasks, Waiting(t), call[t].op = "sync_schema", upset[t] = {},
           Answer(dbType, schema, Current(t)) = "error"
    PROVE  Cause(t)
<1> DEFINE m == Model(t)
           st == Current(t)
           c == call[t]
<1>1. dbType \in DbTypes /\ CallInv /\ OnItsWay(dbType, schema, c) /\ IsCall(c)
  BY DatabasesAssumption DEF SchemaInv, TypeOK, SyncInv, CallInv
<1>2. c.phase \in {"enums", "create", "enums_again", "migrate"}
  BY <1>1 DEF IsCall
<1>3. m = c.models[c.at] /\ m \in Descriptors
  BY <1>1, <1>2, ModelFacts
<1>4. /\ Place(t) \in DOMAIN c.script /\ st = c.script[Place(t)]
      /\ \A q \in DOMAIN c.script : Place(t) <= q
      /\ DOMAIN c.script \subseteq Nat
  BY <1>1, CurrentFacts DEF IsCall
<1>5. Answer(dbType, schema, st) = "error"
  OBVIOUS
<1> HIDE DEF m, st, c
<1>6. /\ st.k \in KindsOf(c.phase)
      /\ c.phase \in {"create", "migrate"} => FromModel(dbType, m, st)
      /\ EnumsLeft(dbType, schema, c, m)
  BY <1>1, <1>3, <1>4 DEF OnItsWay, OwnScript
<1>7. c.phase \in {"create", "migrate"}
  BY <1>2, <1>5, <1>6 DEF KindsOf, Answer
<1>8. \A p \in DOMAIN c.script : c.script[p].k # "create_type"
  BY <1>1, <1>7 DEF OnItsWay, OwnScript, KindsOf
<1>9. st # Err
  BY <1>6, <1>7 DEF FromModel, Err
<1>10. CASE Named(dbType, m)
  BY <1>1, <1>10, UnsupportedFacts DEF Cause, m
<1>11. ~Named(dbType, m) => PhaseLeft(dbType, schema, c, m)
  BY <1>1, <1>3 DEF OnItsWay
<1>12. CASE st.k = "fragment"
  <2>1. HasSemicolon(m)
    BY <1>6, <1>7, <1>12 DEF FromModel
  <2> QED
    BY <1>1, <2>1, UnsupportedFacts DEF Cause, m
<1>13. CASE st.k = "create_table"
  <2>1. st = CreateTableSql(dbType, m)
    BY <1>6, <1>7, <1>13 DEF FromModel
  <2>2. Unsupported(m) \/ RefersToNothing(m)
    BY <1>1, <1>3, <1>5, <1>6, <1>8, <1>9, <2>1, CreateTableError
  <2> QED
    BY <2>2 DEF Cause, m
<1>14. CASE st.k = "add_column" /\ ~Named(dbType, m)
  <2>1. c.phase = "migrate" /\ HasTable(schema, TableOf(m))
    BY <1>6, <1>7, <1>14, <1>11 DEF KindsOf, PhaseLeft
  <2>2. PICK i \in DOMAIN m.cols : st = AddColumnSql(dbType, TableOf(m), m.cols[i])
    BY <1>6, <1>7, <1>14 DEF FromModel
  <2>3. Unsupported(m) \/ Unextendable(m)
    BY <1>1, <1>3, <1>5, <1>6, <1>8, <1>9, <2>1, <2>2, AddColumnError
  <2> QED
    BY <2>1, <2>3 DEF Cause, m, c
<1>15. CASE st.k = "constraint"
  <2>1. c.phase = "migrate" /\ \E i \in DOMAIN m.constraints : m.constraints[i].kind \in TableLevel
    BY <1>6, <1>7, <1>15 DEF KindsOf, FromModel
  <2>2. Unextendable(m)
    BY <2>1 DEF Unextendable
  <2> QED
    BY <2>1, <2>2 DEF Cause, m, c
<1>16. CASE st.k = "create_index" /\ ~Named(dbType, m)
  <2>1. \A p \in DOMAIN c.script : ~BeforeIndexes(c.script, p)
    BY <1>4, <1>16 DEF BeforeIndexes
  <2>2. HasTable(schema, TableOf(m)) /\ ColumnNames(m) \subseteq schema.tables[TableOf(m)].cols
    <3>1. CASE c.phase = "create"
      BY <1>16, <1>11, <2>1, <3>1 DEF PhaseLeft, TableLeft
    <3>2. CASE c.phase = "migrate"
      <4>1. HasTable(schema, TableOf(m)) /\ ColumnsLeft(schema, c, m)
        BY <1>16, <1>11, <3>2 DEF PhaseLeft
      <4>2. \A i \in DOMAIN m.cols : m.cols[i].name \in schema.tables[TableOf(m)].cols
        BY <2>1, <4>1 DEF ColumnsLeft
      <4> QED
        BY <4>1, <4>2 DEF ColumnNames
    <3> QED
      BY <1>7, <3>1, <3>2
  <2>3. PICK i \in DOMAIN m.indexes : st = IndexSql(dbType, m.indexes[i], m.name)
    BY <1>6, <1>7, <1>16 DEF FromModel
  <2>4. Unsupported(m)
    BY <1>1, <1>3, <1>5, <1>9, <2>2, <2>3, CreateIndexError
  <2> QED
    BY <2>4 DEF Cause, m
<1> QED
  BY <1>6, <1>7, <1>12, <1>13, <1>14, <1>15, <1>16, <1>10 DEF KindsOf

\* A script that is not generated has a cause.
LEMMA CreateScriptError ==
    ASSUME dbType \in DbTypes, NEW m \in Descriptors, CreateScript(dbType, m) = Err
    PROVE  Unsupported(m)
<1> DEFINE first == CreateTableSql(dbType, m)
           indexes == [i \in DOMAIN m.indexes |-> IndexSql(dbType, m.indexes[i], m.name)]
           heads == <<first>>
           U == {first} \union {indexes[i] : i \in DOMAIN indexes}
           all == heads \o indexes
<1>1. Has(all, Err)
  BY AllOfErrs DEF CreateScript
<1>2. m.indexes \in Seq(Indexes) /\ indexes = [i \in DOMAIN m.indexes |-> indexes[i]]
      /\ \A i \in DOMAIN indexes : indexes[i] \in U
  BY DEF Descriptors
<1>3. all = heads \o indexes /\ heads \in Seq(U) /\ \A j \in DOMAIN heads : heads[j] = first
  OBVIOUS
<1>4. \A i \in DOMAIN indexes : i \in DOMAIN m.indexes /\ indexes[i] = IndexSql(dbType, m.indexes[i], m.name)
  OBVIOUS
<1>5. first = CreateTableSql(dbType, m)
  OBVIOUS
<1> HIDE DEF first, indexes, heads, U, all
<1>6. indexes \in Seq(U)
  BY <1>2, EachSeq
<1>7. Has(heads, Err) \/ Has(indexes, Err)
  BY <1>1, <1>3, <1>6, ConcatElements
<1>8. CASE Has(heads, Err)
  <2>1. first = Err
    BY <1>3, <1>8 DEF Has
  <2>2. \E i \in DOMAIN m.cols : ColumnSql(dbType, m.cols[i]) = Err
    BY <1>5, <2>1, CreateTableFacts
  <2> QED
    BY <2>2, UnsupportedFacts
<1>9. CASE Has(indexes, Err)
  <2>1. PICK i \in DOMAIN indexes : indexes[i] = Err
    BY <1>9 DEF Has
  <2>2. i \in DOMAIN m.indexes /\ IndexSql(dbType, m.indexes[i], m.name) = Err
    BY <1>4, <2>1
  <2>3. NoIndex(dbType, m.indexes[i])
    BY <2>2, IndexFacts
  <2> QED
    BY <2>2, <2>3, UnsupportedFacts
<1> QED
  BY <1>7, <1>8, <1>9

\* So has an additive script.
LEMMA AdditiveScriptError ==
    ASSUME dbType \in DbTypes, NEW m \in Descriptors, AdditiveScript(m) = Err
    PROVE  Unsupported(m) \/ Unextendable(m)
<1> DEFINE adds == [i \in DOMAIN m.cols |-> AddColumnSql(dbType, TableOf(m), m.cols[i])]
           cons == [i \in DOMAIN m.constraints |-> ConstraintOf(dbType, m.constraints[i], m.name)]
           indexes == [i \in DOMAIN m.indexes |-> IndexSql(dbType, m.indexes[i], m.name)]
           U == {adds[i] : i \in DOMAIN adds} \union {cons[i] : i \in DOMAIN cons}
                \union {indexes[i] : i \in DOMAIN indexes}
           heads == adds \o cons
           all == heads \o indexes
<1>1. AdditiveScript(m) = AllOf(all)
  BY EmptyFacts, BareScript DEF AdditiveScript
<1>2. Has(all, Err)
  BY <1>1, AllOfErrs
<1>3. /\ m.cols \in Seq(Columns) /\ m.constraints \in Seq(Constraints) /\ m.indexes \in Seq(Indexes)
  BY DEF Descriptors
<1>4. /\ adds = [i \in DOMAIN m.cols |-> adds[i]] /\ cons = [i \in DOMAIN m.constraints |-> cons[i]]
      /\ indexes = [i \in DOMAIN m.indexes |-> indexes[i]]
  OBVIOUS
<1>5. /\ \A i \in DOMAIN adds : adds[i] \in U
      /\ \A i \in DOMAIN cons : cons[i] \in U
      /\ \A i \in DOMAIN indexes : indexes[i] \in U
  OBVIOUS
<1>6. /\ \A i \in DOMAIN adds : i \in DOMAIN m.cols /\ adds[i] = AddColumnSql(dbType, TableOf(m), m.cols[i])
      /\ \A i \in DOMAIN cons : cons[i] = ConstraintOf(dbType, m.constraints[i], m.name)
      /\ \A i \in DOMAIN indexes : i \in DOMAIN m.indexes /\ indexes[i] = IndexSql(dbType, m.indexes[i], m.name)
      /\ heads = adds \o cons /\ all = heads \o indexes
  OBVIOUS
<1> HIDE DEF adds, cons, indexes, U, heads, all
<1>7. adds \in Seq(U)
  BY <1>3, <1>4, <1>5, EachSeq
<1>8. cons \in Seq(U)
  BY <1>3, <1>4, <1>5, EachSeq
<1>9. indexes \in Seq(U)
  BY <1>3, <1>4, <1>5, EachSeq
<1>10. heads \in Seq(U) /\ (Has(heads, Err) => Has(adds, Err) \/ Has(cons, Err))
  BY <1>6, <1>7, <1>8, ConcatElements
<1>11. Has(heads, Err) \/ Has(indexes, Err)
  BY <1>2, <1>6, <1>9, <1>10, ConcatElements
<1>12. ASSUME NEW i \in DOMAIN adds, adds[i] = Err PROVE Unsupported(m) \/ Unextendable(m)
  <2>1. i \in DOMAIN m.cols /\ AddColumnSql(dbType, TableOf(m), m.cols[i]) = Err
    BY <1>6, <1>12
  <2>2. NotAdded(dbType, m.cols[i]) \/ ColumnSql(dbType, m.cols[i]) = Err
    BY <2>1, ColumnFacts
  <2>3. CASE NotAdded(dbType, m.cols[i])
    BY <2>1, <2>3 DEF NotAdded, Unextendable, HasColumn
  <2>4. CASE ColumnSql(dbType, m.cols[i]) = Err
    BY <2>1, <2>4, UnsupportedFacts
  <2> QED
    BY <2>2, <2>3, <2>4
<1>13. \A i \in DOMAIN cons : cons[i] # Err
  BY <1>6, ConstraintFacts DEF Err, None
<1>14. ASSUME NEW i \in DOMAIN indexes, indexes[i] = Err PROVE Unsupported(m)
  <2>1. i \in DOMAIN m.indexes /\ IndexSql(dbType, m.indexes[i], m.name) = Err
    BY <1>6, <1>14
  <2>2. NoIndex(dbType, m.indexes[i])
    BY <2>1, IndexFacts
  <2> QED
    BY <2>1, <2>2, UnsupportedFacts
<1> QED
  BY <1>10, <1>11, <1>12, <1>13, <1>14 DEF Has

\* sync_schema returns an error when a script is not generated, or the
\* database answers with an error.
LEMMA ErrFacts ==
    ASSUME SchemaInv, Next, NEW t \in Tasks, Synced(t, "Err"), upset'[t] = {}
    PROVE  /\ call[t].op = "sync_schema" /\ call[t].phase # "idle"
           /\ \/ call[t].phase = "enums" /\ CreateScript(dbType, Model(t)) = Err
              \/ call[t].phase = "enums_again" /\ AdditiveScript(Model(t)) = Err
              \/ Waiting(t) /\ upset[t] = {} /\ Answer(dbType, schema, Current(t)) = "error"
<1>1. TypeOK /\ CallInv /\ dbType \in DbTypes
  BY DatabasesAssumption DEF SchemaInv, TypeOK
<1>2. back' # NoOne /\ back'.by = t /\ back'.res = "Err" /\ back'.op = "sync_schema"
  BY DEF Synced
<1>3. ASSUME NEW u \in Tasks, NEW op, NEW ms, NEW phase, NEW script, Begin(u, op, ms, phase, script)
      PROVE  FALSE
  BY <1>2, <1>3 DEF Begin
<1>4. ASSUME NEW u \in Tasks, Waiting(u), NEW a, Handle(u, a)
      PROVE  u = t /\ call[t].op = "sync_schema" /\ a \notin {"ok", "exists", "table_exists", "duplicate"}
  BY <1>1, <1>2, <1>4, HandleFacts
<1>5. call[t].op = "sync_schema" => call[t].phase # "idle"
  BY <1>1 DEF CallInv, IsCall
<1>6. ASSUME NEW u \in Tasks, EndPhase(u)
      PROVE  /\ u = t /\ call[t].op = "sync_schema"
             /\ \/ call[t].phase = "enums" /\ CreateScript(dbType, Model(t)) = Err
                \/ call[t].phase = "enums_again" /\ AdditiveScript(Model(t)) = Err
  <2>1. CASE call[u].phase \in {"enums", "enums_again"}
    BY <1>1, <1>2, <1>6, <2>1, EndPhaseFacts
  <2>2. CASE call[u].phase \notin {"enums", "enums_again"}
    <3>1. NextModel(u)
      BY <1>6, <2>2 DEF EndPhase
    <3> QED
      BY <1>2, <3>1 DEF NextModel, Return
  <2> QED
    BY <2>1, <2>2
<1>7. ASSUME NEW u \in Tasks, Execute(u)
      PROVE  /\ u = t /\ call[t].op = "sync_schema" /\ Waiting(t) /\ upset[t] = {}
             /\ Answer(dbType, schema, Current(t)) = "error"
  <2> DEFINE a == Answer(dbType, schema, Current(u))
  <2>1. Waiting(u) /\ Handle(u, a) /\ (a # "ok" => upset' = upset)
    BY <1>7 DEF Execute
  <2>2. u = t /\ call[t].op = "sync_schema" /\ a \notin {"ok", "exists", "table_exists", "duplicate"}
    <3> HIDE DEF a
    <3> QED
      BY <1>4, <2>1
  <2>3. Current(u).k \in Kinds
    BY <1>1, <2>1, CurrentFacts
  <2>4. a \in {"ok", "exists", "table_exists", "error"}
    BY <2>3, Answers
  <2> QED
    BY <2>1, <2>2, <2>4
<1>8. ASSUME NEW u \in Tasks, Race(u) PROVE FALSE
  <2>1. u = t
    BY <1>4, <1>8 DEF Race
  <2>2. upset'[t] = upset[t] \union {"raced"}
    BY <1>1, <1>8, <2>1 DEF Race, CallInv
  <2> QED
    BY <2>2
<1>9. ASSUME NEW u \in Tasks, Duplicates(u) PROVE FALSE
  <2>1. u = t
    BY <1>4, <1>9 DEF Duplicates
  <2>2. upset'[t] = upset[t] \union {"duplicates"}
    BY <1>1, <1>9, <2>1 DEF Duplicates, CallInv
  <2> QED
    BY <2>2
<1>10. ASSUME NEW u \in Tasks, Fault(u) PROVE FALSE
  <2>1. u = t
    BY <1>4, <1>10 DEF Fault
  <2>2. Upset(t, Current(t), {"failed"})
    BY <1>10, <2>1 DEF Fault
  <2>3. upset'[t] = upset[t] \union {"failed"}
    BY <2>2 DEF Upset
  <2> QED
    BY <2>3
<1>11. PICK u \in Tasks : EndPhase(u) \/ Execute(u)
  BY <1>3, <1>8, <1>10, <1>9 DEF Next, SyncSchema, ApplyModel, DropModel, MigrateOwn
<1> QED
  BY <1>5, <1>6, <1>7, <1>11

\* sync_schema returns an error only if a statement failed, something was
\* dropped, tasks raced or rows were in the way, or for a model that the
\* dialect does not take or cannot add to a table: never because other tasks
\* synchronise too, or an earlier call got half way; for any tasks, databases
\* and lists of models.
THEOREM SyncErrorsCorrect == Spec => SyncErrorsHaveCause
<1>1. ASSUME SchemaInv, [Next]_vars, NEW t \in Tasks, Synced(t, "Err"), upset'[t] = {}
      PROVE  Cause(t)
  <2>1. Next
    BY <1>1 DEF Synced, vars
  <2>2. /\ call[t].op = "sync_schema" /\ call[t].phase # "idle"
        /\ \/ call[t].phase = "enums" /\ CreateScript(dbType, Model(t)) = Err
           \/ call[t].phase = "enums_again" /\ AdditiveScript(Model(t)) = Err
           \/ Waiting(t) /\ upset[t] = {} /\ Answer(dbType, schema, Current(t)) = "error"
    BY <1>1, <2>1, ErrFacts
  <2>3. dbType \in DbTypes /\ Model(t) \in Descriptors
    BY <1>1, <2>2, DatabasesAssumption, ModelFacts DEF SchemaInv, TypeOK
  <2>4. CASE call[t].phase = "enums" /\ CreateScript(dbType, Model(t)) = Err
    BY <2>3, <2>4, CreateScriptError DEF Cause
  <2>5. CASE call[t].phase = "enums_again" /\ AdditiveScript(Model(t)) = Err
    BY <2>3, <2>5, AdditiveScriptError DEF Cause
  <2>6. CASE Waiting(t) /\ upset[t] = {} /\ Answer(dbType, schema, Current(t)) = "error"
    BY <1>1, <2>2, <2>6, StatementError
  <2> QED
    BY <2>2, <2>4, <2>5, <2>6
<1>2. SchemaInv /\ [Next]_vars =>
        [\A t \in Tasks : Synced(t, "Err") /\ upset'[t] = {} =>
            \/ Unsupported(Model(t)) \/ RefersToNothing(Model(t))
            \/ call[t].phase \in {"enums_again", "migrate"} /\ Unextendable(Model(t))]_vars
  BY <1>1 DEF Cause
<1> QED
  BY <1>2, Invariance, PTL DEF Spec, SyncErrorsHaveCause
=============================================================================
