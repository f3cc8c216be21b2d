---------------------------- MODULE SqlDatabase -----------------------------
(***************************************************************************)
(* What the database, which is not part of the repository, does with the   *)
(* statements of the model manager: a schema of tables, indexes and types, *)
(* and the errors that sdk_integration.rs tells apart by their text.       *)
(* References between tables, the columns of keys and what a type can do   *)
(* are not kept: refusals for their sake are among the failures that come  *)
(* from elsewhere.  Tables and indexes do not share their names.           *)
(***************************************************************************)
EXTENDS ModelGenerator

NoTables == [n \in {} |-> <<>>]
EmptySchema == [tables |-> NoTables, indexes |-> {}, types |-> {}]

HasTable(s, n) == n \in DOMAIN s.tables
Put(s, n, x) == [s EXCEPT !.tables = [m \in DOMAIN s.tables \union {n} |->
                                        IF m = n THEN x ELSE s.tables[m]]]

IsKey(p) == (p.k = "column" /\ "pk" \in p.has) \/ (p.k = "constraint" /\ p.kind = "primary_key")
TypeKnown(d, s, def) == d = "postgres" /\ def.type = "enum" => <<NoSchema, "enum">> \in s.types
Parts(st) == {st.parts[i] : i \in DOMAIN st.parts}
IndexNameTaken(d, s, st) ==
    \E x \in s.indexes : x.name = st.name /\ (d = "mysql" => x.table = st.table)

\* A CREATE TABLE has the same name in two of the places S.
Clash(st, S) == \E i, j \in S : i # j /\ st.parts[i].name = st.parts[j].name
Defined(st) == {i \in DOMAIN st.parts : st.parts[i].k = "column"}
Constrained(st, kinds) ==
    {i \in DOMAIN st.parts : st.parts[i].k = "constraint" /\ st.parts[i].kind \in kinds}
\* A database minds two columns of one name, and, but for SQLite, which does
\* not look at their names, two constraints: MySQL if they are of one kind
\* and no keys, whose name it ignores.
RepeatsName(d, st) ==
    st.k = "create_table" /\
        \/ Clash(st, Defined(st))
        \/ d = "mysql" /\ \E kind \in TableLevel \ {"primary_key"} : Clash(st, Constrained(st, {kind}))
        \/ d = "postgres" /\ Clash(st, Constrained(st, TableLevel))
\* What it says of it: "duplicate column name" or "duplicate key name", in
\* PostgreSQL "column specified more than once", "check constraint x already
\* exists", "relation x already exists" or "constraint x for relation y
\* already exists".
AnswerToRepeated(d, st) ==
    IF d # "postgres" THEN "exists"
    ELSE IF Clash(st, Defined(st)) THEN "error"
    ELSE IF Clash(st, Constrained(st, {"check"})) THEN "exists" ELSE "table_exists"

\* The statement makes something unique that rows of the table may not allow:
\* an index, or a column that gets the same value in all of them.
MakesUnique(st) ==
    \/ st.k = "create_index" /\ st.unique
    \/ /\ st.k = "add_column" /\ "auto" \notin st.def.has
       /\ \/ "pk" \in st.def.has
          \/ "unique" \in st.def.has /\ (st.def.default # "none" \/ "not_null" \in st.def.has)
\* "UNIQUE constraint failed" or "Duplicate entry for key"; in PostgreSQL
\* "could not create unique index", with the duplicate in its detail.
AnswerToDuplicates(d) == IF d = "postgres" THEN "error" ELSE "duplicate"

\* The schema after a statement that is accepted, and what is said of one
\* that is not.  table_exists is "table x already exists", or "relation x
\* already exists"; exists is any other "already exists" or "duplicate" that
\* is about names; in MySQL "Multiple primary key defined" is neither.
After(s, st) ==
    CASE st.k = "create_type" -> [s EXCEPT !.types = @ \union {st.name}]
      [] st.k = "create_table" ->
            Put(s, st.table, [cols |-> {p.name : p \in {q \in Parts(st) : q.k = "column"}},
                              key |-> \E p \in Parts(st) : IsKey(p),
                              cons |-> {p.name : p \in {q \in Parts(st) : q.k = "constraint"}}])
      [] st.k = "add_column" ->
            [s EXCEPT !.tables[st.table].cols = @ \union {st.def.name},
                      !.tables[st.table].key = @ \/ IsKey(st.def)]
      [] st.k = "create_index" ->
            [s EXCEPT !.indexes = @ \union {[name |-> st.name, table |-> st.table, cols |-> st.cols]}]
      [] st.k = "drop_table" ->
            [s EXCEPT !.tables = [n \in DOMAIN @ \ {st.table} |-> @[n]],
                      !.indexes = {x \in @ : x.table # st.table}]
      [] st.k = "drop_column" ->
            [s EXCEPT !.tables[st.table].cols = @ \ {st.name},
                      !.indexes = {x \in @ : x.table # st.table \/ st.name \notin x.cols}]
      [] st.k = "drop_constraint" -> [s EXCEPT !.tables[st.table].cons = @ \ {st.name}]
      [] st.k = "drop_index" -> [s EXCEPT !.indexes = {x \in @ : x.name # st.name}]

Answer(d, s, st) ==
    CASE st.k \in {"constraint", "fragment"} -> "error"
      [] st.k = "create_type" -> IF st.name \in s.types THEN "exists" ELSE "ok"
      [] st.k = "create_table" ->
            IF HasTable(s, st.table) THEN "table_exists"
            ELSE IF RepeatsName(d, st) THEN AnswerToRepeated(d, st)
            ELSE IF /\ \A i, j \in DOMAIN st.parts : IsKey(st.parts[i]) /\ IsKey(st.parts[j]) => i = j
                    /\ \A p \in Parts(st) :
                        /\ p.k = "column" => TypeKnown(d, s, p)
                        /\ p.k = "constraint" /\ p.kind = "foreign_key" =>
                                d = "sqlite" \/ HasTable(s, <<NoSchema, p.ref>>)
                 THEN "ok" ELSE "error"
      [] st.k = "add_column" ->
            IF ~HasTable(s, st.table) THEN "error"
            ELSE IF st.def.name \in s.tables[st.table].cols THEN "exists"
            ELSE IF TypeKnown(d, s, st.def) /\ ~(IsKey(st.def) /\ s.tables[st.table].key)
                 THEN "ok" ELSE "error"
      [] st.k = "create_index" ->
            IF ~HasTable(s, st.table) THEN "error"
            ELSE IF IndexNameTaken(d, s, st) THEN "exists"
            ELSE IF st.cols \subseteq s.tables[st.table].cols THEN "ok" ELSE "error"
      [] st.k = "drop_table" -> IF HasTable(s, st.table) \/ st.ifExists THEN "ok" ELSE "error"
      [] st.k = "drop_column" ->
            IF HasTable(s, st.table) /\ st.name \in s.tables[st.table].cols THEN "ok" ELSE "error"
      [] st.k = "drop_constraint" ->
            IF HasTable(s, st.table) /\ st.name \in s.tables[st.table].cons THEN "ok" ELSE "error"
      [] st.k = "drop_index" -> IF \E x \in s.indexes : x.name = st.name THEN "ok" ELSE "error"

Drops(st) == st.k \in {"drop_table", "drop_column", "drop_constraint", "drop_index"}
=============================================================================
