----------------------------- MODULE SchemaSync -----------------------------
(***************************************************************************)
(* ModelManager over a database connection                                 *)
(* (src/model_manager/sdk_integration.rs): tasks, of one program or of     *)
(* several that start together, apply, synchronise, migrate and drop       *)
(* models.  Every statement is a call of DatabaseConnection::execute of    *)
(* its own, so the statements of different tasks interleave, and none is   *)
(* undone when a later one fails.                                          *)
(***************************************************************************)
EXTENDS SqlDatabase

CONSTANTS
    Tasks,
    Databases,   \* database types
    Lists,       \* lists of models that the application synchronises
    Migrations,  \* pairs of models it migrates between with a script of its own
    MaxCalls,    \* bound: calls
    MaxFaults,   \* bound: statements that fail for a reason that is not modelled
    NoOne

ASSUME ListsAssumption == \A ms \in Lists : ms \in Seq(Descriptors) /\ ms # <<>>
ASSUME MigrationsAssumption == Migrations \subseteq Descriptors \X Descriptors
ASSUME DatabasesAssumption == Databases \subseteq DbTypes
ASSUME BoundsAssumption == MaxCalls \in Nat /\ MaxFaults \in Nat

Models == UNION {{ms[i] : i \in DOMAIN ms} : ms \in Lists}

VARIABLES
    dbType,
    schema,  \* of the database
    call,    \* of each task
    back,    \* what the last step returned, or NoOne
    upset,   \* history: what has come in the way of a call
    calls, faults \* bounds

vars == <<dbType, schema, call, back, upset, calls, faults>>

Phases == {"idle", "enums", "create", "enums_again", "migrate", "drop", "script"}
Idle == [phase |-> "idle", op |-> "none", models |-> <<>>, at |-> 1, script |-> <<>>]
Upsets == {"failed", "dropped", "raced", "duplicates"}

TypeOK ==
    /\ dbType \in Databases
    /\ \A n \in DOMAIN schema.tables : schema.tables[n].key \in BOOLEAN
    /\ \A t \in Tasks :
        /\ call[t].phase \in Phases
        /\ call[t].phase # "idle" => call[t].at \in DOMAIN call[t].models
        /\ call[t].phase \in {"enums_again", "migrate"} => call[t].op = "sync_schema"
        /\ upset[t] \subseteq Upsets
    \* An index is of a table that is there, and of columns that it has.
    /\ \A x \in schema.indexes :
            HasTable(schema, x.table) /\ x.cols \subseteq schema.tables[x.table].cols
    /\ calls \in 0..MaxCalls /\ faults \in 0..MaxFaults

Init ==
    /\ dbType \in Databases /\ schema = EmptySchema
    /\ call = [t \in Tasks |-> Idle] /\ back = NoOne
    /\ upset = [t \in Tasks |-> {}]
    /\ calls = 0 /\ faults = 0

Model(t) == call[t].models[call[t].at]
\* A script is a function from places: the statements that are left of it are
\* executed in the order of their places.
Waiting(t) == DOMAIN call[t].script # {}
Place(t) == Min(DOMAIN call[t].script)
Current(t) == call[t].script[Place(t)]
Rest(t) == Restrict(call[t].script, DOMAIN call[t].script \ {Place(t)})

-----------------------------------------------------------------------------
(* Calls.                                                                  *)

Begin(t, op, ms, phase, script) ==
    /\ call[t].phase = "idle" /\ calls < MaxCalls /\ calls' = calls + 1
    /\ call' = [call EXCEPT ![t] = [phase |-> phase, op |-> op, models |-> ms, at |-> 1,
                                    script |-> script]]
    /\ upset' = [upset EXCEPT ![t] = {}] /\ back' = NoOne
    /\ UNCHANGED <<dbType, schema, faults>>

SyncSchema(t, ms) == Begin(t, "sync_schema", ms, "enums", EnumsSql(dbType, ms[1]))
ApplyModel(t, m) == Begin(t, "apply_model", <<m>>, "enums", EnumsSql(dbType, m))
DropModel(t, m) == Begin(t, "drop_model", <<m>>, "drop", <<DropScript(dbType, TableOf(m))>>)
\* A script of generate_migration_script that the application executes.
MigrateOwn(t, from, to) ==
    LET script == MigrationScript(dbType, from, to) IN
    script # Err /\ Begin(t, "migration", <<to>>, "script", Split(script))

Return(t, res) ==
    /\ call' = [call EXCEPT ![t] = Idle]
    /\ back' = [by |-> t, op |-> call[t].op, models |-> call[t].models, res |-> res]
Goes(t, phase, script) ==
    /\ call' = [call EXCEPT ![t].phase = phase, ![t].script = script]
    /\ back' = NoOne

\* The model is done: the next one, or Ok.
NextModel(t) ==
    IF call[t].at < Len(call[t].models)
    THEN /\ call' = [call EXCEPT ![t].at = @ + 1, ![t].phase = "enums",
                                 ![t].script = EnumsSql(dbType, call[t].models[call[t].at + 1])]
         /\ back' = NoOne
    ELSE Return(t, "Ok")

Generated(t, phase, script) == IF script = Err THEN Return(t, "Err") ELSE Goes(t, phase, Split(script))

AdditiveScript_Swapped(m) == MigrationScript(dbType, m, Empty(m))
\* As if the table had nothing, so that the script only adds.
AdditiveScript(m) == MigrationScript(dbType, Empty(m), m)

\* All statements of a phase are executed: the next phase is generated.
EndPhase(t) ==
    /\ call[t].phase # "idle" /\ ~Waiting(t)
    /\ CASE call[t].phase = "enums" -> Generated(t, "create", CreateScript(dbType, Model(t)))
         [] call[t].phase = "enums_again" -> Generated(t, "migrate", AdditiveScript(Model(t)))
         [] OTHER -> NextModel(t)
    /\ UNCHANGED <<dbType, schema, upset, calls, faults>>

-----------------------------------------------------------------------------
(* What a call does with the answer to a statement.                        *)

\* is_table_already_exists_error
TableAlreadyExists(a) == a = "table_exists"
\* is_general_already_exists_error, is_enum_already_exists_error
GeneralAlreadyExists_All(a) == TRUE
GeneralAlreadyExists_NotDuplicate(a) == a = "table_exists"
GeneralAlreadyExists(a) == a \in {"table_exists", "exists", "duplicate"}

\* CREATE TABLE says that the table is there.
OnTableExists_Migrates(t) == Goes(t, "enums_again", EnumsSql(dbType, Model(t)))
OnTableExists(t) == IF call[t].op = "sync_schema"
                    THEN Goes(t, "enums_again", EnumsSql(dbType, Model(t))) ELSE Return(t, "Err")

Handle(t, a) ==
    LET next == Goes(t, call[t].phase, Rest(t)) IN
    CASE a = "ok" -> next
      [] a # "ok" /\ call[t].phase = "create" /\ Current(t).k = "create_table"
                  /\ TableAlreadyExists(a) -> OnTableExists(t)
      [] a # "ok" /\ call[t].phase \in {"drop", "script"} -> Return(t, "Err")
      [] OTHER -> IF GeneralAlreadyExists(a) THEN next ELSE Return(t, "Err")

\* A statement of t that drops something upsets the calls in progress of
\* the others.
Upset(t, st, own) ==
    upset' = [u \in Tasks |->
        IF u = t THEN upset[u] \union own
        ELSE IF call[u].phase # "idle" /\ Drops(st) THEN upset[u] \union {"dropped"}
        ELSE upset[u]]

\* The database executes the statement and answers.
Execute(t) ==
    /\ Waiting(t)
    /\ LET a == Answer(dbType, schema, Current(t)) IN
       /\ schema' = IF a = "ok" THEN After(schema, Current(t)) ELSE schema
       /\ IF a = "ok" THEN Upset(t, Current(t), {}) ELSE UNCHANGED upset
       /\ Handle(t, a)
    /\ UNCHANGED <<dbType, calls, faults>>

\* Two CREATE TABLE at the same time: PostgreSQL tells the later one of a
\* duplicate key in its catalogue, not of a relation that exists.
Race(t) ==
    /\ Waiting(t) /\ dbType = "postgres" /\ Current(t).k = "create_table"
    /\ HasTable(schema, Current(t).table)
    /\ \E u \in Tasks \ {t} : call[u].phase # "idle" /\ TableOf(Model(u)) = Current(t).table
    /\ upset' = [upset EXCEPT ![t] = @ \union {"raced"}]
    /\ Handle(t, "exists") /\ UNCHANGED <<dbType, schema, calls, faults>>

\* Rows of the table do not allow a unique index or column.
Duplicates(t) ==
    /\ Waiting(t) /\ MakesUnique(Current(t)) /\ Answer(dbType, schema, Current(t)) = "ok"
    /\ upset' = [upset EXCEPT ![t] = @ \union {"duplicates"}]
    /\ Handle(t, AnswerToDuplicates(dbType)) /\ UNCHANGED <<dbType, schema, calls, faults>>

\* The statement fails in another way, before or after it has had its effect:
\* no connection to the database, a lock, what SqlDatabase leaves out.
Fault(t) ==
    /\ Waiting(t) /\ faults < MaxFaults /\ faults' = faults + 1
    /\ \/ UNCHANGED schema
       \/ Answer(dbType, schema, Current(t)) = "ok" /\ schema' = After(schema, Current(t))
    /\ Upset(t, Current(t), {"failed"})
    /\ Handle(t, "error") /\ UNCHANGED <<dbType, calls>>

Next ==
    \E t \in Tasks :
        \/ \E ms \in Lists : SyncSchema(t, ms)
        \/ \E m \in Models : ApplyModel(t, m) \/ DropModel(t, m)
        \/ \E p \in Migrations : MigrateOwn(t, p[1], p[2])
        \/ EndPhase(t) \/ Execute(t) \/ Race(t) \/ Duplicates(t) \/ Fault(t)

Spec == Init /\ [][Next]_vars

-----------------------------------------------------------------------------
(* Properties.                                                             *)

Synced(t, res) == back' # back /\ back' # NoOne /\ back'.by = t /\ back'.res = res
                  /\ back'.op = "sync_schema"

\* Without regard to the schema, as the statement has it.  In SQLite and in
\* PostgreSQL an index of another table can have the name.
IndexThere(s, m, x) ==
    \E y \in s.indexes : /\ y.name = IndexName(x, m.name)
                        /\ dbType = "mysql" => y.table = <<NoSchema, m.name>>
Complete(s, m) ==
    /\ HasTable(s, TableOf(m)) /\ ColumnNames(m) \subseteq s.tables[TableOf(m)].cols
    /\ \A i \in DOMAIN m.indexes : IndexThere(s, m, m.indexes[i])

\* A model that names a column or a constraint twice.
NamesTwice(m) == RepeatsName(dbType, CreateTableSql(dbType, m))

\* When sync_schema returns Ok, every table of the list is there with all
\* columns and indexes of its model, whatever was there before and whatever
\* another task has synchronised meanwhile: unless something was dropped
\* meanwhile, or two tasks raced to create the table in PostgreSQL, or the
\* database said "duplicate" of something else than what exists, which is
\* taken for success: of rows that do not allow a unique index, or of two
\* names in one CREATE TABLE (sync_schema, is_general_already_exists_error).
SyncOkMeansComplete ==
    [][\A t \in Tasks : Synced(t, "Ok") /\ upset[t] = {} =>
        \A i \in DOMAIN call[t].models :
            NamesTwice(call[t].models[i]) \/ Complete(schema', call[t].models[i])]_vars

\* Models that a dialect never takes: a semicolon in a literal is where the
\* script is cut, an index is made without the schema, or of a column that the
\* model does not have, an enumeration of PostgreSQL has the schema in its
\* name, MySQL gets the key of marked columns twice, a name is there twice.
HasColumn(m, P(_)) == \E i \in DOMAIN m.cols : P(m.cols[i])
HasIndex(m, P(_)) == \E i \in DOMAIN m.indexes : P(m.indexes[i])
PrimaryKeys(m) ==
    {<<"column", i>> : i \in {j \in DOMAIN m.cols : m.cols[j].pk /\ dbType # "postgres"}}
    \union {<<"constraint", i>> : i \in {j \in DOMAIN m.constraints :
                                            m.constraints[j].kind = "primary_key"}}
    \union {x \in {<<"model", 0>>} : m.pk # {} \/ (dbType = "mysql" /\ HasColumn(m, LAMBDA c : c.pk))}
HasKeyTwice(m) == \E x, y \in PrimaryKeys(m) : x # y
OddIndex(x) == CASE dbType = "sqlite" -> x.type # "btree"
                 [] dbType = "mysql" -> (x.type \notin {"btree", "hash"} \/ x.partial)
                 [] dbType = "postgres" -> x.type = "spatial"
OddColumn(c) == CASE dbType = "sqlite" -> (c.pk /\ c.auto /\ c.type \notin {"integer", "bigint"})
                  [] dbType = "mysql" -> FALSE
                  [] dbType = "postgres" -> (c.auto /\ c.type # "integer")
Unsupported(m) ==
    \/ HasColumn(m, LAMBDA c : c.default = "semicolon")
    \/ NamesTwice(m) \/ HasColumn(m, OddColumn) \/ HasIndex(m, OddIndex) \/ HasKeyTwice(m)
    \/ HasIndex(m, LAMBDA x : ~(x.cols \subseteq ColumnNames(m)))
    \/ m.schema # NoSchema /\ m.indexes # <<>>
    \/ m.schema # NoSchema /\ dbType = "postgres" /\ HasColumn(m, LAMBDA c : c.type = "enum")
RefersToNothing(m) ==
    dbType # "sqlite" /\ \E i \in DOMAIN m.constraints :
        m.constraints[i].kind = "foreign_key" /\ ~HasTable(schema, <<NoSchema, m.constraints[i].ref>>)
\* Models that cannot be added to a table that exists, even if it has all of
\* them; in MySQL, a key of a column that it does not have.
Unextendable(m) ==
    \/ \E i \in DOMAIN m.constraints : m.constraints[i].kind \in TableLevel
    \/ dbType = "sqlite" /\ HasColumn(m, LAMBDA c :
            (c.pk \/ c.unique \/ c.references \/ (~c.nullable /\ c.default = "none")))
    \/ dbType = "mysql" /\ HasColumn(m, LAMBDA c :
            c.pk /\ c.name \notin schema.tables[TableOf(m)].cols)

\* sync_schema returns an error only if a statement failed, something was
\* dropped meanwhile, tasks raced or rows were in the way, or for a model that
\* the dialect does not take, or that it cannot add to a table that exists:
\* never because others synchronise too, or because an earlier call got half
\* way.
SyncErrorsHaveCause ==
    [][\A t \in Tasks : Synced(t, "Err") /\ upset'[t] = {} =>
        \/ Unsupported(Model(t)) \/ RefersToNothing(Model(t))
        \/ call[t].phase \in {"enums_again", "migrate"} /\ Unextendable(Model(t))]_vars

\* Documented: sync_schema can safely be called at every start.  If the
\* schema has all that the models ask for, it does not fail by itself.
SyncIsRepeatable ==
    [][\A t \in Tasks : Synced(t, "Err") /\ upset'[t] = {} =>
        \E i \in DOMAIN call[t].models : ~Complete(schema, call[t].models[i])]_vars
=============================================================================
