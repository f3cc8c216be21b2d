--------------------------- MODULE DatabaseCalls ----------------------------
(***************************************************************************)
(* The calls of DatabaseConnection and DatabaseTransaction                 *)
(* (src/database/mod.rs): the state that the drivers share, the database   *)
(* behind them, how a call begins and ends, and the history that the       *)
(* properties are about.  Modules SqlxDrivers and ProxyDatabase give the   *)
(* steps of a call, Databases puts them together.                          *)
(*                                                                         *)
(* A statement writes or reads one row; a row is known by the transaction  *)
(* that wrote it, 0 for none.  All rows of a behaviour have columns of the *)
(* same kinds.                                                             *)
(***************************************************************************)
EXTENDS DatabaseValues, Naturals, Sequences, FiniteSets

CONSTANTS
    Tasks,      \* tasks of the application, with one connection
    Uses,       \* pairs of a database type and whether it is proxied
    Params,     \* sets of kinds of values: what a row may have
    PoolSize,   \* pool.max_connections
    MaxTx,      \* bound: transactions that are begun
    MaxOrders,  \* bound: orders and answers under way when a call begins
    MaxCalls,   \* bound: calls that are made of a connection, by whether it is proxied
    NoOne, NoRow

ASSUME TasksAssumption == Tasks # {} /\ NoOne \notin Tasks
ASSUME UsesAssumption == Uses \subseteq {"sqlite", "mysql", "postgres"} \X BOOLEAN
ASSUME ParamsAssumption == Params \subseteq SUBSET Kinds
ASSUME BoundsAssumption == PoolSize \in Nat \ {0} /\ MaxTx \in Nat \ {0} /\ MaxOrders \in Nat /\ MaxCalls \in [BOOLEAN -> Nat]

TxIds == 1..MaxTx
NoTx == 0
Rows == TxIds \union {NoTx}

Statements == {"execute", "query", "query_one"}
ConnOps == Statements \union {"begin", "ping", "close"}
TxOps == Statements \union {"commit", "rollback"}
Ops == ConnOps \union TxOps

\* What the getters give a caller for the columns of a row, each by the kind
\* that was written.
Reading == [x \in Drivers \X Params |-> [v \in x[2] |->
    [get |-> {Get(x[1], Bind(x[1], v), g, FALSE) : g \in OwnGetters(v)},
     try |-> {Get(x[1], Bind(x[1], v), g, TRUE) : g \in OwnGetters(v)}]]]
Readings == {Reading[x] : x \in Drivers \X Params}
Orders == [op : Ops, tx : TxIds \union {NoTx}]
Answers == [kind : {"count", "rows", "row", "id", "done", "error"},
            tx : TxIds \union {NoTx}, row : Rows \union {NoRow}]
NoAnswer == [kind |-> "error", tx |-> NoTx, row |-> NoRow]

Call == [pc : {"idle", "called", "acquired", "closing", "sent", "answered"}, op : Ops,
         tx : TxIds \union {NoTx},
         ans : Answers, todo : SUBSET TxIds, alone : BOOLEAN]
\* What a call has returned, in the step that returned.
Returns == [by : Tasks, res : {"Ok", "Err"}, got : Readings \union {NoRow}]

VARIABLES
    dbType,   \* DatabaseConfig::db_type
    proxied,  \* the connection is a ProxyDatabaseConnection
    param,    \* the kinds of values that a row has
    calls,    \* bound: calls made
    conn,     \* none, open, or closed by close
    call,     \* the call of each task
    back,     \* what the last step returned, or NoRow
    handle,   \* the transaction that a task holds
    free,     \* connections of the pool that are not in use
    active,   \* ProxyDatabaseConnection::active_transactions
    waiting,  \* the task whose sender is in ipc's pending map under connection_id
    orders, answers, \* under way to and from the orchestrator
    txs,      \* transactions of the database
    stored,   \* rows that everyone sees
    acked,    \* history: rows whose writing returned Ok
    asked,    \* history: transactions whose commit was called
    tainted,  \* history: transactions with calls that overlapped or that broke them
    begun,    \* history: proxied transactions whose id has been received
    refused   \* history: proxied transactions that a close gave up, or may have:
              \* it overlapped with another call, whose answer it may have taken

ipcVars == <<waiting, orders, answers>>
dbVars == <<txs, stored>>
history == <<acked, asked, tainted, begun, refused>>
used == <<dbType, proxied, param>>
databaseVars == <<used, calls, conn, call, back, handle, free, active, ipcVars, dbVars, history>>

DatabaseTypeOK ==
    /\ <<dbType, proxied>> \in Uses /\ param \in Params /\ calls \in 0..MaxCalls[proxied]
    /\ conn \in {"none", "open", "closed"}
    /\ call \in [Tasks -> Call] /\ back \in Returns \union {NoRow}
    /\ handle \in [Tasks -> TxIds \union {NoTx}]
    /\ active \subseteq TxIds /\ waiting \in Tasks \union {NoOne}
    /\ orders \in Seq(Orders) /\ answers \in Seq(Answers)
    /\ txs \in [TxIds -> [st : {"none", "open", "broken", "committed", "aborted"}, rows : SUBSET Rows]]
    /\ stored \subseteq Rows /\ acked \subseteq Rows
    /\ asked \subseteq TxIds /\ tainted \subseteq TxIds
    /\ begun \subseteq TxIds /\ refused \subseteq TxIds
    \* Every connection of the pool is free, held by a transaction or in use.
    /\ free + Cardinality({t \in Tasks : call[t].pc = "acquired" /\ call[t].tx = NoTx})
            + (IF proxied THEN 0 ELSE Cardinality({t \in Tasks : handle[t] # NoTx})) = PoolSize

Driver == IF proxied THEN "proxy" ELSE dbType
Refused == \E v \in param : Bind(Driver, v) = "refused"
Held == \A v \in param : Holds(Driver, v)
Ended == [pc |-> "idle", op |-> "ping", tx |-> NoTx, ans |-> NoAnswer, todo |-> {}, alone |-> FALSE]

DatabaseInit ==
    /\ \E u \in Uses : dbType = u[1] /\ proxied = u[2]
    /\ param \in Params /\ calls = 0
    /\ conn = "none"
    /\ call = [t \in Tasks |-> Ended] /\ back = NoRow
    /\ handle = [t \in Tasks |-> NoTx]
    /\ free = PoolSize /\ active = {} /\ waiting = NoOne /\ orders = <<>> /\ answers = <<>>
    /\ txs = [i \in TxIds |-> [st |-> "none", rows |-> {}]] /\ stored = {}
    /\ acked = {} /\ asked = {} /\ tainted = {} /\ begun = {} /\ refused = {}

Active(t) == call[t].pc # "idle"
OnConnection(t, o) == call[t].op = o /\ call[t].tx = NoTx
InTransaction(t, o) == call[t].op = o /\ call[t].tx # NoTx
Fresh(i) == txs[i].st = "none" /\ \A j \in TxIds : j < i => txs[j].st # "none"
IsOpen(i) == txs[i].st \in {"open", "broken"}

-----------------------------------------------------------------------------
(* The database, which is not part of the repository.  A statement is      *)
(* executed as a whole or fails; in PostgreSQL one that fails breaks its   *)
(* transaction, whose commit is then answered like any other and rolls     *)
(* back.  Conflicts between transactions are among the failures, or keep   *)
(* the statement waiting.  It writes and reads only rows that it can hold. *)

Finish(i, st) == txs' = [txs EXCEPT ![i] = [st |-> st, rows |-> {}]]
SameDb == UNCHANGED dbVars

Executed(o, i) ==
    CASE o = "execute" /\ i = NoTx -> stored' = stored \union {NoTx} /\ UNCHANGED txs
      [] o = "execute" /\ i # NoTx ->
            txs' = [txs EXCEPT ![i].rows = @ \union {i}] /\ UNCHANGED stored
      [] o = "begin" -> txs' = [txs EXCEPT ![i].st = "open"] /\ UNCHANGED stored
      [] o = "commit" ->
            IF txs[i].st = "open" THEN stored' = stored \union txs[i].rows /\ Finish(i, "committed")
                                  ELSE UNCHANGED stored /\ Finish(i, "aborted")
      [] o = "rollback" -> Finish(i, "aborted") /\ UNCHANGED stored
      [] OTHER -> SameDb

Failed(o, i) ==
    /\ IF o \in Statements /\ i # NoTx /\ dbType = "postgres" /\ IsOpen(i)
       THEN txs' = [txs EXCEPT ![i].st = "broken"] ELSE UNCHANGED txs
    /\ UNCHANGED stored

\* Statements run in a transaction that is open, and see its rows.
Runs(o, i) ==
    CASE i = NoTx -> TRUE
      [] o = "begin" -> Fresh(i)
      [] o \in Statements -> txs[i].st = "open"
      [] OTHER -> IsOpen(i)
Visible(i) == IF Held THEN stored \union (IF i = NoTx THEN {} ELSE txs[i].rows) ELSE {}

-----------------------------------------------------------------------------
(* How a call begins and ends.                                             *)

\* A task calls a method.  The proxied calls of one connection share an
\* entry of ipc's pending map: alone tells that no other call or message of
\* the connection was there meanwhile.
Start(t, o, i) ==
    LET quiet == orders = <<>> /\ answers = <<>> /\ \A u \in Tasks \ {t} : ~Active(u) IN
    /\ conn # "none" /\ ~Active(t)
    /\ calls < MaxCalls[proxied] /\ calls' = calls + 1
    /\ Len(orders) + Len(answers) <= MaxOrders
    /\ call' = [u \in Tasks |->
            IF u = t THEN [pc |-> "called", op |-> o, tx |-> i, ans |-> NoAnswer,
                           todo |-> {}, alone |-> quiet]
            ELSE [call[u] EXCEPT !.alone = FALSE]]
    /\ back' = NoRow
    /\ asked' = IF o = "commit" THEN asked \union {i} ELSE asked
    /\ tainted' = IF quiet \/ ~proxied THEN tainted
                  ELSE tainted \union (({i} \union {call[u].tx : u \in Tasks}) \ {NoTx})
    /\ UNCHANGED <<used, conn, handle, free, active, ipcVars, dbVars, acked, begun, refused>>

Return(t, r, g) ==
    call' = [call EXCEPT ![t] = Ended] /\ back' = [by |-> t, res |-> r, got |-> g]
Goto(t, l) == call' = [call EXCEPT ![t].pc = l]

\* The caller reads row x, if there is one.
Reads(t, x) ==
    IF x = NoRow THEN Return(t, "Ok", NoRow)
    ELSE Return(t, "Ok", Reading[<<Driver, param>>])

\* The history after a step of t.
Record(t) ==
    LET c == call[t]
        ended == ~Active(t)' IN
    /\ ~ended => back' = NoRow
    /\ acked' = IF ended /\ c.op = "execute" /\ back'.res = "Ok"
                THEN acked \union {c.tx} ELSE acked
    /\ tainted' = IF ended /\ c.op = "begin" /\ ~c.alone /\ proxied
                  THEN tainted \union ({handle'[t]} \ {NoTx})
                  ELSE IF ended /\ back'.res = "Err" /\ dbType = "postgres"
                  THEN tainted \union ({c.tx} \ {NoTx}) ELSE tainted
    /\ begun' = begun \union active'
    /\ UNCHANGED <<used, calls, asked>>
=============================================================================
