----------------------------- MODULE SqlxDrivers ------------------------------
(***************************************************************************)
(* The three drivers over sqlx (src/database): each method of a connection *)
(* or of a transaction takes its steps from the pool.                      *)
(***************************************************************************)
EXTENDS SqlxPool

-----------------------------------------------------------------------------
(* SqliteConnection and SqliteTransaction (src/database/sqlite.rs).        *)

SqliteDirect == ~proxied /\ dbType = "sqlite"

SqliteConnect ==
    /\ SqliteDirect /\ conn = "none" /\ conn' = "open"
    /\ UNCHANGED <<call, handle, free, dbVars>>

SqliteExecute(t) == OnConnection(t, "execute") /\ Statement(t)
SqliteQuery(t) == OnConnection(t, "query") /\ Statement(t)
SqliteQueryOne(t) == OnConnection(t, "query_one") /\ Statement(t)
SqliteBegin(t) == OnConnection(t, "begin") /\ Begins(t)
SqlitePing(t) == OnConnection(t, "ping") /\ Statement(t)
SqliteClose(t) == OnConnection(t, "close") /\ ClosesPool(t)

SqliteTxExecute(t) == InTransaction(t, "execute") /\ TxStatement(t)
SqliteTxQuery(t) == InTransaction(t, "query") /\ TxStatement(t)
SqliteTxQueryOne(t) == InTransaction(t, "query_one") /\ TxStatement(t)
SqliteCommit(t) == InTransaction(t, "commit") /\ Ends(t)
SqliteRollback(t) == InTransaction(t, "rollback") /\ Ends(t)

SqliteStep(t) ==
    /\ SqliteDirect
    /\ \/ SqliteExecute(t) \/ SqliteQuery(t) \/ SqliteQueryOne(t) \/ SqliteBegin(t)
       \/ SqlitePing(t) \/ SqliteClose(t) \/ SqliteTxExecute(t) \/ SqliteTxQuery(t)
       \/ SqliteTxQueryOne(t) \/ SqliteCommit(t) \/ SqliteRollback(t)

-----------------------------------------------------------------------------
(* MySqlConnection and MySqlTransaction (src/database/mysql.rs).           *)

MySqlDirect == ~proxied /\ dbType = "mysql"

MySqlConnect ==
    /\ MySqlDirect /\ conn = "none" /\ conn' = "open"
    /\ UNCHANGED <<call, handle, free, dbVars>>

MySqlExecute(t) == OnConnection(t, "execute") /\ Statement(t)
MySqlQuery(t) == OnConnection(t, "query") /\ Statement(t)
MySqlQueryOne(t) == OnConnection(t, "query_one") /\ Statement(t)
MySqlBegin(t) == OnConnection(t, "begin") /\ Begins(t)
MySqlPing(t) == OnConnection(t, "ping") /\ Statement(t)
MySqlClose(t) == OnConnection(t, "close") /\ ClosesPool(t)

MySqlTxExecute(t) == InTransaction(t, "execute") /\ TxStatement(t)
MySqlTxQuery(t) == InTransaction(t, "query") /\ TxStatement(t)
MySqlTxQueryOne(t) == InTransaction(t, "query_one") /\ TxStatement(t)
MySqlCommit(t) == InTransaction(t, "commit") /\ Ends(t)
MySqlRollback(t) == InTransaction(t, "rollback") /\ Ends(t)

MySqlStep(t) ==
    /\ MySqlDirect
    /\ \/ MySqlExecute(t) \/ MySqlQuery(t) \/ MySqlQueryOne(t) \/ MySqlBegin(t)
       \/ MySqlPing(t) \/ MySqlClose(t) \/ MySqlTxExecute(t) \/ MySqlTxQuery(t)
       \/ MySqlTxQueryOne(t) \/ MySqlCommit(t) \/ MySqlRollback(t)

-----------------------------------------------------------------------------
(* PostgresConnection and PostgresTransaction (src/database/postgres.rs).  *)

PostgresDirect == ~proxied /\ dbType = "postgres"

PostgresConnect ==
    /\ PostgresDirect /\ conn = "none" /\ conn' = "open"
    /\ UNCHANGED <<call, handle, free, dbVars>>

PostgresExecute(t) == OnConnection(t, "execute") /\ Statement(t)
PostgresQuery(t) == OnConnection(t, "query") /\ Statement(t)
PostgresQueryOne(t) == OnConnection(t, "query_one") /\ Statement(t)
PostgresBegin(t) == OnConnection(t, "begin") /\ Begins(t)
PostgresPing(t) == OnConnection(t, "ping") /\ Statement(t)
PostgresClose(t) == OnConnection(t, "close") /\ ClosesPool(t)

PostgresTxExecute(t) == InTransaction(t, "execute") /\ TxStatement(t)
PostgresTxQuery(t) == InTransaction(t, "query") /\ TxStatement(t)
PostgresTxQueryOne(t) == InTransaction(t, "query_one") /\ TxStatement(t)
PostgresCommit(t) == InTransaction(t, "commit") /\ Ends(t)
PostgresRollback(t) == InTransaction(t, "rollback") /\ Ends(t)

PostgresStep(t) ==
    /\ PostgresDirect
    /\ \/ PostgresExecute(t) \/ PostgresQuery(t) \/ PostgresQueryOne(t) \/ PostgresBegin(t)
       \/ PostgresPing(t) \/ PostgresClose(t) \/ PostgresTxExecute(t) \/ PostgresTxQuery(t)
       \/ PostgresTxQueryOne(t) \/ PostgresCommit(t) \/ PostgresRollback(t)
=============================================================================
