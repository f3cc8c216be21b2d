----------------------------- MODULE Databases ------------------------------
(***************************************************************************)
(* Database connections (src/database): tasks of the application share one *)
(* connection, to a database or through the orchestrator, and use          *)
(* transactions of their own.                                              *)
(***************************************************************************)
EXTENDS SqlxDrivers, ProxyDatabase

\* create_database_connection: proxied if the program runs as a module.
Connect ==
    /\ \/ (SqliteConnect \/ MySqlConnect \/ PostgresConnect) /\ Local
       \/ ProxyConnect /\ UNCHANGED free
    /\ back' = NoRow /\ UNCHANGED <<used, calls, acked, asked, tainted, begun>>

\* A task calls a method, of the connection or of its transaction.
Use(t) ==
    \/ \E o \in ConnOps :
            /\ o = "begin" => handle[t] = NoTx /\ \E i \in TxIds : Fresh(i)
            /\ Start(t, o, NoTx)
    \/ \E o \in TxOps : handle[t] # NoTx /\ Start(t, o, handle[t])

\* A task drops its transaction.  A proxied one has no destructor.
DropTransaction(t) ==
    /\ ~Active(t) /\ handle[t] # NoTx
    /\ IF proxied THEN handle' = [handle EXCEPT ![t] = NoTx] /\ UNCHANGED <<free, dbVars>>
                  ELSE DropsTransaction(t)
    /\ back' = NoRow /\ UNCHANGED <<used, calls, conn, call, active, ipcVars, history>>

DirectStep(t) ==
    /\ SqliteStep(t) \/ MySqlStep(t) \/ PostgresStep(t)
    /\ Local /\ Record(t)
ProxiedStep(t) ==
    /\ ProxyStep(t) /\ Record(t)
    /\ UNCHANGED <<conn, free, dbVars>>

Orchestrator ==
    /\ proxied
    /\ \/ OrchestratorDoes
       \/ Deliver /\ UNCHANGED <<conn, dbVars>>
    /\ back' = NoRow /\ UNCHANGED <<used, calls, free, acked, asked, tainted, begun>>

Next ==
    \/ Connect \/ Orchestrator
    \/ \E t \in Tasks : Use(t) \/ DirectStep(t) \/ ProxiedStep(t) \/ DropTransaction(t)

\* A statement, begin, commit or rollback is with a server.  Nothing bounds
\* the wait for its answer: PostgreSQL lets it wait for a row that another
\* open transaction has locked, and a server may fall silent.  SQLite is in
\* the process, and gives up a lock after its busy timeout.
AtServer(t) ==
    /\ ~proxied /\ dbType # "sqlite"
    /\ call[t].op \in Statements => ~Refused
    /\ call[t].pc = "acquired" \/ (call[t].pc = "called" /\ call[t].tx # NoTx)

\* A call that has begun goes on as long as it is not with a server: the
\* runtime polls it, and the timer of acquire elapses.  Nothing says what the
\* servers, the tasks or the orchestrator will do.
Fairness == \A t \in Tasks : WF_databaseVars(DirectStep(t) /\ ~AtServer(t))
Spec == DatabaseInit /\ [][Next]_databaseVars /\ Fairness

TypeOK == DatabaseTypeOK

-----------------------------------------------------------------------------
(* Properties.                                                             *)

Succeeded(t, o) == call[t].op = o /\ Active(t) /\ ~Active(t)' /\ back'.res = "Ok"

\* Ok tells the truth: after execute the row is stored, and after commit all
\* rows are that execute has returned Ok for in this transaction.  For
\* proxied calls this needs that no other call of the connection overlaps,
\* and in PostgreSQL that no statement of the transaction has failed.
OkIsTrue ==
    [][\A t \in Tasks : (proxied => call[t].alone) =>
        /\ Succeeded(t, "execute") /\ call[t].tx = NoTx => NoTx \in stored'
        /\ Succeeded(t, "commit") /\ call[t].tx \notin tainted =>
                (call[t].tx \in acked => call[t].tx \in stored')]_databaseVars

\* What a transaction has written is seen only if its commit was called:
\* not when it was rolled back, dropped, or left to close (rollback, Drop of
\* sqlx's Transaction, close of the proxied connection).
NothingUnasked == stored \subseteq asked \union {NoTx}

\* When close has returned Ok, no transaction is open, except, proxied, one
\* whose id the SDK has not received, or whose rollback by a close failed, or
\* if another call overlapped with close.
ClosedMeansEnded ==
    [][\A t \in Tasks : Succeeded(t, "close") =>
        \A i \in TxIds : IsOpen(i)' =>
            proxied /\ (~call[t].alone \/ i \notin begun \/ i \in refused)]_databaseVars

\* A getter of the kind that was written gives what was written.  NULL is an
\* error; only proxied rows give None for it from try_get.  SQLite makes NULL
\* of a NaN.  An array has no getter of its own: as text, PostgreSQL gives its
\* Debug form, and a proxied row an error.
ReadBack ==
    back # NoRow /\ back.got # NoRow => \A v \in param :
        LET r == back.got[v] IN
        CASE v = "Null" \/ (v = "NaN" /\ Driver = "sqlite") ->
                r = [get |-> {"Err"}, try |-> {IF proxied THEN "None" ELSE "Err"}]
          [] v \in Arrays -> IF proxied THEN r = [get |-> {"Err"}, try |-> {"Err"}]
                            ELSE Driver = "postgres" /\ r = [get |-> {"Debug"}, try |-> {"Debug"}]
          [] OTHER -> r = [get |-> {v}, try |-> {v}]

\* Every call of a direct connection returns, whatever the other tasks and
\* the servers do (acquire_timeout), except one whose statement a server never
\* answers, which has no timer, and close while a connection stays in use: by
\* such a statement, or by a transaction that is not ended.
CallsReturn ==
    ~proxied => \A t \in Tasks :
        \/ []<>~Active(t)
        \/ <>[]AtServer(t)
        \/ <>[](call[t].pc = "closing" /\ free < PoolSize)
=============================================================================
