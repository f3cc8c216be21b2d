------------------------------ MODULE SqlxPool ------------------------------
(***************************************************************************)
(* The pool and the transactions of sqlx, as the direct drivers use them   *)
(* (src/database/sqlite.rs, mysql.rs, postgres.rs).  sqlx is not part of   *)
(* the repository: a call takes a connection, waits for one at most        *)
(* acquire_timeout, and gives it back when it ends; a transaction keeps    *)
(* its own, and rolls back when it is dropped; closing the pool wakes up   *)
(* those who wait and waits for the connections that are in use.           *)
(***************************************************************************)
EXTENDS DatabaseCalls

Local == UNCHANGED <<active, ipcVars, refused>>
\* An answer may be lost on the way from a database server.
MayLose == dbType # "sqlite"

\* A parameter that cannot be bound; nothing has been done yet.
BindFails(t) ==
    /\ call[t].pc = "called" /\ Refused
    /\ Return(t, "Err", NoRow)
    /\ UNCHANGED <<conn, handle, free, dbVars>>

Acquire_NoTimeout(t) ==
    /\ call[t].pc = "called" /\ conn = "open" /\ free > 0
    /\ free' = free - 1 /\ Goto(t, "acquired")
    /\ UNCHANGED <<conn, handle, dbVars>>

\* PoolTimedOut, PoolClosed, or no connection to the server.
Acquire(t) ==
    \/ Acquire_NoTimeout(t)
    \/ call[t].pc = "called" /\ Return(t, "Err", NoRow) /\ UNCHANGED <<conn, handle, free, dbVars>>

\* The statement of call t runs on its connection, in transaction i.  It has
\* no timer: when this happens is left to the database (AtServer).
Outcome(t, i) ==
    LET o == call[t].op IN
    \/ /\ Runs(o, i) /\ Executed(o, i) /\ (o = "execute" => Held)
       /\ \/ o \notin {"query", "query_one"} /\ Return(t, "Ok", NoRow)
          \/ o \in {"query", "query_one"} /\ \E x \in Visible(i) \union {NoRow} : Reads(t, x)
          \/ MayLose /\ Return(t, "Err", NoRow)
    \/ Failed(o, i) /\ Return(t, "Err", NoRow)

\* A method of the connection: bind, acquire, run, give back.
Statement(t) ==
    \/ call[t].op \in Statements /\ BindFails(t)
    \/ (call[t].op \in Statements => ~Refused) /\ Acquire(t)
    \/ /\ call[t].pc = "acquired" /\ Outcome(t, NoTx)
       /\ free' = free + 1 /\ UNCHANGED <<conn, handle>>

\* A statement of a transaction, on the connection that it has.
TxStatement(t) ==
    \/ BindFails(t)
    \/ /\ call[t].pc = "called" /\ ~Refused /\ Outcome(t, call[t].tx)
       /\ UNCHANGED <<conn, handle, free>>

\* begin keeps its connection, unless it fails.
Begins(t) ==
    \/ Acquire(t)
    \/ /\ call[t].pc = "acquired" /\ UNCHANGED conn
       /\ \/ /\ \E i \in TxIds : Runs("begin", i) /\ Executed("begin", i)
                                 /\ handle' = [handle EXCEPT ![t] = i]
             /\ Return(t, "Ok", NoRow) /\ UNCHANGED free
          \/ /\ Return(t, "Err", NoRow) /\ free' = free + 1 /\ UNCHANGED <<handle, dbVars>>

Ends_Keeps(t) ==
    /\ call[t].pc = "called" /\ Executed(call[t].op, call[t].tx) /\ Return(t, "Ok", NoRow)
    /\ free' = free + 1 /\ UNCHANGED <<conn, handle>>

\* commit and rollback take the transaction; when they fail the connection
\* is given up and the database rolls back, if it has not committed.
Ends(t) ==
    LET o == call[t].op  i == call[t].tx IN
    /\ call[t].pc = "called"
    /\ \/ Executed(o, i) /\ Return(t, "Ok", NoRow)
       \/ MayLose /\ Executed(o, i) /\ Return(t, "Err", NoRow)
       \/ Finish(i, "aborted") /\ UNCHANGED stored /\ Return(t, "Err", NoRow)
    /\ handle' = [handle EXCEPT ![t] = NoTx] /\ free' = free + 1
    /\ UNCHANGED conn

\* Pool::close.
ClosesPool(t) ==
    \/ /\ call[t].pc = "called" /\ conn' = "closed" /\ Goto(t, "closing")
       /\ UNCHANGED <<handle, free, dbVars>>
    \/ /\ call[t].pc = "closing" /\ free = PoolSize /\ Return(t, "Ok", NoRow)
       /\ UNCHANGED <<conn, handle, free, dbVars>>

\* The transaction goes out of scope: sqlx rolls back.
DropsTransaction(t) ==
    /\ Finish(handle[t], "aborted") /\ UNCHANGED stored
    /\ handle' = [handle EXCEPT ![t] = NoTx] /\ free' = free + 1
=============================================================================
