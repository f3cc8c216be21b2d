--------------------------- MODULE ProxyDatabase ----------------------------
(***************************************************************************)
(* ProxyDatabaseConnection and ProxyDatabaseTransaction                    *)
(* (src/database/proxy_connection.rs): every call is a ServiceOperation    *)
(* that goes through ipc::send_request (module Ipc).  All operations of a  *)
(* connection have its connection_id for their key in the pending map:     *)
(* a call that is sent replaces the one that waits, which then fails, and  *)
(* an answer goes to whoever waits.                                        *)
(***************************************************************************)
EXTENDS DatabaseCalls

ProxyConnect ==
    /\ proxied /\ conn = "none" /\ conn' = "open"
    /\ UNCHANGED <<call, handle, active, ipcVars, dbVars, refused>>

\* serialize_params fails.
SerializeFails(t) ==
    /\ call[t].pc = "called" /\ call[t].op \in Statements /\ Refused
    /\ Return(t, "Err", NoRow) /\ UNCHANGED <<active, ipcVars, handle, refused>>

\* close ignores what becomes of the rollbacks it sends.
Rollback(t) == CHOOSE i \in call[t].todo : \A j \in call[t].todo : i <= j
RollsBack(t) == call[t].op = "close" /\ call[t].todo # {}
NextRollback(t) == call' = [call EXCEPT ![t].pc = "closing", ![t].todo = @ \ {Rollback(t)}]
Fails(t) ==
    IF RollsBack(t) THEN NextRollback(t) /\ refused' = refused \union {Rollback(t)}
                    ELSE Return(t, "Err", NoRow) /\ UNCHANGED refused

\* send_request leaves its sender in the pending map, also when it fails
\* because the channel to the outgoing task is not there any more.
SendRequest(t, o, i) ==
    /\ waiting' = t
    /\ \/ /\ orders' = Append(orders, [op |-> o, tx |-> i])
          /\ Goto(t, "sent") /\ UNCHANGED refused
       \/ Fails(t) /\ UNCHANGED orders
    /\ UNCHANGED <<active, answers>>

\* commit and rollback take the transaction.
Send(t) ==
    /\ call[t].pc = "called" /\ call[t].op # "close"
    /\ call[t].op \in Statements => ~Refused
    /\ handle' = IF call[t].op \in {"commit", "rollback"} THEN [handle EXCEPT ![t] = NoTx] ELSE handle
    /\ SendRequest(t, call[t].op, call[t].tx)

\* Another call has taken the place in the pending map.
Replaced(t) ==
    /\ call[t].pc = "sent" /\ waiting # t
    /\ Fails(t) /\ UNCHANGED <<active, ipcVars, handle>>

\* The result as the call takes it: an error, what its kind is read as, or
\* something that cannot be read as that.
Received(t, kinds) ==
    /\ call[t].pc = "answered" /\ call[t].ans.kind \in kinds
    /\ UNCHANGED <<ipcVars, refused>>
Mismatch(t, kinds) ==
    Received(t, {"count", "rows", "row", "id", "done", "error"} \ kinds)
        /\ Return(t, "Err", NoRow) /\ UNCHANGED <<active, handle>>
Takes(t, kinds) == Received(t, kinds) /\ UNCHANGED <<active, handle>>

Executes(t) ==
    \/ SerializeFails(t) \/ Send(t) \/ Replaced(t) \/ Mismatch(t, {"count"})
    \/ Takes(t, {"count"}) /\ Return(t, "Ok", NoRow)
Queries(t) ==
    \/ SerializeFails(t) \/ Send(t) \/ Replaced(t) \/ Mismatch(t, {"rows"})
    \/ Takes(t, {"rows"}) /\ Reads(t, call[t].ans.row)
\* No result at all is taken for no row.
QueriesOne(t) ==
    \/ SerializeFails(t) \/ Send(t) \/ Replaced(t) \/ Mismatch(t, {"row", "done"})
    \/ Takes(t, {"row", "done"}) /\ Reads(t, call[t].ans.row)
Succeeds_Anyway(t) ==
    Send(t) \/ Replaced(t) \/ (Takes(t, {"count", "rows", "row", "id", "done", "error"}) /\ Return(t, "Ok", NoRow))
\* Only whether it is a success counts.
Succeeds(t) ==
    \/ Send(t) \/ Replaced(t) \/ Mismatch(t, {"count", "rows", "row", "id", "done"})
    \/ Takes(t, {"count", "rows", "row", "id", "done"}) /\ Return(t, "Ok", NoRow)

ProxyExecute(t) == OnConnection(t, "execute") /\ Executes(t)
ProxyQuery(t) == OnConnection(t, "query") /\ Queries(t)
ProxyQueryOne(t) == OnConnection(t, "query_one") /\ QueriesOne(t)
ProxyPing(t) == OnConnection(t, "ping") /\ Succeeds(t)
ProxyTxExecute(t) == InTransaction(t, "execute") /\ Executes(t)
ProxyTxQuery(t) == InTransaction(t, "query") /\ Queries(t)
ProxyTxQueryOne(t) == InTransaction(t, "query_one") /\ QueriesOne(t)
ProxyCommit(t) == InTransaction(t, "commit") /\ Succeeds(t)
ProxyRollback(t) == InTransaction(t, "rollback") /\ Succeeds(t)

ProxyBegin(t) ==
    /\ OnConnection(t, "begin")
    /\ \/ Send(t) \/ Replaced(t) \/ Mismatch(t, {"id"})
       \/ /\ Received(t, {"id"}) /\ Return(t, "Ok", NoRow)
          /\ active' = active \union {call[t].ans.tx}
          /\ handle' = [handle EXCEPT ![t] = call[t].ans.tx]

\* Ids stay in active_transactions when their transactions end.
TakeActive_Kept(t) == call' = [call EXCEPT ![t].pc = "closing"] /\ UNCHANGED active
TakeActive(t) == call' = [call EXCEPT ![t].pc = "closing", ![t].todo = active] /\ active' = {}
RollbackOp_Commit == "commit"
RollbackOp == "rollback"
ProxyClose(t) ==
    /\ OnConnection(t, "close") /\ UNCHANGED handle
    /\ \/ call[t].pc = "called" /\ TakeActive(t) /\ UNCHANGED <<ipcVars, refused>>
       \/ call[t].pc = "closing" /\ RollsBack(t) /\ SendRequest(t, RollbackOp, Rollback(t))
       \/ call[t].pc = "closing" /\ ~RollsBack(t) /\ SendRequest(t, "close", NoTx)
       \/ Replaced(t)
       \/ /\ call[t].pc = "answered" /\ RollsBack(t) /\ call[t].ans.kind # "error"
          /\ NextRollback(t) /\ UNCHANGED <<active, ipcVars>>
          /\ refused' = IF call[t].alone THEN refused ELSE refused \union {Rollback(t)}
       \/ /\ call[t].pc = "answered" /\ call[t].ans.kind = "error"
          /\ Fails(t) /\ UNCHANGED <<active, ipcVars>>
       \/ /\ call[t].pc = "answered" /\ ~RollsBack(t) /\ call[t].ans.kind # "error"
          /\ Return(t, "Ok", NoRow) /\ UNCHANGED <<active, ipcVars, refused>>

ProxyStep(t) ==
    /\ proxied
    /\ \/ ProxyExecute(t) \/ ProxyQuery(t) \/ ProxyQueryOne(t) \/ ProxyBegin(t) \/ ProxyPing(t)
       \/ ProxyClose(t) \/ ProxyTxExecute(t) \/ ProxyTxQuery(t) \/ ProxyTxQueryOne(t)
       \/ ProxyCommit(t) \/ ProxyRollback(t)

-----------------------------------------------------------------------------
(* The orchestrator, which is not part of the repository, executes the     *)
(* operations in order and answers each; closing the connection leaves the *)
(* transactions to the SDK.  The result reaches the SDK's loop without a   *)
(* key if the orchestrator does not repeat the operation (module Ipc).     *)

ResultKind == [execute |-> "count", query |-> "rows", query_one |-> "row", begin |-> "id",
               commit |-> "done", rollback |-> "done", ping |-> "done", close |-> "done"]

AnswerTo(d, i, x) == answers' = Append(answers, [kind |-> ResultKind[d.op], tx |-> i, row |-> x])

OrchestratorDoes ==
    /\ orders # <<>> /\ orders' = Tail(orders)
    /\ LET d == Head(orders) IN
       \/ /\ conn = "open"
          /\ \E i \in IF d.op = "begin" THEN TxIds ELSE {d.tx} :
                /\ Runs(d.op, i) /\ Executed(d.op, i)
                /\ \E x \in IF d.op \in {"query", "query_one"} THEN Visible(i) \union {NoRow} ELSE {NoRow} :
                        AnswerTo(d, i, x)
          /\ conn' = IF d.op = "close" THEN "closed" ELSE conn
       \/ Failed(d.op, d.tx) /\ answers' = Append(answers, NoAnswer) /\ UNCHANGED conn
    /\ UNCHANGED <<call, handle, active, waiting, refused>>

Deliver ==
    /\ answers # <<>> /\ answers' = Tail(answers)
    /\ \/ /\ waiting # NoOne /\ waiting' = NoOne
          /\ call' = IF call[waiting].pc = "sent"
                     THEN [call EXCEPT ![waiting].pc = "answered", ![waiting].ans = Head(answers)]
                     ELSE call
       \/ UNCHANGED <<waiting, call>>
    /\ UNCHANGED <<handle, active, orders, refused>>
=============================================================================
