---------------------------- MODULE DatabasesProofs ---------------------------
(***************************************************************************)
(* Theorems about Databases, for any tasks, databases, kinds of values,    *)
(* sizes of the pool and bounds.  First the steps of the modules are put   *)
(* in a form that names their effect on the database and on the call; then *)
(* each part of the invariant is shown to be kept by them.                 *)
(***************************************************************************)
EXTENDS Databases, FiniteSetTheorems, SequenceTheorems, WellFoundedInduction, TLAPS

-----------------------------------------------------------------------------
(* The inductive invariant.                                                *)

\* A call is one of the connection or of the task's transaction, and has got
\* no further than its driver takes it.
CallOK(t) ==
    /\ Active(t) =>
        /\ call[t].op \in {"begin", "ping", "close"} => call[t].tx = NoTx
        /\ call[t].op \in {"commit", "rollback"} => call[t].tx # NoTx
        /\ call[t].op = "commit" => call[t].tx \in asked
        /\ call[t].op = "begin" => handle[t] = NoTx
        /\ ~proxied /\ call[t].tx # NoTx => handle[t] = call[t].tx
    /\ call[t].op \in Statements /\ call[t].pc \notin {"idle", "called"} => ~Refused
    /\ call[t].pc = "acquired" => ~proxied /\ call[t].tx = NoTx
    /\ call[t].pc = "closing" => call[t].op = "close"
    /\ call[t].pc \in {"sent", "answered"} => proxied
    /\ call[t].todo # {} => call[t].pc \in {"closing", "sent", "answered"} /\ RollsBack(t)
CallInv == \A t \in Tasks : CallOK(t)

OrderOK(d) ==
    /\ d.op = "commit" => d.tx \in asked
    /\ d.op \in {"begin", "ping", "close"} => d.tx = NoTx
    /\ d.op \in {"commit", "rollback"} => d.tx # NoTx
OrderInv == \A k \in DOMAIN orders : OrderOK(orders[k])

\* The connections that are in use can be counted.
Acquired == {t \in Tasks : call[t].pc = "acquired" /\ call[t].tx = NoTx}
Holding == {t \in Tasks : handle[t] # NoTx}
PoolInv == free \in Nat /\ IsFiniteSet(Acquired) /\ (~proxied => IsFiniteSet(Holding))

\* A transaction has its own row, and what was read is what was bound.
RowInv == \A i \in TxIds : txs[i].rows \subseteq {i}
BackInv == back # NoRow => back.got = NoRow \/ (back.got = Reading[<<Driver, param>>] /\ ~Refused /\ Held)

\* Without the orchestrator, the open transactions are those that tasks hold.
HandleInv ==
    ~proxied =>
        /\ \A t, u \in Tasks : t # u /\ handle[t] = handle[u] => handle[t] = NoTx
        /\ \A i \in TxIds : IsOpen(i) <=> \E t \in Tasks : handle[t] = i

\* Rows that were written with Ok are in their transaction, unless calls of
\* it overlapped or failed.
AckInv ==
    \A i \in TxIds : i \in acked \ tainted => txs[i].st # "none" /\ (txs[i].st = "open" => i \in txs[i].rows)

\* A proxied call that is alone: whatever is under way is its own.
OrderOf(t) == IF RollsBack(t) THEN [op |-> "rollback", tx |-> Rollback(t)]
                              ELSE [op |-> call[t].op, tx |-> call[t].tx]
TrueAnswer(t, a) ==
    LET o == call[t].op  i == call[t].tx IN
    a.kind # "error" =>
        /\ o = "execute" /\ i = NoTx => NoTx \in stored
        /\ o = "execute" /\ i # NoTx => i \in txs[i].rows /\ txs[i].st = "open"
        /\ o = "commit" /\ i \in acked \ tainted => i \in stored
        /\ RollsBack(t) => ~IsOpen(Rollback(t))
Silent == orders = <<>> /\ answers = <<>>
Ordered(t) == orders = <<OrderOf(t)>> /\ answers = <<>>
Answered(t) == orders = <<>> /\ Len(answers) = 1 /\ TrueAnswer(t, answers[1])
AloneCall(t) ==
    /\ \A u \in Tasks \ {t} : ~Active(u)
    /\ call[t].pc \in {"called", "closing", "answered"} => Silent
    /\ call[t].pc = "sent" => waiting = t /\ (Ordered(t) \/ Answered(t) \/ Silent)
    /\ call[t].pc = "answered" => TrueAnswer(t, call[t].ans)
    /\ call[t].op = "close" /\ call[t].pc # "called" => active = {}
Alone(t) == Active(t) /\ call[t].alone
AloneInv == proxied => \A t \in Tasks : Alone(t) => AloneCall(t)

\* Whoever is not alone has tainted its transaction, and so has an order that
\* nobody waits for.
TaintInv ==
    proxied =>
        /\ \A t \in Tasks : Active(t) /\ ~call[t].alone /\ call[t].tx # NoTx => call[t].tx \in tainted
        /\ \A k \in DOMAIN orders : orders[k].op \in Statements /\ orders[k].tx \notin tainted \union {NoTx} =>
            \E t \in Tasks : Alone(t) /\ call[t].pc = "sent" /\ Ordered(t) /\ call[t].op \in Statements

\* A transaction that PostgreSQL has broken is tainted, or about to be.
Failing(t) ==
    /\ Alone(t) /\ call[t].op \in Statements
    /\ \/ call[t].pc = "sent" /\ orders = <<>> /\ (answers # <<>> => answers[1].kind = "error")
       \/ call[t].pc = "answered" /\ call[t].ans.kind = "error"
BrokenInv ==
    \A i \in TxIds : txs[i].st = "broken" =>
        /\ dbType = "postgres"
        /\ i \in tainted \/ (proxied /\ \E t \in Tasks : call[t].tx = i /\ Failing(t))

\* A proxied transaction that was begun will be rolled back by close.
BegunInv ==
    proxied => \A i \in begun \ refused : IsOpen(i) => i \in active \/ \E t \in Tasks : i \in call[t].todo

\* What is answered, received or kept for close is the id of a transaction
\* that has been begun.
Started(i) == i = NoTx \/ txs[i].st # "none"
AnswerOK(a) == Started(a.tx) /\ (a.kind = "id" => a.tx # NoTx)
StartedInv ==
    /\ \A k \in DOMAIN answers : AnswerOK(answers[k])
    /\ \A t \in Tasks : AnswerOK(call[t].ans)
    /\ active \subseteq begun /\ \A i \in begun : Started(i)

IInv ==
    /\ TypeOK /\ CallInv /\ OrderInv /\ PoolInv /\ RowInv /\ BackInv /\ NothingUnasked
    /\ HandleInv /\ AckInv /\ StartedInv /\ AloneInv /\ TaintInv /\ BrokenInv /\ BegunInv

-----------------------------------------------------------------------------
(* The constants, and the parts of the type invariant.                     *)

LEMMA Ids == TxIds \subseteq Nat /\ NoTx \notin TxIds /\ Rows = TxIds \union {NoTx}
BY BoundsAssumption DEF TxIds, NoTx, Rows

LEMMA EndedType ==
    /\ Ended \in Call /\ NoAnswer \in Answers
    /\ Ended.pc = "idle" /\ Ended.op = "ping" /\ Ended.tx = NoTx /\ Ended.ans = NoAnswer
    /\ Ended.todo = {} /\ Ended.alone = FALSE
    /\ NoAnswer.kind = "error" /\ NoAnswer.tx = NoTx /\ NoAnswer.row = NoRow
BY DEF Ended, Call, NoAnswer, Answers, Ops, ConnOps, Statements, Rows

LEMMA KindOfResult ==
    \A o \in Ops : /\ ResultKind[o] \in {"count", "rows", "row", "id", "done"}
                   /\ ResultKind[o] = "id" <=> o = "begin"
BY DEF Ops, ResultKind, ConnOps, TxOps, Statements

LEMMA ReadingType == TypeOK => Reading[<<Driver, param>>] \in Readings
<1>1. TypeOK => Driver \in Drivers /\ param \in Params
  BY UsesAssumption DEF Driver, Drivers, TypeOK, DatabaseTypeOK
<1> QED BY <1>1 DEF Readings

DbTypes ==
    /\ txs \in [TxIds -> [st : {"none", "open", "broken", "committed", "aborted"}, rows : SUBSET Rows]]
    /\ stored \subseteq Rows
CallTypes == call \in [Tasks -> Call] /\ back \in Returns \union {NoRow}
IpcTypes ==
    /\ active \subseteq TxIds /\ waiting \in Tasks \union {NoOne}
    /\ orders \in Seq(Orders) /\ answers \in Seq(Answers)
OtherTypes ==
    /\ <<dbType, proxied>> \in Uses /\ param \in Params /\ calls \in 0..MaxCalls[proxied]
    /\ conn \in {"none", "open", "closed"} /\ handle \in [Tasks -> TxIds \union {NoTx}]
    /\ acked \subseteq Rows /\ asked \subseteq TxIds /\ tainted \subseteq TxIds
    /\ begun \subseteq TxIds /\ refused \subseteq TxIds
PoolCount == free + Cardinality(Acquired) + (IF proxied THEN 0 ELSE Cardinality(Holding)) = PoolSize

LEMMA TypeParts == TypeOK <=> DbTypes /\ CallTypes /\ IpcTypes /\ OtherTypes /\ PoolCount
BY DEF TypeOK, DatabaseTypeOK, DbTypes, CallTypes, IpcTypes, OtherTypes, PoolCount, Acquired, Holding

\* The least of the transactions that are left for close to roll back.
LEMMA Least == ASSUME NEW S \in SUBSET Nat, S # {} PROVE \E i \in S : \A j \in S : i <= j
<1>1. \E i \in S : \A j \in S : <<j, i>> \notin OpToRel(<, Nat)
  BY NatLessThanWellFounded, WFMin
<1>2. \A i, j \in Nat : <<i, j>> \notin OpToRel(<, Nat) => j <= i
  BY DEF OpToRel
<1> QED BY <1>1, <1>2

LEMMA RollbackIsLeft ==
    ASSUME CallTypes, NEW t \in Tasks, RollsBack(t)
    PROVE  Rollback(t) \in call[t].todo /\ Rollback(t) \in TxIds
<1>1. call[t].todo \in SUBSET Nat /\ call[t].todo # {} /\ call[t].todo \subseteq TxIds
  BY Ids DEF CallTypes, Call, RollsBack
<1> QED BY <1>1, Least DEF Rollback

-----------------------------------------------------------------------------
(* What a step does to the database.                                       *)

Stays == txs' = txs /\ stored' = stored
Stores == txs' = txs /\ stored' = stored \union {NoTx}
\* Transaction i is in state st after the step, and has rows R.
At(i, st, R) ==
    /\ i \in TxIds /\ txs'[i].st = st /\ txs'[i].rows = R
    /\ txs' \in [TxIds -> [st : {"none", "open", "broken", "committed", "aborted"}, rows : SUBSET Rows]]
    /\ \A j \in TxIds \ {i} : txs'[j] = txs[j]
Writes(i) == txs[i].st = "open" /\ At(i, "open", txs[i].rows \union {i}) /\ stored' = stored
Breaks(i) == dbType = "postgres" /\ IsOpen(i) /\ At(i, "broken", txs[i].rows) /\ stored' = stored
Opens(i) == Fresh(i) /\ At(i, "open", txs[i].rows) /\ stored' = stored
Commits(i) == txs[i].st = "open" /\ At(i, "committed", {}) /\ stored' = stored \union txs[i].rows
Aborts(i) == At(i, "aborted", {}) /\ stored' = stored
DbEffect(i) == Writes(i) \/ Breaks(i) \/ Opens(i) \/ Commits(i) \/ Aborts(i)

LEMMA Finishing ==
    ASSUME DbTypes, NEW i \in TxIds, NEW st \in {"committed", "aborted"}, Finish(i, st)
    PROVE  At(i, st, {})
BY DEF DbTypes, Finish, At

LEMMA ExecutedEffect ==
    ASSUME DbTypes, NEW o \in Ops, NEW i \in Rows, Runs(o, i), Executed(o, i)
    PROVE  /\ o = "execute" /\ i = NoTx => Stores
           /\ o = "execute" /\ i # NoTx => Writes(i)
           /\ o \in {"query", "query_one", "ping", "close"} => Stays
           /\ o = "begin" /\ i # NoTx => Opens(i)
           /\ o = "commit" /\ i # NoTx => Commits(i) \/ (txs[i].st # "open" /\ Aborts(i))
           /\ o = "rollback" /\ i # NoTx => Aborts(i)
<1>1. o = "execute" /\ i = NoTx => Stores
  BY DEF Executed, Stores
<1>2. ASSUME o = "execute", i # NoTx PROVE Writes(i)
  <2>1. i \in TxIds /\ txs[i].st = "open"
    BY <1>2, Ids DEF Runs, Statements
  <2>2. txs' = [txs EXCEPT ![i].rows = @ \union {i}] /\ stored' = stored
    BY <1>2 DEF Executed
  <2> QED BY <2>1, <2>2 DEF Writes, At, DbTypes
<1>3. o \in {"query", "query_one", "ping", "close"} => Stays
  BY DEF Executed, SameDb, Stays, dbVars
<1>4. ASSUME o = "begin", i # NoTx PROVE Opens(i)
  <2>1. i \in TxIds /\ Fresh(i)
    BY <1>4, Ids DEF Runs, Statements
  <2>2. txs' = [txs EXCEPT ![i].st = "open"] /\ stored' = stored
    BY <1>4 DEF Executed
  <2> QED BY <2>1, <2>2 DEF Opens, At, DbTypes
<1>5. ASSUME o = "commit", i # NoTx PROVE Commits(i) \/ (txs[i].st # "open" /\ Aborts(i))
  <2>1. IF txs[i].st = "open" THEN stored' = stored \union txs[i].rows /\ Finish(i, "committed")
                              ELSE UNCHANGED stored /\ Finish(i, "aborted")
    BY <1>5 DEF Executed
  <2> QED BY <1>5, <2>1, Ids, Finishing DEF Commits, Aborts
<1>6. ASSUME o = "rollback", i # NoTx PROVE Aborts(i)
  <2>1. Finish(i, "aborted") /\ stored' = stored
    BY <1>6 DEF Executed
  <2> QED BY <1>6, <2>1, Ids, Finishing DEF Aborts
<1> QED BY <1>1, <1>2, <1>3, <1>4, <1>5, <1>6

LEMMA FailedEffect ==
    ASSUME DbTypes, NEW o \in Ops, NEW i \in Rows, Failed(o, i)
    PROVE  Stays \/ (o \in Statements /\ i # NoTx /\ Breaks(i))
<1>1. CASE o \in Statements /\ i # NoTx /\ dbType = "postgres" /\ IsOpen(i)
  <2>1. txs' = [txs EXCEPT ![i].st = "broken"] /\ stored' = stored /\ i \in TxIds
    BY <1>1, Ids DEF Failed
  <2> QED BY <1>1, <2>1 DEF Breaks, At, DbTypes
<1>2. CASE ~(o \in Statements /\ i # NoTx /\ dbType = "postgres" /\ IsOpen(i))
  BY <1>2 DEF Failed, Stays
<1> QED BY <1>1, <1>2

\* No step takes a transaction back to what it was before it was begun.
LEMMA EffectKeeps ==
    ASSUME DbTypes, RowInv, NEW i \in TxIds, DbEffect(i)
    PROVE  /\ RowInv' /\ stored \subseteq stored' /\ stored' \subseteq stored \union {i}
           /\ \A j \in TxIds : txs[j].st # "none" => txs'[j].st # "none"
           /\ txs'[i].st # "none"
<1>1. \A j \in TxIds \ {i} : txs'[j] = txs[j]
  BY DEF DbEffect, Writes, Breaks, Opens, Commits, Aborts, At
<1>2. txs'[i].st # "none" /\ txs'[i].rows \subseteq {i}
  BY DEF DbEffect, Writes, Breaks, Opens, Commits, Aborts, At, RowInv
<1>3. stored \subseteq stored' /\ stored' \subseteq stored \union {i}
  BY DEF DbEffect, Writes, Breaks, Opens, Commits, Aborts, At, RowInv
<1> QED BY <1>1, <1>2, <1>3 DEF RowInv

-----------------------------------------------------------------------------
(* The steps of a direct call.                                             *)

\* What a call that returns may give its caller.
Gives(t, g) == g = NoRow \/ (g = Reading[<<Driver, param>>] /\ Held /\ call[t].op \in {"query", "query_one"})
Reports(t, r) == \E g : Gives(t, g) /\ Return(t, r, g)

\* A statement ran, in transaction i, and the call returned r.
Ran(t, i, r) ==
    /\ Reports(t, r)
    /\ \/ Stays /\ (r = "Ok" => call[t].op # "execute")
       \/ Stores /\ i = NoTx
       \/ Writes(i) /\ i # NoTx
       \/ Breaks(i) /\ i # NoTx /\ r = "Err" /\ call[t].op \in Statements

LEMMA OutcomeEffect ==
    ASSUME DbTypes, CallTypes, NEW t \in Tasks, NEW i \in Rows,
           call[t].op \in Statements \union {"ping"}, Outcome(t, i)
    PROVE  \E r \in {"Ok", "Err"} : Ran(t, i, r)
<1> DEFINE o == call[t].op
<1>0. o \in Ops
  BY DEF Ops, ConnOps
<1>1. CASE Failed(o, i) /\ Return(t, "Err", NoRow)
  <2>1. Reports(t, "Err")
    BY <1>1 DEF Reports, Gives
  <2>2. Stays \/ (o \in Statements /\ i # NoTx /\ Breaks(i))
    BY <1>0, <1>1, FailedEffect
  <2> QED BY <2>1, <2>2 DEF Ran
<1>2. CASE Runs(o, i) /\ Executed(o, i) /\ (o = "execute" => Held)
            /\ \/ o \notin {"query", "query_one"} /\ Return(t, "Ok", NoRow)
               \/ o \in {"query", "query_one"} /\ \E x \in Visible(i) \union {NoRow} : Reads(t, x)
               \/ MayLose /\ Return(t, "Err", NoRow)
  <2>1. \E r \in {"Ok", "Err"} : Reports(t, r)
    BY <1>2 DEF Reports, Gives, Reads, Visible
  <2>2. /\ o = "execute" /\ i = NoTx => Stores
        /\ o = "execute" /\ i # NoTx => Writes(i)
        /\ o \in {"query", "query_one", "ping"} => Stays
    BY <1>0, <1>2, ExecutedEffect
  <2> QED BY <2>1, <2>2 DEF Ran, Statements
<1> QED BY <1>1, <1>2 DEF Outcome

\* The moves of a call, its history left aside.
GivesUp(t) ==
    /\ call[t].pc = "called" /\ call[t].op \notin {"commit", "rollback", "close"}
    /\ Return(t, "Err", NoRow) /\ UNCHANGED <<conn, handle, free, dbVars>>
Acquires(t) ==
    /\ call[t].pc = "called" /\ call[t].op # "close" /\ call[t].tx = NoTx
    /\ call[t].op \in Statements => ~Refused
    /\ free > 0 /\ free' = free - 1 /\ Goto(t, "acquired") /\ UNCHANGED <<conn, handle, dbVars>>
RunsAcquired(t) ==
    /\ call[t].pc = "acquired" /\ call[t].op \in Statements \union {"ping"} /\ call[t].tx = NoTx
    /\ \E r \in {"Ok", "Err"} : Ran(t, NoTx, r)
    /\ free' = free + 1 /\ UNCHANGED <<conn, handle>>
RunsInTx(t) ==
    /\ call[t].pc = "called" /\ call[t].op \in Statements /\ call[t].tx # NoTx /\ ~Refused
    /\ \E r \in {"Ok", "Err"} : Ran(t, call[t].tx, r)
    /\ UNCHANGED <<conn, handle, free>>
BeginsTx(t) ==
    /\ call[t].pc = "acquired" /\ call[t].op = "begin" /\ call[t].tx = NoTx
    /\ \E i \in TxIds : Opens(i) /\ handle' = [handle EXCEPT ![t] = i]
    /\ Return(t, "Ok", NoRow) /\ UNCHANGED <<conn, free>>
FailsToBegin(t) ==
    /\ call[t].pc = "acquired" /\ call[t].op = "begin" /\ call[t].tx = NoTx
    /\ Return(t, "Err", NoRow) /\ free' = free + 1 /\ UNCHANGED <<conn, handle, dbVars>>
EndsTx(t) ==
    /\ call[t].pc = "called" /\ call[t].op \in {"commit", "rollback"} /\ call[t].tx # NoTx
    /\ \E r \in {"Ok", "Err"} : Return(t, r, NoRow) /\
            \/ call[t].op = "commit" /\ Commits(call[t].tx)
            \/ Aborts(call[t].tx) /\
                (call[t].op = "commit" /\ r = "Ok" => txs[call[t].tx].st # "open")
    /\ handle' = [handle EXCEPT ![t] = NoTx] /\ free' = free + 1 /\ UNCHANGED conn
BeginsToClose(t) ==
    /\ call[t].pc = "called" /\ call[t].op = "close" /\ call[t].tx = NoTx
    /\ conn' = "closed" /\ Goto(t, "closing") /\ UNCHANGED <<handle, free, dbVars>>
HasClosed(t) ==
    /\ call[t].pc = "closing" /\ call[t].op = "close" /\ call[t].tx = NoTx
    /\ free = PoolSize /\ Return(t, "Ok", NoRow) /\ UNCHANGED <<conn, handle, free, dbVars>>

DirectMove(t) ==
    \/ GivesUp(t) \/ Acquires(t) \/ RunsAcquired(t) \/ RunsInTx(t) \/ BeginsTx(t)
    \/ FailsToBegin(t) \/ EndsTx(t) \/ BeginsToClose(t) \/ HasClosed(t)

LEMMA StatementMoves ==
    ASSUME DbTypes, CallTypes, NEW t \in Tasks, NEW o \in Statements \union {"ping"},
           OnConnection(t, o), Statement(t)
    PROVE  GivesUp(t) \/ Acquires(t) \/ RunsAcquired(t)
<1>0. call[t].op = o /\ call[t].tx = NoTx /\ o \notin {"commit", "rollback", "close"} /\ NoTx \in Rows
  BY DEF OnConnection, Statements, Rows
<1>1. CASE o \in Statements /\ BindFails(t)
  BY <1>0, <1>1 DEF BindFails, GivesUp
<1>2. CASE (o \in Statements => ~Refused) /\ Acquire(t)
  BY <1>0, <1>2 DEF Acquire, Acquire_NoTimeout, GivesUp, Acquires
<1>3. CASE call[t].pc = "acquired" /\ Outcome(t, NoTx) /\ free' = free + 1 /\ UNCHANGED <<conn, handle>>
  <2>1. \E r \in {"Ok", "Err"} : Ran(t, NoTx, r)
    BY <1>0, <1>3, OutcomeEffect
  <2> QED BY <1>0, <1>3, <2>1 DEF RunsAcquired
<1> QED BY <1>0, <1>1, <1>2, <1>3 DEF Statement

LEMMA TxStatementMoves ==
    ASSUME DbTypes, CallTypes, NEW t \in Tasks, NEW o \in Statements,
           InTransaction(t, o), TxStatement(t)
    PROVE  GivesUp(t) \/ RunsInTx(t)
<1>0. call[t].op = o /\ call[t].tx # NoTx /\ call[t].tx \in Rows /\ o \notin {"commit", "rollback", "close"}
  BY DEF InTransaction, Statements, Rows, CallTypes, Call
<1>1. CASE BindFails(t)
  BY <1>0, <1>1 DEF BindFails, GivesUp
<1>2. CASE call[t].pc = "called" /\ ~Refused /\ Outcome(t, call[t].tx) /\ UNCHANGED <<conn, handle, free>>
  <2>1. \E r \in {"Ok", "Err"} : Ran(t, call[t].tx, r)
    BY <1>0, <1>2, OutcomeEffect
  <2> QED BY <1>0, <1>2, <2>1 DEF RunsInTx
<1> QED BY <1>1, <1>2 DEF TxStatement

LEMMA BeginMoves ==
    ASSUME DbTypes, CallTypes, NEW t \in Tasks, OnConnection(t, "begin"), Begins(t)
    PROVE  GivesUp(t) \/ Acquires(t) \/ BeginsTx(t) \/ FailsToBegin(t)
<1>0. call[t].op = "begin" /\ call[t].tx = NoTx /\ "begin" \in Ops /\ "begin" \notin Statements
  BY DEF OnConnection, Ops, ConnOps, Statements
<1>1. CASE Acquire(t)
  BY <1>0, <1>1 DEF Acquire, Acquire_NoTimeout, GivesUp, Acquires
<1>2. ASSUME call[t].pc = "acquired", Return(t, "Ok", NoRow), UNCHANGED <<conn, free>>,
             \E i \in TxIds : Runs("begin", i) /\ Executed("begin", i) /\ handle' = [handle EXCEPT ![t] = i]
      PROVE  BeginsTx(t)
  <2>1. \A i \in TxIds : Runs("begin", i) /\ Executed("begin", i) => Opens(i)
    BY <1>0, Ids, ExecutedEffect
  <2> QED BY <1>0, <1>2, <2>1 DEF BeginsTx
<1>3. CASE call[t].pc = "acquired" /\ UNCHANGED conn
            /\ Return(t, "Err", NoRow) /\ free' = free + 1 /\ UNCHANGED <<handle, dbVars>>
  BY <1>0, <1>3 DEF FailsToBegin
<1> QED BY <1>1, <1>2, <1>3 DEF Begins

LEMMA EndMoves ==
    ASSUME DbTypes, CallTypes, NEW t \in Tasks, NEW o \in {"commit", "rollback"},
           InTransaction(t, o), Ends(t)
    PROVE  EndsTx(t)
<1> DEFINE i == call[t].tx
<1>0. call[t].op = o /\ i # NoTx /\ i \in TxIds
  BY Ids DEF InTransaction, CallTypes, Call
<1>1. call[t].pc = "called" /\ handle' = [handle EXCEPT ![t] = NoTx] /\ free' = free + 1 /\ UNCHANGED conn
  BY DEF Ends
<1>2. Executed(o, i) => IF o = "commit" THEN Commits(i) \/ (txs[i].st # "open" /\ Aborts(i)) ELSE Aborts(i)
  <2>1. ASSUME Executed(o, i), o = "commit" PROVE Commits(i) \/ (txs[i].st # "open" /\ Aborts(i))
    <3>1. IF txs[i].st = "open" THEN stored' = stored \union txs[i].rows /\ Finish(i, "committed")
                                ELSE UNCHANGED stored /\ Finish(i, "aborted")
      BY <1>0, <2>1 DEF Executed
    <3> QED BY <1>0, <3>1, Finishing DEF Commits, Aborts
  <2>2. ASSUME Executed(o, i), o # "commit" PROVE Aborts(i)
    <3>1. Finish(i, "aborted") /\ stored' = stored
      BY <2>2 DEF Executed
    <3> QED BY <1>0, <3>1, Finishing DEF Aborts
  <2> QED BY <2>1, <2>2
<1>3. Finish(i, "aborted") /\ UNCHANGED stored => Aborts(i)
  BY <1>0, Finishing DEF Aborts
<1>4. \/ Executed(o, i) /\ Return(t, "Ok", NoRow)
      \/ Executed(o, i) /\ Return(t, "Err", NoRow)
      \/ Finish(i, "aborted") /\ UNCHANGED stored /\ Return(t, "Err", NoRow)
  BY <1>0 DEF Ends
<1>5. \E r \in {"Ok", "Err"} : Return(t, r, NoRow) /\
            \/ o = "commit" /\ Commits(i)
            \/ Aborts(i) /\ (o = "commit" /\ r = "Ok" => txs[i].st # "open")
  <2>1. CASE Executed(o, i) /\ Return(t, "Ok", NoRow)
    BY <1>2, <2>1
  <2>2. CASE Executed(o, i) /\ Return(t, "Err", NoRow)
    BY <1>2, <2>2
  <2>3. CASE Finish(i, "aborted") /\ UNCHANGED stored /\ Return(t, "Err", NoRow)
    BY <1>3, <2>3
  <2> QED BY <1>4, <2>1, <2>2, <2>3
<1> QED BY <1>0, <1>1, <1>5 DEF EndsTx

LEMMA CloseMoves ==
    ASSUME NEW t \in Tasks, OnConnection(t, "close"), ClosesPool(t)
    PROVE  BeginsToClose(t) \/ HasClosed(t)
BY DEF OnConnection, ClosesPool, BeginsToClose, HasClosed

\* The three drivers take their steps from the pool, and from nothing else.
LEMMA DirectMoves ==
    ASSUME DbTypes, CallTypes, NEW t \in Tasks, DirectStep(t)
    PROVE  ~proxied /\ Local /\ Record(t) /\ DirectMove(t)
<1> DEFINE OnConn == \E o \in Statements \union {"ping"} : OnConnection(t, o) /\ Statement(t)
           InTx == \E o \in Statements : InTransaction(t, o) /\ TxStatement(t)
           Beg == OnConnection(t, "begin") /\ Begins(t)
           Fin == \E o \in {"commit", "rollback"} : InTransaction(t, o) /\ Ends(t)
           Clo == OnConnection(t, "close") /\ ClosesPool(t)
<1>1. SqliteStep(t) => ~proxied /\ (OnConn \/ InTx \/ Beg \/ Fin \/ Clo)
  BY DEF SqliteStep, SqliteDirect, SqliteExecute, SqliteQuery, SqliteQueryOne, SqliteBegin, SqlitePing,
         SqliteClose, SqliteTxExecute, SqliteTxQuery, SqliteTxQueryOne, SqliteCommit, SqliteRollback, Statements
<1>2. MySqlStep(t) => ~proxied /\ (OnConn \/ InTx \/ Beg \/ Fin \/ Clo)
  BY DEF MySqlStep, MySqlDirect, MySqlExecute, MySqlQuery, MySqlQueryOne, MySqlBegin, MySqlPing,
         MySqlClose, MySqlTxExecute, MySqlTxQuery, MySqlTxQueryOne, MySqlCommit, MySqlRollback, Statements
<1>3. PostgresStep(t) => ~proxied /\ (OnConn \/ InTx \/ Beg \/ Fin \/ Clo)
  BY DEF PostgresStep, PostgresDirect, PostgresExecute, PostgresQuery, PostgresQueryOne, PostgresBegin,
         PostgresPing, PostgresClose, PostgresTxExecute, PostgresTxQuery, PostgresTxQueryOne,
         PostgresCommit, PostgresRollback, Statements
<1>4. OnConn => GivesUp(t) \/ Acquires(t) \/ RunsAcquired(t)
  BY StatementMoves
<1>5. InTx => GivesUp(t) \/ RunsInTx(t)
  BY TxStatementMoves
<1>6. Beg => GivesUp(t) \/ Acquires(t) \/ BeginsTx(t) \/ FailsToBegin(t)
  BY BeginMoves
<1>7. Fin => EndsTx(t)
  BY EndMoves
<1>8. Clo => BeginsToClose(t) \/ HasClosed(t)
  BY CloseMoves
<1> HIDE DEF OnConn, InTx, Beg, Fin, Clo
<1> QED BY <1>1, <1>2, <1>3, <1>4, <1>5, <1>6, <1>7, <1>8 DEF DirectStep, DirectMove

-----------------------------------------------------------------------------
(* The steps of a proxied call.                                            *)

GivesHandle(t) ==
    handle' = IF call[t].op \in {"commit", "rollback"} /\ call[t].pc = "called"
              THEN [handle EXCEPT ![t] = NoTx] ELSE handle

PFails(t) ==
    /\ call[t].pc \in {"called", "sent", "answered"} /\ ~RollsBack(t)
    /\ call[t].pc = "sent" => waiting # t
    /\ Return(t, "Err", NoRow) /\ UNCHANGED <<active, ipcVars, handle, refused>>
PSends(t) ==
    /\ call[t].pc = IF call[t].op = "close" THEN "closing" ELSE "called"
    /\ call[t].op \in Statements => ~Refused
    /\ orders' = Append(orders, OrderOf(t)) /\ waiting' = t /\ Goto(t, "sent")
    /\ GivesHandle(t) /\ UNCHANGED <<active, answers, refused>>
PFailsToSend(t) ==
    /\ call[t].pc \in {"called", "closing"} /\ ~RollsBack(t) /\ waiting' = t
    /\ Return(t, "Err", NoRow) /\ GivesHandle(t) /\ UNCHANGED <<active, orders, answers, refused>>
PSucceeds(t) ==
    /\ call[t].pc = "answered" /\ ~RollsBack(t) /\ call[t].op # "begin" /\ call[t].ans.kind # "error"
    /\ Reports(t, "Ok") /\ UNCHANGED <<active, ipcVars, handle, refused>>
PBegins(t) ==
    /\ call[t].pc = "answered" /\ call[t].op = "begin" /\ call[t].ans.kind = "id"
    /\ Return(t, "Ok", NoRow) /\ active' = active \union {call[t].ans.tx}
    /\ handle' = [handle EXCEPT ![t] = call[t].ans.tx] /\ UNCHANGED <<ipcVars, refused>>
PTakesActive(t) ==
    /\ call[t].pc = "called" /\ call[t].op = "close" /\ TakeActive(t)
    /\ UNCHANGED <<ipcVars, handle, refused>>
\* The next rollback of close is over, or has failed.
PSkips(t) ==
    /\ RollsBack(t) /\ call[t].pc \in {"closing", "sent", "answered"} /\ NextRollback(t)
    /\ waiting' \in {t, waiting} /\ (call[t].pc = "sent" => waiting # t)
    /\ \/ refused' = refused \union {Rollback(t)}
       \/ refused' = refused /\ call[t].alone /\ call[t].pc = "answered" /\ call[t].ans.kind # "error"
    /\ UNCHANGED <<active, orders, answers, handle>>
ProxiedMove(t) ==
    \/ PFails(t) \/ PSends(t) \/ PFailsToSend(t) \/ PSucceeds(t) \/ PBegins(t)
    \/ PTakesActive(t) \/ PSkips(t)

LEMMA FailMoves ==
    ASSUME NEW t \in Tasks, Fails(t), UNCHANGED <<active, ipcVars, handle>>,
           call[t].pc \in {"sent", "answered"}, call[t].pc = "sent" => waiting # t
    PROVE  PFails(t) \/ PSkips(t)
BY DEF Fails, PFails, PSkips, ipcVars

\* What a call other than close does.
Calls(t) ==
    \/ SerializeFails(t) \/ Send(t) \/ Replaced(t)
    \/ call[t].pc = "answered" /\ Return(t, "Err", NoRow) /\ UNCHANGED <<active, ipcVars, handle, refused>>
    \/ /\ call[t].pc = "answered" /\ call[t].op # "begin" /\ call[t].ans.kind # "error"
       /\ Reports(t, "Ok") /\ UNCHANGED <<active, ipcVars, handle, refused>>

LEMMA CallMoves ==
    ASSUME CallInv, NEW t \in Tasks, call[t].op # "close", Calls(t)
    PROVE  ProxiedMove(t)
<1>0. ~RollsBack(t)
  BY DEF RollsBack
<1>1. CASE SerializeFails(t)
  BY <1>0, <1>1 DEF SerializeFails, PFails, ProxiedMove
<1>2. CASE Send(t)
  <2>1. call[t].pc = "called" /\ (call[t].op \in Statements => ~Refused) /\ GivesHandle(t)
    BY <1>2 DEF Send, GivesHandle
  <2>2. SendRequest(t, call[t].op, call[t].tx)
    BY <1>2 DEF Send
  <2>3. CASE orders' = Append(orders, [op |-> call[t].op, tx |-> call[t].tx])
             /\ Goto(t, "sent") /\ UNCHANGED refused
    <3>1. OrderOf(t) = [op |-> call[t].op, tx |-> call[t].tx]
      BY <1>0 DEF OrderOf
    <3>2. waiting' = t /\ UNCHANGED <<active, answers>>
      BY <2>2 DEF SendRequest
    <3>3. orders' = Append(orders, OrderOf(t))
      BY <2>3, <3>1
    <3> QED BY <2>1, <2>3, <3>2, <3>3 DEF PSends, ProxiedMove
  <2>4. CASE Fails(t) /\ UNCHANGED orders
    BY <1>0, <2>1, <2>2, <2>4 DEF SendRequest, Fails, PFailsToSend, ProxiedMove
  <2> QED BY <2>2, <2>3, <2>4 DEF SendRequest
<1>3. CASE Replaced(t)
  BY <1>3, FailMoves DEF Replaced, ProxiedMove
<1>4. CASE call[t].pc = "answered" /\ Return(t, "Err", NoRow)
           /\ UNCHANGED <<active, ipcVars, handle, refused>>
  BY <1>0, <1>4 DEF PFails, ProxiedMove
<1>5. CASE /\ call[t].pc = "answered" /\ call[t].op # "begin" /\ call[t].ans.kind # "error"
           /\ Reports(t, "Ok") /\ UNCHANGED <<active, ipcVars, handle, refused>>
  BY <1>0, <1>5 DEF PSucceeds, ProxiedMove
<1> QED BY <1>1, <1>2, <1>3, <1>4, <1>5 DEF Calls

LEMMA MismatchFails ==
    ASSUME NEW t \in Tasks, NEW kinds, Mismatch(t, kinds)
    PROVE  Calls(t)
BY DEF Mismatch, Received, Calls, ipcVars

LEMMA TakeSucceeds ==
    ASSUME NEW t \in Tasks, NEW kinds, "error" \notin kinds, call[t].op # "begin",
           Takes(t, kinds), Reports(t, "Ok")
    PROVE  Calls(t)
BY DEF Takes, Received, Calls, ipcVars

LEMMA ProxiedMoves ==
    ASSUME CallInv, NEW t \in Tasks, ProxiedStep(t)
    PROVE  proxied /\ UNCHANGED <<conn, free, dbVars>> /\ Record(t) /\ ProxiedMove(t)
<1>0. proxied => Held
  BY DEF Held, Holds, Driver
<1>1. proxied /\ UNCHANGED <<conn, free, dbVars>> /\ Record(t) /\ ProxyStep(t)
  BY DEF ProxiedStep, ProxyStep
<1>2. Executes(t) /\ call[t].op # "begin" => Calls(t)
  <2>1. Takes(t, {"count"}) /\ Return(t, "Ok", NoRow) /\ call[t].op # "begin" => Calls(t)
    BY TakeSucceeds DEF Reports, Gives
  <2> QED BY <2>1, MismatchFails DEF Executes, Calls
<1>3. ASSUME call[t].op \in {"query", "query_one"}, Queries(t) \/ QueriesOne(t) PROVE Calls(t)
  <2>1. \A x : Reads(t, x) => Reports(t, "Ok")
    BY <1>0, <1>1, <1>3 DEF Reads, Reports, Gives
  <2>2. \A x : (Takes(t, {"rows"}) \/ Takes(t, {"row", "done"})) /\ Reads(t, x) => Calls(t)
    BY <1>3, <2>1, TakeSucceeds
  <2> QED BY <1>3, <2>2, MismatchFails DEF Queries, QueriesOne, Calls
<1>4. Succeeds(t) /\ call[t].op # "begin" => Calls(t)
  <2>1. Takes(t, {"count", "rows", "row", "id", "done"}) /\ Return(t, "Ok", NoRow) /\ call[t].op # "begin"
            => Calls(t)
    BY TakeSucceeds DEF Reports, Gives
  <2> QED BY <2>1, MismatchFails DEF Succeeds, Calls
<1>5. ASSUME ProxyExecute(t) \/ ProxyQuery(t) \/ ProxyQueryOne(t) \/ ProxyPing(t)
             \/ ProxyTxExecute(t) \/ ProxyTxQuery(t) \/ ProxyTxQueryOne(t)
             \/ ProxyCommit(t) \/ ProxyRollback(t)
      PROVE  ProxiedMove(t)
  <2>1. Calls(t) /\ call[t].op # "close"
    BY <1>2, <1>3, <1>4, <1>5 DEF ProxyExecute, ProxyQuery, ProxyQueryOne, ProxyPing, ProxyTxExecute,
        ProxyTxQuery, ProxyTxQueryOne, ProxyCommit, ProxyRollback, OnConnection, InTransaction
  <2> QED BY <2>1, CallMoves
<1>6. ASSUME ProxyBegin(t) PROVE ProxiedMove(t)
  <2>0. call[t].op = "begin" /\ ~RollsBack(t)
    BY <1>6 DEF ProxyBegin, OnConnection, RollsBack
  <2>1. Send(t) \/ Replaced(t) \/ Mismatch(t, {"id"}) => Calls(t)
    BY MismatchFails DEF Calls
  <2>2. CASE /\ Received(t, {"id"}) /\ Return(t, "Ok", NoRow)
             /\ active' = active \union {call[t].ans.tx}
             /\ handle' = [handle EXCEPT ![t] = call[t].ans.tx]
    BY <2>0, <2>2 DEF Received, PBegins, ProxiedMove
  <2> QED BY <1>6, <2>0, <2>1, <2>2, CallMoves DEF ProxyBegin
<1>7. ASSUME ProxyClose(t) PROVE ProxiedMove(t)
  <2>0. call[t].op = "close" /\ call[t].tx = NoTx /\ UNCHANGED handle /\ call[t].op \notin Statements
        /\ GivesHandle(t)
    BY <1>7 DEF ProxyClose, OnConnection, Statements, GivesHandle
  <2>1. CASE call[t].pc = "called" /\ TakeActive(t) /\ UNCHANGED <<ipcVars, refused>>
    BY <2>0, <2>1 DEF PTakesActive, ProxiedMove
  <2>2. CASE call[t].pc = "closing" /\ RollsBack(t) /\ SendRequest(t, RollbackOp, Rollback(t))
    <3>1. OrderOf(t) = [op |-> RollbackOp, tx |-> Rollback(t)]
      BY <2>2 DEF OrderOf, RollbackOp
    <3>2. SendRequest(t, RollbackOp, Rollback(t)) => PSends(t) \/ PSkips(t)
      BY <2>0, <2>2, <3>1 DEF SendRequest, Fails, PSends, PSkips
    <3> QED BY <2>2, <3>2 DEF ProxiedMove
  <2>3. CASE call[t].pc = "closing" /\ ~RollsBack(t) /\ SendRequest(t, "close", NoTx)
    <3>1. OrderOf(t) = [op |-> "close", tx |-> NoTx]
      BY <2>0, <2>3 DEF OrderOf
    <3>2. SendRequest(t, "close", NoTx) => PSends(t) \/ PFailsToSend(t)
      BY <2>0, <2>3, <3>1 DEF SendRequest, Fails, PSends, PFailsToSend
    <3> QED BY <2>3, <3>2 DEF ProxiedMove
  <2>4. CASE Replaced(t)
    BY <2>4, FailMoves DEF Replaced, ProxiedMove
  <2>5. CASE /\ call[t].pc = "answered" /\ RollsBack(t) /\ call[t].ans.kind # "error"
             /\ NextRollback(t) /\ UNCHANGED <<active, ipcVars>>
             /\ refused' = IF call[t].alone THEN refused ELSE refused \union {Rollback(t)}
    BY <2>0, <2>5 DEF PSkips, ProxiedMove, ipcVars
  <2>6. CASE /\ call[t].pc = "answered" /\ call[t].ans.kind = "error"
             /\ Fails(t) /\ UNCHANGED <<active, ipcVars>>
    BY <2>0, <2>6, FailMoves DEF ProxiedMove
  <2>7. CASE /\ call[t].pc = "answered" /\ ~RollsBack(t) /\ call[t].ans.kind # "error"
             /\ Return(t, "Ok", NoRow) /\ UNCHANGED <<active, ipcVars, refused>>
    BY <2>0, <2>7 DEF PSucceeds, ProxiedMove, Reports, Gives
  <2> QED BY <1>7, <2>1, <2>2, <2>3, <2>4, <2>5, <2>6, <2>7 DEF ProxyClose
<1> QED BY <1>1, <1>5, <1>6, <1>7 DEF ProxyStep

-----------------------------------------------------------------------------
(* The steps of the system.                                                *)

Connects ==
    /\ back' = NoRow /\ conn' = "open"
    /\ UNCHANGED <<used, calls, call, handle, free, active, ipcVars, dbVars, history>>
TaskBegins(t) == \E o \in Ops, i \in Rows : 
    /\ Start(t, o, i)
    /\ o \in {"begin", "ping", "close"} => i = NoTx
    /\ o \in {"commit", "rollback"} => i # NoTx
    /\ o = "begin" => handle[t] = NoTx
    /\ i # NoTx => handle[t] = i
DirectGo(t) == ~proxied /\ Local /\ Record(t) /\ DirectMove(t)
ProxiedGo(t) == proxied /\ UNCHANGED <<conn, free, dbVars>> /\ Record(t) /\ ProxiedMove(t)

\* The orchestrator answers the first order.
DoesOrder(d, i) ==
    /\ Runs(d.op, i) /\ (IF d.op = "begin" THEN i \in TxIds ELSE i = d.tx)
    /\ d.op = "execute" /\ i = NoTx => Stores
    /\ d.op = "execute" /\ i # NoTx => Writes(i)
    /\ d.op \in {"query", "query_one", "ping", "close"} => Stays
    /\ d.op = "begin" => Opens(i)
    /\ d.op = "commit" => Commits(i) \/ (txs[i].st # "open" /\ Aborts(i))
    /\ d.op = "rollback" => Aborts(i)
OSucceeds == \E i \in Rows, x \in Rows \union {NoRow} :
    /\ DoesOrder(Head(orders), i)
    /\ answers' = Append(answers, [kind |-> ResultKind[Head(orders).op], tx |-> i, row |-> x])
    /\ conn' \in {conn, "closed"}
OFails ==
    /\ answers' = Append(answers, NoAnswer) /\ UNCHANGED conn
    /\ LET d == Head(orders) IN Stays \/ (d.op \in Statements /\ d.tx # NoTx /\ Breaks(d.tx))
OrderGo ==
    /\ proxied /\ orders # <<>> /\ orders' = Tail(orders) /\ (OSucceeds \/ OFails)
    /\ back' = NoRow
    /\ UNCHANGED <<used, calls, call, handle, free, active, waiting, history>>
DeliverGo ==
    /\ proxied /\ Deliver /\ back' = NoRow
    /\ UNCHANGED <<used, calls, conn, free, dbVars, acked, asked, tainted, begun>>

LEMMA HeadTail ==
    ASSUME NEW S, NEW q \in Seq(S), q # <<>>
    PROVE  /\ Head(q) \in S /\ Head(q) = q[1] /\ Tail(q) \in Seq(S)
           /\ Len(q) \in Nat /\ Len(q) >= 1 /\ Len(Tail(q)) = Len(q) - 1
           /\ DOMAIN q = 1..Len(q) /\ DOMAIN Tail(q) = 1..(Len(q) - 1) /\ 1 \in DOMAIN q
           /\ \A k \in DOMAIN Tail(q) : k + 1 \in DOMAIN q /\ Tail(q)[k] = q[k + 1]
BY HeadTailProperties, EmptySeq, LenProperties

LEMMA Appending ==
    ASSUME NEW S, NEW q \in Seq(S), NEW e \in S
    PROVE  /\ Append(q, e) \in Seq(S) /\ Append(q, e) # <<>> /\ Len(Append(q, e)) = Len(q) + 1
           /\ \A k \in DOMAIN Append(q, e) :
                (k \in DOMAIN q /\ Append(q, e)[k] = q[k]) \/ Append(q, e)[k] = e
OBVIOUS

LEMMA OrderMoves ==
    ASSUME TypeOK, OrderInv, OrchestratorDoes, proxied, back' = NoRow,
           UNCHANGED <<used, calls, free, acked, asked, tainted, begun>>
    PROVE  OrderGo
<1> DEFINE d == Head(orders)
<1>0. orders # <<>> /\ orders' = Tail(orders) /\ UNCHANGED <<call, handle, active, waiting, refused>>
  BY DEF OrchestratorDoes
<1>1. d \in Orders /\ d.op \in Ops /\ d.tx \in Rows /\ OrderOK(d)
  <2>1. orders \in Seq(Orders)
    BY TypeParts DEF IpcTypes
  <2>2. d \in Orders /\ d = orders[1] /\ 1 \in DOMAIN orders
    BY <1>0, <2>1, HeadTail
  <2> QED BY <2>2, Ids DEF Orders, OrderInv
<1>2. DbTypes
  BY TypeParts
<1>3. ASSUME conn = "open", NEW i \in IF d.op = "begin" THEN TxIds ELSE {d.tx},
             Runs(d.op, i), Executed(d.op, i),
             NEW x \in IF d.op \in {"query", "query_one"} THEN Visible(i) \union {NoRow} ELSE {NoRow},
             AnswerTo(d, i, x), conn' = IF d.op = "close" THEN "closed" ELSE conn
      PROVE  OSucceeds
  <2>1. i \in Rows /\ (IF d.op = "begin" THEN i \in TxIds ELSE i = d.tx)
    BY <1>1, <1>3, Ids
  <2>2. DoesOrder(d, i)
    <3>1. /\ d.op = "execute" /\ i = NoTx => Stores
          /\ d.op = "execute" /\ i # NoTx => Writes(i)
          /\ d.op \in {"query", "query_one", "ping", "close"} => Stays
          /\ d.op = "begin" /\ i # NoTx => Opens(i)
          /\ d.op = "commit" /\ i # NoTx => Commits(i) \/ (txs[i].st # "open" /\ Aborts(i))
          /\ d.op = "rollback" /\ i # NoTx => Aborts(i)
      BY <1>1, <1>2, <1>3, <2>1, ExecutedEffect
    <3>2. d.op \in {"begin", "commit", "rollback"} => i # NoTx
      BY <1>1, <2>1, Ids DEF OrderOK
    <3> QED BY <1>3, <2>1, <3>1, <3>2 DEF DoesOrder
  <2>3. x \in Rows \union {NoRow}
    <3>1. Visible(i) \subseteq Rows
      BY <1>2, <2>1, Ids DEF Visible, DbTypes
    <3> QED BY <1>3, <3>1
  <2>4. answers' = Append(answers, [kind |-> ResultKind[d.op], tx |-> i, row |-> x])
    BY <1>3 DEF AnswerTo
  <2> QED BY <1>3, <2>1, <2>2, <2>3, <2>4 DEF OSucceeds
<1>4. ASSUME Failed(d.op, d.tx), answers' = Append(answers, NoAnswer), UNCHANGED conn PROVE OFails
  BY <1>1, <1>2, <1>4, FailedEffect DEF OFails
<1>5. OSucceeds \/ OFails
  BY <1>3, <1>4 DEF OrchestratorDoes
<1> QED BY <1>0, <1>5 DEF OrderGo, history

LEMMA Steps ==
    ASSUME TypeOK, CallInv, OrderInv, Next
    PROVE  \/ Connects \/ OrderGo \/ DeliverGo
           \/ \E t \in Tasks : TaskBegins(t) \/ DirectGo(t) \/ ProxiedGo(t) \/ DropTransaction(t)
<1>0. DbTypes /\ CallTypes
  BY TypeParts
<1>1. Connect => Connects
  <2>1. Connect => conn' = "open" /\ UNCHANGED <<call, handle, free, dbVars, active, ipcVars, refused>>
    <3>1. SqliteConnect \/ MySqlConnect \/ PostgresConnect => conn' = "open" /\ UNCHANGED <<call, handle, free, dbVars>>
      BY DEF SqliteConnect, MySqlConnect, PostgresConnect
    <3>2. ProxyConnect => conn' = "open" /\ UNCHANGED <<call, handle, active, ipcVars, dbVars, refused>>
      BY DEF ProxyConnect
    <3> QED BY <3>1, <3>2 DEF Connect, Local
  <2> QED BY <2>1 DEF Connect, Connects, history
<1>2. Orchestrator => OrderGo \/ DeliverGo
  BY OrderMoves DEF Orchestrator, DeliverGo
<1>3. ASSUME NEW t \in Tasks, Use(t) PROVE TaskBegins(t)
  <2>1. CASE \E o \in ConnOps : /\ o = "begin" => handle[t] = NoTx /\ \E i \in TxIds : Fresh(i)
                                /\ Start(t, o, NoTx)
    BY <2>1 DEF TaskBegins, ConnOps, Ops, Statements, Rows
  <2>2. CASE \E o \in TxOps : handle[t] # NoTx /\ Start(t, o, handle[t])
    <3>1. handle[t] \in Rows
      BY DEF TypeOK, DatabaseTypeOK, Rows
    <3> QED BY <2>2, <3>1 DEF TaskBegins, TxOps, Ops, Statements
  <2> QED BY <1>3, <2>1, <2>2 DEF Use
<1>4. \A t \in Tasks : DirectStep(t) => DirectGo(t)
  BY <1>0, DirectMoves DEF DirectGo
<1>5. \A t \in Tasks : ProxiedStep(t) => ProxiedGo(t)
  BY ProxiedMoves DEF ProxiedGo
<1> QED BY <1>1, <1>2, <1>3, <1>4, <1>5 DEF Next

-----------------------------------------------------------------------------
(* What a step does to a call.                                             *)

Moved(t, c) ==
    call' \in [Tasks -> Call] /\ call'[t] = c /\ \A u \in Tasks \ {t} : call'[u] = call[u]

LEMMA Returning ==
    ASSUME CallTypes, NEW t \in Tasks, NEW r, NEW g, Return(t, r, g)
    PROVE  Moved(t, Ended) /\ ~Active(t)' /\ back' = [by |-> t, res |-> r, got |-> g]
BY EndedType DEF Return, CallTypes, Moved, Active

LEMMA Going ==
    ASSUME CallTypes, NEW t \in Tasks,
           NEW l \in {"called", "acquired", "closing", "sent", "answered"}, Goto(t, l)
    PROVE  Moved(t, [call[t] EXCEPT !.pc = l]) /\ Active(t)'
BY DEF Goto, CallTypes, Moved, Active, Call

LEMMA Closing ==
    ASSUME CallTypes, NEW t \in Tasks, NEW s \in SUBSET TxIds,
           call' = [call EXCEPT ![t].pc = "closing", ![t].todo = s]
    PROVE  Moved(t, [call[t] EXCEPT !.pc = "closing", !.todo = s]) /\ Active(t)'
<1> DEFINE c == [call[t] EXCEPT !.pc = "closing", !.todo = s]
<1>1. call[t] \in Call /\ call \in [Tasks -> Call]
  BY DEF CallTypes
<1>2. c \in Call /\ c.pc = "closing"
  BY <1>1 DEF Call
<1>3. call' = [call EXCEPT ![t] = c]
  BY <1>1 DEF Call
<1> HIDE DEF c
<1>4. call' \in [Tasks -> Call] /\ call'[t] = c /\ \A u \in Tasks \ {t} : call'[u] = call[u]
  BY <1>1, <1>2, <1>3
<1>5. Moved(t, c) /\ Active(t)'
  BY <1>2, <1>4 DEF Moved, Active
<1> QED BY <1>5 DEF c

LEMMA Skipping ==
    ASSUME CallTypes, NEW t \in Tasks, NextRollback(t)
    PROVE  Moved(t, [call[t] EXCEPT !.pc = "closing", !.todo = call[t].todo \ {Rollback(t)}]) /\ Active(t)'
<1>1. call' = [call EXCEPT ![t].pc = "closing", ![t].todo = call[t].todo \ {Rollback(t)}]
  BY DEF NextRollback, CallTypes, Call
<1>2. call[t].todo \ {Rollback(t)} \in SUBSET TxIds
  BY DEF CallTypes, Call
<1> QED BY <1>1, <1>2, Closing

LEMMA Delivering ==
    ASSUME CallTypes, IpcTypes, Deliver
    PROVE  /\ answers # <<>> /\ answers' = Tail(answers) /\ UNCHANGED <<handle, active, orders, refused>>
           /\ \/ /\ waiting \in Tasks /\ call[waiting].pc = "sent" /\ waiting' = NoOne
                 /\ Moved(waiting, [call[waiting] EXCEPT !.pc = "answered", !.ans = Head(answers)])
              \/ call' = call /\ (waiting' = waiting \/ (waiting' = NoOne /\ (waiting = NoOne \/ call[waiting].pc # "sent")))
<1>1. answers # <<>> /\ answers' = Tail(answers) /\ UNCHANGED <<handle, active, orders, refused>>
  BY DEF Deliver
<1>2. ASSUME waiting # NoOne, waiting' = NoOne, call[waiting].pc = "sent",
             call' = [call EXCEPT ![waiting].pc = "answered", ![waiting].ans = Head(answers)]
      PROVE  /\ waiting \in Tasks
             /\ Moved(waiting, [call[waiting] EXCEPT !.pc = "answered", !.ans = Head(answers)])
  <2>1. waiting \in Tasks /\ Head(answers) \in Answers
    BY <1>1, <1>2, HeadTail DEF IpcTypes
  <2>2. PICK w \in Tasks, a \in Answers : w = waiting /\ a = Head(answers)
    BY <2>1
  <2> DEFINE c == [call[w] EXCEPT !.pc = "answered", !.ans = a]
  <2>3. call[w] \in Call /\ call \in [Tasks -> Call]
    BY DEF CallTypes
  <2>4. c \in Call /\ call' = [call EXCEPT ![w] = c]
    BY <1>2, <2>2, <2>3 DEF Call
  <2> HIDE DEF c
  <2>5. Moved(w, c)
    BY <2>3, <2>4 DEF Moved
  <2> QED BY <2>1, <2>2, <2>5 DEF c
<1> QED BY <1>1, <1>2 DEF Deliver

\* What a call that begins does to the calls.
Began(t, o, i) ==
    LET quiet == orders = <<>> /\ answers = <<>> /\ \A u \in Tasks \ {t} : ~Active(u) IN
    /\ call' \in [Tasks -> Call]
    /\ call'[t] = [pc |-> "called", op |-> o, tx |-> i, ans |-> NoAnswer, todo |-> {}, alone |-> quiet]
    /\ \A u \in Tasks \ {t} : call'[u] = [call[u] EXCEPT !.alone = FALSE]
LEMMA Starting ==
    ASSUME CallTypes, NEW t \in Tasks, NEW o \in Ops, NEW i \in Rows, Start(t, o, i)
    PROVE  Began(t, o, i) /\ ~Active(t) /\ Active(t)'
<1>1. i \in TxIds \union {NoTx}
  BY Ids
<1> QED BY <1>1, EndedType DEF Start, CallTypes, Began, Call, Active

\* How a direct call moves.
LEMMA DirectCall ==
    ASSUME CallTypes, NEW t \in Tasks, DirectGo(t)
    PROVE  \/ \E r \in {"Ok", "Err"} : \E g : 
                /\ Gives(t, g) /\ Moved(t, Ended) /\ ~Active(t)' /\ back' = [by |-> t, res |-> r, got |-> g]
                /\ g # NoRow => RunsAcquired(t) \/ RunsInTx(t)
           \/ Acquires(t) /\ Moved(t, [call[t] EXCEPT !.pc = "acquired"]) /\ Active(t)' /\ back' = NoRow
           \/ BeginsToClose(t) /\ Moved(t, [call[t] EXCEPT !.pc = "closing"]) /\ Active(t)' /\ back' = NoRow
<1>0. ~Active(t)' \/ back' = NoRow
  BY DEF DirectGo, Record
<1>1. CASE Acquires(t)
  BY <1>0, <1>1, Going DEF Acquires
<1>2. CASE BeginsToClose(t)
  BY <1>0, <1>2, Going DEF BeginsToClose
<1>3. ASSUME NEW r \in {"Ok", "Err"}, Return(t, r, NoRow) 
      PROVE \E g : Gives(t, g) /\ Moved(t, Ended) /\ ~Active(t)' /\ back' = [by |-> t, res |-> r, got |-> g]
                    /\ g = NoRow
  BY <1>3, Returning DEF Gives
<1>4. CASE GivesUp(t) \/ BeginsTx(t) \/ FailsToBegin(t) \/ EndsTx(t) \/ HasClosed(t)
  <2>1. \E r \in {"Ok", "Err"} : Return(t, r, NoRow)
    BY <1>4 DEF GivesUp, BeginsTx, FailsToBegin, EndsTx, HasClosed
  <2> QED BY <2>1, <1>3
<1>5. CASE RunsAcquired(t) \/ RunsInTx(t)
  <2>1. PICK r \in {"Ok", "Err"} : Reports(t, r)
    BY <1>5 DEF RunsAcquired, RunsInTx, Ran
  <2>2. PICK g : Gives(t, g) /\ Return(t, r, g)
    BY <2>1 DEF Reports
  <2>3. Moved(t, Ended) /\ ~Active(t)' /\ back' = [by |-> t, res |-> r, got |-> g]
    BY <2>2, Returning
  <2> QED BY <1>5, <2>2, <2>3
<1> QED BY <1>1, <1>2, <1>4, <1>5 DEF DirectGo, DirectMove

\* How a proxied call moves.
LEMMA ProxiedCall ==
    ASSUME CallTypes, IpcTypes, NEW t \in Tasks, ProxiedGo(t)
    PROVE  \/ \E r \in {"Ok", "Err"} : \E g :
                /\ Gives(t, g) /\ Moved(t, Ended) /\ ~Active(t)' /\ back' = [by |-> t, res |-> r, got |-> g]
                /\ g # NoRow => PSucceeds(t)
                /\ r = "Ok" => PSucceeds(t) \/ PBegins(t)
                /\ PFails(t) \/ PFailsToSend(t) \/ PSucceeds(t) \/ PBegins(t)
           \/ PSends(t) /\ Moved(t, [call[t] EXCEPT !.pc = "sent"]) /\ Active(t)' /\ back' = NoRow
           \/ PTakesActive(t) /\ Moved(t, [call[t] EXCEPT !.pc = "closing", !.todo = active])
                /\ Active(t)' /\ back' = NoRow
           \/ PSkips(t) /\ Moved(t, [call[t] EXCEPT !.pc = "closing", !.todo = call[t].todo \ {Rollback(t)}])
                /\ Active(t)' /\ back' = NoRow
<1>0. ~Active(t)' \/ back' = NoRow
  BY DEF ProxiedGo, Record
<1>1. CASE PSends(t)
  BY <1>0, <1>1, Going DEF PSends
<1>2. CASE PTakesActive(t)
  <2>1. active \in SUBSET TxIds
    BY DEF IpcTypes
  <2> QED BY <1>0, <1>2, <2>1, Closing DEF PTakesActive, TakeActive
<1>3. CASE PSkips(t)
  BY <1>0, <1>3, Skipping DEF PSkips
<1>4. CASE PFails(t) \/ PFailsToSend(t)
  <2>1. Return(t, "Err", NoRow)
    BY <1>4 DEF PFails, PFailsToSend
  <2>2. Moved(t, Ended) /\ ~Active(t)' /\ back' = [by |-> t, res |-> "Err", got |-> NoRow]
    BY <2>1, Returning
  <2> QED BY <1>4, <2>2 DEF Gives
<1>5. CASE PSucceeds(t) \/ PBegins(t)
  <2>0. CASE PSucceeds(t)
    <3>1. PICK g : Gives(t, g) /\ Return(t, "Ok", g)
      BY <2>0 DEF PSucceeds, Reports
    <3>2. Moved(t, Ended) /\ ~Active(t)' /\ back' = [by |-> t, res |-> "Ok", got |-> g]
      BY <3>1, Returning
    <3> QED BY <2>0, <3>1, <3>2
  <2>1. CASE PBegins(t)
    <3>1. Gives(t, NoRow) /\ Return(t, "Ok", NoRow)
      BY <2>1 DEF PBegins, Gives
    <3>2. Moved(t, Ended) /\ ~Active(t)' /\ back' = [by |-> t, res |-> "Ok", got |-> NoRow]
      BY <3>1, Returning
    <3> QED BY <2>1, <3>1, <3>2
  <2> QED BY <1>5, <2>0, <2>1
<1> QED BY <1>1, <1>2, <1>3, <1>4, <1>5 DEF ProxiedGo, ProxiedMove

-----------------------------------------------------------------------------
(* Types.                                                                  *)

LEMMA CallTypesKept == ASSUME TypeOK, CallInv, OrderInv, Next PROVE CallTypes'
<1>0. CallTypes /\ IpcTypes
  BY TypeParts
<1>1. CASE Connects \/ OrderGo
  BY <1>0, <1>1 DEF Connects, OrderGo, CallTypes
<1>2. CASE DeliverGo
  <2>1. call' \in [Tasks -> Call]
    BY <1>0, <1>2, Delivering DEF DeliverGo, Moved, CallTypes
  <2> QED BY <1>2, <2>1 DEF DeliverGo, CallTypes
<1>3. ASSUME NEW t \in Tasks, TaskBegins(t) PROVE CallTypes'
  <2>0. PICK o \in Ops, i \in Rows : Start(t, o, i)
    BY <1>3 DEF TaskBegins
  <2>1. call' \in [Tasks -> Call] /\ back' = NoRow
    <3>1. Began(t, o, i)
      BY <1>0, <2>0, Starting
    <3> QED BY <2>0, <3>1 DEF Began, Start
  <2> QED BY <2>1 DEF CallTypes
<1>4. ASSUME NEW t \in Tasks, DirectGo(t) \/ ProxiedGo(t) PROVE CallTypes'
  <2>1. \/ \E r \in {"Ok", "Err"} : \E g :
                Gives(t, g) /\ Moved(t, Ended) /\ back' = [by |-> t, res |-> r, got |-> g]
        \/ back' = NoRow /\ \E c : Moved(t, c)
    BY <1>0, <1>4, DirectCall, ProxiedCall
  <2>2. \A g : Gives(t, g) => g \in Readings \union {NoRow}
    BY ReadingType DEF Gives
  <2> QED BY <2>1, <2>2 DEF CallTypes, Moved, Returns
<1>5. ASSUME NEW t \in Tasks, DropTransaction(t) PROVE CallTypes'
  BY <1>0, <1>5 DEF DropTransaction, CallTypes
<1> QED BY <1>1, <1>2, <1>3, <1>4, <1>5, Steps

LEMMA OrderType ==
    ASSUME CallTypes, NEW t \in Tasks
    PROVE  OrderOf(t) \in Orders
<1>1. CASE RollsBack(t)
  BY <1>1, RollbackIsLeft DEF OrderOf, Orders, Ops, TxOps
<1>2. CASE ~RollsBack(t)
  BY <1>2 DEF OrderOf, Orders, CallTypes, Call
<1> QED BY <1>1, <1>2

LEMMA AnsweredId ==
    ASSUME CallTypes, StartedInv, NEW t \in Tasks, PBegins(t)
    PROVE  call[t].ans.tx \in TxIds /\ Started(call[t].ans.tx)
BY Ids DEF PBegins, StartedInv, AnswerOK, CallTypes, Call, Answers

LEMMA IpcTypesKept == ASSUME TypeOK, CallInv, OrderInv, StartedInv, Next PROVE IpcTypes'
<1>0. CallTypes /\ IpcTypes
  BY TypeParts
<1>1. CASE Connects
  BY <1>0, <1>1 DEF Connects, IpcTypes, ipcVars
<1>2. CASE OrderGo
  <2>1. Tail(orders) \in Seq(Orders) /\ Head(orders) \in Orders
    BY <1>0, <1>2, HeadTail DEF IpcTypes, OrderGo
  <2>2. \A i \in Rows, x \in Rows \union {NoRow} :
            [kind |-> ResultKind[Head(orders).op], tx |-> i, row |-> x] \in Answers
    <3>1. ResultKind[Head(orders).op] \in {"count", "rows", "row", "id", "done"}
      BY <2>1, KindOfResult DEF Orders
    <3> QED BY <3>1, Ids DEF Answers
  <2>3. answers' \in Seq(Answers)
    <3>1. PICK a \in Answers : answers' = Append(answers, a)
      BY <1>2, <2>2, EndedType DEF OrderGo, OSucceeds, OFails
    <3> QED BY <1>0, <3>1, Appending DEF IpcTypes
  <2> QED BY <1>0, <1>2, <2>1, <2>3 DEF IpcTypes, OrderGo
<1>3. CASE DeliverGo
  <2>1. answers # <<>> /\ answers' = Tail(answers) /\ UNCHANGED <<active, orders>>
        /\ waiting' \in {waiting, NoOne}
    BY <1>0, <1>3, Delivering DEF DeliverGo
  <2> QED BY <1>0, <2>1, HeadTail DEF IpcTypes
<1>4. ASSUME NEW t \in Tasks, TaskBegins(t) \/ DirectGo(t) \/ DropTransaction(t) PROVE IpcTypes'
  <2>1. UNCHANGED <<active, ipcVars>>
    BY <1>4 DEF TaskBegins, Start, DirectGo, Local, DropTransaction
  <2> QED BY <1>0, <2>1 DEF IpcTypes, ipcVars
<1>5. ASSUME NEW t \in Tasks, ProxiedGo(t) PROVE IpcTypes'
  <2>1. CASE PFails(t) \/ PSucceeds(t)
    BY <1>0, <2>1 DEF PFails, PSucceeds, IpcTypes, ipcVars
  <2>2. CASE PSends(t)
    <3>1. orders' \in Seq(Orders)
      BY <1>0, <2>2, OrderType, Appending DEF PSends, IpcTypes
    <3> QED BY <1>0, <2>2, <3>1 DEF PSends, IpcTypes
  <2>3. CASE PFailsToSend(t)
    BY <1>0, <2>3 DEF PFailsToSend, IpcTypes
  <2>4. CASE PBegins(t)
    BY <1>0, <2>4, AnsweredId DEF PBegins, IpcTypes, ipcVars
  <2>5. CASE PTakesActive(t)
    BY <1>0, <2>5 DEF PTakesActive, TakeActive, IpcTypes, ipcVars
  <2>6. CASE PSkips(t)
    BY <1>0, <2>6 DEF PSkips, IpcTypes
  <2> QED BY <1>5, <2>1, <2>2, <2>3, <2>4, <2>5, <2>6 DEF ProxiedGo, ProxiedMove
<1> QED BY <1>1, <1>2, <1>3, <1>4, <1>5, Steps

HandleType == handle \in [Tasks -> TxIds \union {NoTx}]
HistoryTypes ==
    /\ acked \subseteq Rows /\ asked \subseteq TxIds /\ tainted \subseteq TxIds
    /\ begun \subseteq TxIds /\ refused \subseteq TxIds
SetupTypes ==
    /\ <<dbType, proxied>> \in Uses /\ param \in Params /\ calls \in 0..MaxCalls[proxied]
    /\ conn \in {"none", "open", "closed"}

LEMMA OtherParts == OtherTypes <=> SetupTypes /\ HandleType /\ HistoryTypes
BY DEF OtherTypes, SetupTypes, HandleType, HistoryTypes

LEMMA SetupTypesKept == ASSUME TypeOK, CallInv, OrderInv, Next PROVE SetupTypes'
<1>0. SetupTypes
  BY TypeParts, OtherParts
<1>1. CASE Connects
  BY <1>0, <1>1 DEF Connects, SetupTypes, used
<1>2. CASE OrderGo
  BY <1>0, <1>2 DEF OrderGo, OSucceeds, OFails, SetupTypes, used
<1>3. CASE DeliverGo
  BY <1>0, <1>3 DEF DeliverGo, SetupTypes, used
<1>4. ASSUME NEW t \in Tasks, TaskBegins(t) PROVE SetupTypes'
  <2>1. calls < MaxCalls[proxied] /\ calls' = calls + 1 /\ UNCHANGED <<used, conn>>
    BY <1>4 DEF TaskBegins, Start
  <2>2. MaxCalls[proxied] \in Nat
    <3>1. proxied \in BOOLEAN
      BY <1>0, UsesAssumption DEF SetupTypes
    <3> QED BY <3>1, BoundsAssumption
  <2>3. calls' \in 0..MaxCalls[proxied]
    BY <1>0, <2>1, <2>2 DEF SetupTypes
  <2> QED BY <1>0, <2>1, <2>3 DEF SetupTypes, used
<1>5. ASSUME NEW t \in Tasks, DirectGo(t) \/ ProxiedGo(t) \/ DropTransaction(t) PROVE SetupTypes'
  <2>1. UNCHANGED <<used, calls>>
    BY <1>5 DEF DirectGo, ProxiedGo, DropTransaction, Record
  <2>2. conn' \in {conn, "closed"}
    BY <1>5 DEF DirectGo, ProxiedGo, DropTransaction, DirectMove, GivesUp, Acquires, RunsAcquired,
        RunsInTx, BeginsTx, FailsToBegin, EndsTx, BeginsToClose, HasClosed
  <2> QED BY <1>0, <2>1, <2>2 DEF SetupTypes, used
<1> QED BY <1>1, <1>2, <1>3, <1>4, <1>5, Steps

\* What a step does to the transactions that are held.
LEMMA HandleMoves ==
    ASSUME TypeOK, CallInv, OrderInv, StartedInv, Next
    PROVE  \/ handle' = handle
           \/ \E t \in Tasks, i \in TxIds \union {NoTx} : handle' = [handle EXCEPT ![t] = i]
<1>0. CallTypes /\ IpcTypes
  BY TypeParts
<1>1. CASE Connects \/ OrderGo
  BY <1>1 DEF Connects, OrderGo
<1>2. CASE DeliverGo
  BY <1>2 DEF DeliverGo, Deliver
<1>3. ASSUME NEW t \in Tasks, TaskBegins(t) PROVE handle' = handle
  BY <1>3 DEF TaskBegins, Start
<1>4. ASSUME NEW t \in Tasks, DirectGo(t) \/ ProxiedGo(t) \/ DropTransaction(t)
      PROVE  \/ handle' = handle
             \/ \E i \in TxIds \union {NoTx} : handle' = [handle EXCEPT ![t] = i]
  <2>1. CASE DirectGo(t)
    BY <2>1 DEF DirectGo, DirectMove, GivesUp, Acquires, RunsAcquired,
        RunsInTx, BeginsTx, FailsToBegin, EndsTx, BeginsToClose, HasClosed
  <2>2. CASE DropTransaction(t)
    BY <2>2 DEF DropTransaction, DropsTransaction
  <2>3. CASE ProxiedGo(t)
    <3>1. CASE PBegins(t)
      BY <1>0, <3>1, AnsweredId DEF PBegins
    <3>2. CASE PFails(t) \/ PSends(t) \/ PFailsToSend(t) \/ PSucceeds(t) \/ PTakesActive(t) \/ PSkips(t)
      BY <3>2 DEF PFails, PSends, PFailsToSend, PSucceeds, PTakesActive, PSkips, GivesHandle
    <3> QED BY <2>3, <3>1, <3>2 DEF ProxiedGo, ProxiedMove
  <2> QED BY <1>4, <2>1, <2>2, <2>3
<1> QED BY <1>1, <1>2, <1>3, <1>4, Steps

LEMMA HandleTypeKept == ASSUME TypeOK, CallInv, OrderInv, StartedInv, Next PROVE HandleType'
<1>1. HandleType
  BY TypeParts, OtherParts
<1> QED BY <1>1, HandleMoves DEF HandleType

LEMMA HistoryTypesKept == ASSUME TypeOK, CallInv, OrderInv, StartedInv, Next PROVE HistoryTypes'
<1>0. CallTypes /\ IpcTypes /\ HistoryTypes /\ IpcTypes' /\ HandleType'
  BY TypeParts, OtherParts, IpcTypesKept, HandleTypeKept
<1>1. CASE Connects \/ OrderGo
  BY <1>0, <1>1 DEF Connects, OrderGo, history, HistoryTypes
<1>2. CASE DeliverGo
  BY <1>0, <1>2 DEF DeliverGo, Deliver, HistoryTypes
<1>3. ASSUME NEW t \in Tasks, TaskBegins(t) PROVE HistoryTypes'
  <2>1. PICK o \in Ops, i \in Rows : Start(t, o, i) /\ (o \in {"commit", "rollback"} => i # NoTx)
    BY <1>3 DEF TaskBegins
  <2>2. asked' \subseteq TxIds
    BY <1>0, <2>1, Ids DEF Start, HistoryTypes
  <2>3. \A u \in Tasks : call[u].tx \in TxIds \union {NoTx}
    BY <1>0 DEF CallTypes, Call
  <2>4. tainted' \subseteq tainted \union (({i} \union {call[u].tx : u \in Tasks}) \ {NoTx})
    BY <2>1 DEF Start
  <2>5. tainted' \subseteq TxIds
    BY <1>0, <2>3, <2>4, Ids DEF HistoryTypes
  <2> QED BY <1>0, <2>1, <2>2, <2>5 DEF Start, HistoryTypes
<1>4. ASSUME NEW t \in Tasks, DirectGo(t) \/ ProxiedGo(t) PROVE HistoryTypes'
  <2>1. Record(t)
    BY <1>4 DEF DirectGo, ProxiedGo
  <2>2. call[t].tx \in Rows /\ handle'[t] \in Rows
    BY <1>0, Ids DEF CallTypes, Call, HandleType
  <2>3. acked' \subseteq Rows
    <3>1. acked' = acked \/ acked' = acked \union {call[t].tx}
      BY <2>1 DEF Record
    <3> QED BY <1>0, <2>2, <3>1 DEF HistoryTypes
  <2>4. tainted' \subseteq TxIds
    <3>1. tainted' \in {tainted, tainted \union ({handle'[t]} \ {NoTx}), tainted \union ({call[t].tx} \ {NoTx})}
      BY <2>1 DEF Record
    <3> QED BY <1>0, <2>2, <3>1, Ids DEF HistoryTypes
  <2>5. begun' \subseteq TxIds /\ asked' = asked
    BY <1>0, <2>1 DEF Record, HistoryTypes, IpcTypes
  <2>6. refused' \subseteq TxIds
    <3>1. DirectGo(t) => refused' = refused
      BY DEF DirectGo, Local
    <3>2. ProxiedGo(t) => refused' = refused \/ (RollsBack(t) /\ refused' = refused \union {Rollback(t)})
      BY DEF ProxiedGo, ProxiedMove, PFails, PSends, PFailsToSend, PSucceeds, PBegins, PTakesActive, PSkips
    <3> QED BY <1>0, <1>4, <3>1, <3>2, RollbackIsLeft DEF HistoryTypes
  <2> QED BY <1>0, <2>3, <2>4, <2>5, <2>6 DEF HistoryTypes
<1>5. ASSUME NEW t \in Tasks, DropTransaction(t) PROVE HistoryTypes'
  BY <1>0, <1>5 DEF DropTransaction, history, HistoryTypes
<1> QED BY <1>1, <1>2, <1>3, <1>4, <1>5, Steps

-----------------------------------------------------------------------------
(* The connections of the pool.                                            *)

LEMMA AcquiredMoves ==
    ASSUME CallTypes, NEW t \in Tasks, NEW c, Moved(t, c)
    PROVE  Acquired' = IF c.pc = "acquired" /\ c.tx = NoTx THEN Acquired \union {t} ELSE Acquired \ {t}
BY DEF Acquired, Moved, CallTypes

LEMMA HoldingMoves ==
    ASSUME HandleType, NEW t \in Tasks, NEW i \in TxIds \union {NoTx}, handle' = [handle EXCEPT ![t] = i]
    PROVE  Holding' = IF i # NoTx THEN Holding \union {t} ELSE Holding \ {t}
BY DEF Holding, HandleType

LEMMA Counting ==
    ASSUME NEW S, NEW T, NEW x, IsFiniteSet(S), T = S \union {x} \/ T = S \ {x}
    PROVE  /\ IsFiniteSet(T) /\ Cardinality(S) \in Nat /\ Cardinality(T) \in Nat
           /\ x \in S /\ T = S \ {x} => Cardinality(T) = Cardinality(S) - 1
           /\ x \notin S /\ T = S \union {x} => Cardinality(T) = Cardinality(S) + 1
<1>1. /\ IsFiniteSet(S \union {x}) /\ IsFiniteSet(S \ {x})
      /\ x \in S => Cardinality(S \ {x}) = Cardinality(S) - 1
      /\ x \notin S => Cardinality(S \union {x}) = Cardinality(S) + 1
  BY FS_AddElement, FS_RemoveElement
<1>2. IsFiniteSet(T)
  BY <1>1
<1>3. Cardinality(S) \in Nat /\ Cardinality(T) \in Nat
  BY <1>2, FS_CardinalityType
<1> QED BY <1>1, <1>2, <1>3

Pool == PoolCount /\ PoolInv

LEMMA PoolStays ==
    ASSUME Pool, UNCHANGED <<free, proxied>>, Acquired' = Acquired, proxied \/ Holding' = Holding
    PROVE  Pool'
BY DEF Pool, PoolCount, PoolInv

LEMMA PoolSizeNat == PoolSize \in Nat
BY BoundsAssumption

\* A connection goes from the pool to a call, from a call to its transaction,
\* and back.
LEMMA PoolTaken ==
    ASSUME Pool, ~proxied, ~proxied', NEW t, t \notin Acquired, Acquired' = Acquired \union {t},
           Holding' = Holding, free > 0, free' = free - 1
    PROVE  Pool'
<1>1. IsFiniteSet(Acquired') /\ Cardinality(Acquired') = Cardinality(Acquired) + 1
      /\ Cardinality(Acquired) \in Nat /\ Cardinality(Holding) \in Nat /\ IsFiniteSet(Holding)
  BY Counting, FS_CardinalityType DEF Pool, PoolInv
<1> QED BY <1>1, PoolSizeNat DEF Pool, PoolCount, PoolInv
LEMMA PoolGiven ==
    ASSUME Pool, ~proxied, ~proxied', NEW t, t \in Acquired, Acquired' = Acquired \ {t},
           Holding' = Holding, free' = free + 1
    PROVE  Pool'
<1>1. IsFiniteSet(Acquired') /\ Cardinality(Acquired') = Cardinality(Acquired) - 1
      /\ Cardinality(Acquired) \in Nat /\ Cardinality(Holding) \in Nat /\ IsFiniteSet(Holding)
  BY Counting, FS_CardinalityType DEF Pool, PoolInv
<1> QED BY <1>1, PoolSizeNat DEF Pool, PoolCount, PoolInv
LEMMA PoolKept ==
    ASSUME Pool, ~proxied, ~proxied', NEW t, t \in Acquired, Acquired' = Acquired \ {t},
           t \notin Holding, Holding' = Holding \union {t}, free' = free
    PROVE  Pool'
<1>1. IsFiniteSet(Acquired') /\ Cardinality(Acquired') = Cardinality(Acquired) - 1
      /\ Cardinality(Acquired) \in Nat
  BY Counting DEF Pool, PoolInv
<1>2. IsFiniteSet(Holding') /\ Cardinality(Holding') = Cardinality(Holding) + 1
      /\ Cardinality(Holding) \in Nat
  BY Counting DEF Pool, PoolInv
<1> QED BY <1>1, <1>2, PoolSizeNat DEF Pool, PoolCount, PoolInv
LEMMA PoolReturned ==
    ASSUME Pool, ~proxied, ~proxied', NEW t, Acquired' = Acquired,
           t \in Holding, Holding' = Holding \ {t}, free' = free + 1
    PROVE  Pool'
<1>1. IsFiniteSet(Holding') /\ Cardinality(Holding') = Cardinality(Holding) - 1
      /\ Cardinality(Holding) \in Nat /\ Cardinality(Acquired) \in Nat
  BY Counting, FS_CardinalityType DEF Pool, PoolInv
<1> QED BY <1>1, PoolSizeNat DEF Pool, PoolCount, PoolInv

\* How the calls with a connection change in a step of a direct call.
LEMMA DirectAcquired ==
    ASSUME CallTypes, NEW t \in Tasks, DirectGo(t)
    PROVE  /\ Acquires(t) => call[t].tx = NoTx /\ Acquired' = Acquired \union {t}
           /\ ~Acquires(t) => Acquired' = Acquired \ {t}
           /\ t \in Acquired <=> call[t].pc = "acquired" /\ call[t].tx = NoTx
<1>1. t \in Acquired <=> call[t].pc = "acquired" /\ call[t].tx = NoTx
  BY DEF Acquired
<1>2. CASE Acquires(t)
  <2>1. Moved(t, [call[t] EXCEPT !.pc = "acquired"]) /\ call[t].tx = NoTx
    BY <1>2, Going DEF Acquires
  <2>2. [call[t] EXCEPT !.pc = "acquired"].pc = "acquired" /\ [call[t] EXCEPT !.pc = "acquired"].tx = NoTx
    BY <2>1 DEF CallTypes, Call
  <2> QED BY <1>1, <1>2, <2>1, <2>2, AcquiredMoves
<1>3. CASE ~Acquires(t)
  <2>1. Moved(t, Ended) \/ Moved(t, [call[t] EXCEPT !.pc = "closing"])
    BY <1>3, DirectCall
  <2>2. Ended.pc # "acquired" /\ [call[t] EXCEPT !.pc = "closing"].pc # "acquired"
    BY EndedType DEF CallTypes, Call
  <2> QED BY <1>1, <1>3, <2>1, <2>2, AcquiredMoves
<1> QED BY <1>1, <1>2, <1>3

LEMMA PoolDirect ==
    ASSUME TypeOK, CallInv, PoolInv, NEW t \in Tasks, DirectGo(t)
    PROVE  Pool'
<1>0. CallTypes /\ HandleType /\ Pool /\ CallOK(t)
  BY TypeParts, OtherParts DEF Pool, CallInv
<1>1. ~proxied /\ ~proxied' /\ UNCHANGED proxied
  BY DEF DirectGo, Record, used
<1>2. CASE GivesUp(t) \/ RunsInTx(t) \/ BeginsToClose(t) \/ HasClosed(t)
  <2>1. call[t].pc # "acquired" /\ ~Acquires(t) /\ free' = free /\ handle' = handle
    BY <1>0, <1>2, EndedType, DirectCall DEF GivesUp, RunsInTx, BeginsToClose, HasClosed, Acquires, Goto, Return, Ran, Reports, CallTypes, Call
  <2>2. Acquired' = Acquired /\ Holding' = Holding
    BY <1>0, <2>1, DirectAcquired DEF Holding
  <2> QED BY <1>0, <1>1, <2>1, <2>2, PoolStays
<1>3. CASE Acquires(t)
  <2>1. t \notin Acquired /\ Acquired' = Acquired \union {t}
    BY <1>0, <1>3, DirectAcquired DEF Acquires
  <2>2. Holding' = Holding /\ free > 0 /\ free' = free - 1
    BY <1>3 DEF Acquires, Holding
  <2> QED BY <1>0, <1>1, <2>1, <2>2, PoolTaken
<1>4. CASE RunsAcquired(t) \/ FailsToBegin(t)
  <2>1. call[t].pc = "acquired" /\ call[t].tx = NoTx /\ free' = free + 1 /\ handle' = handle
    BY <1>4 DEF RunsAcquired, FailsToBegin
  <2>2. t \in Acquired /\ Acquired' = Acquired \ {t} /\ Holding' = Holding
    BY <1>0, <2>1, DirectAcquired DEF Acquires, Holding
  <2> QED BY <1>0, <1>1, <2>1, <2>2, PoolGiven
<1>5. CASE BeginsTx(t)
  <2>1. call[t].pc = "acquired" /\ call[t].tx = NoTx /\ free' = free /\ call[t].op = "begin"
    BY <1>5 DEF BeginsTx
  <2>2. t \in Acquired /\ Acquired' = Acquired \ {t}
    BY <1>0, <2>1, DirectAcquired DEF Acquires
  <2>3. handle[t] = NoTx
    BY <1>0, <2>1 DEF CallOK, Active
  <2>4. t \notin Holding /\ Holding' = Holding \union {t}
    <3>1. PICK i \in TxIds : handle' = [handle EXCEPT ![t] = i]
      BY <1>5 DEF BeginsTx
    <3> QED BY <1>0, <2>3, <3>1, Ids, HoldingMoves DEF Holding
  <2> QED BY <1>0, <1>1, <2>1, <2>2, <2>4, PoolKept
<1>6. CASE EndsTx(t)
  <2>1. call[t].pc = "called" /\ call[t].tx # NoTx /\ free' = free + 1
        /\ handle' = [handle EXCEPT ![t] = NoTx]
    BY <1>6 DEF EndsTx
  <2>2. Acquired' = Acquired
    BY <1>0, <2>1, DirectAcquired
  <2>3. handle[t] # NoTx
    BY <1>0, <1>1, <2>1 DEF CallOK, Active
  <2>4. t \in Holding /\ Holding' = Holding \ {t}
    BY <1>0, <2>1, <2>3, HoldingMoves DEF Holding
  <2> QED BY <1>0, <1>1, <2>1, <2>2, <2>4, PoolReturned
<1> QED BY <1>2, <1>3, <1>4, <1>5, <1>6 DEF DirectGo, DirectMove

LEMMA PoolInvariant == ASSUME TypeOK, CallInv, OrderInv, PoolInv, StartedInv, Next PROVE Pool'
<1>0. CallTypes /\ IpcTypes /\ HandleType /\ Pool
  BY TypeParts, OtherParts DEF Pool
<1>1. CASE Connects \/ OrderGo
  BY <1>0, <1>1, PoolStays DEF Connects, OrderGo, used, Acquired, Holding
<1>2. CASE DeliverGo
  <2>1. free' = free /\ handle' = handle /\ proxied' = proxied
    BY <1>2 DEF DeliverGo, Deliver, used
  <2>2. Acquired' = Acquired
    <3>1. CASE waiting \in Tasks /\ call[waiting].pc = "sent"
            /\ Moved(waiting, [call[waiting] EXCEPT !.pc = "answered", !.ans = Head(answers)])
      <4>1. [call[waiting] EXCEPT !.pc = "answered", !.ans = Head(answers)].pc # "acquired"
        BY <1>0, <3>1 DEF CallTypes, Call
      <4>2. waiting \notin Acquired
        BY <3>1 DEF Acquired
      <4> QED BY <1>0, <3>1, <4>1, <4>2, AcquiredMoves
    <3>2. CASE call' = call
      BY <3>2 DEF Acquired
    <3> QED BY <1>0, <1>2, <3>1, <3>2, Delivering DEF DeliverGo
  <2> QED BY <1>0, <2>1, <2>2, PoolStays DEF Holding
<1>3. ASSUME NEW t \in Tasks, TaskBegins(t) PROVE Pool'
  <2>1. PICK o \in Ops, i \in Rows : Start(t, o, i)
    BY <1>3 DEF TaskBegins
  <2>2. Began(t, o, i) /\ ~Active(t)
    BY <1>0, <2>1, Starting
  <2>3. Acquired' = Acquired
    BY <1>0, <2>2 DEF Acquired, Began, Active, CallTypes, Call
  <2> QED BY <1>0, <2>1, <2>3, PoolStays DEF Start, used, Holding
<1>4. ASSUME NEW t \in Tasks, DirectGo(t) PROVE Pool'
  BY <1>4, PoolDirect
<1>5. ASSUME NEW t \in Tasks, ProxiedGo(t) PROVE Pool'
  <2>1. free' = free /\ proxied /\ proxied' = proxied
    BY <1>5 DEF ProxiedGo, Record, used
  <2>2. call[t].pc # "acquired"
    BY <2>1 DEF CallInv, CallOK
  <2>3. PICK c : Moved(t, c) /\ c.pc # "acquired"
    <3>1. \A s, l : l # "acquired" => [call[t] EXCEPT !.pc = l].pc # "acquired"
                        /\ [call[t] EXCEPT !.pc = l, !.todo = s].pc # "acquired"
      BY <1>0 DEF CallTypes, Call
    <3> QED BY <1>0, <1>5, <3>1, ProxiedCall, EndedType
  <2>4. Acquired' = Acquired
    BY <1>0, <2>2, <2>3, AcquiredMoves DEF Acquired
  <2> QED BY <1>0, <2>1, <2>4, PoolStays
<1>6. ASSUME NEW t \in Tasks, DropTransaction(t) PROVE Pool'
  <2>1. UNCHANGED <<call, used>> /\ handle[t] # NoTx
    BY <1>6 DEF DropTransaction
  <2>2. Acquired' = Acquired /\ proxied' = proxied
    BY <2>1 DEF Acquired, used
  <2>3. CASE proxied
    BY <1>0, <1>6, <2>2, <2>3, PoolStays DEF DropTransaction
  <2>4. CASE ~proxied
    <3>1. handle' = [handle EXCEPT ![t] = NoTx] /\ free' = free + 1
      BY <1>6, <2>4 DEF DropTransaction, DropsTransaction
    <3>2. t \in Holding /\ Holding' = Holding \ {t}
      BY <1>0, <2>1, <3>1, HoldingMoves DEF Holding
    <3> QED BY <1>0, <2>2, <2>4, <3>1, <3>2, PoolReturned
  <2> QED BY <2>3, <2>4
<1> QED BY <1>1, <1>2, <1>3, <1>4, <1>5, <1>6, Steps

-----------------------------------------------------------------------------
(* The database: whose rows are stored.                                    *)

LEMMA DbSteps ==
    ASSUME TypeOK, CallInv, OrderInv, Next
    PROVE  \/ Stays \/ Stores
           \/ \E i \in TxIds : \/ Writes(i) \/ Breaks(i) \/ Opens(i) \/ Aborts(i)
                               \/ Commits(i) /\ i \in asked
<1> DEFINE Effect(i) == \/ Writes(i) \/ Breaks(i) \/ Opens(i) \/ Aborts(i)
                        \/ Commits(i) /\ i \in asked
           Goal == Stays \/ Stores \/ \E i \in TxIds : Effect(i)
<1>0. DbTypes /\ CallTypes /\ IpcTypes /\ HandleType
  BY TypeParts, OtherParts
<1>a. \A i : Effect(i) => i \in TxIds
  BY DEF Writes, Breaks, Opens, Aborts, Commits, At
<1>1. CASE Connects \/ DeliverGo \/ (\E t \in Tasks : TaskBegins(t) \/ ProxiedGo(t))
  BY <1>1 DEF Connects, DeliverGo, TaskBegins, Start, ProxiedGo, dbVars, Stays
<1>2. ASSUME NEW t \in Tasks, DirectGo(t) PROVE Goal
  <2>0. CallOK(t)
    BY DEF CallInv
  <2>1. CASE GivesUp(t) \/ Acquires(t) \/ FailsToBegin(t) \/ BeginsToClose(t) \/ HasClosed(t)
    BY <2>1 DEF GivesUp, Acquires, FailsToBegin, BeginsToClose, HasClosed, dbVars, Stays
  <2>2. CASE RunsAcquired(t) \/ RunsInTx(t)
    BY <1>a, <2>2 DEF RunsAcquired, RunsInTx, Ran
  <2>3. CASE BeginsTx(t)
    BY <2>3 DEF BeginsTx
  <2>4. CASE EndsTx(t)
    <3>1. call[t].op = "commit" => call[t].tx \in asked
      BY <2>0, <2>4 DEF EndsTx, CallOK, Active
    <3>2. Effect(call[t].tx)
      BY <2>4, <3>1 DEF EndsTx
    <3> QED BY <1>a, <3>2
  <2> QED BY <1>2, <2>1, <2>2, <2>3, <2>4 DEF DirectGo, DirectMove
<1>3. CASE OrderGo
  <2>0. Head(orders) \in Orders /\ OrderOK(Head(orders))
    BY <1>0, <1>3, HeadTail DEF IpcTypes, OrderGo, OrderInv
  <2>1. CASE OFails
    BY <1>a, <2>1 DEF OFails
  <2>2. ASSUME NEW i \in Rows, DoesOrder(Head(orders), i) PROVE Goal
    <3>1. Head(orders).op = "commit" => i \in asked
      BY <2>0, <2>2 DEF OrderOK, DoesOrder
    <3>2. Stays \/ Stores \/ Effect(i)
      BY <2>0, <2>2, <3>1, Ids DEF DoesOrder, Orders, Ops, ConnOps, TxOps, Statements
    <3> QED BY <1>a, <3>2
  <2> QED BY <1>3, <2>1, <2>2 DEF OrderGo, OSucceeds
<1>4. ASSUME NEW t \in Tasks, DropTransaction(t) PROVE Goal
  <2>1. CASE proxied
    BY <1>4, <2>1 DEF DropTransaction, dbVars, Stays
  <2>2. CASE ~proxied
    <3>1. handle[t] \in TxIds /\ Finish(handle[t], "aborted") /\ stored' = stored
      BY <1>0, <1>4, <2>2 DEF DropTransaction, DropsTransaction, HandleType
    <3> QED BY <1>0, <3>1, Finishing DEF Aborts
  <2> QED BY <2>1, <2>2
<1> QED BY <1>1, <1>2, <1>3, <1>4, Steps

LEMMA AskedKept == ASSUME TypeOK, CallInv, OrderInv, Next PROVE asked \subseteq asked'
BY Steps DEF Connects, OrderGo, DeliverGo, TaskBegins, Start, DirectGo, ProxiedGo, Record, DropTransaction, history

\* What becomes of the transactions and of what is stored.
LEMMA DbKept ==
    ASSUME TypeOK, CallInv, OrderInv, RowInv, NothingUnasked, Next
    PROVE  /\ DbTypes' /\ RowInv' /\ NothingUnasked' /\ stored \subseteq stored'
           /\ \A i \in TxIds : txs[i].st # "none" => txs'[i].st # "none"
<1>0. DbTypes /\ asked \subseteq asked'
  BY TypeParts, AskedKept
<1>1. CASE Stays
  BY <1>0, <1>1 DEF Stays, DbTypes, RowInv, NothingUnasked
<1>2. CASE Stores
  BY <1>0, <1>2, Ids DEF Stores, DbTypes, RowInv, NothingUnasked
<1>3. ASSUME NEW i \in TxIds, \/ Writes(i) \/ Breaks(i) \/ Opens(i) \/ Aborts(i)
                              \/ Commits(i) /\ i \in asked
      PROVE  /\ DbTypes' /\ RowInv' /\ NothingUnasked' /\ stored \subseteq stored'
             /\ \A j \in TxIds : txs[j].st # "none" => txs'[j].st # "none"
  <2>1. DbEffect(i)
    BY <1>3 DEF DbEffect
  <2>2. /\ RowInv' /\ stored \subseteq stored' /\ stored' \subseteq stored \union {i}
        /\ \A j \in TxIds : txs[j].st # "none" => txs'[j].st # "none"
    BY <1>0, <2>1, EffectKeeps
  <2>3. NothingUnasked'
    <3>1. CASE Commits(i) /\ i \in asked
      BY <1>0, <2>2, <3>1 DEF NothingUnasked
    <3>2. CASE Writes(i) \/ Breaks(i) \/ Opens(i) \/ Aborts(i)
      BY <1>0, <3>2 DEF Writes, Breaks, Opens, Aborts, NothingUnasked
    <3> QED BY <1>3, <3>1, <3>2
  <2>4. stored' \subseteq Rows
    BY <1>0, <2>2, Ids DEF DbTypes
  <2>5. txs' \in [TxIds -> [st : {"none", "open", "broken", "committed", "aborted"}, rows : SUBSET Rows]]
    BY <2>1 DEF DbEffect, Writes, Breaks, Opens, Commits, Aborts, At
  <2> QED BY <2>2, <2>3, <2>4, <2>5 DEF DbTypes
<1> QED BY <1>1, <1>2, <1>3, DbSteps

-----------------------------------------------------------------------------
(* Calls, orders, answers, and what was read.                              *)

LEMMA UsedKept ==
    ASSUME TypeOK, CallInv, OrderInv, Next
    PROVE  /\ UNCHANGED <<dbType, proxied, param>> /\ Driver' = Driver /\ Refused' = Refused
           /\ Reading[<<Driver, param>>]' = Reading[<<Driver, param>>]
<1>1. UNCHANGED <<dbType, proxied, param>>
  BY Steps DEF Connects, OrderGo, DeliverGo, TaskBegins, Start, DirectGo, ProxiedGo, Record,
      DropTransaction, used
<1>2. Driver' = Driver
  BY <1>1 DEF Driver
<1> QED BY <1>1, <1>2 DEF Refused

LEMMA CallStays ==
    ASSUME NEW u \in Tasks, CallTypes, CallOK(u), UNCHANGED proxied, Refused' = Refused, asked \subseteq asked',
           call'[u] = call[u] \/ call'[u] = [call[u] EXCEPT !.alone = FALSE],
           handle'[u] = handle[u] \/ ~Active(u)
    PROVE  CallOK(u)'
<1> DEFINE c == call[u]
           d == call'[u]
<1>1. d.pc = c.pc /\ d.op = c.op /\ d.tx = c.tx /\ d.todo = c.todo
  BY DEF CallTypes, Call
<1> QED BY <1>1 DEF CallOK, Active, RollsBack

LEMMA CallEnds == ASSUME NEW u, call'[u] = Ended PROVE CallOK(u)'
BY EndedType DEF CallOK, Active, Statements

LEMMA CallsKept == ASSUME TypeOK, CallInv, OrderInv, StartedInv, Next PROVE CallInv'
<1>0. CallTypes /\ IpcTypes /\ HandleType
  BY TypeParts, OtherParts
<1>a. UNCHANGED proxied /\ Refused' = Refused /\ asked \subseteq asked'
  BY UsedKept, AskedKept
<1>1. ASSUME UNCHANGED <<call, handle>> PROVE CallInv'
  BY <1>0, <1>1, <1>a, CallStays DEF CallInv
<1>2. CASE DeliverGo
  <2>1. ASSUME NEW w \in Tasks, call[w].pc = "sent",
               Moved(w, [call[w] EXCEPT !.pc = "answered", !.ans = Head(answers)])
        PROVE  CallInv'
    <3>0. handle' = handle
      BY <1>2 DEF DeliverGo, Deliver
    <3>1. \A u \in Tasks \ {w} : CallOK(u)'
      BY <1>0, <1>a, <2>1, <3>0, CallStays DEF CallInv, Moved
    <3>2. /\ call'[w].pc = "answered" /\ call'[w].op = call[w].op
          /\ call'[w].tx = call[w].tx /\ call'[w].todo = call[w].todo
      BY <1>0, <2>1 DEF Moved, CallTypes, Call
    <3>3. CallOK(w)
      BY <2>1 DEF CallInv
    <3>4. CallOK(w)'
      BY <1>a, <2>1, <3>0, <3>2, <3>3 DEF CallOK, Active, RollsBack
    <3> QED BY <3>1, <3>4 DEF CallInv
  <2>2. CASE call' = call
    BY <1>1, <1>2, <2>2 DEF DeliverGo, Deliver
  <2> QED BY <1>0, <1>2, <2>1, <2>2, Delivering DEF DeliverGo
<1>3. ASSUME NEW t \in Tasks, TaskBegins(t) PROVE CallInv'
  <2>1. PICK o \in Ops, i \in Rows :
            /\ Start(t, o, i)
            /\ o \in {"begin", "ping", "close"} => i = NoTx
            /\ o \in {"commit", "rollback"} => i # NoTx
            /\ o = "begin" => handle[t] = NoTx
            /\ i # NoTx => handle[t] = i
    BY <1>3 DEF TaskBegins
  <2>2. Began(t, o, i)
    BY <1>0, <2>1, Starting
  <2>3. \A u \in Tasks \ {t} : CallOK(u)'
    BY <1>0, <1>a, <2>1, <2>2, CallStays DEF CallInv, Began, Start
  <2>4. /\ call'[t].pc = "called" /\ call'[t].op = o /\ call'[t].tx = i /\ call'[t].todo = {}
        /\ handle' = handle /\ (o = "commit" => i \in asked')
    BY <2>1, <2>2 DEF Began, Start
  <2>5. CallOK(t)'
    BY <2>1, <2>4 DEF CallOK, Active
  <2> QED BY <2>3, <2>5 DEF CallInv
<1>4. ASSUME NEW t \in Tasks, DirectGo(t) \/ ProxiedGo(t) PROVE CallInv'
  <2>0. CallOK(t)
    BY DEF CallInv
  <2>1. \A u \in Tasks \ {t} : handle'[u] = handle[u]
    <3>1. DirectGo(t) => \/ handle' = handle \/ \E i : handle' = [handle EXCEPT ![t] = i]
      BY DEF DirectGo, DirectMove, GivesUp, Acquires, RunsAcquired,
        RunsInTx, BeginsTx, FailsToBegin, EndsTx, BeginsToClose, HasClosed
    <3>2. ProxiedGo(t) => \/ handle' = handle \/ \E i : handle' = [handle EXCEPT ![t] = i]
      BY DEF ProxiedGo, ProxiedMove, PFails, PSends, PFailsToSend, PSucceeds, PBegins, PTakesActive,
        PSkips, GivesHandle
    <3> QED BY <1>0, <1>4, <3>1, <3>2 DEF HandleType
  <2>2. \A u \in Tasks \ {t} : call'[u] = call[u]
    BY <1>0, <1>4, DirectCall, ProxiedCall DEF Moved
  <2>3. \A u \in Tasks \ {t} : CallOK(u)'
    BY <1>0, <1>a, <2>1, <2>2, CallStays DEF CallInv
  <2>4. ASSUME Moved(t, Ended) PROVE CallOK(t)'
    BY <2>4, CallEnds DEF Moved
  <2>5. ASSUME DirectGo(t), Acquires(t), Moved(t, [call[t] EXCEPT !.pc = "acquired"]) PROVE CallOK(t)'
    <3>1. /\ call'[t].pc = "acquired" /\ call'[t].op = call[t].op
          /\ call'[t].tx = call[t].tx /\ call'[t].todo = call[t].todo
      BY <1>0, <2>5 DEF Moved, CallTypes, Call
    <3> QED BY <1>a, <2>0, <2>5, <3>1 DEF CallOK, Active, RollsBack, Acquires, DirectGo
  <2>6. ASSUME DirectGo(t), BeginsToClose(t), Moved(t, [call[t] EXCEPT !.pc = "closing"]) PROVE CallOK(t)'
    <3>1. /\ call'[t].pc = "closing" /\ call'[t].op = call[t].op
          /\ call'[t].tx = call[t].tx /\ call'[t].todo = call[t].todo
      BY <1>0, <2>6 DEF Moved, CallTypes, Call
    <3> QED BY <1>a, <2>0, <2>6, <3>1 DEF CallOK, Active, RollsBack, BeginsToClose, DirectGo, Statements
  <2>7. ASSUME ProxiedGo(t), PSends(t), Moved(t, [call[t] EXCEPT !.pc = "sent"]) PROVE CallOK(t)'
    <3>1. /\ call'[t].pc = "sent" /\ call'[t].op = call[t].op
          /\ call'[t].tx = call[t].tx /\ call'[t].todo = call[t].todo
      BY <1>0, <2>7 DEF Moved, CallTypes, Call
    <3>2. call[t].op = "begin" => handle' = handle
      BY <2>7 DEF PSends, GivesHandle
    <3>3. proxied /\ (call[t].op \in Statements => ~Refused) /\ call[t].pc \in {"called", "closing"}
      BY <2>7 DEF PSends, ProxiedGo
    <3> QED BY <1>a, <2>0, <3>1, <3>2, <3>3 DEF CallOK, Active, RollsBack
  <2>8. ASSUME ProxiedGo(t), PTakesActive(t) \/ PSkips(t), NEW s,
               Moved(t, [call[t] EXCEPT !.pc = "closing", !.todo = s]) PROVE CallOK(t)'
    <3>1. /\ call'[t].pc = "closing" /\ call'[t].op = call[t].op
          /\ call'[t].tx = call[t].tx
      BY <1>0, <2>8 DEF Moved, CallTypes, Call
    <3>2. call[t].op = "close" /\ Active(t)
      BY <2>8 DEF PTakesActive, PSkips, RollsBack, Active
    <3> QED BY <1>a, <2>0, <3>1, <3>2 DEF CallOK, Active, RollsBack, Statements
  <2>9. CallOK(t)'
    <3>1. CASE DirectGo(t)
      BY <1>0, <2>4, <2>5, <2>6, <3>1, DirectCall
    <3>2. CASE ProxiedGo(t)
      BY <1>0, <2>4, <2>7, <2>8, <3>2, ProxiedCall
    <3> QED BY <1>4, <3>1, <3>2
  <2> QED BY <2>3, <2>9 DEF CallInv
<1>5. ASSUME NEW t \in Tasks, DropTransaction(t) PROVE CallInv'
  <2>1. /\ ~Active(t) /\ call' = call
        /\ \A u \in Tasks \ {t} : handle'[u] = handle[u]
    BY <1>0, <1>5 DEF DropTransaction, DropsTransaction, HandleType
  <2> QED BY <1>0, <1>a, <2>1, CallStays DEF CallInv
<1> QED BY <1>1, <1>2, <1>3, <1>4, <1>5, Steps DEF Connects, OrderGo

LEMMA OrdersKept == ASSUME TypeOK, CallInv, OrderInv, Next PROVE OrderInv'
<1>0. CallTypes /\ IpcTypes /\ asked \subseteq asked'
  BY TypeParts, AskedKept
<1>1. ASSUME orders' = orders PROVE OrderInv'
  BY <1>0, <1>1 DEF OrderInv, OrderOK
<1>2. CASE OrderGo
  BY <1>0, <1>2, HeadTail DEF OrderGo, OrderInv, OrderOK, IpcTypes
<1>3. ASSUME NEW t \in Tasks, PSends(t) PROVE OrderInv'
  <2>1. OrderOK(OrderOf(t))
    <3>1. CASE RollsBack(t)
      BY <1>0, <3>1, RollbackIsLeft, Ids DEF OrderOf, OrderOK
    <3>2. CASE ~RollsBack(t)
      BY <1>3, <3>2 DEF OrderOf, OrderOK, CallInv, CallOK, PSends, Active
    <3> QED BY <3>1, <3>2
  <2>2. \A k \in DOMAIN orders' : (k \in DOMAIN orders /\ orders'[k] = orders[k]) \/ orders'[k] = OrderOf(t)
    BY <1>0, <1>3, OrderType, Appending DEF PSends, IpcTypes
  <2> QED BY <1>0, <2>1, <2>2 DEF OrderInv, OrderOK
<1>4. CASE Connects \/ DeliverGo \/ (\E t \in Tasks : TaskBegins(t) \/ DirectGo(t) \/ DropTransaction(t))
  <2>1. orders' = orders
    BY <1>4 DEF Connects, DeliverGo, Deliver, TaskBegins, Start, DirectGo, Local, DropTransaction, ipcVars
  <2> QED BY <1>1, <2>1
<1>5. ASSUME NEW t \in Tasks, ProxiedGo(t), ~PSends(t) PROVE OrderInv'
  <2>1. orders' = orders
    BY <1>5 DEF ProxiedGo, ProxiedMove, PFails, PFailsToSend, PSucceeds, PBegins, PTakesActive,
        PSkips, ipcVars
  <2> QED BY <1>1, <2>1
<1> QED BY <1>2, <1>3, <1>4, <1>5, Steps

LEMMA BackKept == ASSUME TypeOK, CallInv, OrderInv, Next PROVE BackInv'
<1>0. CallTypes /\ IpcTypes
  BY TypeParts
<1>1. back' = NoRow => BackInv'
  BY DEF BackInv
<1>2. CASE Connects \/ OrderGo \/ DeliverGo \/ (\E t \in Tasks : TaskBegins(t) \/ DropTransaction(t))
  BY <1>1, <1>2 DEF Connects, OrderGo, DeliverGo, TaskBegins, Start, DropTransaction
<1>3. ASSUME NEW t \in Tasks, NEW r, NEW g, Gives(t, g), back' = [by |-> t, res |-> r, got |-> g],
             g # NoRow => RunsAcquired(t) \/ RunsInTx(t) \/ PSucceeds(t)
      PROVE  BackInv'
  <2>1. CASE g = NoRow
    BY <1>3, <2>1 DEF BackInv
  <2>2. CASE g # NoRow
    <3>1. g = Reading[<<Driver, param>>] /\ Held /\ call[t].op \in Statements
      BY <1>3, <2>2 DEF Gives, Statements
    <3>2. ~Refused
      BY <1>3, <2>2, <3>1 DEF RunsAcquired, RunsInTx, PSucceeds, CallInv, CallOK
    <3> QED BY <1>3, <3>1, <3>2, UsedKept DEF BackInv, Held, Refused
  <2> QED BY <2>1, <2>2
<1>4. ASSUME NEW t \in Tasks, DirectGo(t) \/ ProxiedGo(t) PROVE BackInv'
  <2>1. CASE DirectGo(t)
    BY <1>0, <1>1, <1>3, <2>1, DirectCall
  <2>2. CASE ProxiedGo(t)
    BY <1>0, <1>1, <1>3, <2>2, ProxiedCall
  <2> QED BY <1>4, <2>1, <2>2
<1> QED BY <1>2, <1>4, Steps

\* What an answer must be after the step.
FitAfter(a) == (a.tx = NoTx \/ txs'[a.tx].st # "none") /\ (a.kind = "id" => a.tx # NoTx)

LEMMA StartedStays ==
    ASSUME TypeOK, CallInv, OrderInv, RowInv, NothingUnasked, Next
    PROVE  /\ \A i \in Rows : Started(i) => Started(i)'
           /\ \A a \in Answers : AnswerOK(a) => FitAfter(a)
<1>1. \A i \in TxIds : txs[i].st # "none" => txs'[i].st # "none"
  BY DbKept
<1>2. \A a \in Answers : a.tx = NoTx \/ a.tx \in TxIds
  BY DEF Answers
<1> QED BY <1>1, <1>2, Ids DEF AnswerOK, FitAfter, Started

\* The id that the answer to begin carries is that of the transaction it began.
LEMMA StartedKept ==
    ASSUME TypeOK, CallInv, OrderInv, RowInv, NothingUnasked, StartedInv, Next
    PROVE  StartedInv'
<1> DEFINE Waits == \A k \in DOMAIN answers' : FitAfter(answers'[k])
           Calling == \A u \in Tasks : FitAfter(call'[u].ans)
           Known == active' \subseteq begun' /\ \A i \in begun' : Started(i)'
<1>0. /\ CallTypes /\ IpcTypes /\ HistoryTypes
      /\ \A k \in DOMAIN answers : answers[k] \in Answers
      /\ \A u \in Tasks : call[u].ans \in Answers
  <2>1. CallTypes /\ IpcTypes /\ HistoryTypes
    BY TypeParts, OtherParts
  <2>2. \A k \in DOMAIN answers : answers[k] \in Answers
    BY <2>1, ElementOfSeq, LenProperties DEF IpcTypes
  <2>3. \A u \in Tasks : call[u].ans \in Answers
    BY <2>1 DEF CallTypes, Call
  <2> QED BY <2>1, <2>2, <2>3
<1>a. FitAfter(NoAnswer)
  BY EndedType DEF FitAfter
<1>b. /\ \A k \in DOMAIN answers : FitAfter(answers[k])
      /\ \A u \in Tasks : FitAfter(call[u].ans)
  BY <1>0, StartedStays DEF StartedInv
<1>c. Waits /\ Calling /\ Known => StartedInv'
  BY DEF StartedInv, FitAfter, AnswerOK, Started
<1>1. answers' = answers => Waits
  BY <1>b
<1>2. ASSUME \A u \in Tasks : call'[u].ans = call[u].ans \/ call'[u].ans = NoAnswer PROVE Calling
  BY <1>a, <1>b, <1>2
<1>3. ASSUME active' = active, begun' = begun PROVE Known
  BY <1>0, <1>3, StartedStays, Ids DEF StartedInv, HistoryTypes
<1> HIDE DEF Waits, Calling, Known
<1>4. CASE Connects
  BY <1>c, <1>1, <1>2, <1>3, <1>4 DEF Connects, ipcVars, history
<1>5. CASE OrderGo
  <2>1. Calling /\ Known
    BY <1>2, <1>3, <1>5 DEF OrderGo, history
  <2>2. ASSUME NEW a \in Answers, answers' = Append(answers, a), FitAfter(a) PROVE Waits
    <3>1. \A k \in DOMAIN answers' : (k \in DOMAIN answers /\ answers'[k] = answers[k]) \/ answers'[k] = a
      BY <1>0, <2>2, Appending DEF IpcTypes
    <3> QED BY <1>b, <2>2, <3>1 DEF Waits
  <2>3. ASSUME OFails PROVE Waits
    BY <1>a, <2>2, <2>3, EndedType DEF OFails
  <2>4. ASSUME OSucceeds PROVE Waits
    <3>1. PICK i \in Rows, x \in Rows \union {NoRow} :
            /\ DoesOrder(Head(orders), i)
            /\ answers' = Append(answers, [kind |-> ResultKind[Head(orders).op], tx |-> i, row |-> x])
      BY <2>4 DEF OSucceeds
    <3> DEFINE d == Head(orders)
               a == [kind |-> ResultKind[d.op], tx |-> i, row |-> x]
    <3>2. d \in Orders
      BY <1>0, <1>5, HeadTail DEF IpcTypes, OrderGo
    <3>3. ResultKind[d.op] \in {"count", "rows", "row", "id", "done"} /\ (ResultKind[d.op] = "id" => d.op = "begin")
      BY <3>2, KindOfResult DEF Orders
    <3>4. a \in Answers
      BY <3>3, Ids DEF Answers
    <3>5. i = NoTx \/ txs'[i].st # "none"
      <4>1. CASE d.op = "begin"
        BY <3>1, <4>1 DEF DoesOrder, Opens, At
      <4>2. CASE d.op # "begin" /\ i # NoTx
        <5>1. txs[i].st # "none" /\ i \in TxIds
          BY <3>1, <4>2, Ids DEF DoesOrder, Runs, IsOpen
        <5> QED BY <5>1, DbKept
      <4> QED BY <4>1, <4>2
    <3>6. a.kind = "id" => a.tx # NoTx
      BY <3>1, <3>3, Ids DEF DoesOrder
    <3>7. FitAfter(a)
      BY <3>5, <3>6 DEF FitAfter
    <3>8. answers' = Append(answers, a)
      BY <3>1
    <3> HIDE DEF a
    <3> QED BY <2>2, <3>4, <3>7, <3>8
  <2> QED BY <1>5, <1>c, <2>1, <2>3, <2>4 DEF OrderGo
<1>6. CASE DeliverGo
  <2>0. answers # <<>> /\ answers' = Tail(answers) /\ FitAfter(Head(answers))
    BY <1>0, <1>6, <1>b, HeadTail, Delivering DEF IpcTypes, DeliverGo
  <2>1. Waits
    <3>1. \A k \in DOMAIN answers' : k + 1 \in DOMAIN answers /\ answers'[k] = answers[k + 1]
      BY <1>0, <2>0, HeadTail DEF IpcTypes
    <3> QED BY <1>b, <3>1 DEF Waits
  <2>2. Known
    BY <1>3, <1>6 DEF DeliverGo, Deliver
  <2>3. Calling
    <3>1. \A u \in Tasks : call'[u].ans = call[u].ans \/ call'[u].ans = Head(answers)
      <4>1. ASSUME NEW w \in Tasks, Moved(w, [call[w] EXCEPT !.pc = "answered", !.ans = Head(answers)])
            PROVE  \A u \in Tasks : call'[u].ans = call[u].ans \/ call'[u].ans = Head(answers)
        <5>1. [call[w] EXCEPT !.pc = "answered", !.ans = Head(answers)].ans = Head(answers)
          BY <1>0 DEF CallTypes, Call
        <5> QED BY <4>1, <5>1 DEF Moved
      <4> QED BY <1>0, <1>6, <4>1, Delivering DEF DeliverGo
    <3> QED BY <1>b, <2>0, <3>1 DEF Calling
  <2> QED BY <1>c, <2>1, <2>2, <2>3
<1>7. ASSUME NEW t \in Tasks, TaskBegins(t) PROVE StartedInv'
  <2>1. PICK o \in Ops, i \in Rows : Start(t, o, i)
    BY <1>7 DEF TaskBegins
  <2>2. Began(t, o, i) /\ UNCHANGED <<answers, active, begun>>
    BY <1>0, <2>1, Starting DEF Start, ipcVars
  <2>3. \A u \in Tasks : call'[u].ans = call[u].ans \/ call'[u].ans = NoAnswer
    BY <1>0, <2>2 DEF Began, CallTypes, Call
  <2> QED BY <1>c, <1>1, <1>2, <1>3, <2>2, <2>3
<1>8. ASSUME NEW t \in Tasks, DirectGo(t) \/ ProxiedGo(t) PROVE StartedInv'
  <2>1. answers' = answers
    BY <1>8 DEF DirectGo, Local, ProxiedGo, ProxiedMove, PFails, PSends, PFailsToSend, PSucceeds, PBegins,
        PTakesActive, PSkips, ipcVars
  <2>2. \A u \in Tasks : call'[u].ans = call[u].ans \/ call'[u].ans = NoAnswer
    <3>1. \A l, s : [call[t] EXCEPT !.pc = l].ans = call[t].ans /\ [call[t] EXCEPT !.pc = l, !.todo = s].ans = call[t].ans
      BY <1>0 DEF CallTypes, Call
    <3>2. \E c : Moved(t, c) /\ c.ans \in {call[t].ans, NoAnswer}
      <4>1. DirectGo(t) => \E l : Moved(t, Ended) \/ Moved(t, [call[t] EXCEPT !.pc = l])
        BY <1>0, DirectCall
      <4>2. ProxiedGo(t) => \E l, s : \/ Moved(t, Ended) \/ Moved(t, [call[t] EXCEPT !.pc = l])
                                     \/ Moved(t, [call[t] EXCEPT !.pc = l, !.todo = s])
        BY <1>0, ProxiedCall
      <4> QED BY <1>8, <3>1, <4>1, <4>2, EndedType
    <3> QED BY <3>2 DEF Moved
  <2>3. begun' = begun \union active'
    BY <1>8 DEF DirectGo, ProxiedGo, Record
  <2>4. active' \subseteq begun \/ (PBegins(t) /\ active' = active \union {call[t].ans.tx})
    <3>1. active \subseteq begun
      BY DEF StartedInv
    <3>2. CASE DirectGo(t)
      BY <3>1, <3>2 DEF DirectGo, Local
    <3>3. CASE ProxiedGo(t)
      BY <3>1, <3>3 DEF ProxiedGo, ProxiedMove, PFails, PSends, PFailsToSend, PSucceeds, PBegins,
          PTakesActive, TakeActive, PSkips
    <3> QED BY <1>8, <3>2, <3>3
  <2>5. \A i \in active' : Started(i) /\ i \in Rows
    <3>1. \A i \in begun : Started(i) /\ i \in Rows
      BY <1>0, Ids DEF StartedInv, HistoryTypes
    <3>2. PBegins(t) => call[t].ans.tx \in Rows /\ Started(call[t].ans.tx)
      BY <1>0, AnsweredId, Ids
    <3> QED BY <2>4, <3>1, <3>2 DEF StartedInv
  <2>6. \A i \in begun : Started(i) /\ i \in Rows
    BY <1>0, Ids DEF StartedInv, HistoryTypes
  <2>7. Known
    BY <2>3, <2>5, <2>6, StartedStays DEF Known
  <2> QED BY <1>c, <1>1, <1>2, <2>1, <2>2, <2>7
<1>9. ASSUME NEW t \in Tasks, DropTransaction(t) PROVE StartedInv'
  BY <1>c, <1>1, <1>2, <1>3, <1>9 DEF DropTransaction, ipcVars, history
<1> QED BY <1>4, <1>5, <1>6, <1>7, <1>8, <1>9, Steps

-----------------------------------------------------------------------------
(* Without the orchestrator: transactions are open as long as they are     *)
(* held.                                                                   *)

LEMMA HandlesStay ==
    ASSUME HandleInv, UNCHANGED <<handle, proxied>>, \A i \in TxIds : IsOpen(i)' <=> IsOpen(i)
    PROVE  HandleInv'
BY DEF HandleInv

LEMMA HandleEnds ==
    ASSUME TypeOK, HandleInv, UNCHANGED proxied, ~proxied, NEW t \in Tasks, handle[t] # NoTx,
           handle' = [handle EXCEPT ![t] = NoTx], Commits(handle[t]) \/ Aborts(handle[t])
    PROVE  HandleInv'
<1>0. HandleType /\ DbTypes
  BY TypeParts, OtherParts
<1>a. PICK i : i = handle[t]
  OBVIOUS
<1>1. i \in TxIds /\ ~IsOpen(i)' /\ \A j \in TxIds \ {i} : IsOpen(j)' <=> IsOpen(j)
  BY <1>a DEF Commits, Aborts, At, IsOpen
<1>2. handle'[t] = NoTx /\ \A u \in Tasks \ {t} : handle'[u] = handle[u] /\ handle'[u] # i
  BY <1>0, <1>a DEF HandleType, HandleInv
<1>3. \A u, v \in Tasks : u # v /\ handle'[u] = handle'[v] => handle'[u] = NoTx
  BY <1>2 DEF HandleInv
<1>4. \A j \in TxIds : IsOpen(j)' <=> \E u \in Tasks : handle'[u] = j
  BY <1>1, <1>2, <1>a, Ids DEF HandleInv
<1> QED BY <1>3, <1>4 DEF HandleInv

LEMMA HandleBegins ==
    ASSUME TypeOK, HandleInv, UNCHANGED proxied, ~proxied, NEW t \in Tasks, handle[t] = NoTx,
           NEW i \in TxIds, handle' = [handle EXCEPT ![t] = i], Opens(i)
    PROVE  HandleInv'
<1>0. HandleType /\ DbTypes
  BY TypeParts, OtherParts
<1>1. ~IsOpen(i) /\ IsOpen(i)' /\ \A j \in TxIds \ {i} : IsOpen(j)' <=> IsOpen(j)
  BY DEF Opens, At, IsOpen, Fresh
<1>2. handle'[t] = i /\ \A u \in Tasks \ {t} : handle'[u] = handle[u] /\ handle'[u] # i
  BY <1>0, <1>1 DEF HandleType, HandleInv
<1>3. \A u, v \in Tasks : u # v /\ handle'[u] = handle'[v] => handle'[u] = NoTx
  BY <1>2 DEF HandleInv
<1>4. \A j \in TxIds : IsOpen(j)' <=> \E u \in Tasks : handle'[u] = j
  BY <1>1, <1>2, Ids DEF HandleInv
<1> QED BY <1>3, <1>4 DEF HandleInv

LEMMA HandlesKept ==
    ASSUME TypeOK, CallInv, OrderInv, HandleInv, Next
    PROVE  HandleInv'
<1>0. UNCHANGED proxied /\ HandleType /\ DbTypes
  BY TypeParts, OtherParts, UsedKept
<1>1. CASE proxied
  BY <1>0, <1>1 DEF HandleInv
<1>2. ASSUME ~proxied, handle' = handle, txs' = txs PROVE HandleInv'
  BY <1>0, <1>2, HandlesStay DEF IsOpen
<1>3. ASSUME NEW t \in Tasks, DirectGo(t) PROVE HandleInv'
  <2>0. CallOK(t) /\ ~proxied
    BY <1>3 DEF CallInv, DirectGo
  <2>1. CASE GivesUp(t) \/ Acquires(t) \/ FailsToBegin(t) \/ BeginsToClose(t) \/ HasClosed(t)
    BY <1>2, <2>0, <2>1 DEF GivesUp, Acquires, FailsToBegin, BeginsToClose, HasClosed, dbVars
  <2>2. CASE RunsAcquired(t)
    <3>1. handle' = handle /\ txs' = txs
      BY <2>2 DEF RunsAcquired, Ran, Stays, Stores
    <3> QED BY <1>2, <2>0, <3>1
  <2>3. CASE RunsInTx(t)
    <3>1. handle' = handle /\ (Stays \/ Stores \/ Writes(call[t].tx) \/ Breaks(call[t].tx))
      BY <2>3 DEF RunsInTx, Ran
    <3>2. \A i \in TxIds : IsOpen(i)' <=> IsOpen(i)
      BY <3>1 DEF Stays, Stores, Writes, Breaks, At, IsOpen
    <3> QED BY <1>0, <3>1, <3>2, HandlesStay
  <2>4. CASE BeginsTx(t)
    <3>1. handle[t] = NoTx
      BY <2>0, <2>4 DEF BeginsTx, CallOK, Active
    <3> QED BY <1>0, <2>0, <2>4, <3>1, HandleBegins DEF BeginsTx
  <2>5. CASE EndsTx(t)
    <3>1. handle[t] # NoTx /\ call[t].tx = handle[t]
      BY <2>0, <2>5 DEF EndsTx, CallOK, Active
    <3>2. handle' = [handle EXCEPT ![t] = NoTx] /\ (Commits(call[t].tx) \/ Aborts(call[t].tx))
      BY <2>5 DEF EndsTx
    <3> QED BY <1>0, <2>0, <3>1, <3>2, HandleEnds
  <2> QED BY <1>3, <2>1, <2>2, <2>3, <2>4, <2>5 DEF DirectGo, DirectMove
<1>4. ASSUME NEW t \in Tasks, DropTransaction(t), ~proxied PROVE HandleInv'
  <2>1. handle[t] # NoTx /\ handle' = [handle EXCEPT ![t] = NoTx] /\ Aborts(handle[t])
    <3>1. handle[t] \in TxIds /\ Finish(handle[t], "aborted") /\ stored' = stored
      BY <1>0, <1>4 DEF DropTransaction, DropsTransaction, HandleType
    <3> QED BY <1>0, <1>4, <3>1, Finishing DEF Aborts, DropTransaction, DropsTransaction
  <2> QED BY <1>0, <1>4, <2>1, HandleEnds
<1>5. ASSUME ~proxied, Connects \/ \E t \in Tasks : TaskBegins(t) PROVE HandleInv'
  BY <1>2, <1>5 DEF Connects, TaskBegins, Start, dbVars
<1> QED BY <1>1, <1>3, <1>4, <1>5, Steps DEF OrderGo, DeliverGo, ProxiedGo

-----------------------------------------------------------------------------
(* What Ok says of a transaction.                                          *)

LEMMA TypesKept ==
    ASSUME TypeOK, CallInv, OrderInv, PoolInv, RowInv, NothingUnasked, StartedInv, Next
    PROVE  TypeOK' /\ PoolInv'
<1>1. DbTypes' /\ CallTypes' /\ IpcTypes' /\ SetupTypes' /\ HandleType' /\ HistoryTypes' /\ Pool'
  BY DbKept, CallTypesKept, IpcTypesKept, SetupTypesKept, HandleTypeKept, HistoryTypesKept, PoolInvariant
<1>2. OtherTypes'
  BY <1>1 DEF OtherTypes, SetupTypes, HandleType, HistoryTypes
<1>3. TypeOK'
  BY <1>1, <1>2 DEF TypeOK, DatabaseTypeOK, DbTypes, CallTypes, IpcTypes, OtherTypes, Pool, PoolCount,
      Acquired, Holding
<1> QED BY <1>1, <1>3 DEF Pool

LEMMA TaintedKept == ASSUME TypeOK, CallInv, OrderInv, Next PROVE tainted \subseteq tainted'
BY Steps DEF Connects, OrderGo, DeliverGo, TaskBegins, Start, DirectGo, ProxiedGo, Record, DropTransaction, history

\* A transaction that has begun keeps its rows as long as it is open.
LEMMA OpenStays ==
    ASSUME TypeOK, CallInv, OrderInv, RowInv, NothingUnasked, Next, NEW i \in TxIds, txs[i].st # "none"
    PROVE  /\ txs'[i].st # "none"
           /\ txs'[i].st = "open" => txs[i].st = "open" /\ txs[i].rows \subseteq txs'[i].rows
           /\ IsOpen(i)' => IsOpen(i)
           /\ txs'[i].st = "broken" => txs[i].st = "broken" \/ Breaks(i)
<1>1. CASE Stays \/ Stores
  BY <1>1 DEF Stays, Stores, IsOpen
<1>2. ASSUME NEW j \in TxIds, Writes(j) \/ Breaks(j) \/ Opens(j) \/ Aborts(j) \/ Commits(j)
      PROVE  /\ txs'[i].st # "none"
             /\ txs'[i].st = "open" => txs[i].st = "open" /\ txs[i].rows \subseteq txs'[i].rows
             /\ IsOpen(i)' => IsOpen(i)
             /\ txs'[i].st = "broken" => txs[i].st = "broken" \/ Breaks(i)
  <2>1. CASE i = j
    BY <1>2, <2>1 DEF Writes, Breaks, Opens, Aborts, Commits, At, IsOpen, Fresh
  <2>2. CASE i # j
    BY <1>2, <2>2 DEF Writes, Breaks, Opens, Aborts, Commits, At, IsOpen
  <2> QED BY <2>1, <2>2
<1> QED BY <1>1, <1>2, DbSteps

\* The rows that a call that ends with Ok has written.
LEMMA Acknowledges ==
    ASSUME IInv, NEW t \in Tasks, DirectGo(t) \/ ProxiedGo(t), ~Active(t)', back'.res = "Ok",
           call[t].op = "execute", call[t].tx \in TxIds \ tainted
    PROVE  txs'[call[t].tx].st = "open" /\ call[t].tx \in txs'[call[t].tx].rows
<1>0. TypeOK /\ CallTypes /\ IpcTypes
  BY TypeParts DEF IInv
<1>a. call[t].tx # NoTx
  BY Ids
<1>1. CASE DirectGo(t)
  <2>1. PICK r \in {"Ok", "Err"} : Ran(t, call[t].tx, r)
    <3>1. RunsInTx(t)
      <4>1. CASE Acquires(t) \/ BeginsToClose(t)
        BY <1>0, <1>a, <4>1 DEF Acquires, BeginsToClose
      <4>2. CASE GivesUp(t)
        BY <4>2 DEF GivesUp, Return
      <4> QED BY <1>1, <1>a, <4>1, <4>2 DEF DirectGo, DirectMove, RunsAcquired, BeginsTx, FailsToBegin,
            EndsTx, HasClosed
    <3> QED BY <3>1 DEF RunsInTx
  <2>2. r = "Ok"
    BY <2>1 DEF Ran, Reports, Return
  <2> QED BY <1>a, <2>1, <2>2 DEF Ran, Writes, At
<1>2. CASE ProxiedGo(t)
  <2>1. PSucceeds(t)
    <3>1. CASE PFails(t) \/ PFailsToSend(t)
      BY <3>1 DEF PFails, PFailsToSend, Return
    <3>2. CASE PSends(t) \/ PTakesActive(t) \/ PSkips(t)
      BY <1>0, <1>2, <3>2, Going, Skipping, EndedType DEF PSends, PTakesActive, PSkips, RollsBack
    <3> QED BY <1>2, <3>1, <3>2 DEF ProxiedGo, ProxiedMove, PBegins
  <2>2. proxied /\ txs' = txs
    BY <1>2 DEF ProxiedGo, dbVars
  <2>3. call[t].alone
    BY <1>a, <2>1, <2>2 DEF IInv, TaintInv, PSucceeds, Active
  <2>4. TrueAnswer(t, call[t].ans)
    BY <2>1, <2>2, <2>3 DEF IInv, AloneInv, Alone, AloneCall, PSucceeds, Active
  <2> QED BY <1>a, <2>1, <2>2, <2>4 DEF TrueAnswer, PSucceeds
<1> QED BY <1>1, <1>2

LEMMA AcksKept == ASSUME IInv, Next PROVE AckInv'
<1>0. TypeOK /\ CallInv /\ OrderInv /\ RowInv /\ NothingUnasked /\ tainted \subseteq tainted'
  BY TaintedKept DEF IInv
<1>1. ASSUME NEW i \in TxIds, i \in acked \ tainted
      PROVE  txs'[i].st # "none" /\ (txs'[i].st = "open" => i \in txs'[i].rows)
  <2>1. txs[i].st # "none" /\ (txs[i].st = "open" => i \in txs[i].rows)
    BY <1>1 DEF IInv, AckInv
  <2> QED BY <1>0, <2>1, OpenStays
<1>2. ASSUME NEW i \in TxIds, i \in acked' \ tainted', i \notin acked
      PROVE  txs'[i].st = "open" /\ i \in txs'[i].rows
  <2>1. PICK t \in Tasks : DirectGo(t) \/ ProxiedGo(t)
    BY <1>0, <1>2, Steps DEF Connects, OrderGo, DeliverGo, TaskBegins, Start, DropTransaction, history
  <2>2. Record(t)
    BY <2>1 DEF DirectGo, ProxiedGo
  <2>3. ~Active(t)' /\ call[t].op = "execute" /\ back'.res = "Ok" /\ i = call[t].tx
    BY <1>2, <2>2 DEF Record
  <2> QED BY <1>0, <1>2, <2>1, <2>3, Acknowledges
<1> QED BY <1>0, <1>1, <1>2 DEF AckInv

-----------------------------------------------------------------------------
(* Through the orchestrator: a call that is alone gets its own answer.     *)

LEMMA AloneFacts ==
    ASSUME IInv, proxied, NEW t \in Tasks, Alone(t)
    PROVE  /\ AloneCall(t) /\ call[t].pc \in {"called", "closing", "sent", "answered"}
           /\ \A u \in Tasks : Active(u) => u = t
<1>1. AloneCall(t) /\ Active(t) /\ CallOK(t) /\ CallTypes
  BY TypeParts DEF IInv, AloneInv, Alone, CallInv
<1>2. call[t].pc # "acquired" /\ call[t].pc # "idle"
  BY <1>1 DEF CallOK, Active
<1> QED BY <1>1, <1>2 DEF AloneCall, CallTypes, Call

LEMMA MovesAreActive == ASSUME NEW t, ProxiedGo(t) PROVE proxied /\ Active(t)
BY DEF ProxiedGo, ProxiedMove, PFails, PSends, PFailsToSend, PSucceeds, PBegins, PTakesActive, PSkips, Active

\* While a call that is alone has an order under way there is no other, and
\* the orchestrator answers it truly.
LEMMA AnswersTruly ==
    ASSUME IInv, OrderGo, NEW t \in Tasks, Alone(t)
    PROVE  /\ call[t].pc = "sent" /\ orders = <<OrderOf(t)>> /\ orders' = <<>>
           /\ \E a \in Answers : answers' = <<a>> /\ TrueAnswer(t, a)' /\ (OFails => a.kind = "error")
<1>0. TypeOK /\ CallTypes /\ IpcTypes /\ proxied /\ CallOK(t) /\ DbTypes
  BY TypeParts DEF OrderGo, IInv, CallInv
<1>1. AloneCall(t) /\ call[t].pc \in {"called", "closing", "sent", "answered"} /\ \A u \in Tasks : Active(u) => u = t
  BY <1>0, AloneFacts
<1>2. call[t].pc = "sent" /\ orders = <<OrderOf(t)>> /\ answers = <<>>
  BY <1>1 DEF AloneCall, Silent, Answered, Ordered, OrderGo
<1>3. orders' = <<>> /\ Head(orders) = OrderOf(t)
  BY <1>2 DEF OrderGo
<1>4. UNCHANGED <<call, acked, tainted>>
  BY DEF OrderGo, history
<1>5. CASE OFails
  <2>1. answers' = <<NoAnswer>> /\ NoAnswer.kind = "error" /\ NoAnswer \in Answers
    BY <1>2, <1>5, EndedType DEF OFails
  <2>2. TrueAnswer(t, NoAnswer)'
    BY <2>1 DEF TrueAnswer
  <2> QED BY <1>2, <1>3, <2>1, <2>2
<1>6. CASE ~OFails
  <2> DEFINE d == OrderOf(t)
  <2>1. PICK i \in Rows, x \in Rows \union {NoRow} :
            DoesOrder(d, i) /\ answers' = Append(answers, [kind |-> ResultKind[d.op], tx |-> i, row |-> x])
    BY <1>3, <1>6 DEF OrderGo, OSucceeds
  <2>2. d \in Orders
    BY <1>0, OrderType
  <2>3. PICK a \in Answers : answers' = <<a>>
    <3>1. ResultKind[d.op] \in {"count", "rows", "row", "id", "done"}
      BY <2>2, KindOfResult DEF Orders
    <3>2. [kind |-> ResultKind[d.op], tx |-> i, row |-> x] \in Answers
      BY <3>1, Ids DEF Answers
    <3> QED BY <1>2, <2>1, <3>2
  <2>4. TrueAnswer(t, a)'
    <3>1. CASE RollsBack(t)
      <4>1. Rollback(t) \in TxIds /\ d.op = "rollback" /\ d.tx = Rollback(t) /\ call[t].op = "close"
        BY <1>0, <3>1, RollbackIsLeft DEF OrderOf, RollsBack
      <4>2. i = Rollback(t) /\ Aborts(i)
        BY <2>1, <4>1 DEF DoesOrder
      <4>3. Rollback(t)' = Rollback(t) /\ call'[t].op = "close"
        BY <1>4, <4>1 DEF Rollback
      <4>4. ~IsOpen(Rollback(t))'
        BY <4>2, <4>3 DEF Aborts, At, IsOpen
      <4> QED BY <4>3, <4>4 DEF TrueAnswer
    <3>2. CASE ~RollsBack(t)
      <4>1. d.op = call[t].op /\ d.tx = call[t].tx
        BY <3>2 DEF OrderOf
      <4>2. ~RollsBack(t)' /\ call'[t].op = d.op /\ call'[t].tx = d.tx
        BY <1>4, <3>2, <4>1 DEF RollsBack
      <4>3. d.op # "begin" => i = d.tx
        BY <2>1 DEF DoesOrder
      <4>4. d.op = "execute" /\ d.tx = NoTx => NoTx \in stored'
        BY <2>1, <4>3 DEF DoesOrder, Stores
      <4>5. d.op = "execute" /\ d.tx # NoTx => d.tx \in txs'[d.tx].rows /\ txs'[d.tx].st = "open"
        BY <2>1, <4>3 DEF DoesOrder, Writes, At
      <4>6. ASSUME d.op = "commit", d.tx \in acked \ tainted PROVE d.tx \in stored'
        <5>1. i = d.tx /\ i \in TxIds /\ Runs(d.op, i) /\ (Commits(i) \/ (txs[i].st # "open" /\ Aborts(i)))
          BY <2>1, <4>3, <4>6 DEF DoesOrder, Commits, Aborts, At
        <5>2. txs[i].st # "broken"
          <6>1. ASSUME txs[i].st = "broken" PROVE FALSE
            <7>1. PICK u \in Tasks : Failing(u)
              BY <4>6, <5>1, <6>1 DEF IInv, BrokenInv
            <7>2. u = t
              BY <1>1, <7>1 DEF Failing, Alone
            <7> QED BY <4>1, <4>6, <7>1, <7>2 DEF Failing, Statements
          <6> QED BY <6>1
        <5>3. i # NoTx
          BY <5>1, Ids
        <5>4. txs[i].st = "open"
          BY <4>6, <5>1, <5>2, <5>3 DEF Runs, IsOpen, Statements
        <5>5. i \in txs[i].rows
          BY <4>6, <5>1, <5>4 DEF IInv, AckInv
        <5> QED BY <5>1, <5>4, <5>5 DEF Commits
      <4> HIDE DEF d
      <4> QED BY <1>4, <4>2, <4>4, <4>5, <4>6 DEF TrueAnswer
    <3> QED BY <3>1, <3>2
  <2> QED BY <1>2, <1>3, <1>6, <2>3, <2>4
<1> QED BY <1>5, <1>6

\* The call that is alone after a delivery: it has got the answer, or the
\* answer is lost.
LEMMA DeliversTruly ==
    ASSUME IInv, DeliverGo, NEW t \in Tasks, Alone(t)
    PROVE  /\ call[t].pc = "sent" /\ orders = <<>> /\ Len(answers) = 1 /\ TrueAnswer(t, answers[1])
           /\ orders' = <<>> /\ answers' = <<>> /\ UNCHANGED <<active, dbVars, acked, tainted>>
           /\ \/ Moved(t, [call[t] EXCEPT !.pc = "answered", !.ans = answers[1]])
              \/ call' = call /\ waiting' = t
<1>0. CallTypes /\ IpcTypes /\ proxied
  BY TypeParts DEF DeliverGo, IInv
<1>1. AloneCall(t) /\ call[t].pc \in {"called", "closing", "sent", "answered"} /\ \A u \in Tasks : Active(u) => u = t
  BY <1>0, AloneFacts
<1>2. answers # <<>> /\ answers' = Tail(answers) /\ UNCHANGED <<active, orders, dbVars, acked, tainted>>
  BY DEF DeliverGo, Deliver
<1>3. call[t].pc = "sent" /\ waiting = t /\ orders = <<>> /\ Len(answers) = 1 /\ TrueAnswer(t, answers[1])
  BY <1>1, <1>2 DEF AloneCall, Silent, Answered, Ordered
<1>4. answers' = <<>> /\ Head(answers) = answers[1]
  <2>1. Tail(answers) \in Seq(Answers) /\ Len(Tail(answers)) = 0 /\ Head(answers) = answers[1]
    BY <1>0, <1>2, <1>3, HeadTail DEF IpcTypes
  <2> QED BY <1>2, <2>1, EmptySeq
<1>5. \/ Moved(t, [call[t] EXCEPT !.pc = "answered", !.ans = answers[1]])
      \/ call' = call /\ waiting' = t
  BY <1>0, <1>3, <1>4, TasksAssumption, Delivering DEF DeliverGo
<1> QED BY <1>2, <1>3, <1>4, <1>5

LEMMA AloneBegins ==
    ASSUME IInv, NEW t \in Tasks, TaskBegins(t), NEW u \in Tasks, Alone(u)'
    PROVE  u = t /\ AloneCall(u)'
<1>0. CallTypes
  BY TypeParts DEF IInv
<1>1. PICK o \in Ops, i \in Rows : Start(t, o, i)
  BY DEF TaskBegins
<1>2. Began(t, o, i) /\ UNCHANGED <<orders, answers>>
  BY <1>0, <1>1, Starting DEF Start, ipcVars
<1>3. \A v \in Tasks \ {t} : ~call'[v].alone /\ call'[v].pc = call[v].pc
  BY <1>0, <1>2 DEF Began, CallTypes, Call
<1>4. u = t
  BY <1>3 DEF Alone
<1>5. orders' = <<>> /\ answers' = <<>> /\ call'[t].pc = "called" /\ \A v \in Tasks \ {t} : ~Active(v)
  <2>1. call'[t].pc = "called"
        /\ call'[t].alone = (orders = <<>> /\ answers = <<>> /\ \A v \in Tasks \ {t} : ~Active(v))
    BY <1>2 DEF Began
  <2>2. call'[t].alone
    BY <1>4 DEF Alone
  <2>3. orders = <<>> /\ answers = <<>> /\ \A v \in Tasks \ {t} : ~Active(v)
    BY <2>1, <2>2
  <2> QED BY <1>2, <2>1, <2>3
<1>6. \A v \in Tasks \ {t} : ~Active(v)'
  BY <1>3, <1>5 DEF Active
<1> QED BY <1>4, <1>5, <1>6 DEF AloneCall, Silent

\* A call that is alone and goes on.
LEMMA AloneMoves ==
    ASSUME IInv, NEW t \in Tasks, ProxiedGo(t), NEW u \in Tasks, Alone(u)'
    PROVE  u = t /\ Alone(t) /\ AloneCall(u)'
<1>0. CallTypes /\ IpcTypes /\ proxied /\ Active(t)
  BY TypeParts, MovesAreActive DEF IInv
<1>1. \A v \in Tasks \ {t} : call'[v] = call[v]
  BY <1>0, ProxiedCall DEF Moved
<1>2. u = t
  <2>1. u # t => Alone(u)
    BY <1>1 DEF Alone, Active
  <2> QED BY <1>0, <2>1, AloneFacts
<1>3. ASSUME NEW c, Moved(t, c), c.alone = call[t].alone PROVE Alone(t)
  BY <1>0, <1>2, <1>3 DEF Alone, Moved
<1>4. CASE PSends(t) /\ Moved(t, [call[t] EXCEPT !.pc = "sent"])
  <2>1. /\ call'[t].pc = "sent" /\ call'[t].op = call[t].op /\ call'[t].tx = call[t].tx
        /\ call'[t].todo = call[t].todo /\ call'[t].alone = call[t].alone
    BY <1>0, <1>4 DEF Moved, CallTypes, Call
  <2>2. Alone(t)
    BY <1>0, <1>2, <2>1 DEF Alone
  <2>3. AloneCall(t) /\ \A v \in Tasks : Active(v) => v = t
    BY <1>0, <2>2, AloneFacts
  <2>4. orders = <<>> /\ answers' = <<>> /\ waiting' = t /\ active' = active
        /\ orders' = Append(orders, OrderOf(t)) /\ (call[t].op = "close" => active = {})
    BY <1>4, <2>3 DEF AloneCall, Silent, PSends
  <2>5. OrderOf(t)' = OrderOf(t)
    BY <2>1 DEF OrderOf, RollsBack, Rollback
  <2>6. Ordered(t)'
    BY <2>4, <2>5 DEF Ordered
  <2>7. \A v \in Tasks \ {t} : ~Active(v)'
    BY <1>1, <2>3 DEF Active
  <2> QED BY <1>2, <2>1, <2>2, <2>4, <2>6, <2>7 DEF AloneCall
<1>5. CASE PTakesActive(t) /\ Moved(t, [call[t] EXCEPT !.pc = "closing", !.todo = active])
  <2>1. call'[t].pc = "closing" /\ call'[t].alone = call[t].alone
    BY <1>0, <1>5 DEF Moved, CallTypes, Call
  <2>2. Alone(t)
    BY <1>0, <1>2, <2>1 DEF Alone
  <2>3. AloneCall(t) /\ \A v \in Tasks : Active(v) => v = t
    BY <1>0, <2>2, AloneFacts
  <2>4. orders' = <<>> /\ answers' = <<>> /\ active' = {}
    BY <1>5, <2>3 DEF AloneCall, Silent, PTakesActive, TakeActive, ipcVars
  <2>5. \A v \in Tasks \ {t} : ~Active(v)'
    BY <1>1, <2>3 DEF Active
  <2> QED BY <1>2, <2>1, <2>2, <2>4, <2>5 DEF AloneCall, Silent
<1>6. CASE PSkips(t) /\ Moved(t, [call[t] EXCEPT !.pc = "closing", !.todo = call[t].todo \ {Rollback(t)}])
  <2>1. call'[t].pc = "closing" /\ call'[t].alone = call[t].alone
    BY <1>0, <1>6 DEF Moved, CallTypes, Call
  <2>2. Alone(t)
    BY <1>0, <1>2, <2>1 DEF Alone
  <2>3. AloneCall(t) /\ \A v \in Tasks : Active(v) => v = t
    BY <1>0, <2>2, AloneFacts
  <2>4. orders' = <<>> /\ answers' = <<>> /\ active' = {}
    BY <1>6, <2>3 DEF AloneCall, Silent, PSkips, RollsBack
  <2>5. \A v \in Tasks \ {t} : ~Active(v)'
    BY <1>1, <2>3 DEF Active
  <2> QED BY <1>2, <2>1, <2>2, <2>4, <2>5 DEF AloneCall, Silent
<1>7. ASSUME ~Active(t)' PROVE FALSE
  BY <1>2, <1>7 DEF Alone
<1> QED BY <1>0, <1>4, <1>5, <1>6, <1>7, ProxiedCall

LEMMA AloneKept == ASSUME IInv, Next PROVE AloneInv'
<1>0. TypeOK /\ CallInv /\ OrderInv /\ CallTypes /\ UNCHANGED proxied
  BY TypeParts, UsedKept DEF IInv
<1> SUFFICES ASSUME proxied, NEW t \in Tasks, Alone(t)' PROVE AloneCall(t)'
  BY <1>0 DEF AloneInv
<1>1. CASE Connects \/ \E u \in Tasks : DropTransaction(u)
  <2>1. UNCHANGED <<call, active, waiting, orders, answers, txs, stored, acked, tainted>>
    BY <1>1 DEF Connects, DropTransaction, ipcVars, dbVars, history
  <2>2. AloneCall(t)
    BY <2>1, AloneFacts DEF Alone, Active
  <2> QED BY <2>1, <2>2 DEF AloneCall, Silent, Ordered, Answered, TrueAnswer, OrderOf, RollsBack, Rollback,
        Active, IsOpen
<1>2. CASE OrderGo
  <2>1. UNCHANGED <<call, active, waiting>>
    BY <1>2 DEF OrderGo
  <2>2. Alone(t)
    BY <2>1 DEF Alone, Active
  <2>3. AloneCall(t)
    BY <2>2, AloneFacts
  <2>4. PICK a \in Answers : answers' = <<a>> /\ TrueAnswer(t, a)'
    BY <1>2, <2>2, AnswersTruly
  <2>5. call[t].pc = "sent" /\ orders' = <<>> /\ waiting = t
    BY <1>2, <2>2, <2>3, AnswersTruly DEF AloneCall
  <2>6. Answered(t)'
    <3>1. Len(answers') = 1 /\ answers'[1] = a
      BY <2>4
    <3> QED BY <2>4, <2>5, <3>1 DEF Answered, TrueAnswer
  <2> QED BY <2>1, <2>3, <2>5, <2>6 DEF AloneCall, Active
<1>3. CASE DeliverGo
  <2>1. Alone(t)
    <3>1. ASSUME NEW w \in Tasks, call[w].pc = "sent",
                 Moved(w, [call[w] EXCEPT !.pc = "answered", !.ans = Head(answers)])
          PROVE  Alone(t)
      <4>1. call'[w].alone = call[w].alone /\ Active(w)
        BY <1>0, <3>1 DEF Moved, CallTypes, Call, Active
      <4> QED BY <3>1, <4>1 DEF Moved, Alone, Active
    <3>2. call' = call => Alone(t)
      BY DEF Alone, Active
    <3> QED BY <1>0, <1>3, <3>1, <3>2, Delivering, TypeParts DEF DeliverGo
  <2>2. AloneCall(t) /\ \A v \in Tasks : Active(v) => v = t
    BY <2>1, AloneFacts
  <2>3. /\ call[t].pc = "sent" /\ orders = <<>> /\ Len(answers) = 1 /\ TrueAnswer(t, answers[1])
        /\ orders' = <<>> /\ answers' = <<>> /\ UNCHANGED <<active, dbVars, acked, tainted>>
        /\ \/ Moved(t, [call[t] EXCEPT !.pc = "answered", !.ans = answers[1]])
           \/ call' = call /\ waiting' = t
    BY <1>3, <2>1, DeliversTruly
  <2>4. CASE Moved(t, [call[t] EXCEPT !.pc = "answered", !.ans = answers[1]])
    <3>1. /\ call'[t].pc = "answered" /\ call'[t].op = call[t].op /\ call'[t].tx = call[t].tx
          /\ call'[t].todo = call[t].todo /\ call'[t].ans = answers[1]
      BY <1>0, <2>4 DEF Moved, CallTypes, Call
    <3>2. TrueAnswer(t, call[t].ans)'
      BY <2>3, <3>1 DEF TrueAnswer, RollsBack, Rollback, IsOpen, dbVars
    <3>3. \A v \in Tasks \ {t} : ~Active(v)'
      BY <2>2, <2>4 DEF Moved, Active
    <3>4. call[t].op = "close" => active' = {}
      BY <2>2, <2>3 DEF AloneCall
    <3> QED BY <2>3, <3>1, <3>2, <3>3, <3>4 DEF AloneCall, Silent
  <2>5. CASE call' = call /\ waiting' = t
    <3>1. call[t].op = "close" => active' = {}
      BY <2>2, <2>3 DEF AloneCall
    <3> QED BY <2>2, <2>3, <2>5, <3>1 DEF AloneCall, Silent, Active
  <2> QED BY <2>3, <2>4, <2>5
<1>4. ASSUME NEW u \in Tasks, TaskBegins(u) PROVE AloneCall(t)'
  BY <1>4, AloneBegins
<1>5. ASSUME NEW u \in Tasks, ProxiedGo(u) PROVE AloneCall(t)'
  BY <1>5, AloneMoves
<1> QED BY <1>0, <1>1, <1>2, <1>3, <1>4, <1>5, Steps DEF DirectGo

-----------------------------------------------------------------------------
(* Calls that overlap have tainted their transactions.                     *)

\* Whoever is not alone when it begins, and whoever it disturbs.
LEMMA BeginTaints ==
    ASSUME IInv, proxied, NEW t \in Tasks, TaskBegins(t), NEW u \in Tasks, Active(u)', ~call'[u].alone,
           call'[u].tx # NoTx
    PROVE  call'[u].tx \in tainted'
<1>0. CallTypes
  BY TypeParts DEF IInv
<1>1. PICK o \in Ops, i \in Rows : Start(t, o, i)
  BY DEF TaskBegins
<1>2. Began(t, o, i)
  BY <1>0, <1>1, Starting
<1> DEFINE quiet == orders = <<>> /\ answers = <<>> /\ \A v \in Tasks \ {t} : ~Active(v)
<1>3. CASE ~quiet
  <2>1. tainted' = tainted \union (({i} \union {call[v].tx : v \in Tasks}) \ {NoTx})
    BY <1>1, <1>3 DEF Start
  <2>2. call'[u].tx = i \/ call'[u].tx = call[u].tx
    BY <1>0, <1>2 DEF Began, CallTypes, Call
  <2> QED BY <2>1, <2>2
<1>4. CASE quiet
  <2>1. call'[t].alone = quiet
    BY <1>2 DEF Began
  <2>2. u # t
    BY <1>4, <2>1
  <2>3. call'[u].pc = call[u].pc
    BY <1>0, <1>2, <2>2 DEF Began, CallTypes, Call
  <2> QED BY <1>4, <2>2, <2>3 DEF Active
<1> QED BY <1>3, <1>4

\* A call that begins while another is alone taints what that one works on.
LEMMA BeginDisturbs ==
    ASSUME IInv, proxied, NEW t \in Tasks, TaskBegins(t), NEW u \in Tasks, Alone(u), call[u].tx # NoTx
    PROVE  call[u].tx \in tainted'
<1>0. CallTypes
  BY TypeParts DEF IInv
<1>1. PICK o \in Ops, i \in Rows : Start(t, o, i)
  BY DEF TaskBegins
<1>2. Began(t, o, i) /\ ~Active(t)
  BY <1>0, <1>1, Starting
<1>3. u # t /\ Active(u)
  BY <1>2 DEF Alone
<1>4. tainted' = tainted \union (({i} \union {call[v].tx : v \in Tasks}) \ {NoTx})
  BY <1>1, <1>3 DEF Start
<1> QED BY <1>4

LEMMA CallsTaint ==
    ASSUME IInv, Next, proxied, NEW t \in Tasks, Active(t)', ~call'[t].alone, call'[t].tx # NoTx
    PROVE  call'[t].tx \in tainted'
<1>0. TypeOK /\ CallInv /\ OrderInv /\ CallTypes /\ IpcTypes /\ tainted \subseteq tainted'
  BY TypeParts, TaintedKept DEF IInv
<1>1. ASSUME Active(t), call'[t].alone = call[t].alone, call'[t].tx = call[t].tx
      PROVE  call'[t].tx \in tainted'
  BY <1>0, <1>1 DEF IInv, TaintInv
<1>2. CASE Connects \/ OrderGo \/ \E u \in Tasks : DropTransaction(u)
  <2>1. call' = call
    BY <1>2 DEF Connects, OrderGo, DropTransaction
  <2> QED BY <1>1, <2>1 DEF Active
<1>3. CASE DeliverGo
  <2>1. ASSUME NEW w \in Tasks, call[w].pc = "sent",
               Moved(w, [call[w] EXCEPT !.pc = "answered", !.ans = Head(answers)])
        PROVE  call'[t].tx \in tainted'
    <3>1. call'[w].alone = call[w].alone /\ call'[w].tx = call[w].tx /\ Active(w)
      BY <1>0, <2>1 DEF Moved, CallTypes, Call, Active
    <3> QED BY <1>1, <2>1, <3>1 DEF Moved, Active
  <2>2. CASE call' = call
    BY <1>1, <2>2 DEF Active
  <2> QED BY <1>0, <1>3, <2>1, <2>2, Delivering DEF DeliverGo
<1>4. ASSUME NEW u \in Tasks, TaskBegins(u) PROVE call'[t].tx \in tainted'
  BY <1>4, BeginTaints
<1>5. ASSUME NEW u \in Tasks, ProxiedGo(u) PROVE call'[t].tx \in tainted'
  <2>1. Active(u)
    BY <1>5, MovesAreActive
  <2>2. CASE t # u
    <3>1. call'[t] = call[t]
      BY <1>0, <1>5, <2>2, ProxiedCall DEF Moved
    <3> QED BY <1>1, <3>1 DEF Active
  <2>3. CASE t = u
    <3>1. \/ Moved(u, [call[u] EXCEPT !.pc = "sent"])
          \/ \E s : Moved(u, [call[u] EXCEPT !.pc = "closing", !.todo = s])
      BY <1>0, <1>5, <2>3, ProxiedCall
    <3>2. call'[t].alone = call[t].alone /\ call'[t].tx = call[t].tx
      BY <1>0, <2>3, <3>1 DEF Moved, CallTypes, Call
    <3> QED BY <1>1, <2>1, <2>3, <3>2
  <2> QED BY <2>2, <2>3
<1> QED BY <1>0, <1>2, <1>3, <1>4, <1>5, Steps DEF DirectGo

\* An order for a transaction that is not tainted has a call that is alone.
Owned(d) == d.op \in Statements /\ d.tx \notin tainted \union {NoTx}

LEMMA OwnedOrder ==
    ASSUME IInv, proxied, NEW k \in DOMAIN orders, Owned(orders[k])
    PROVE  \E t \in Tasks : /\ Alone(t) /\ AloneCall(t) /\ call[t].pc = "sent" /\ waiting = t
                            /\ orders = <<OrderOf(t)>> /\ answers = <<>> /\ ~RollsBack(t)
                            /\ call[t].op \in Statements /\ call[t].tx = orders[k].tx
<1>1. PICK t \in Tasks : Alone(t) /\ call[t].pc = "sent" /\ Ordered(t) /\ call[t].op \in Statements
  BY DEF IInv, TaintInv, Owned
<1>2. AloneCall(t) /\ waiting = t /\ orders = <<OrderOf(t)>> /\ answers = <<>>
  BY <1>1, AloneFacts DEF AloneCall, Ordered
<1>3. ~RollsBack(t)
  BY <1>1 DEF RollsBack, Statements
<1>4. orders[k] = OrderOf(t)
  BY <1>2
<1>5. call[t].tx = orders[k].tx
  BY <1>3, <1>4 DEF OrderOf
<1> QED BY <1>1, <1>2, <1>3, <1>5

LEMMA TaintKept == ASSUME IInv, Next PROVE TaintInv'
<1>0. TypeOK /\ CallInv /\ OrderInv /\ CallTypes /\ IpcTypes /\ tainted \subseteq tainted' /\ UNCHANGED proxied
  BY TypeParts, TaintedKept, UsedKept DEF IInv
<1> DEFINE Ordering == \A k \in DOMAIN orders' :
                orders'[k].op \in Statements /\ orders'[k].tx \notin tainted' \union {NoTx} =>
                    \E t \in Tasks : Alone(t)' /\ call'[t].pc = "sent" /\ Ordered(t)' /\ call'[t].op \in Statements
<1>1. proxied /\ Next => \A t \in Tasks : Active(t)' /\ ~call'[t].alone /\ call'[t].tx # NoTx => call'[t].tx \in tainted'
  BY CallsTaint
<1> SUFFICES ASSUME proxied PROVE Ordering
  BY <1>0, <1>1 DEF TaintInv
<1>2. CASE Connects \/ \E u \in Tasks : DropTransaction(u)
  <2>1. UNCHANGED <<call, orders, answers>>
    BY <1>2 DEF Connects, DropTransaction, ipcVars
  <2> QED BY <1>0, <2>1 DEF IInv, TaintInv, Alone, Active, Ordered, OrderOf, RollsBack, Rollback
<1>3. CASE OrderGo
  <2>1. ASSUME NEW k \in DOMAIN orders', orders'[k].op \in Statements,
               orders'[k].tx \notin tainted' \union {NoTx}
        PROVE  FALSE
    <3>1. k + 1 \in DOMAIN orders /\ orders'[k] = orders[k + 1] /\ orders' = Tail(orders) /\ orders # <<>>
      BY <1>0, <1>3, <2>1, HeadTail DEF OrderGo, IpcTypes
    <3>2. Owned(orders[k + 1])
      BY <1>0, <2>1, <3>1 DEF Owned
    <3>3. \E d : orders = <<d>>
      BY <3>1, <3>2, OwnedOrder
    <3> QED BY <2>1, <3>1, <3>3
  <2> QED BY <2>1
<1>4. CASE DeliverGo
  <2>1. ASSUME NEW k \in DOMAIN orders', orders'[k].op \in Statements,
               orders'[k].tx \notin tainted' \union {NoTx}
        PROVE  FALSE
    <3>1. orders' = orders /\ answers # <<>>
      BY <1>4 DEF DeliverGo, Deliver
    <3>2. Owned(orders[k])
      BY <1>0, <2>1, <3>1 DEF Owned
    <3> QED BY <2>1, <3>1, <3>2, OwnedOrder
  <2> QED BY <2>1
<1>5. ASSUME NEW u \in Tasks, TaskBegins(u) PROVE Ordering
  <2>1. ASSUME NEW k \in DOMAIN orders', orders'[k].op \in Statements,
               orders'[k].tx \notin tainted' \union {NoTx}
        PROVE  FALSE
    <3>1. orders' = orders
      BY <1>5 DEF TaskBegins, Start, ipcVars
    <3>2. Owned(orders[k])
      BY <1>0, <2>1, <3>1 DEF Owned
    <3>3. PICK t \in Tasks : Alone(t) /\ call[t].tx = orders[k].tx
      BY <2>1, <3>1, <3>2, OwnedOrder
    <3> QED BY <1>5, <2>1, <3>1, <3>3, BeginDisturbs
  <2> QED BY <2>1
<1>6. ASSUME NEW u \in Tasks, ProxiedGo(u) PROVE Ordering
  <2>0. Active(u)
    BY <1>6, MovesAreActive
  <2>1. ASSUME NEW k \in DOMAIN orders, Owned(orders[k]) PROVE FALSE
    <3>1. PICK t \in Tasks : /\ Alone(t) /\ AloneCall(t) /\ call[t].pc = "sent" /\ waiting = t
                             /\ call[t].op \in Statements
      BY <2>1, OwnedOrder
    <3>2. u = t
      BY <2>0, <3>1 DEF AloneCall
    <3>3. call[u].pc = "sent" /\ waiting = u /\ call[u].op \in Statements
      BY <3>1, <3>2
    <3> QED BY <1>6, <3>3 DEF ProxiedGo, ProxiedMove, PFails, PSends, PFailsToSend, PSucceeds, PBegins,
          PTakesActive, PSkips, RollsBack, Statements
  <2>2. CASE PSends(u)
    <3>1. ASSUME NEW k \in DOMAIN orders', orders'[k].op \in Statements,
                 orders'[k].tx \notin tainted' \union {NoTx}
          PROVE  Alone(u)' /\ call'[u].pc = "sent" /\ Ordered(u)' /\ call'[u].op \in Statements
      <4>1. (k \in DOMAIN orders /\ orders'[k] = orders[k]) \/ orders'[k] = OrderOf(u)
        BY <1>0, <2>2, <3>1, OrderType, Appending DEF PSends, IpcTypes
      <4>2. orders'[k] = OrderOf(u)
        BY <1>0, <2>1, <3>1, <4>1 DEF Owned
      <4>3. ~RollsBack(u)
        BY <3>1, <4>2 DEF OrderOf, Statements
      <4>4. call[u].op \in Statements /\ call[u].tx \notin tainted \union {NoTx}
        BY <1>0, <3>1, <4>2, <4>3 DEF OrderOf
      <4>5. Alone(u)
        BY <2>0, <4>4 DEF IInv, TaintInv, Alone
      <4>6. Moved(u, [call[u] EXCEPT !.pc = "sent"]) /\ Active(u)'
        BY <1>0, <2>2, Going DEF PSends
      <4>7. /\ call'[u].pc = "sent" /\ call'[u].alone = call[u].alone /\ call'[u].op = call[u].op
            /\ call'[u].tx = call[u].tx /\ call'[u].todo = call[u].todo
        BY <1>0, <4>6 DEF Moved, CallTypes, Call
      <4>8. orders = <<>> /\ answers = <<>>
        BY <2>2, <4>4, <4>5, AloneFacts DEF PSends, AloneCall, Silent
      <4>9. OrderOf(u)' = OrderOf(u)
        BY <4>7 DEF OrderOf, RollsBack, Rollback
      <4> QED BY <2>2, <4>4, <4>5, <4>6, <4>7, <4>8, <4>9 DEF Alone, Ordered, PSends
    <3> QED BY <3>1
  <2>3. CASE ~PSends(u)
    <3>1. orders' = orders
      BY <1>6, <2>3 DEF ProxiedGo, ProxiedMove, PFails, PFailsToSend, PSucceeds, PBegins, PTakesActive,
          PSkips, ipcVars
    <3> QED BY <1>0, <2>1, <3>1 DEF Owned
  <2> QED BY <2>2, <2>3
<1> QED BY <1>0, <1>2, <1>3, <1>4, <1>5, <1>6, Steps DEF DirectGo

LEMMA BrokenKept == ASSUME IInv, Next PROVE BrokenInv'
<1>0. /\ TypeOK /\ CallInv /\ OrderInv /\ RowInv /\ NothingUnasked /\ CallTypes /\ IpcTypes
      /\ tainted \subseteq tainted' /\ UNCHANGED <<dbType, proxied>>
  BY TypeParts, TaintedKept, UsedKept DEF IInv
<1> SUFFICES ASSUME NEW i \in TxIds, txs'[i].st = "broken"
             PROVE  /\ dbType = "postgres"
                    /\ i \in tainted' \/ (proxied /\ \E t \in Tasks : call'[t].tx = i /\ Failing(t)')
  BY <1>0 DEF BrokenInv
<1>a. i # NoTx
  BY Ids
<1>1. txs[i].st = "broken" \/ Breaks(i)
  <2>1. CASE txs[i].st # "none"
    BY <1>0, <2>1, OpenStays
  <2>2. CASE txs[i].st = "none"
    <3>1. CASE Stays \/ Stores
      BY <2>2, <3>1 DEF Stays, Stores
    <3>2. ASSUME NEW j \in TxIds, Writes(j) \/ Breaks(j) \/ Opens(j) \/ Aborts(j) \/ Commits(j)
          PROVE  FALSE
      <4>1. CASE i = j
        BY <2>2, <3>2, <4>1 DEF Writes, Breaks, Opens, Aborts, Commits, At, IsOpen
      <4>2. CASE i # j
        BY <2>2, <3>2, <4>2 DEF Writes, Breaks, Opens, Aborts, Commits, At
      <4> QED BY <4>1, <4>2
    <3> QED BY <1>0, <3>1, <3>2, DbSteps
  <2> QED BY <2>1, <2>2
<1>2. dbType = "postgres"
  BY <1>1 DEF IInv, BrokenInv, Breaks
<1>3. CASE txs[i].st = "broken"
  <2>1. CASE i \in tainted
    BY <1>0, <1>2, <2>1
  <2>2. ASSUME proxied, NEW t \in Tasks, call[t].tx = i, Failing(t)
        PROVE  i \in tainted' \/ \E u \in Tasks : call'[u].tx = i /\ Failing(u)'
    <3>0. /\ Alone(t) /\ AloneCall(t) /\ call[t].op \in Statements /\ ~RollsBack(t)
          /\ \A u \in Tasks : Active(u) => u = t
      BY <2>2, AloneFacts DEF Failing, RollsBack, Statements
    <3>1. CASE Connects \/ \E u \in Tasks : DropTransaction(u)
      <4>1. UNCHANGED <<call, orders, answers>>
        BY <3>1 DEF Connects, DropTransaction, ipcVars
      <4> QED BY <2>2, <4>1 DEF Failing, Alone, Active
    <3>2. CASE OrderGo
      BY <2>2, <3>0, <3>2 DEF OrderGo, Failing, AloneCall, Silent
    <3>3. CASE DeliverGo
      <4>1. /\ call[t].pc = "sent" /\ orders' = <<>> /\ answers' = <<>> /\ Len(answers) = 1
            /\ \/ Moved(t, [call[t] EXCEPT !.pc = "answered", !.ans = answers[1]])
               \/ call' = call /\ waiting' = t
        BY <3>0, <3>3, DeliversTruly
      <4>2. answers[1].kind = "error"
        <5>1. answers # <<>>
          BY <3>3 DEF DeliverGo, Deliver
        <5> QED BY <2>2, <4>1, <5>1 DEF Failing
      <4>3. CASE Moved(t, [call[t] EXCEPT !.pc = "answered", !.ans = answers[1]])
        <5>1. /\ call'[t].pc = "answered" /\ call'[t].op = call[t].op /\ call'[t].tx = call[t].tx
              /\ call'[t].alone = call[t].alone /\ call'[t].ans = answers[1]
          BY <1>0, <4>3 DEF Moved, CallTypes, Call
        <5> QED BY <2>2, <3>0, <4>2, <5>1 DEF Failing, Alone, Active
      <4>4. CASE call' = call
        BY <2>2, <3>0, <4>1, <4>4 DEF Failing, Alone, Active
      <4> QED BY <4>1, <4>3, <4>4
    <3>4. ASSUME NEW u \in Tasks, TaskBegins(u) PROVE i \in tainted'
      BY <1>a, <2>2, <3>0, <3>4, BeginDisturbs
    <3>5. ASSUME NEW u \in Tasks, ProxiedGo(u) PROVE i \in tainted'
      <4>1. u = t
        BY <3>0, <3>5, MovesAreActive
      <4>2. PFails(t)
        <5>1. call[t].pc = "sent" => waiting = t
          BY <3>0 DEF AloneCall
        <5>2. call[t].pc = "sent" \/ (call[t].pc = "answered" /\ call[t].ans.kind = "error")
          BY <2>2 DEF Failing
        <5> QED BY <3>0, <3>5, <4>1, <5>1, <5>2 DEF ProxiedGo, ProxiedMove, PSends, PFailsToSend, PSucceeds,
              PBegins, PTakesActive, PSkips, Statements
      <4>3. ~Active(t)' /\ back'.res = "Err"
        BY <1>0, <4>2, Returning DEF PFails
      <4>4. tainted' = tainted \union ({call[t].tx} \ {NoTx})
        BY <1>2, <3>0, <3>5, <4>1, <4>3 DEF ProxiedGo, Record, Statements
      <4> QED BY <1>a, <2>2, <4>4
    <3> QED BY <1>0, <2>2, <3>1, <3>2, <3>3, <3>4, <3>5, Steps DEF DirectGo
  <2> QED BY <1>2, <1>3, <2>1, <2>2 DEF IInv, BrokenInv
<1>4. CASE txs[i].st # "broken"
  <2>0. Breaks(i) /\ txs[i].st = "open"
    BY <1>1, <1>4 DEF Breaks, IsOpen
  <2>a. ~Stays /\ ~Stores /\ \A j : ~Writes(j) /\ ~Opens(j) /\ ~Commits(j) /\ ~Aborts(j)
    <3>1. ~Stays /\ ~Stores
      BY <1>4 DEF Stays, Stores
    <3>2. ASSUME NEW j, Writes(j) \/ Opens(j) \/ Commits(j) \/ Aborts(j) PROVE FALSE
      <4>1. CASE i = j
        BY <3>2, <4>1 DEF Writes, Opens, Aborts, Commits, At
      <4>2. CASE i # j
        BY <1>4, <3>2, <4>2 DEF Writes, Opens, Aborts, Commits, At
      <4> QED BY <4>1, <4>2
    <3> QED BY <3>1, <3>2
  <2>b. \A j : Breaks(j) => j = i
    <3>1. ASSUME NEW j, Breaks(j), j # i PROVE FALSE
      BY <1>4, <3>1 DEF Breaks, At
    <3> QED BY <3>1
  <2>1. ASSUME NEW t \in Tasks, DirectGo(t) PROVE i \in tainted'
    <3>1. PICK r \in {"Ok", "Err"}, j \in Rows : Ran(t, j, r) /\ j = call[t].tx
      <4>1. RunsAcquired(t) \/ RunsInTx(t)
        <5>1. CASE GivesUp(t) \/ Acquires(t) \/ FailsToBegin(t) \/ BeginsToClose(t) \/ HasClosed(t)
          BY <2>a, <5>1 DEF GivesUp, Acquires, FailsToBegin, BeginsToClose, HasClosed, dbVars, Stays
        <5> QED BY <2>1, <2>a, <5>1 DEF DirectGo, DirectMove, BeginsTx, EndsTx
      <4>2. call[t].tx \in Rows
        BY <1>0, Ids DEF CallTypes, Call
      <4> QED BY <4>1, <4>2 DEF RunsAcquired, RunsInTx
    <3>2. Breaks(j) /\ r = "Err" /\ call[t].op \in Statements
      BY <2>a, <3>1 DEF Ran
    <3>3. j = i
      BY <2>b, <3>2
    <3>4. PICK g : Return(t, r, g)
      BY <3>1 DEF Ran, Reports
    <3>5. ~Active(t)' /\ back'.res = "Err"
      BY <1>0, <3>2, <3>4, Returning
    <3>6. tainted' = tainted \union ({call[t].tx} \ {NoTx})
      BY <1>2, <2>1, <3>2, <3>5 DEF DirectGo, Record, Statements
    <3> QED BY <1>a, <3>1, <3>3, <3>6
  <2>2. CASE OrderGo
    <3>0. proxied /\ orders # <<>>
      BY <2>2 DEF OrderGo
    <3>1. Head(orders) \in Orders /\ Head(orders) = orders[1] /\ 1 \in DOMAIN orders
      BY <1>0, <3>0, HeadTail DEF IpcTypes
    <3>2. OFails
      <4>1. ASSUME OSucceeds PROVE FALSE
        <5>1. PICK j \in Rows : DoesOrder(Head(orders), j)
          BY <4>1 DEF OSucceeds
        <5> QED BY <2>a, <3>1, <5>1, Ids DEF DoesOrder, Orders, Ops, ConnOps, TxOps, Statements
      <4> QED BY <2>2, <4>1 DEF OrderGo
    <3>3. Head(orders).op \in Statements /\ Head(orders).tx = i
      BY <2>a, <2>b, <3>2 DEF OFails
    <3>4. CASE i \in tainted
      BY <1>0, <1>2, <3>4
    <3>5. CASE i \notin tainted
      <4>1. PICK t \in Tasks : Alone(t) /\ call[t].op \in Statements /\ call[t].tx = i
        BY <1>a, <3>0, <3>1, <3>3, <3>5, OwnedOrder DEF Owned
      <4>2. call[t].pc = "sent" /\ orders' = <<>> /\ \E a \in Answers : answers' = <<a>> /\ a.kind = "error"
        BY <2>2, <3>2, <4>1, AnswersTruly
      <4>3. call' = call
        BY <2>2 DEF OrderGo
      <4>4. Failing(t)'
        BY <4>1, <4>2, <4>3 DEF Failing, Alone, Active
      <4> QED BY <1>2, <3>0, <4>1, <4>3, <4>4
    <3> QED BY <3>4, <3>5
  <2>3. ASSUME NEW t \in Tasks, DropTransaction(t) PROVE FALSE
    <3>1. CASE proxied
      BY <2>3, <2>a, <3>1 DEF DropTransaction, dbVars, Stays
    <3>2. CASE ~proxied
      <4>1. handle[t] \in TxIds /\ Finish(handle[t], "aborted") /\ stored' = stored
        BY <1>0, <2>3, <3>2, TypeParts, OtherParts DEF DropTransaction, DropsTransaction, HandleType
      <4>2. Aborts(handle[t])
        BY <1>0, <4>1, Finishing, TypeParts DEF Aborts
      <4> QED BY <2>a, <4>2
    <3> QED BY <3>1, <3>2
  <2>4. CASE Connects \/ DeliverGo \/ (\E t \in Tasks : TaskBegins(t) \/ ProxiedGo(t))
    BY <2>4, <2>a DEF Connects, DeliverGo, TaskBegins, Start, ProxiedGo, dbVars, Stays
  <2> QED BY <1>0, <1>2, <2>1, <2>2, <2>3, <2>4, Steps
<1> QED BY <1>3, <1>4

-----------------------------------------------------------------------------
(* Transactions that close will roll back.                                 *)

LEMMA BegunKept == ASSUME IInv, Next PROVE BegunInv'
<1>0. /\ TypeOK /\ CallInv /\ OrderInv /\ RowInv /\ NothingUnasked /\ CallTypes /\ IpcTypes /\ HistoryTypes
      /\ UNCHANGED proxied
  BY TypeParts, OtherParts, UsedKept DEF IInv
<1>a. /\ \/ Connects \/ OrderGo \/ DeliverGo
         \/ \E t \in Tasks : TaskBegins(t) \/ DirectGo(t) \/ ProxiedGo(t) \/ DropTransaction(t)
      /\ \A t \in Tasks : CallOK(t)
  BY <1>0, Steps DEF CallInv
<1> SUFFICES ASSUME proxied, NEW i \in begun', i \notin refused', IsOpen(i)'
             PROVE  i \in active' \/ \E t \in Tasks : i \in call'[t].todo
  BY <1>0 DEF BegunInv
<1>1. i \in begun \/ i \in active'
  BY <1>a DEF Connects, OrderGo, DeliverGo, TaskBegins, Start, DirectGo, ProxiedGo, Record, DropTransaction, history
<1>2. ASSUME i \in begun PROVE i \in active' \/ \E t \in Tasks : i \in call'[t].todo
  <2>0. i \notin refused
    <3>1. CASE Connects \/ OrderGo \/ DeliverGo \/ \E t \in Tasks : TaskBegins(t) \/ DropTransaction(t)
      BY <3>1 DEF Connects, OrderGo, DeliverGo, Deliver, TaskBegins, Start, DropTransaction, history
    <3>2. ASSUME NEW t \in Tasks, ProxiedGo(t) PROVE refused \subseteq refused'
      BY <3>2 DEF ProxiedGo, ProxiedMove, PFails, PSends, PFailsToSend, PSucceeds, PBegins, PTakesActive, PSkips
    <3> QED BY <1>a, <3>1, <3>2 DEF DirectGo
  <2>1. i \in TxIds /\ i # NoTx /\ Started(i)
    BY <1>0, <1>2, Ids DEF HistoryTypes, IInv, StartedInv
  <2>2. IsOpen(i)
    BY <1>0, <2>1, OpenStays DEF Started
  <2>3. i \in active \/ \E t \in Tasks : i \in call[t].todo
    BY <1>2, <2>0, <2>2 DEF IInv, BegunInv
  <2>4. CASE Connects \/ OrderGo \/ \E t \in Tasks : DropTransaction(t)
    BY <2>3, <2>4 DEF Connects, OrderGo, DropTransaction
  <2>5. CASE DeliverGo
    <3>1. active' = active /\ \A t \in Tasks : call'[t].todo = call[t].todo
      BY <1>0, <2>5, Delivering DEF DeliverGo, Moved, CallTypes, Call
    <3> QED BY <2>3, <3>1
  <2>6. ASSUME NEW u \in Tasks, TaskBegins(u) PROVE i \in active' \/ \E t \in Tasks : i \in call'[t].todo
    <3>1. PICK o \in Ops, j \in Rows : Start(u, o, j)
      BY <2>6 DEF TaskBegins
    <3>2. Began(u, o, j) /\ ~Active(u) /\ active' = active
      BY <1>0, <3>1, Starting DEF Start
    <3>3. call[u].todo = {}
      BY <1>a, <3>2 DEF CallOK, Active
    <3>4. \A t \in Tasks \ {u} : call'[t].todo = call[t].todo
      BY <1>0, <3>2 DEF Began, CallTypes, Call
    <3> QED BY <2>3, <3>2, <3>3, <3>4
  <2>7. ASSUME NEW u \in Tasks, ProxiedGo(u) PROVE i \in active' \/ \E t \in Tasks : i \in call'[t].todo
    <3>0. CallOK(u)
      BY <1>a
    <3>1. CASE Moved(u, Ended) /\ (PFails(u) \/ PFailsToSend(u) \/ PSucceeds(u) \/ PBegins(u))
      <4>1. ~RollsBack(u) /\ active \subseteq active'
        BY <3>1 DEF PFails, PFailsToSend, PSucceeds, PBegins, RollsBack
      <4>2. call[u].todo = {}
        BY <3>0, <4>1 DEF CallOK
      <4> QED BY <2>3, <3>1, <4>1, <4>2 DEF Moved
    <3>2. CASE PSends(u) /\ Moved(u, [call[u] EXCEPT !.pc = "sent"])
      <4>1. active' = active /\ \A t \in Tasks : call'[t].todo = call[t].todo
        BY <1>0, <3>2 DEF PSends, Moved, CallTypes, Call
      <4> QED BY <2>3, <4>1
    <3>3. CASE PTakesActive(u) /\ Moved(u, [call[u] EXCEPT !.pc = "closing", !.todo = active])
      <4>1. call'[u].todo = active /\ \A t \in Tasks \ {u} : call'[t].todo = call[t].todo
        BY <1>0, <3>3 DEF Moved, CallTypes, Call
      <4>2. call[u].todo = {}
        BY <3>0, <3>3 DEF CallOK, PTakesActive
      <4> QED BY <2>3, <4>1, <4>2
    <3>4. CASE PSkips(u) /\ Moved(u, [call[u] EXCEPT !.pc = "closing", !.todo = call[u].todo \ {Rollback(u)}])
      <4>1. i # Rollback(u)
        <5>1. CASE refused' = refused \union {Rollback(u)}
          BY <5>1
        <5>2. CASE call[u].alone /\ call[u].pc = "answered" /\ call[u].ans.kind # "error"
          <6>1. Alone(u) /\ RollsBack(u)
            BY <3>4, <5>2 DEF Alone, Active, PSkips
          <6>2. TrueAnswer(u, call[u].ans)
            BY <5>2, <6>1, AloneFacts DEF AloneCall
          <6>3. ~IsOpen(Rollback(u))
            BY <5>2, <6>1, <6>2 DEF TrueAnswer
          <6> QED BY <2>2, <6>3
        <5> QED BY <3>4, <5>1, <5>2 DEF PSkips
      <4>2. /\ call'[u].todo = call[u].todo \ {Rollback(u)} /\ active' = active
            /\ \A t \in Tasks \ {u} : call'[t].todo = call[t].todo
        BY <1>0, <3>4 DEF PSkips, Moved, CallTypes, Call
      <4> QED BY <2>3, <4>1, <4>2
    <3> QED BY <1>0, <2>7, <3>1, <3>2, <3>3, <3>4, ProxiedCall
  <2> QED BY <1>a, <2>4, <2>5, <2>6, <2>7 DEF DirectGo
<1> QED BY <1>1, <1>2

-----------------------------------------------------------------------------
(* The invariant holds.                                                    *)

LEMMA Initially == DatabaseInit => IInv
<1> SUFFICES ASSUME DatabaseInit PROVE IInv
  OBVIOUS
<1>1. /\ \A t \in Tasks : call[t] = Ended /\ handle[t] = NoTx
      /\ \A i \in TxIds : txs[i] = [st |-> "none", rows |-> {}]
      /\ call = [t \in Tasks |-> Ended] /\ handle = [t \in Tasks |-> NoTx]
      /\ txs = [i \in TxIds |-> [st |-> "none", rows |-> {}]]
  BY DEF DatabaseInit
<1>2. Acquired = {} /\ Holding = {} /\ PoolInv /\ free = PoolSize
  <2>1. Acquired = {} /\ Holding = {} /\ free = PoolSize
    BY <1>1, EndedType DEF DatabaseInit, Acquired, Holding
  <2> QED BY <2>1, BoundsAssumption, FS_EmptySet DEF PoolInv
<1>3. TypeOK
  <2>1. DbTypes
    BY <1>1 DEF DatabaseInit, DbTypes
  <2>2. CallTypes
    BY <1>1, EndedType DEF DatabaseInit, CallTypes
  <2>3. IpcTypes
    BY DEF DatabaseInit, IpcTypes
  <2>4. OtherTypes
    <3>1. PICK u \in Uses : dbType = u[1] /\ proxied = u[2]
      BY DEF DatabaseInit
    <3>2. <<dbType, proxied>> = u /\ proxied \in BOOLEAN
      BY <3>1, UsesAssumption
    <3>3. calls \in 0..MaxCalls[proxied]
      BY <3>2, BoundsAssumption DEF DatabaseInit
    <3> QED BY <1>1, <3>2, <3>3 DEF DatabaseInit, OtherTypes
  <2>5. PoolCount
    BY <1>2, BoundsAssumption, FS_EmptySet DEF PoolCount
  <2> QED BY <2>1, <2>2, <2>3, <2>4, <2>5, TypeParts
<1>4. CallInv /\ OrderInv /\ RowInv /\ BackInv /\ NothingUnasked
  <2>1. CallInv
    BY <1>1, EndedType DEF CallInv, CallOK, Active, Statements
  <2> QED BY <1>1, <2>1 DEF DatabaseInit, OrderInv, RowInv, BackInv, NothingUnasked
<1>5. HandleInv /\ AckInv
  <2>1. \A i \in TxIds : i # NoTx /\ ~IsOpen(i)
    BY <1>1, Ids DEF IsOpen
  <2> QED BY <1>1, <2>1 DEF HandleInv, AckInv, DatabaseInit
<1>6. StartedInv
  <2>1. \A t \in Tasks : AnswerOK(call[t].ans)
    BY <1>1, EndedType DEF AnswerOK, Started
  <2> QED BY <2>1 DEF StartedInv, DatabaseInit
<1>7. AloneInv /\ TaintInv /\ BrokenInv /\ BegunInv
  <2>1. \A t \in Tasks : ~Active(t)
    BY <1>1, EndedType DEF Active
  <2> QED BY <1>1, <2>1 DEF AloneInv, Alone, TaintInv, BrokenInv, BegunInv, DatabaseInit
<1> QED BY <1>2, <1>3, <1>4, <1>5, <1>6, <1>7 DEF IInv

\* Every step keeps the invariant, and so does no step.
LEMMA Inductive == IInv /\ [Next]_databaseVars => IInv'
<1>1. ASSUME IInv, Next PROVE IInv'
  <2>1. TypeOK' /\ PoolInv' /\ RowInv' /\ NothingUnasked'
    BY <1>1, TypesKept, DbKept DEF IInv
  <2>2. CallInv' /\ OrderInv' /\ BackInv' /\ HandleInv' /\ StartedInv'
    BY <1>1, CallsKept, OrdersKept, BackKept, HandlesKept, StartedKept DEF IInv
  <2>3. AckInv' /\ AloneInv' /\ TaintInv' /\ BrokenInv' /\ BegunInv'
    BY <1>1, AcksKept, AloneKept, TaintKept, BrokenKept, BegunKept
  <2> QED BY <2>1, <2>2, <2>3 DEF IInv
<1>2. ASSUME IInv, UNCHANGED databaseVars PROVE IInv'
  <2>1. UNCHANGED <<dbType, proxied, param, calls, conn, call, back, handle, free, active, waiting, orders,
                    answers, txs, stored, acked, asked, tainted, begun, refused>>
    BY <1>2 DEF databaseVars, used, ipcVars, dbVars, history
  <2>2. TypeOK' /\ PoolInv' /\ RowInv' /\ NothingUnasked'
    BY <1>2, <2>1 DEF IInv, TypeOK, DatabaseTypeOK, PoolInv, Acquired, Holding, RowInv, NothingUnasked
  <2>3. CallInv' /\ OrderInv' /\ BackInv'
    <3>1. CallInv'
      BY <1>2, <2>1 DEF IInv, CallInv, CallOK, Active, RollsBack, Refused, Driver
    <3>2. OrderInv' /\ BackInv'
      BY <1>2, <2>1 DEF IInv, OrderInv, OrderOK, BackInv, Refused, Held, Driver
    <3> QED BY <3>1, <3>2
  <2>4. HandleInv' /\ AckInv'
    BY <1>2, <2>1 DEF IInv, HandleInv, IsOpen, AckInv
  <2>5. StartedInv' /\ BegunInv'
    BY <1>2, <2>1 DEF IInv, StartedInv, AnswerOK, Started, BegunInv, IsOpen
  <2>6. /\ \A t \in Tasks : (Alone(t)' <=> Alone(t)) /\ (Active(t)' <=> Active(t)) /\ (Ordered(t)' <=> Ordered(t))
        /\ \A t \in Tasks : Failing(t)' <=> Failing(t)
    BY <2>1 DEF Alone, Active, Ordered, OrderOf, RollsBack, Rollback, Failing
  <2>7. ASSUME NEW t \in Tasks, AloneCall(t) PROVE AloneCall(t)'
    <3>1. /\ Silent' <=> Silent
          /\ Answered(t)' <=> Answered(t)
          /\ TrueAnswer(t, call[t].ans)' <=> TrueAnswer(t, call[t].ans)
      BY <2>1 DEF Silent, Answered, TrueAnswer, RollsBack, Rollback, IsOpen
    <3> QED BY <2>1, <2>6, <2>7, <3>1 DEF AloneCall
  <2>8. AloneInv'
    BY <1>2, <2>1, <2>6, <2>7 DEF IInv, AloneInv
  <2>9. TaintInv'
    BY <1>2, <2>1, <2>6 DEF IInv, TaintInv
  <2>10. BrokenInv'
    BY <1>2, <2>1, <2>6 DEF IInv, BrokenInv
  <2> QED BY <2>2, <2>3, <2>4, <2>5, <2>8, <2>9, <2>10 DEF IInv
<1> QED BY <1>1, <1>2

THEOREM Invariance == Spec => []IInv
<1> QED BY Initially, Inductive, PTL DEF Spec

\* TypeOK: every part of the state has its type, and every connection of the
\* pool is free, held by a transaction or in use by a call (Pool of sqlx, as
\* the methods of the drivers use it).
THEOREM TypeCorrect == Spec => []TypeOK
<1>1. IInv => TypeOK
  BY DEF IInv
<1> QED BY <1>1, Invariance, PTL

\* NothingUnasked: what a transaction has written is seen only if its commit
\* was called, whether the transaction was rolled back, dropped or left to
\* close (rollback, drop and close of the connections).
THEOREM NothingUnaskedStored == Spec => []NothingUnasked
<1>1. IInv => NothingUnasked
  BY DEF IInv
<1> QED BY <1>1, Invariance, PTL

-----------------------------------------------------------------------------
(* What is read.                                                           *)

\* What the getters of a driver give for a value that it has taken.
LEMMA GettersOwn ==
    /\ OwnGetters("Null") = Getters /\ OwnGetters("Array") = {"string"} /\ OwnGetters("Nested") = {"string"}
    /\ \A v \in Kinds \ {"Null", "Array", "Nested"} :
            \E g \in Getters : OwnGetters(v) = {g} /\ (KindOf[g] = v \/ (v \in NotFinite /\ g = "f64"))
<1>1. OwnGetters("Null") = Getters /\ OwnGetters("Array") = {"string"} /\ OwnGetters("Nested") = {"string"}
  BY DEF OwnGetters, Arrays
<1>2. ASSUME NEW v \in Kinds \ {"Null", "Array", "Nested"}
      PROVE  OwnGetters(v) = {g \in Getters : KindOf[g] = v \/ (v \in NotFinite /\ g = "f64")}
  BY <1>2 DEF OwnGetters, Arrays
<1>3. /\ KindOf["string"] = "Text" /\ KindOf["i64"] = "Integer" /\ KindOf["f64"] = "Float"
      /\ KindOf["bool"] = "Boolean" /\ KindOf["bytes"] = "Blob"
  BY DEF KindOf
<1>4. ASSUME NEW v \in Kinds \ {"Null", "Array", "Nested"}
      PROVE  \E g \in Getters : OwnGetters(v) = {g} /\ (KindOf[g] = v \/ (v \in NotFinite /\ g = "f64"))
  <2>1. v \in {"Boolean", "Integer", "Float", "NaN", "Infinite", "Text", "Blob"}
    BY DEF Kinds, NotFinite
  <2>2. v = "Boolean" => OwnGetters(v) = {"bool"}
    BY <1>2, <1>3 DEF Getters, NotFinite
  <2>3. v = "Integer" => OwnGetters(v) = {"i64"}
    BY <1>2, <1>3 DEF Getters, NotFinite
  <2>4. v = "Float" => OwnGetters(v) = {"f64"}
    BY <1>2, <1>3 DEF Getters
  <2>5. v \in {"NaN", "Infinite"} => OwnGetters(v) = {"f64"}
    BY <1>2, <1>3 DEF Getters, NotFinite
  <2>6. v = "Text" => OwnGetters(v) = {"string"}
    BY <1>2, <1>3 DEF Getters, NotFinite
  <2>7. v = "Blob" => OwnGetters(v) = {"bytes"}
    BY <1>2, <1>3 DEF Getters, NotFinite
  <2> QED BY <1>3, <2>1, <2>2, <2>3, <2>4, <2>5, <2>6, <2>7 DEF Getters, NotFinite
<1> QED BY <1>1, <1>4

\* A value that is not an array, as a getter of its kind gives it.
Nulled(d, v) == v = "Null" \/ (v = "NaN" /\ d = "sqlite")
Kept(d, v) == IF Nulled(d, v) THEN "Err" ELSE v

LEMMA SqlxReads ==
    ASSUME NEW d \in {"sqlite", "mysql", "postgres"}, NEW v \in Kinds \ Arrays, NEW g \in OwnGetters(v),
           NEW try \in BOOLEAN
    PROVE  Get(d, Bind(d, v), g, try) = Kept(d, v)
<1>1. Bind(d, v) = IF Nulled(d, v) THEN "Null" ELSE v
  BY DEF Bind, SqliteBind, MySqlBind, PostgresBind, Nulled
<1>2. /\ KindOf["string"] = "Text" /\ KindOf["i64"] = "Integer" /\ KindOf["f64"] = "Float"
      /\ KindOf["bool"] = "Boolean" /\ KindOf["bytes"] = "Blob"
  BY DEF KindOf
<1>3. v \in {"Null", "Boolean", "Integer", "Float", "NaN", "Infinite", "Text", "Blob"} /\ g \in Getters
  BY DEF Kinds, Arrays, NotFinite, OwnGetters
<1>4. v = "Null" \/ KindOf[g] = v \/ (v \in NotFinite /\ g = "f64")
  BY DEF OwnGetters, Arrays
<1>5. SqlxTryGet(Bind(d, v), g) = Kept(d, v)
  <2>1. SqlxTryGet("Null", g) = "Err"
    BY <1>2, <1>3 DEF SqlxTryGet, Getters, NotFinite
  <2>2. ~Nulled(d, v) => SqlxTryGet(v, g) = v
    BY <1>2, <1>3, <1>4 DEF SqlxTryGet, Nulled, Getters, NotFinite
  <2> QED BY <1>1, <2>1, <2>2 DEF Kept
<1>6. SqlxTryGet(Bind(d, v), g) # "ColumnNotFound"
  BY <1>3, <1>5 DEF Kept
<1>7. Get(d, Bind(d, v), g, try) = SqlxTryGet(Bind(d, v), g)
  BY <1>6 DEF Get, SqliteGet, SqliteTryGet, MySqlGet, MySqlTryGet, PostgresGet, PostgresTryGet, OrErr, OrNone
<1> QED BY <1>5, <1>7

LEMMA ProxyReads ==
    ASSUME NEW v \in Kinds, Bind("proxy", v) # "refused", NEW g \in OwnGetters(v)
    PROVE  LET got(try) == Get("proxy", Bind("proxy", v), g, try) IN
           /\ v = "Null" => got(FALSE) = "Err" /\ got(TRUE) = "None"
           /\ v \in Arrays => got(FALSE) = "Err" /\ got(TRUE) = "Err"
           /\ v # "Null" /\ v \notin Arrays => got(FALSE) = v /\ got(TRUE) = v
<1>1. v \in {"Null", "Boolean", "Integer", "Float", "Text", "Blob", "Array"}
  BY DEF Kinds, Bind, ProxyBind, NotFinite
<1>2. /\ KindOf["string"] = "Text" /\ KindOf["i64"] = "Integer" /\ KindOf["f64"] = "Float"
      /\ KindOf["bool"] = "Boolean" /\ KindOf["bytes"] = "Blob"
  BY DEF KindOf
<1>3. g \in Getters /\ (v = "Null" \/ KindOf[g] = v \/ (v = "Array" /\ g = "string"))
  BY <1>1 DEF OwnGetters, Arrays, Getters, NotFinite
<1>4. Bind("proxy", v) = IF v = "Blob" THEN "Base64" ELSE v
  BY <1>1 DEF Bind, ProxyBind, NotFinite
<1>5. Get("proxy", Bind("proxy", v), g, FALSE) = ProxyGet(Bind("proxy", v), g)
      /\ Get("proxy", Bind("proxy", v), g, TRUE) = ProxyTryGet(Bind("proxy", v), g)
  BY DEF Get
<1>6. CASE v = "Null"
  BY <1>3, <1>4, <1>5, <1>6 DEF Getters, ProxyGet, ProxyTryGet, ProxyGetString, ProxyGetI64, ProxyGetF64, ProxyGetBool,
     ProxyGetBytes, ProxyTryGetString, ProxyTryGetI64, ProxyTryGetF64, ProxyTryGetBool, ProxyTryGetBytes, Kept, Arrays
<1>7. CASE v = "Array"
  BY <1>2, <1>3, <1>4, <1>5, <1>7 DEF Getters, ProxyGet, ProxyTryGet, ProxyGetString, ProxyTryGetString, Arrays
<1>8. CASE v \in {"Boolean", "Integer", "Float", "Text", "Blob"}
  BY <1>2, <1>3, <1>4, <1>5, <1>8 DEF Getters, ProxyGet, ProxyTryGet, ProxyGetString, ProxyGetI64, ProxyGetF64, ProxyGetBool,
     ProxyGetBytes, ProxyTryGetString, ProxyTryGetI64, ProxyTryGetF64, ProxyTryGetBool, ProxyTryGetBytes, Kept, Arrays
<1> QED BY <1>1, <1>6, <1>7, <1>8

\* What the own getters of v give.
Seen(d, v) == [get |-> {Get(d, Bind(d, v), g, FALSE) : g \in OwnGetters(v)},
               try |-> {Get(d, Bind(d, v), g, TRUE) : g \in OwnGetters(v)}]

LEMMA ReadingOf ==
    ASSUME NEW d \in Drivers, NEW b \in Params, NEW v \in b
    PROVE  Reading[<<d, b>>][v] = Seen(d, v)
<1>1. ASSUME NEW x \in Drivers \X Params PROVE Reading[x] = [w \in x[2] |-> Seen(x[1], w)]
  BY DEF Reading, Seen
<1>2. PICK x \in Drivers \X Params : x = <<d, b>>
  OBVIOUS
<1>3. x[1] = d /\ x[2] = b
  BY <1>2
<1> QED BY <1>1, <1>2, <1>3

\* All of them give x, and y as try_get.
GettersGive(d, v, x, y) ==
    \A g \in OwnGetters(v) : Get(d, Bind(d, v), g, FALSE) = x /\ Get(d, Bind(d, v), g, TRUE) = y

LEMMA SeenAs ==
    ASSUME NEW d, NEW v, NEW x, NEW y, OwnGetters(v) # {}, GettersGive(d, v, x, y)
    PROVE  Seen(d, v) = [get |-> {x}, try |-> {y}]
<1>1. PICK S : S = OwnGetters(v)
  OBVIOUS
<1>2. {Get(d, Bind(d, v), g, FALSE) : g \in S} = {x}
  BY <1>1 DEF GettersGive
<1>3. {Get(d, Bind(d, v), g, TRUE) : g \in S} = {y}
  BY <1>1 DEF GettersGive
<1> QED BY <1>1, <1>2, <1>3 DEF Seen

\* What a value that a driver takes reads as, for each driver.
LEMMA SeenDirectly ==
    ASSUME NEW d \in {"sqlite", "mysql", "postgres"}, NEW v \in Kinds, Bind(d, v) # "refused"
    PROVE  /\ v \notin Arrays => Seen(d, v) = [get |-> {Kept(d, v)}, try |-> {Kept(d, v)}]
           /\ v \in Arrays => d = "postgres" /\ Seen(d, v) = [get |-> {"Debug"}, try |-> {"Debug"}]
<1>1. OwnGetters(v) # {}
  BY GettersOwn DEF Getters
<1>2. ASSUME v \notin Arrays PROVE Seen(d, v) = [get |-> {Kept(d, v)}, try |-> {Kept(d, v)}]
  <2>1. GettersGive(d, v, Kept(d, v), Kept(d, v))
    BY <1>2, SqlxReads DEF GettersGive
  <2> QED BY <1>1, <2>1, SeenAs
<1>3. ASSUME v \in Arrays PROVE d = "postgres" /\ Seen(d, v) = [get |-> {"Debug"}, try |-> {"Debug"}]
  <2>1. d = "postgres" /\ Bind(d, v) = "Debug" /\ OwnGetters(v) = {"string"}
    BY <1>3, GettersOwn DEF Bind, SqliteBind, MySqlBind, PostgresBind, Arrays
  <2>2. \A try \in BOOLEAN : Get(d, "Debug", "string", try) = "Debug"
    BY <2>1 DEF Get, PostgresGet, PostgresTryGet, SqlxTryGet, OrErr, OrNone
  <2>3. GettersGive(d, v, "Debug", "Debug")
    BY <2>1, <2>2 DEF GettersGive
  <2> QED BY <1>1, <2>1, <2>3, SeenAs
<1> QED BY <1>2, <1>3

LEMMA SeenProxied ==
    ASSUME NEW v \in Kinds, Bind("proxy", v) # "refused"
    PROVE  /\ v = "Null" => Seen("proxy", v) = [get |-> {"Err"}, try |-> {"None"}]
           /\ v \in Arrays => Seen("proxy", v) = [get |-> {"Err"}, try |-> {"Err"}]
           /\ v # "Null" /\ v \notin Arrays => Seen("proxy", v) = [get |-> {v}, try |-> {v}]
<1>1. OwnGetters(v) # {}
  BY GettersOwn DEF Getters
<1>2. ASSUME v = "Null" PROVE Seen("proxy", v) = [get |-> {"Err"}, try |-> {"None"}]
  <2>1. GettersGive("proxy", v, "Err", "None")
    <3>1. SUFFICES ASSUME NEW g \in OwnGetters(v)
                   PROVE  Get("proxy", Bind("proxy", v), g, FALSE) = "Err" /\ Get("proxy", Bind("proxy", v), g, TRUE) = "None"
      BY DEF GettersGive
    <3> QED BY <1>2, ProxyReads
  <2> QED BY <1>1, <2>1, SeenAs
<1>3. ASSUME v \in Arrays PROVE Seen("proxy", v) = [get |-> {"Err"}, try |-> {"Err"}]
  <2>1. GettersGive("proxy", v, "Err", "Err")
    <3>1. SUFFICES ASSUME NEW g \in OwnGetters(v)
                   PROVE  Get("proxy", Bind("proxy", v), g, FALSE) = "Err" /\ Get("proxy", Bind("proxy", v), g, TRUE) = "Err"
      BY DEF GettersGive
    <3> QED BY <1>3, ProxyReads
  <2> QED BY <1>1, <2>1, SeenAs
<1>4. ASSUME v # "Null", v \notin Arrays PROVE Seen("proxy", v) = [get |-> {v}, try |-> {v}]
  <2>1. GettersGive("proxy", v, v, v)
    <3>1. SUFFICES ASSUME NEW g \in OwnGetters(v)
                   PROVE  Get("proxy", Bind("proxy", v), g, FALSE) = v /\ Get("proxy", Bind("proxy", v), g, TRUE) = v
      BY DEF GettersGive
    <3> QED BY <1>4, ProxyReads
  <2> QED BY <1>1, <2>1, SeenAs
<1> QED BY <1>2, <1>3, <1>4

\* ReadBack: a getter of the kind that was bound gives what was bound, for
\* every driver and every value that it takes (bind and the getters of each
\* driver's row, serialize_params and ProxyDatabaseRow).
THEOREM ReadsBack == Spec => []ReadBack
<1>1. ASSUME IInv PROVE ReadBack
  <2> SUFFICES ASSUME back # NoRow, back.got # NoRow, NEW v \in param
               PROVE  LET r == back.got[v] IN
                      CASE v = "Null" \/ (v = "NaN" /\ Driver = "sqlite") ->
                              r = [get |-> {"Err"}, try |-> {IF proxied THEN "None" ELSE "Err"}]
                        [] v \in Arrays -> IF proxied THEN r = [get |-> {"Err"}, try |-> {"Err"}]
                              ELSE Driver = "postgres" /\ r = [get |-> {"Debug"}, try |-> {"Debug"}]
                        [] OTHER -> r = [get |-> {v}, try |-> {v}]
    BY DEF ReadBack
  <2>0. Driver \in Drivers /\ param \in Params /\ v \in Kinds
        /\ (~proxied => Driver \in {"sqlite", "mysql", "postgres"}) /\ (proxied => Driver = "proxy")
    BY <1>1, UsesAssumption, ParamsAssumption DEF IInv, TypeOK, DatabaseTypeOK, Driver, Drivers
  <2>1. back.got = Reading[<<Driver, param>>] /\ Bind(Driver, v) # "refused"
    BY <1>1 DEF IInv, BackInv, Refused
  <2>2. PICK d, r : d = Driver /\ r = back.got[v] /\ r = Seen(d, v)
    BY <2>0, <2>1, ReadingOf
  <2>3. CASE ~proxied
    <3>1. /\ v \notin Arrays => r = [get |-> {Kept(d, v)}, try |-> {Kept(d, v)}]
          /\ v \in Arrays => d = "postgres" /\ r = [get |-> {"Debug"}, try |-> {"Debug"}]
      BY <2>0, <2>1, <2>2, <2>3, SeenDirectly
    <3>2. CASE Nulled(d, v)
      BY <2>2, <2>3, <3>1, <3>2 DEF Arrays, Kept, Nulled
    <3>3. CASE ~Nulled(d, v) /\ v \notin Arrays
      BY <2>2, <3>1, <3>3 DEF Kept, Nulled
    <3>4. CASE v \in Arrays
      BY <2>2, <2>3, <3>1, <3>4 DEF Arrays
    <3> QED BY <3>2, <3>3, <3>4
  <2>4. CASE proxied
    <3>1. /\ v = "Null" => r = [get |-> {"Err"}, try |-> {"None"}]
          /\ v \in Arrays => r = [get |-> {"Err"}, try |-> {"Err"}]
          /\ v # "Null" /\ v \notin Arrays => r = [get |-> {v}, try |-> {v}]
      BY <2>0, <2>1, <2>2, <2>4, SeenProxied
    <3>2. CASE v = "Null"
      <4>1. r = [get |-> {"Err"}, try |-> {IF proxied THEN "None" ELSE "Err"}]
        BY <2>4, <3>1, <3>2
      <4> QED BY <2>0, <2>2, <2>4, <3>2, <4>1 DEF Arrays
    <3>3. CASE v # "Null" /\ v \notin Arrays
      BY <2>0, <2>2, <2>4, <3>1, <3>3
    <3>4. CASE v \in Arrays
      BY <2>0, <2>2, <2>4, <3>1, <3>4 DEF Arrays
    <3> QED BY <3>2, <3>3, <3>4
  <2> QED BY <2>3, <2>4
<1> QED BY <1>1, Invariance, PTL

-----------------------------------------------------------------------------
(* What Ok means.                                                          *)

\* A call returns by a step of its own.
LEMMA ReturnsItself ==
    ASSUME IInv, Next, NEW t \in Tasks, Active(t), ~Active(t)'
    PROVE  /\ DirectGo(t) \/ (ProxiedGo(t) /\ (back'.res = "Ok" => PSucceeds(t) \/ PBegins(t)))
           /\ CallOK(t) /\ call[t].tx \in Rows
<1>0. TypeOK /\ CallInv /\ OrderInv /\ CallTypes /\ IpcTypes
  BY TypeParts DEF IInv
<1>1. ASSUME \A u \in Tasks : Active(u) => Active(u)' PROVE FALSE
  BY <1>1
<1>2. ~(Connects \/ OrderGo \/ \E u \in Tasks : DropTransaction(u))
  BY <1>1 DEF Connects, OrderGo, DropTransaction, Active
<1>3. ~DeliverGo
  BY <1>0, <1>1, Delivering DEF DeliverGo, Active, Moved, CallTypes, Call
<1>4. ASSUME NEW u \in Tasks, TaskBegins(u) PROVE FALSE
  <2>1. PICK o \in Ops, i \in Rows : Start(u, o, i)
    BY <1>4 DEF TaskBegins
  <2>2. Began(u, o, i) /\ Active(u)'
    BY <1>0, <2>1, Starting
  <2> QED BY <1>0, <1>1, <2>2 DEF Began, Active, CallTypes, Call
<1>5. \A u \in Tasks \ {t} : ~DirectGo(u)
  BY <1>0, DirectCall DEF Moved, Active
<1>6. \A u \in Tasks \ {t} : ~ProxiedGo(u)
  BY <1>0, ProxiedCall DEF Moved, Active
<1>7. DirectGo(t) \/ ProxiedGo(t)
  BY <1>0, <1>2, <1>3, <1>4, <1>5, <1>6, Steps
<1>8. ASSUME ProxiedGo(t), back'.res = "Ok" PROVE PSucceeds(t) \/ PBegins(t)
  <2>1. ~PFails(t) /\ ~PFailsToSend(t)
    BY <1>8 DEF PFails, PFailsToSend, Return
  <2>2. ~PSends(t)
    BY <1>0, Going DEF PSends
  <2>3. ~PTakesActive(t) /\ ~PSkips(t)
    BY <1>0, Closing, Skipping DEF PTakesActive, TakeActive, PSkips, IpcTypes
  <2> QED BY <1>8, <2>1, <2>2, <2>3 DEF ProxiedGo, ProxiedMove
<1>9. CallOK(t) /\ call[t].tx \in Rows
  BY <1>0, Ids DEF CallInv, CallTypes, Call
<1> QED BY <1>7, <1>8, <1>9

\* OkIsTrue: after execute the row is stored; after commit all rows are that
\* execute has returned Ok for in this transaction, if no calls of it
\* overlapped or failed (execute and commit of the drivers and of the proxied
\* connection).
THEOREM OkTellsTruth == Spec => OkIsTrue
<1> DEFINE Truth == \A t \in Tasks : (proxied => call[t].alone) =>
        /\ Succeeded(t, "execute") /\ call[t].tx = NoTx => NoTx \in stored'
        /\ Succeeded(t, "commit") /\ call[t].tx \notin tainted =>
                (call[t].tx \in acked => call[t].tx \in stored')
<1>1. ASSUME IInv, Next PROVE Truth
  <2> SUFFICES ASSUME NEW t \in Tasks, proxied => call[t].alone, Active(t), ~Active(t)', back'.res = "Ok"
               PROVE  /\ call[t].op = "execute" /\ call[t].tx = NoTx => NoTx \in stored'
                      /\ call[t].op = "commit" /\ call[t].tx \in acked \ tainted => call[t].tx \in stored'
    BY DEF Succeeded
  <2>0. /\ DirectGo(t) \/ (ProxiedGo(t) /\ (PSucceeds(t) \/ PBegins(t)))
        /\ CallOK(t) /\ call[t].tx \in Rows
    BY <1>1, ReturnsItself
  <2>1. CASE DirectGo(t)
    <3>1. ~proxied /\ DirectMove(t)
      BY <2>1 DEF DirectGo
    <3>2. ASSUME call[t].op = "execute", call[t].tx = NoTx PROVE NoTx \in stored'
      <4>1. RunsAcquired(t)
        <5>1. ~GivesUp(t)
          BY DEF GivesUp, Return
        <5>2. ~Acquires(t)
          <6>1. TypeOK /\ CallTypes
            BY <1>1, TypeParts DEF IInv
          <6> QED BY <6>1, Going DEF Acquires
        <5> QED BY <3>1, <3>2, <5>1, <5>2 DEF DirectMove, RunsInTx, BeginsTx, FailsToBegin, EndsTx, BeginsToClose, HasClosed
      <4>2. PICK r \in {"Ok", "Err"} : Ran(t, NoTx, r)
        BY <4>1 DEF RunsAcquired
      <4>3. r = "Ok"
        BY <4>2 DEF Ran, Reports, Return
      <4> QED BY <3>2, <4>2, <4>3 DEF Ran, Stores
    <3>3. ASSUME call[t].op = "commit", call[t].tx \in acked, call[t].tx \notin tainted PROVE call[t].tx \in stored'
      <4>0. call[t].tx # NoTx
        BY <2>0, <3>3 DEF CallOK
      <4>1. EndsTx(t)
        BY <3>1, <3>3, <4>0 DEF DirectMove, GivesUp, Acquires, RunsAcquired, RunsInTx, BeginsTx, FailsToBegin,
           BeginsToClose, HasClosed, Statements
      <4>2. PICK r \in {"Ok", "Err"} : /\ Return(t, r, NoRow)
                                       /\ \/ Commits(call[t].tx)
                                          \/ r = "Ok" => txs[call[t].tx].st # "open"
        BY <3>3, <4>1 DEF EndsTx
      <4>3. r = "Ok"
        BY <4>2 DEF Return
      <4>4. call[t].tx # NoTx /\ call[t].tx \in TxIds
        BY <4>1, <2>0, Ids DEF EndsTx
      <4>5. handle[t] = call[t].tx
        BY <2>0, <2>1, <3>1, <4>4 DEF CallOK
      <4>6. IsOpen(call[t].tx)
        BY <1>1, <3>1, <4>4, <4>5 DEF IInv, HandleInv
      <4>7. txs[call[t].tx].st # "broken"
        BY <1>1, <3>1, <3>3, <4>4 DEF IInv, BrokenInv
      <4>8. call[t].tx \in txs[call[t].tx].rows
        BY <1>1, <3>3, <4>4, <4>6, <4>7 DEF IInv, AckInv, IsOpen
      <4> QED BY <4>2, <4>3, <4>6, <4>7, <4>8 DEF Commits, IsOpen
    <3> QED BY <3>2, <3>3
  <2>2. CASE ProxiedGo(t) /\ (PSucceeds(t) \/ PBegins(t))
    <3>1. stored' = stored /\ proxied
      BY <2>2 DEF ProxiedGo, dbVars
    <3>2. CASE PBegins(t)
      BY <3>2 DEF PBegins
    <3>3. CASE PSucceeds(t)
      <4>1. Alone(t)
        BY <3>1 DEF Alone
      <4>2. TrueAnswer(t, call[t].ans) /\ call[t].ans.kind # "error"
        BY <1>1, <3>1, <3>3, <4>1, AloneFacts DEF AloneCall, PSucceeds
      <4> QED BY <3>1, <4>2 DEF TrueAnswer
    <3> QED BY <2>2, <3>2, <3>3
  <2> QED BY <2>0, <2>1, <2>2
<1>2. IInv /\ [Next]_databaseVars => [Truth]_databaseVars
  BY <1>1
<1> QED BY <1>2, Invariance, PTL DEF Spec, OkIsTrue

\* ClosedMeansEnded: when close has returned Ok, no transaction is open,
\* except a proxied one whose id has not been received, whose rollback has
\* failed, or if another call overlapped with close (Pool::close of sqlx, and
\* the rollbacks of ProxyDatabaseConnection::close).
THEOREM ClosedEnds == Spec => ClosedMeansEnded
<1> DEFINE Closed == \A t \in Tasks : Succeeded(t, "close") =>
        \A i \in TxIds : IsOpen(i)' =>
            proxied /\ (~call[t].alone \/ i \notin begun \/ i \in refused)
<1>1. ASSUME IInv, Next PROVE Closed
  <2> SUFFICES ASSUME NEW t \in Tasks, call[t].op = "close", Active(t), ~Active(t)', back'.res = "Ok",
                      NEW i \in TxIds, IsOpen(i)', proxied => call[t].alone /\ i \in begun /\ i \notin refused
               PROVE  FALSE
    BY DEF Succeeded
  <2>0. /\ DirectGo(t) \/ (ProxiedGo(t) /\ (PSucceeds(t) \/ PBegins(t)))
        /\ CallOK(t) /\ CallTypes /\ HandleType /\ Pool
    BY <1>1, TypeParts, OtherParts, ReturnsItself DEF IInv, Pool
  <2>1. CASE DirectGo(t)
    <3>1. ~proxied /\ DirectMove(t)
      BY <2>1 DEF DirectGo
    <3>2. ~BeginsToClose(t)
      BY <2>0, Going DEF BeginsToClose
    <3>3. HasClosed(t)
      BY <3>1, <3>2 DEF DirectMove, GivesUp, Acquires, RunsAcquired, RunsInTx, BeginsTx, FailsToBegin,
         EndsTx, Statements
    <3>4. free = PoolSize /\ IsOpen(i)
      BY <3>3 DEF HasClosed, dbVars, IsOpen
    <3>5. PICK u \in Tasks : handle[u] = i
      BY <1>1, <3>1, <3>4 DEF IInv, HandleInv
    <3>6. u \in Holding
      BY <3>5, Ids DEF Holding
    <3>7. /\ IsFiniteSet(Holding) /\ Cardinality(Holding) \in Nat /\ Cardinality(Acquired) \in Nat
          /\ PoolSize + Cardinality(Acquired) + Cardinality(Holding) = PoolSize
      BY <1>1, <2>0, <3>1, <3>4, FS_CardinalityType DEF IInv, PoolInv, Pool, PoolCount
    <3>8. Cardinality(Holding) = 0
      BY <3>7, BoundsAssumption
    <3> QED BY <3>6, <3>7, <3>8, FS_EmptySet
  <2>2. CASE ProxiedGo(t) /\ (PSucceeds(t) \/ PBegins(t))
    <3>1. IsOpen(i) /\ proxied
      BY <2>2 DEF ProxiedGo, dbVars, IsOpen
    <3>2. PSucceeds(t) /\ Alone(t)
      BY <2>2, <3>1 DEF PBegins, Alone
    <3>3. AloneCall(t) /\ active = {}
      BY <1>1, <3>1, <3>2, AloneFacts DEF AloneCall, PSucceeds
    <3>4. call[t].todo = {}
      BY <3>2 DEF PSucceeds, RollsBack
    <3>5. \A u \in Tasks \ {t} : call[u].todo = {}
      BY <1>1, <3>3 DEF AloneCall, IInv, CallInv, CallOK, Active
    <3> QED BY <1>1, <3>1, <3>3, <3>4, <3>5 DEF IInv, BegunInv
  <2> QED BY <2>0, <2>1, <2>2
<1>2. IInv /\ [Next]_databaseVars => [Closed]_databaseVars
  BY <1>1
<1> QED BY <1>2, Invariance, PTL DEF Spec, ClosedMeansEnded
=============================================================================
