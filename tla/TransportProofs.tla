--------------------------- MODULE TransportProofs ---------------------------
(***************************************************************************)
(* Theorems about the TCP channel, for any tasks, any policy and any mix   *)
(* of calls, and about the HTTP servers, for any requests, servers,        *)
(* callers, ports and bounds.                                              *)
(*                                                                         *)
(* TcpChannel: Framing and SendOutcome are not inductive: they rest on     *)
(* what the stream mutex guarantees (LockInv) and on which call runs which *)
(* part of the code (OpInv).                                               *)
(*                                                                         *)
(* HttpServing: AloneGetsOwn rests on a count: the calls that ended with   *)
(* Ok have taken as many responses, each once, so that when all earlier    *)
(* ones have ended so, nothing is left but the response to come.           *)
(* PortIsOwn rests on where the answer to a call is that has the           *)
(* negotiation to itself: with the orchestrator, on its way, about to      *)
(* empty the slot, or in ALLOCATED_PORT.                                   *)
(***************************************************************************)
EXTENDS TcpChannel, HttpServing, FiniteSetTheorems, SequenceTheorems, TLAPS

\* The holder of the stream mutex is the one task in the middle of a frame,
\* and it has a stream.
LockInv ==
    /\ \A t \in Tasks : pc[t] \in InIO <=> streamLock = t
    /\ streamLock # NoTask => stream # NoStream

\* Only a send writes, only a receive reads, only a disconnect closes, and
\* no call has a timer unless the tasks make such calls.
OpInv ==
    \A t \in Tasks :
        /\ pc[t] \in Writing => op[t] = "send"
        /\ pc[t] \in Reading => op[t] # "send"
        /\ pc[t] = "close" => op[t] = "disconnect"
        /\ op[t] \in Ops \union {"none"}

\* Past the head of the retry loop there is an attempt left.
AttemptInv ==
    \A t \in Tasks :
        Policy = "FixedInterval" /\ pc[t] \in {"check", "mark", "dial", "failed"}
            => attempts[t] < MaxAttempts

IInv == TypeOK /\ AttemptInv /\ LockInv /\ OpInv /\ Framing /\ SendOutcome

-----------------------------------------------------------------------------

\* What a chunk taken off the connection changes.
LEMMA ChunkTaken ==
    ASSUME TypeOK, stream # NoStream, TakeChunk
    PROVE  /\ stream' \in Connections
           /\ stream'.inMid = ~stream.inMid
           /\ stream'.outMid = stream.outMid
<1>1. stream \in Connections
  BY DEF TypeOK
<1>2. stream.unread - 1 \in 0..MaxUnread
  BY <1>1, BoundsAssumption DEF TakeChunk, Connections
<1>3. stream' = [stream EXCEPT !.unread = stream.unread - 1, !.inMid = ~stream.inMid]
  BY DEF TakeChunk
<1> QED
  BY <1>1, <1>2, <1>3 DEF Connections

\* What the peer does to the connection leaves the module's ends of it alone.
LEMMA PeerActs ==
    ASSUME TypeOK, PeerWrites \/ PeerStalls \/ PeerGone
    PROVE  /\ stream # NoStream
           /\ stream' \in Connections
           /\ stream'.inMid = stream.inMid
           /\ stream'.outMid = stream.outMid
<1>1. stream \in Connections /\ stream # NoStream
  BY StreamAssumption DEF TypeOK, PeerWrites, PeerStalls, PeerGone, PeerUp
<1>2. CASE PeerWrites
  <2>1. stream.unread + 1 \in 0..MaxUnread
    BY <1>1, <1>2, BoundsAssumption DEF PeerWrites, Connections
  <2>2. stream' = [stream EXCEPT !.unread = stream.unread + 1]
    BY <1>2 DEF PeerWrites
  <2> QED
    BY <1>1, <2>1, <2>2 DEF Connections
<1>3. CASE PeerStalls
  <2>1. stream' = [stream EXCEPT !.reads = ~stream.reads]
    BY <1>3 DEF PeerStalls
  <2> QED
    BY <1>1, <2>1 DEF Connections
<1>4. CASE PeerGone
  BY <1>1, <1>4 DEF PeerGone, Connections
<1> QED
  BY <1>2, <1>3, <1>4

\* Every step keeps every variable in its type.
LEMMA TypeStep == TypeOK /\ AttemptInv /\ LockInv /\ [Next]_vars => TypeOK'
<1> SUFFICES ASSUME TypeOK, AttemptInv, LockInv, [Next]_vars PROVE TypeOK'
  OBVIOUS
<1> USE TasksAssumption, OpsAssumption, PolicyAssumption, BoundsAssumption
    DEF TypeOK, Goto, Return, callVars, chanVars, States,
    PCs, InIO, Writing, Reading
<1>1. ASSUME NEW t \in Tasks, NEW o \in Ops, Call(t, o) PROVE TypeOK'
  BY <1>1 DEF Call, FirstStep, AllOps
<1>2. ASSUME NEW t \in Tasks, EnsureConnected(t) PROVE TypeOK'
  BY <1>2 DEF EnsureConnected
<1>3. ASSUME NEW t \in Tasks, BeginConnect(t) PROVE TypeOK'
  BY <1>3 DEF BeginConnect
<1>4. ASSUME NEW t \in Tasks, RetryLoop(t) PROVE TypeOK'
  BY <1>4 DEF RetryLoop, GivesUp
<1>5. ASSUME NEW t \in Tasks, TryCheck(t) PROVE TypeOK'
  BY <1>5 DEF TryCheck, Connected
<1>6. ASSUME NEW t \in Tasks, TryMark(t) PROVE TypeOK'
  BY <1>6 DEF TryMark
<1>7. ASSUME NEW t \in Tasks, DialOk(t) PROVE TypeOK'
  BY <1>7 DEF DialOk
<1>8. ASSUME NEW t \in Tasks, DialFail(t) PROVE TypeOK'
  BY <1>8 DEF DialFail
<1>9. ASSUME NEW t \in Tasks, AttemptFailed(t) PROVE TypeOK'
  BY <1>9 DEF AttemptFailed, CountAttempt, AttemptInv
<1>10. ASSUME NEW t \in Tasks, StoreStream(t) PROVE TypeOK'
  BY <1>10 DEF StoreStream, Fresh, Connections
<1>11. ASSUME NEW t \in Tasks, MarkConnected(t) PROVE TypeOK'
  BY <1>11 DEF MarkConnected, Connected
<1>12. ASSUME NEW t \in Tasks, IoCheck(t) PROVE TypeOK'
  BY <1>12 DEF IoCheck, ConnectionError
<1>13. ASSUME NEW t \in Tasks, IoLock(t) PROVE TypeOK'
  BY <1>13 DEF IoLock, ConnectionError
<1>14. ASSUME NEW t \in Tasks, WriteHead(t) PROVE TypeOK'
  BY <1>14 DEF WriteHead, Connections, LockInv
<1>15. ASSUME NEW t \in Tasks, WriteBody(t) PROVE TypeOK'
  BY <1>15 DEF WriteBody, Connections, LockInv
<1>16. ASSUME NEW t \in Tasks, ReadHead(t) PROVE TypeOK'
  BY <1>16, ChunkTaken DEF ReadHead, LockInv
<1>17. ASSUME NEW t \in Tasks, ReadBody(t) PROVE TypeOK'
  BY <1>17, ChunkTaken DEF ReadBody, LockInv
<1>18. ASSUME NEW t \in Tasks, IoFail(t) PROVE TypeOK'
  BY <1>18 DEF IoFail, ConnectionError, DropStream
<1>19. ASSUME NEW t \in Tasks, Close(t) PROVE TypeOK'
  BY <1>19 DEF Close, DropStream
<1>20. ASSUME NEW t \in Tasks, TimeoutElapses(t) PROVE TypeOK'
  BY <1>20 DEF TimeoutElapses
<1>21. CASE PeerWrites
  BY <1>21, PeerActs DEF PeerWrites, PeerUp
<1>22. CASE PeerStalls
  BY <1>22, PeerActs DEF PeerStalls, PeerUp
<1>23. CASE PeerGone
  BY <1>23, PeerActs DEF PeerGone, PeerUp
<1>24. CASE UNCHANGED vars
  BY <1>24 DEF vars
<1> QED
  BY <1>1, <1>2, <1>3, <1>4, <1>5, <1>6, <1>7, <1>8, <1>9, <1>10, <1>11, <1>12, <1>13,
     <1>14, <1>15, <1>16, <1>17, <1>18, <1>19, <1>20, <1>21, <1>22, <1>23, <1>24 DEF Next, Step

\* The counter of a task stays below its limit while it tries.
LEMMA AttemptStep == TypeOK /\ AttemptInv /\ [Next]_vars => AttemptInv'
<1> SUFFICES ASSUME TypeOK, AttemptInv, [Next]_vars PROVE AttemptInv'
  OBVIOUS
<1> USE BoundsAssumption DEF TypeOK, AttemptInv, Goto, Return, callVars,
    PCs, InIO, Writing, Reading
<1>1. ASSUME NEW t \in Tasks, NEW o \in Ops, Call(t, o) PROVE AttemptInv'
  BY <1>1 DEF Call, FirstStep
<1>2. ASSUME NEW t \in Tasks, EnsureConnected(t) PROVE AttemptInv'
  BY <1>2 DEF EnsureConnected
<1>3. ASSUME NEW t \in Tasks, BeginConnect(t) PROVE AttemptInv'
  BY <1>3 DEF BeginConnect
<1>4. ASSUME NEW t \in Tasks, RetryLoop(t) PROVE AttemptInv'
  BY <1>4 DEF RetryLoop, GivesUp
<1>5. ASSUME NEW t \in Tasks, TryCheck(t) PROVE AttemptInv'
  BY <1>5 DEF TryCheck, Connected
<1>6. ASSUME NEW t \in Tasks, TryMark(t) PROVE AttemptInv'
  BY <1>6 DEF TryMark
<1>7. ASSUME NEW t \in Tasks, DialOk(t) PROVE AttemptInv'
  BY <1>7 DEF DialOk
<1>8. ASSUME NEW t \in Tasks, DialFail(t) PROVE AttemptInv'
  BY <1>8 DEF DialFail
<1>9. ASSUME NEW t \in Tasks, AttemptFailed(t) PROVE AttemptInv'
  BY <1>9 DEF AttemptFailed, CountAttempt
<1>10. ASSUME NEW t \in Tasks, StoreStream(t) PROVE AttemptInv'
  BY <1>10 DEF StoreStream
<1>11. ASSUME NEW t \in Tasks, MarkConnected(t) PROVE AttemptInv'
  BY <1>11 DEF MarkConnected, Connected
<1>12. ASSUME NEW t \in Tasks, IoCheck(t) PROVE AttemptInv'
  BY <1>12 DEF IoCheck, ConnectionError
<1>13. ASSUME NEW t \in Tasks, IoLock(t) PROVE AttemptInv'
  BY <1>13 DEF IoLock, ConnectionError
<1>14. ASSUME NEW t \in Tasks, WriteHead(t) PROVE AttemptInv'
  BY <1>14 DEF WriteHead
<1>15. ASSUME NEW t \in Tasks, WriteBody(t) PROVE AttemptInv'
  BY <1>15 DEF WriteBody
<1>16. ASSUME NEW t \in Tasks, ReadHead(t) PROVE AttemptInv'
  BY <1>16 DEF ReadHead
<1>17. ASSUME NEW t \in Tasks, ReadBody(t) PROVE AttemptInv'
  BY <1>17 DEF ReadBody
<1>18. ASSUME NEW t \in Tasks, IoFail(t) PROVE AttemptInv'
  BY <1>18 DEF IoFail, ConnectionError
<1>19. ASSUME NEW t \in Tasks, Close(t) PROVE AttemptInv'
  BY <1>19 DEF Close
<1>20. ASSUME NEW t \in Tasks, TimeoutElapses(t) PROVE AttemptInv'
  BY <1>20 DEF TimeoutElapses
<1>21. CASE PeerWrites
  BY <1>21 DEF PeerWrites, PeerUp
<1>22. CASE PeerStalls
  BY <1>22 DEF PeerStalls, PeerUp
<1>23. CASE PeerGone
  BY <1>23 DEF PeerGone, PeerUp
<1>24. CASE UNCHANGED vars
  BY <1>24 DEF vars
<1> QED
  BY <1>1, <1>2, <1>3, <1>4, <1>5, <1>6, <1>7, <1>8, <1>9, <1>10, <1>11, <1>12, <1>13,
     <1>14, <1>15, <1>16, <1>17, <1>18, <1>19, <1>20, <1>21, <1>22, <1>23, <1>24 DEF Next, Step

\* Taking, keeping and releasing the stream mutex keep LockInv.
LEMMA LockStep == TypeOK /\ LockInv /\ [Next]_vars => LockInv'
<1> SUFFICES ASSUME TypeOK, LockInv, [Next]_vars PROVE LockInv'
  OBVIOUS
<1> USE TasksAssumption, StreamAssumption DEF TypeOK, LockInv, Goto, Return, callVars, chanVars,
    PCs, InIO, Writing, Reading
<1>1. ASSUME NEW t \in Tasks, NEW o \in Ops, Call(t, o) PROVE LockInv'
  BY <1>1 DEF Call, FirstStep
<1>2. ASSUME NEW t \in Tasks, EnsureConnected(t) PROVE LockInv'
  BY <1>2 DEF EnsureConnected
<1>3. ASSUME NEW t \in Tasks, BeginConnect(t) PROVE LockInv'
  BY <1>3 DEF BeginConnect
<1>4. ASSUME NEW t \in Tasks, RetryLoop(t) PROVE LockInv'
  BY <1>4 DEF RetryLoop, GivesUp
<1>5. ASSUME NEW t \in Tasks, TryCheck(t) PROVE LockInv'
  BY <1>5 DEF TryCheck, Connected
<1>6. ASSUME NEW t \in Tasks, TryMark(t) PROVE LockInv'
  BY <1>6 DEF TryMark
<1>7. ASSUME NEW t \in Tasks, DialOk(t) PROVE LockInv'
  BY <1>7 DEF DialOk
<1>8. ASSUME NEW t \in Tasks, DialFail(t) PROVE LockInv'
  BY <1>8 DEF DialFail
<1>9. ASSUME NEW t \in Tasks, AttemptFailed(t) PROVE LockInv'
  BY <1>9 DEF AttemptFailed, CountAttempt
<1>10. ASSUME NEW t \in Tasks, StoreStream(t) PROVE LockInv'
  BY <1>10 DEF StoreStream, Fresh, Connections
<1>11. ASSUME NEW t \in Tasks, MarkConnected(t) PROVE LockInv'
  BY <1>11 DEF MarkConnected, Connected
<1>12. ASSUME NEW t \in Tasks, IoCheck(t) PROVE LockInv'
  BY <1>12 DEF IoCheck, ConnectionError
<1>13. ASSUME NEW t \in Tasks, IoLock(t) PROVE LockInv'
  BY <1>13 DEF IoLock, ConnectionError
<1>14. ASSUME NEW t \in Tasks, WriteHead(t) PROVE LockInv'
  BY <1>14 DEF WriteHead, Connections
<1>15. ASSUME NEW t \in Tasks, WriteBody(t) PROVE LockInv'
  BY <1>15 DEF WriteBody, Connections
<1>16. ASSUME NEW t \in Tasks, ReadHead(t) PROVE LockInv'
  BY <1>16, ChunkTaken DEF ReadHead
<1>17. ASSUME NEW t \in Tasks, ReadBody(t) PROVE LockInv'
  BY <1>17, ChunkTaken DEF ReadBody
<1>18. ASSUME NEW t \in Tasks, IoFail(t) PROVE LockInv'
  BY <1>18 DEF IoFail, ConnectionError, DropStream
<1>19. ASSUME NEW t \in Tasks, Close(t) PROVE LockInv'
  BY <1>19 DEF Close, DropStream
<1>20. ASSUME NEW t \in Tasks, TimeoutElapses(t) PROVE LockInv'
  BY <1>20 DEF TimeoutElapses
<1>21. CASE PeerWrites
  BY <1>21, PeerActs DEF PeerWrites, PeerUp
<1>22. CASE PeerStalls
  BY <1>22, PeerActs DEF PeerStalls, PeerUp
<1>23. CASE PeerGone
  BY <1>23, PeerActs DEF PeerGone, PeerUp
<1>24. CASE UNCHANGED vars
  BY <1>24 DEF vars
<1> QED
  BY <1>1, <1>2, <1>3, <1>4, <1>5, <1>6, <1>7, <1>8, <1>9, <1>10, <1>11, <1>12, <1>13,
     <1>14, <1>15, <1>16, <1>17, <1>18, <1>19, <1>20, <1>21, <1>22, <1>23, <1>24 DEF Next, Step

\* A task only runs the code of its own call.
LEMMA OpStep == TypeOK /\ OpInv /\ [Next]_vars => OpInv'
<1> SUFFICES ASSUME TypeOK, OpInv, [Next]_vars PROVE OpInv'
  OBVIOUS
<1> USE OpsAssumption DEF TypeOK, OpInv, AllOps, Goto, Return, callVars,
    PCs, InIO, Writing, Reading
<1>1. ASSUME NEW t \in Tasks, NEW o \in Ops, Call(t, o) PROVE OpInv'
  BY <1>1 DEF Call, FirstStep
<1>2. ASSUME NEW t \in Tasks, EnsureConnected(t) PROVE OpInv'
  BY <1>2 DEF EnsureConnected
<1>3. ASSUME NEW t \in Tasks, BeginConnect(t) PROVE OpInv'
  BY <1>3 DEF BeginConnect
<1>4. ASSUME NEW t \in Tasks, RetryLoop(t) PROVE OpInv'
  BY <1>4 DEF RetryLoop, GivesUp
<1>5. ASSUME NEW t \in Tasks, TryCheck(t) PROVE OpInv'
  BY <1>5 DEF TryCheck, Connected
<1>6. ASSUME NEW t \in Tasks, TryMark(t) PROVE OpInv'
  BY <1>6 DEF TryMark
<1>7. ASSUME NEW t \in Tasks, DialOk(t) PROVE OpInv'
  BY <1>7 DEF DialOk
<1>8. ASSUME NEW t \in Tasks, DialFail(t) PROVE OpInv'
  BY <1>8 DEF DialFail
<1>9. ASSUME NEW t \in Tasks, AttemptFailed(t) PROVE OpInv'
  BY <1>9 DEF AttemptFailed, CountAttempt
<1>10. ASSUME NEW t \in Tasks, StoreStream(t) PROVE OpInv'
  BY <1>10 DEF StoreStream
<1>11. ASSUME NEW t \in Tasks, MarkConnected(t) PROVE OpInv'
  BY <1>11 DEF MarkConnected, Connected
<1>12. ASSUME NEW t \in Tasks, IoCheck(t) PROVE OpInv'
  BY <1>12 DEF IoCheck, ConnectionError
<1>13. ASSUME NEW t \in Tasks, IoLock(t) PROVE OpInv'
  BY <1>13 DEF IoLock, ConnectionError
<1>14. ASSUME NEW t \in Tasks, WriteHead(t) PROVE OpInv'
  BY <1>14 DEF WriteHead
<1>15. ASSUME NEW t \in Tasks, WriteBody(t) PROVE OpInv'
  BY <1>15 DEF WriteBody
<1>16. ASSUME NEW t \in Tasks, ReadHead(t) PROVE OpInv'
  BY <1>16 DEF ReadHead
<1>17. ASSUME NEW t \in Tasks, ReadBody(t) PROVE OpInv'
  BY <1>17 DEF ReadBody
<1>18. ASSUME NEW t \in Tasks, IoFail(t) PROVE OpInv'
  BY <1>18 DEF IoFail, ConnectionError
<1>19. ASSUME NEW t \in Tasks, Close(t) PROVE OpInv'
  BY <1>19 DEF Close
<1>20. ASSUME NEW t \in Tasks, TimeoutElapses(t) PROVE OpInv'
  BY <1>20 DEF TimeoutElapses
<1>21. CASE PeerWrites
  BY <1>21 DEF PeerWrites, PeerUp
<1>22. CASE PeerStalls
  BY <1>22 DEF PeerStalls, PeerUp
<1>23. CASE PeerGone
  BY <1>23 DEF PeerGone, PeerUp
<1>24. CASE UNCHANGED vars
  BY <1>24 DEF vars
<1> QED
  BY <1>1, <1>2, <1>3, <1>4, <1>5, <1>6, <1>7, <1>8, <1>9, <1>10, <1>11, <1>12, <1>13,
     <1>14, <1>15, <1>16, <1>17, <1>18, <1>19, <1>20, <1>21, <1>22, <1>23, <1>24 DEF Next, Step

\* No step tears a frame or interleaves two.
LEMMA FramingStep == TypeOK /\ LockInv /\ OpInv /\ Framing /\ [Next]_vars => Framing'
<1> SUFFICES ASSUME TypeOK, LockInv, OpInv, Framing, [Next]_vars PROVE Framing'
  OBVIOUS
<1> USE TasksAssumption, StreamAssumption
    DEF TypeOK, LockInv, Framing, AtBoundary, Goto, Return, callVars, chanVars,
    PCs, InIO, Writing, Reading
<1>1. ASSUME NEW t \in Tasks, NEW o \in Ops, Call(t, o) PROVE Framing'
  BY <1>1 DEF Call, FirstStep
<1>2. ASSUME NEW t \in Tasks, EnsureConnected(t) PROVE Framing'
  BY <1>2 DEF EnsureConnected
<1>3. ASSUME NEW t \in Tasks, BeginConnect(t) PROVE Framing'
  BY <1>3 DEF BeginConnect
<1>4. ASSUME NEW t \in Tasks, RetryLoop(t) PROVE Framing'
  BY <1>4 DEF RetryLoop, GivesUp
<1>5. ASSUME NEW t \in Tasks, TryCheck(t) PROVE Framing'
  BY <1>5 DEF TryCheck, Connected
<1>6. ASSUME NEW t \in Tasks, TryMark(t) PROVE Framing'
  BY <1>6 DEF TryMark
<1>7. ASSUME NEW t \in Tasks, DialOk(t) PROVE Framing'
  BY <1>7 DEF DialOk
<1>8. ASSUME NEW t \in Tasks, DialFail(t) PROVE Framing'
  BY <1>8 DEF DialFail
<1>9. ASSUME NEW t \in Tasks, AttemptFailed(t) PROVE Framing'
  BY <1>9 DEF AttemptFailed, CountAttempt
<1>10. ASSUME NEW t \in Tasks, StoreStream(t) PROVE Framing'
  BY <1>10 DEF StoreStream, Fresh, Connections
<1>11. ASSUME NEW t \in Tasks, MarkConnected(t) PROVE Framing'
  BY <1>11 DEF MarkConnected, Connected
<1>12. ASSUME NEW t \in Tasks, IoCheck(t) PROVE Framing'
  BY <1>12 DEF IoCheck, ConnectionError
<1>13. ASSUME NEW t \in Tasks, IoLock(t) PROVE Framing'
  BY <1>13 DEF IoLock, ConnectionError
<1>14. ASSUME NEW t \in Tasks, WriteHead(t) PROVE Framing'
  BY <1>14 DEF WriteHead, Connections
<1>15. ASSUME NEW t \in Tasks, WriteBody(t) PROVE Framing'
  BY <1>15 DEF WriteBody, Connections
<1>16. ASSUME NEW t \in Tasks, ReadHead(t) PROVE Framing'
  <2>1. /\ pc[t] = "r_head" /\ stream # NoStream /\ TakeChunk
        /\ pc' = [pc EXCEPT ![t] = "r_body"] /\ UNCHANGED streamLock
        /\ streamLock = t /\ \A u \in Tasks \ {t} : pc[u] \notin InIO
    BY <1>16 DEF ReadHead
  <2>2. stream'.inMid = ~stream.inMid /\ stream'.outMid = stream.outMid
    BY <2>1, ChunkTaken
  <2> QED
    BY <2>1, <2>2
<1>17. ASSUME NEW t \in Tasks, ReadBody(t) PROVE Framing'
  <2>1. /\ pc[t] = "r_body" /\ stream # NoStream /\ TakeChunk
        /\ pc' = [pc EXCEPT ![t] = "idle"]
        /\ \A u \in Tasks \ {t} : pc[u] \notin InIO
    BY <1>17 DEF ReadBody
  <2>2. stream'.inMid = ~stream.inMid /\ stream'.outMid = stream.outMid
    BY <2>1, ChunkTaken
  <2> QED
    BY <2>1, <2>2
<1>18. ASSUME NEW t \in Tasks, IoFail(t) PROVE Framing'
  BY <1>18 DEF IoFail, ConnectionError, DropStream
<1>19. ASSUME NEW t \in Tasks, Close(t) PROVE Framing'
  BY <1>19 DEF Close, DropStream
<1>20. ASSUME NEW t \in Tasks, TimeoutElapses(t) PROVE Framing'
  BY <1>20 DEF TimeoutElapses, OpInv, AllOps
<1>21. CASE PeerWrites
  BY <1>21, PeerActs DEF PeerWrites, PeerUp
<1>22. CASE PeerStalls
  BY <1>22, PeerActs DEF PeerStalls, PeerUp
<1>23. CASE PeerGone
  BY <1>23, PeerActs DEF PeerGone, PeerUp
<1>24. CASE UNCHANGED vars
  BY <1>24 DEF vars
<1> QED
  BY <1>1, <1>2, <1>3, <1>4, <1>5, <1>6, <1>7, <1>8, <1>9, <1>10, <1>11, <1>12, <1>13,
     <1>14, <1>15, <1>16, <1>17, <1>18, <1>19, <1>20, <1>21, <1>22, <1>23, <1>24 DEF Next, Step

\* Only a whole written frame makes a send return Ok.
LEMMA OutcomeStep == TypeOK /\ OpInv /\ SendOutcome /\ [Next]_vars => SendOutcome'
<1> SUFFICES ASSUME TypeOK, OpInv, SendOutcome, [Next]_vars PROVE SendOutcome'
  OBVIOUS
<1> USE DEF TypeOK, OpInv, SendOutcome, Goto, Return, callVars,
    PCs, InIO, Writing, Reading
<1>1. ASSUME NEW t \in Tasks, NEW o \in Ops, Call(t, o) PROVE SendOutcome'
  BY <1>1 DEF Call, FirstStep
<1>2. ASSUME NEW t \in Tasks, EnsureConnected(t) PROVE SendOutcome'
  BY <1>2 DEF EnsureConnected
<1>3. ASSUME NEW t \in Tasks, BeginConnect(t) PROVE SendOutcome'
  BY <1>3 DEF BeginConnect
<1>4. ASSUME NEW t \in Tasks, RetryLoop(t) PROVE SendOutcome'
  BY <1>4 DEF RetryLoop, GivesUp
<1>5. ASSUME NEW t \in Tasks, TryCheck(t) PROVE SendOutcome'
  BY <1>5 DEF TryCheck, Connected
<1>6. ASSUME NEW t \in Tasks, TryMark(t) PROVE SendOutcome'
  BY <1>6 DEF TryMark
<1>7. ASSUME NEW t \in Tasks, DialOk(t) PROVE SendOutcome'
  BY <1>7 DEF DialOk
<1>8. ASSUME NEW t \in Tasks, DialFail(t) PROVE SendOutcome'
  BY <1>8 DEF DialFail
<1>9. ASSUME NEW t \in Tasks, AttemptFailed(t) PROVE SendOutcome'
  BY <1>9 DEF AttemptFailed, CountAttempt
<1>10. ASSUME NEW t \in Tasks, StoreStream(t) PROVE SendOutcome'
  BY <1>10 DEF StoreStream
<1>11. ASSUME NEW t \in Tasks, MarkConnected(t) PROVE SendOutcome'
  BY <1>11 DEF MarkConnected, Connected
<1>12. ASSUME NEW t \in Tasks, IoCheck(t) PROVE SendOutcome'
  BY <1>12 DEF IoCheck, ConnectionError
<1>13. ASSUME NEW t \in Tasks, IoLock(t) PROVE SendOutcome'
  BY <1>13 DEF IoLock, ConnectionError
<1>14. ASSUME NEW t \in Tasks, WriteHead(t) PROVE SendOutcome'
  BY <1>14 DEF WriteHead
<1>15. ASSUME NEW t \in Tasks, WriteBody(t) PROVE SendOutcome'
  BY <1>15 DEF WriteBody
<1>16. ASSUME NEW t \in Tasks, ReadHead(t) PROVE SendOutcome'
  BY <1>16 DEF ReadHead
<1>17. ASSUME NEW t \in Tasks, ReadBody(t) PROVE SendOutcome'
  BY <1>17 DEF ReadBody
<1>18. ASSUME NEW t \in Tasks, IoFail(t) PROVE SendOutcome'
  BY <1>18 DEF IoFail, ConnectionError
<1>19. ASSUME NEW t \in Tasks, Close(t) PROVE SendOutcome'
  BY <1>19 DEF Close
<1>20. ASSUME NEW t \in Tasks, TimeoutElapses(t) PROVE SendOutcome'
  BY <1>20 DEF TimeoutElapses
<1>21. CASE PeerWrites
  BY <1>21 DEF PeerWrites, PeerUp
<1>22. CASE PeerStalls
  BY <1>22 DEF PeerStalls, PeerUp
<1>23. CASE PeerGone
  BY <1>23 DEF PeerGone, PeerUp
<1>24. CASE UNCHANGED vars
  BY <1>24 DEF vars
<1> QED
  BY <1>1, <1>2, <1>3, <1>4, <1>5, <1>6, <1>7, <1>8, <1>9, <1>10, <1>11, <1>12, <1>13,
     <1>14, <1>15, <1>16, <1>17, <1>18, <1>19, <1>20, <1>21, <1>22, <1>23, <1>24 DEF Next, Step

\* The invariant IInv holds in every behaviour.
LEMMA Invariance == Spec => []IInv
<1>1. Init => IInv
  BY TasksAssumption, BoundsAssumption
  DEF Init, IInv, TypeOK, AttemptInv, LockInv, OpInv, Framing, SendOutcome, States, PCs,
      InIO, Writing, Reading
<1>2. IInv /\ [Next]_vars => IInv'
  BY TypeStep, AttemptStep, LockStep, OpStep, FramingStep, OutcomeStep DEF IInv
<1> QED
  BY <1>1, <1>2, PTL DEF Spec

(***************************************************************************)
(* The variables keep their types in every behaviour; in particular the    *)
(* retry loop never counts past max_attempts.                              *)
(***************************************************************************)
THEOREM TypeCorrect == Spec => []TypeOK
BY Invariance, PTL DEF IInv

(***************************************************************************)
(* Without timers, no interleaving of connects, sends, receives and        *)
(* disconnects by any number of tasks, and no failure in the middle of a   *)
(* frame, makes a reader or a writer start inside a frame.                 *)
(***************************************************************************)
THEOREM FramingCorrect == Spec => []Framing
BY Invariance, PTL DEF IInv

(***************************************************************************)
(* send_with_reconnect reports what happened: Ok after the frame was       *)
(* written once, an error when no whole frame was written.                 *)
(***************************************************************************)
THEOREM SendOutcomeCorrect == Spec => []SendOutcome
BY Invariance, PTL DEF IInv

-----------------------------------------------------------------------------
(* HttpServing.                                                            *)

Lines == {RequestLine(r) : r \in Requests}
         \union {PortLine(c, p) : c \in PortCallers, p \in Ports \union {NoOne}}

Once(s) == \A i, j \in DOMAIN s : s[i] = s[j] => i = j

\* A request is at most once in what is still to be read, and in the
\* broadcast channel.
InputInv ==
    /\ input \in Seq(Lines)
    /\ \A i, j \in DOMAIN input : input[i] = input[j] /\ input[i].is = "request" => i = j
InboxInv == Once(inbox)

Oks == {r \in Requests : client[r] = "Ok"}
Taken == {got[r] : r \in Oks}

\* A response is on its way to the client or was taken by one call; a call
\* that has not begun has sent nothing.
ResponseInv ==
    OverTcp =>
        /\ \A r \in Requests : client[r] = "idle" <=> req[r] = "new"
        /\ Once(back)
        /\ \A i \in DOMAIN back : req[back[i]] = "answered" /\ back[i] \notin Taken
        /\ \A r \in Oks : req[got[r]] = "answered"
        /\ \A r, s \in Oks : got[r] = got[s] => r = s
        /\ IsFiniteSet(Oks)

\* Nothing but its own response is left for a call that is alone.
AloneInv ==
    OverTcp => \A r \in alone :
        /\ client[r] # "idle"
        /\ Calls(r) => \A s \in Requests \ {r} : s \in Taken \/ req[s] \in {"new", "lost"}

NoPortLine == \A i \in DOMAIN input : input[i].is # "port"

\* Where the answer to the sole call c is.
WithOrchestrator(c) == asked = <<c>> /\ NoPortLine /\ allocated = NoOne /\ loop # "port" /\ slot
Arriving(c) ==
    /\ asked = <<>> /\ allocated = NoOne /\ loop # "port" /\ slot
    /\ \E i \in DOMAIN input :
        input[i] = PortLine(c, granted[c]) /\ \A j \in DOMAIN input : input[j].is = "port" => j = i
Arrived(c) == asked = <<>> /\ NoPortLine /\ allocated = granted[c]
              /\ ((loop = "port" /\ slot) \/ (loop # "port" /\ ~slot))

SoleCall(c) ==
    /\ \A d \in PortCallers \ {c} : ~Calling(d)
    /\ port[c].pc # "lock"
    /\ port[c].pc = "send" =>
        asked = <<>> /\ NoPortLine /\ allocated = NoOne /\ loop # "port" /\ slot
    /\ port[c].pc = "wait" => WithOrchestrator(c) \/ Arriving(c) \/ Arrived(c)
    /\ port[c].pc = "store" => asked = <<>> /\ port[c].port = granted[c]

SoleInv == \A c \in sole : Calling(c) => SoleCall(c)

\* serve_with_options has neither a task nor asked for a port before it is
\* called, and nobody asks for one over TCP.
ServeInv ==
    /\ serve = "off" /\ kind # "http_ipc" => task = "off"
    /\ \A c \in PortCallers : (c = "serve" /\ serve = "off") \/ OverTcp => ~Calling(c)

\* Nobody is in line twice.
LineInv == Once(line)

HttpInv ==
    /\ HttpTypeOK /\ InputInv /\ InboxInv /\ LineInv
    /\ ResponseInv /\ AloneInv /\ AloneGetsOwn /\ SoleInv /\ ServeInv

-----------------------------------------------------------------------------
(* Lines and sequences.                                                    *)

LEMMA LineFacts ==
    /\ \A r, s : RequestLine(r) = RequestLine(s) => r = s
    /\ \A c, d, p, q : PortLine(c, p) = PortLine(d, q) => c = d /\ p = q
    /\ \A r, c, p : RequestLine(r) # PortLine(c, p)
    /\ \A r : RequestLine(r).is = "request"
    /\ \A c, p : PortLine(c, p).is = "port"
BY DEF RequestLine, PortLine

LEMMA LineSets ==
    /\ \A r \in Requests : RequestLine(r) \in Lines
    /\ \A c \in PortCallers, p \in Ports \union {NoOne} : PortLine(c, p) \in Lines
    /\ \A x \in Lines : \/ x.is = "request" /\ \E r \in Requests : x = RequestLine(r)
                        \/ x.is = "port" /\ \E c \in PortCallers, p \in Ports \union {NoOne} : x = PortLine(c, p)
BY LineFacts DEF Lines

\* What Append and Tail do to the members of a sequence and their places.
LEMMA AppendIndex ==
    ASSUME NEW S, NEW q \in Seq(S), NEW e \in S
    PROVE  /\ Append(q, e) \in Seq(S) /\ Len(Append(q, e)) = Len(q) + 1
           /\ DOMAIN q = 1..Len(q) /\ DOMAIN Append(q, e) = 1..(Len(q) + 1)
           /\ \A i \in DOMAIN Append(q, e) :
                \/ i \in DOMAIN q /\ i # Len(q) + 1 /\ Append(q, e)[i] = q[i]
                \/ i = Len(q) + 1 /\ Append(q, e)[i] = e
           /\ \A i \in DOMAIN q : i \in DOMAIN Append(q, e) /\ Append(q, e)[i] = q[i]
OBVIOUS

LEMMA TailIndex ==
    ASSUME NEW S, NEW q \in Seq(S), q # <<>>
    PROVE  /\ Head(q) \in S /\ Head(q) = q[1] /\ Tail(q) \in Seq(S)
           /\ Len(q) \in Nat /\ Len(q) >= 1 /\ Len(Tail(q)) = Len(q) - 1
           /\ DOMAIN q = 1..Len(q) /\ DOMAIN Tail(q) = 1..(Len(q) - 1) /\ 1 \in DOMAIN q
           /\ \A i \in DOMAIN Tail(q) : i + 1 \in DOMAIN q /\ i + 1 # 1 /\ Tail(q)[i] = q[i + 1]
           /\ \A i \in DOMAIN q : i = 1 \/ (i - 1 \in DOMAIN Tail(q) /\ Tail(q)[i - 1] = q[i])
BY HeadTailProperties, EmptySeq, LenProperties

LEMMA MembersOfAppend ==
    ASSUME NEW S, NEW q \in Seq(S), NEW e \in S, NEW x
    PROVE  Contains(Append(q, e), x) <=> Contains(q, x) \/ x = e
BY AppendIndex DEF Contains

LEMMA MembersOfTail ==
    ASSUME NEW S, NEW q \in Seq(S), q # <<>>, NEW x
    PROVE  /\ Head(q) # x => (Contains(Tail(q), x) <=> Contains(q, x))
           /\ Head(q) = x => Contains(q, x)
           /\ Contains(Tail(q), x) => Contains(q, x)
           /\ (\A i, j \in DOMAIN q : q[i] = q[j] /\ q[i] = x => i = j) /\ Head(q) = x
                => ~Contains(Tail(q), x)
<1> USE TailIndex
<1>1. Head(q) # x => (Contains(Tail(q), x) => Contains(q, x))
  BY DEF Contains
<1>2. Head(q) # x => (Contains(q, x) => Contains(Tail(q), x))
  <2>1. SUFFICES ASSUME Head(q) # x, NEW i \in 1..Len(q), q[i] = x PROVE Contains(Tail(q), x)
    BY DEF Contains
  <2>2. i # 1 /\ i - 1 \in DOMAIN Tail(q) /\ Tail(q)[i - 1] = x
    BY <2>1
  <2> QED
    BY <2>2 DEF Contains
<1>3. Head(q) = x => Contains(q, x)
  BY DEF Contains
<1>4. Contains(Tail(q), x) => Contains(q, x)
  BY DEF Contains
<1>5. (\A i, j \in DOMAIN q : q[i] = q[j] /\ q[i] = x => i = j) /\ Head(q) = x
        => ~Contains(Tail(q), x)
  BY DEF Contains
<1> QED
  BY <1>1, <1>2, <1>3, <1>4, <1>5

LEMMA EmptyHasNone == \A x : ~Contains(<<>>, x)
BY DEF Contains

-----------------------------------------------------------------------------
(* What is still to be read.                                               *)

InputGroup == RequestsTypeOK /\ InputInv

\* A step that neither sends a request nor reads one.
LEMMA InputKept ==
    ASSUME InputGroup, UNCHANGED <<kind, malformed, input>>, req' \in [Requests -> ReqStates],
           \A r \in Requests : req'[r] = "input" <=> req[r] = "input"
    PROVE  InputGroup'
BY DEF InputGroup, RequestsTypeOK, InputInv

LEMMA InputSent ==
    ASSUME InputGroup, NEW r \in Requests, Sent(r)
    PROVE  InputGroup'
<1> USE DEF InputGroup, RequestsTypeOK, InputInv, Sent, Becomes
<1>1. /\ RequestLine(r) \in Lines /\ input' = Append(input, RequestLine(r))
      /\ ~Contains(input, RequestLine(r)) /\ "input" \in ReqStates
  BY LineSets DEF ReqStates
<1>2. input' \in Seq(Lines)
  BY <1>1, AppendIndex
<1>3. req' \in [Requests -> ReqStates]
  BY <1>1
<1>4. ASSUME NEW s \in Requests PROVE Contains(input', RequestLine(s)) <=> req'[s] = "input"
  <2>1. Contains(input', RequestLine(s)) <=> Contains(input, RequestLine(s)) \/ RequestLine(s) = RequestLine(r)
    BY <1>1, MembersOfAppend
  <2> QED
    BY <2>1, LineFacts
<1>5. ASSUME NEW i \in DOMAIN input', NEW j \in DOMAIN input',
             input'[i] = input'[j], input'[i].is = "request"
      PROVE  i = j
  <2>1. \A k \in DOMAIN input : input[k] # RequestLine(r)
    BY <1>1, LenProperties DEF Contains
  <2> QED
    BY <1>1, <1>5, <2>1, AppendIndex
<1> QED
  BY <1>2, <1>3, <1>4, <1>5

LEMMA InputGetsPort ==
    ASSUME InputGroup, NEW c \in PortCallers, NEW p \in Ports \union {NoOne},
           input' = Append(input, PortLine(c, p)), UNCHANGED <<kind, malformed, req>>
    PROVE  InputGroup'
<1> USE DEF InputGroup, RequestsTypeOK, InputInv
<1>1. PortLine(c, p) \in Lines
  BY LineSets
<1>2. input' \in Seq(Lines)
  BY <1>1, AppendIndex
<1>3. ASSUME NEW s \in Requests PROVE Contains(input', RequestLine(s)) <=> req'[s] = "input"
  <2>1. Contains(input', RequestLine(s)) <=> Contains(input, RequestLine(s)) \/ RequestLine(s) = PortLine(c, p)
    BY <1>1, MembersOfAppend
  <2> QED
    BY <2>1, LineFacts
<1>4. ASSUME NEW i \in DOMAIN input', NEW j \in DOMAIN input',
             input'[i] = input'[j], input'[i].is = "request"
      PROVE  i = j
  BY <1>1, <1>4, AppendIndex, LineFacts
<1> QED
  BY <1>2, <1>3, <1>4

\* The first line x is read; if it is a request it is not there any more.
LEMMA InputRead ==
    ASSUME InputGroup, NEW x, Arrives(x), UNCHANGED <<kind, malformed>>,
           req' \in [Requests -> ReqStates],
           \A s \in Requests : IF x = RequestLine(s) THEN req'[s] # "input"
                               ELSE req'[s] = "input" <=> req[s] = "input"
    PROVE  InputGroup'
<1> USE DEF InputGroup, RequestsTypeOK, InputInv, Arrives
<1>1. input' \in Seq(Lines)
  BY TailIndex
<1>2. ASSUME NEW s \in Requests PROVE Contains(input', RequestLine(s)) <=> req'[s] = "input"
  <2>1. \A i, j \in DOMAIN input : input[i] = input[j] /\ input[i] = RequestLine(s) => i = j
    BY LineFacts
  <2> QED
    BY <2>1, MembersOfTail
<1>3. ASSUME NEW i \in DOMAIN input', NEW j \in DOMAIN input',
             input'[i] = input'[j], input'[i].is = "request"
      PROVE  i = j
  BY <1>3, TailIndex
<1> QED
  BY <1>1, <1>2, <1>3

LEMMA InputEmptied ==
    ASSUME InputGroup, UNCHANGED <<kind, malformed>>, input' = <<>>,
           req' = [r \in Requests |-> IF req[r] = "input" THEN "lost" ELSE req[r]]
    PROVE  InputGroup'
<1> USE DEF InputGroup, RequestsTypeOK, InputInv
<1>1. req' \in [Requests -> ReqStates] /\ \A r \in Requests : req'[r] # "input"
  BY DEF ReqStates
<1>2. input' \in Seq(Lines) /\ DOMAIN input' = {}
  BY EmptySeq
<1> QED
  BY <1>1, <1>2, EmptyHasNone

-----------------------------------------------------------------------------
(* The steps.                                                              *)

CallGoesOn(c) == Unblocked(c) \/ SendPortRequest(c) \/ Poll(c)
PortOnly == RequestPort \/ (\E c \in PortCallers : CallGoesOn(c)) \/ StorePort \/ EmptySlot
ServeOnly == ServeWithOptions \/ Bind \/ ServeReturns \/ StartHttpIpcServer \/ LoopEnds

IpcStep ==
    \/ \E r \in Requests : Ask(r)
    \/ AnswerPort /\ UNCHANGED servingVars
    \/ OnPortResponse /\ UNCHANGED servingVars
    \/ PortOnly /\ UNCHANGED <<requestVars, servingVars>>
    \/ OnHttpRequest \/ ServeOnly \/ ServeIpcStep
TcpStep ==
    \/ ServerStep \/ StartHttpServer \/ Shutdown
    \/ \E r \in Requests : HandleRequest(r) \/ SendResponse(r) \/ ClientStep(r)

LEMMA Steps ==
    ASSUME HttpNext
    PROVE  \/ OverIpc /\ IpcStep /\ UNCHANGED tcpVars
           \/ OverTcp /\ TcpStep /\ UNCHANGED <<portVars, servingVars>>
BY DEF HttpNext, InIpc, InTcp, InNegotiation, Orchestrator, AppCalls, PortStep, PortWrite, PortLoop, HttpLoop,
       PortCallStep, CallGoesOn,
       Serving, ServeIpc, TcpServer, TcpHandles, TcpResponds, TcpOthers, IpcStep, TcpStep,
       PortOnly, ServeOnly

\* The kind of server does not change, nor what a request is.
LEMMA KindKept == ASSUME [HttpNext]_httpVars PROVE kind' = kind /\ malformed' = malformed
<1>1. ASSUME IpcStep PROVE kind' = kind /\ malformed' = malformed
  BY <1>1 DEF IpcStep, Ask, Sent, AnswerPort, OnPortResponse, requestVars, OnHttpRequest, ServeOnly,
     ServeWithOptions, Bind, ServeReturns, StartHttpIpcServer, LoopEnds, ServeIpcStep, TaskGoesOn
<1>2. ASSUME TcpStep PROVE kind' = kind /\ malformed' = malformed
  BY <1>2 DEF TcpStep, ServerStep, ServerLocks, ServerReceives, ServerReceiveFails, StartHttpServer,
     Shutdown, HandleRequest, SendResponse, ClientStep, ClientSends, Sent, ClientFails, ClientLocks,
     ClientReceives, ClientGivesUp, requestVars
<1> QED
  BY <1>1, <1>2, Steps DEF httpVars, requestVars

LEMMA InputStep == ASSUME InputGroup, ServingTypeOK, PortTypeOK, [HttpNext]_httpVars PROVE InputGroup'
<1> USE DEF requestVars
<1> kind' = kind /\ malformed' = malformed
  BY KindKept
<1>0. req \in [Requests -> ReqStates]
  BY DEF InputGroup, RequestsTypeOK
<1>1. ASSUME UNCHANGED requestVars PROVE InputGroup'
  BY <1>0, <1>1, InputKept
<1>2. ASSUME IpcStep PROVE InputGroup'
  <2>1. ASSUME NEW r \in Requests, Ask(r) PROVE InputGroup'
    BY <2>1, InputSent DEF Ask
  <2>2. CASE AnswerPort /\ UNCHANGED servingVars
    <3>1. PICK p \in Ports \union {NoOne} : input' = Append(input, PortLine(Head(asked), p))
      BY <2>2 DEF AnswerPort
    <3>2. Head(asked) \in PortCallers
      BY <2>2, TailIndex DEF AnswerPort, PortTypeOK
    <3> QED
      BY <2>2, <3>1, <3>2, InputGetsPort DEF AnswerPort
  <2>3. CASE OnPortResponse /\ UNCHANGED servingVars
    <3>1. PICK c \in PortCallers, p \in Ports \union {NoOne} : Arrives(PortLine(c, p))
      BY <2>3 DEF OnPortResponse
    <3>2. req' = req
      BY <2>3 DEF OnPortResponse
    <3> QED
      BY <1>0, <3>1, <3>2, InputRead, LineFacts
  <2>4. CASE OnHttpRequest
    <3>1. PICK r \in Requests : /\ Arrives(RequestLine(r))
                                /\ IF Subscribed THEN Broadcast(r)
                                   ELSE Becomes(r, "lost") /\ UNCHANGED <<inbox, lagged>>
      BY <2>4 DEF OnHttpRequest
    <3>2. /\ req' \in [Requests -> ReqStates]
          /\ req'[r] # "input" /\ \A s \in Requests \ {r} : req'[s] = "input" <=> req[s] = "input"
      <4>1. CASE ~Subscribed
        BY <1>0, <3>1, <4>1 DEF Becomes, ReqStates
      <4>2. CASE Subscribed /\ Len(inbox) < Cap
        BY <1>0, <3>1, <4>2 DEF Becomes, Broadcast, ReqStates
      <4>3. CASE Subscribed /\ ~(Len(inbox) < Cap)
        <5>1. inbox # <<>> /\ Contains(inbox, Head(inbox)) /\ Head(inbox) \in Requests
          BY <4>3, CapAssumption, MembersOfTail, TailIndex, EmptySeq DEF ServingTypeOK
        <5>2. req[Head(inbox)] = "queued"
          BY <5>1 DEF ServingTypeOK
        <5>3. req' = [req EXCEPT ![r] = "queued", ![Head(inbox)] = "lost"]
          BY <3>1, <4>3 DEF Broadcast
        <5> QED
          BY <1>0, <5>1, <5>2, <5>3 DEF ReqStates
      <4> QED
        BY <4>1, <4>2, <4>3
    <3> QED
      BY <3>1, <3>2, InputRead, LineFacts
  <2>5. CASE ServeIpcStep
    <3>1. input' = input
      BY <2>5 DEF ServeIpcStep, TaskGoesOn
    <3>2. /\ req' \in [Requests -> ReqStates]
          /\ \A s \in Requests : req'[s] = "input" <=> req[s] = "input"
      <4>1. ASSUME NEW how, EndTask(how) PROVE <3>2
        BY <1>0, <4>1 DEF EndTask, ReqStates
      <4>2. CASE inbox # <<>> /\ Becomes(Head(inbox), "taken")
        <5>1. Contains(inbox, Head(inbox)) /\ Head(inbox) \in Requests
          BY <4>2, MembersOfTail, TailIndex DEF ServingTypeOK
        <5>2. req[Head(inbox)] = "queued"
          BY <5>1 DEF ServingTypeOK
        <5> QED
          BY <1>0, <4>2, <5>1, <5>2 DEF Becomes, ReqStates
      <4>3. CASE TaskAnswers
        BY <1>0, <4>3 DEF TaskAnswers, ReqStates
      <4>4. CASE TaskSubscribes \/ TaskHandles
        BY <1>0, <4>4 DEF TaskSubscribes, TaskHandles
      <4> QED
        BY <2>5, <4>1, <4>2, <4>3, <4>4 DEF ServeIpcStep, TaskGoesOn, TaskReceives, TaskFails
    <3> QED
      BY <3>1, <3>2, InputKept
  <2> QED
    BY <1>1, <1>2, <2>1, <2>2, <2>3, <2>4, <2>5
    DEF IpcStep, ServeOnly, ServeWithOptions, Bind, ServeReturns, StartHttpIpcServer, LoopEnds
<1>3. ASSUME TcpStep PROVE InputGroup'
  <2>1. CASE ServerReceives
    <3>1. PICK r \in Requests : Arrives(RequestLine(r))
                                /\ Becomes(r, IF r \in malformed THEN "lost" ELSE "taken")
      BY <2>1 DEF ServerReceives
    <3>2. /\ req' \in [Requests -> ReqStates]
          /\ req'[r] # "input" /\ \A s \in Requests \ {r} : req'[s] = "input" <=> req[s] = "input"
      BY <1>0, <3>1 DEF Becomes, ReqStates
    <3> QED
      BY <3>1, <3>2, InputRead, LineFacts
  <2>2. CASE ServerReceiveFails
    BY <2>2, InputEmptied DEF ServerReceiveFails
  <2>3. ASSUME NEW r \in Requests, HandleRequest(r) \/ SendResponse(r) \/ ClientFails(r) PROVE InputGroup'
    <3>1. input' = input /\ req[r] # "input"
      BY <2>3 DEF HandleRequest, SendResponse, ClientFails
    <3>2. PICK st \in ReqStates \ {"input"} : req' = [req EXCEPT ![r] = st]
      BY <2>3 DEF HandleRequest, SendResponse, ClientFails, Becomes, ReqStates
    <3> QED
      BY <1>0, <3>1, <3>2, InputKept
  <2>4. ASSUME NEW r \in Requests, ClientSends(r) PROVE InputGroup'
    BY <2>4, InputSent DEF ClientSends
  <2> QED
    BY <1>1, <1>3, <2>1, <2>2, <2>3, <2>4
    DEF TcpStep, ServerStep, ServerLocks, StartHttpServer, Shutdown, ClientStep, ClientLocks,
        ClientReceives, ClientGivesUp
<1> QED
  BY <1>1, <1>2, <1>3, Steps DEF httpVars

-----------------------------------------------------------------------------
(* The broadcast channel and the servers over stdin and stdout.            *)

InboxGroup == ServingTypeOK /\ InboxInv

LEMMA InboxKept ==
    ASSUME InboxGroup, UNCHANGED inbox,
           \A r \in Requests : req'[r] = "queued" <=> req[r] = "queued",
           lagged' \in BOOLEAN, task' \in {"off", "spawned", "waiting", "handling", "writing", "ended"},
           ended' \in {"none", "Ok", "Err"}, task' = "ended" <=> ended' # "none",
           serve' \in {"off", "negotiate", "both", "ipc_only", "Ok", "Err"}
    PROVE  InboxGroup'
BY DEF InboxGroup, ServingTypeOK, InboxInv

\* What has arrived was among what was still to be read.
LEMMA ReadRequest ==
    ASSUME InputGroup, NEW r \in Requests, Arrives(RequestLine(r)) PROVE req[r] = "input"
BY MembersOfTail DEF InputGroup, InputInv, RequestsTypeOK, Arrives

LEMMA InboxBroadcast ==
    ASSUME InboxGroup, req \in [Requests -> ReqStates], NEW r \in Requests, req[r] = "input",
           Broadcast(r), UNCHANGED <<task, ended, serve>>
    PROVE  InboxGroup'
<1> USE DEF InboxGroup, ServingTypeOK, InboxInv, Broadcast, Once
<1>1. ~Contains(inbox, r) /\ \A i \in DOMAIN inbox : inbox[i] # r
  BY LenProperties DEF Contains
<1>2. CASE Len(inbox) < Cap
  <2>1. inbox' = Append(inbox, r) /\ req' = [req EXCEPT ![r] = "queued"] /\ lagged' = lagged
    BY <1>2 DEF Becomes
  <2>2. inbox' \in Seq(Requests) /\ Len(inbox') <= Cap
    BY <1>2, <2>1, AppendIndex, CapAssumption
  <2>3. \A s \in Requests : Contains(inbox', s) <=> req'[s] = "queued"
    BY <2>1, MembersOfAppend
  <2>4. Once(inbox')
    BY <1>1, <2>1, AppendIndex
  <2> QED
    BY <2>1, <2>2, <2>3, <2>4
<1>3. CASE ~(Len(inbox) < Cap)
  <2> DEFINE rest == Tail(inbox)
  <2>1. /\ inbox' = Append(rest, r) /\ req' = [req EXCEPT ![r] = "queued", ![Head(inbox)] = "lost"]
        /\ lagged' = TRUE
    BY <1>3
  <2>2. inbox # <<>>
    BY <1>3, CapAssumption, EmptySeq
  <2>3. /\ rest \in Seq(Requests) /\ Len(rest) = Len(inbox) - 1 /\ Once(rest)
        /\ Head(inbox) \in Requests /\ Head(inbox) # r /\ Len(inbox) \in Nat
        /\ \A i \in DOMAIN rest : rest[i] # r
    BY <1>1, <2>2, TailIndex
  <2>4. \A s \in Requests : Contains(rest, s) <=> Contains(inbox, s) /\ s # Head(inbox)
    BY <2>2, MembersOfTail
  <2> HIDE DEF rest
  <2>5. inbox' \in Seq(Requests) /\ Len(inbox') <= Cap
    BY <1>3, <2>1, <2>3, AppendIndex, CapAssumption
  <2>6. ASSUME NEW s \in Requests PROVE Contains(inbox', s) <=> req'[s] = "queued"
    <3>1. Contains(inbox', s) <=> Contains(rest, s) \/ s = r
      BY <2>1, <2>3, MembersOfAppend
    <3>2. req'[s] = IF s = Head(inbox) THEN "lost" ELSE IF s = r THEN "queued" ELSE req[s]
      BY <2>1, <2>3
    <3> QED
      BY <2>3, <2>4, <3>1, <3>2
  <2>7. Once(inbox')
    BY <2>1, <2>3, AppendIndex
  <2> QED
    BY <2>1, <2>5, <2>6, <2>7
<1> QED
  BY <1>2, <1>3

LEMMA InboxServed ==
    ASSUME InboxGroup, req \in [Requests -> ReqStates], ServeIpcStep
    PROVE  InboxGroup'
<1> USE DEF ServeIpcStep, TaskGoesOn
<1>1. ASSUME NEW how \in {"Ok", "Err"}, EndTask(how) PROVE InboxGroup'
  <2>1. /\ inbox' = <<>> /\ \A r \in Requests : req'[r] # "queued"
        /\ task' = "ended" /\ ended' = how /\ UNCHANGED <<lagged, serve>>
    BY <1>1 DEF EndTask
  <2>2. inbox' \in Seq(Requests) /\ Len(inbox') = 0 /\ DOMAIN inbox' = {}
    BY <2>1, EmptySeq
  <2> QED
    BY <2>1, <2>2, EmptyHasNone, CapAssumption DEF InboxGroup, ServingTypeOK, InboxInv, Once
<1>2. CASE task = "waiting" /\ inbox # <<>> /\ inbox' = Tail(inbox) /\ Becomes(Head(inbox), "taken")
           /\ task' = "handling" /\ UNCHANGED <<lagged, ended>>
  <2> USE DEF InboxGroup, ServingTypeOK, InboxInv, Once
  <2>1. /\ inbox' \in Seq(Requests) /\ Len(inbox') <= Cap /\ Once(inbox') /\ Head(inbox) \in Requests
    BY <1>2, TailIndex, CapAssumption
  <2>2. \A s \in Requests : Contains(inbox', s) <=> Contains(inbox, s) /\ s # Head(inbox)
    BY <1>2, MembersOfTail
  <2>3. \A s \in Requests : Contains(inbox', s) <=> req'[s] = "queued"
    BY <1>2, <2>1, <2>2 DEF Becomes
  <2> QED
    BY <1>2, <2>1, <2>3
<1>3. CASE TaskAnswers
  <2>1. \A r \in Requests : req'[r] = "queued" <=> req[r] = "queued"
    BY <1>3 DEF TaskAnswers
  <2> QED
    BY <1>3, <2>1, InboxKept DEF TaskAnswers, InboxGroup, ServingTypeOK
<1>4. CASE TaskSubscribes \/ TaskHandles
  BY <1>4, InboxKept DEF TaskSubscribes, TaskHandles, InboxGroup, ServingTypeOK
<1> QED
  BY <1>1, <1>2, <1>3, <1>4 DEF TaskReceives, TaskFails

LEMMA InboxStep == ASSUME InboxGroup, InputGroup, ServeInv, [HttpNext]_httpVars PROVE InboxGroup'
<1>0. req \in [Requests -> ReqStates]
  BY DEF InputGroup, RequestsTypeOK
<1>1. ASSUME UNCHANGED servingVars, \A r \in Requests : req'[r] = "queued" <=> req[r] = "queued"
      PROVE  InboxGroup'
  BY <1>1, InboxKept DEF servingVars, InboxGroup, ServingTypeOK
<1>2. ASSUME NEW r \in Requests, NEW s \in ReqStates \ {"queued"}, req[r] # "queued", Becomes(r, s),
             UNCHANGED servingVars
      PROVE  InboxGroup'
  BY <1>0, <1>1, <1>2 DEF Becomes
<1>3. ASSUME NEW r \in Requests, Sent(r), UNCHANGED servingVars PROVE InboxGroup'
  BY <1>2, <1>3 DEF Sent, ReqStates
<1>4. ASSUME IpcStep PROVE InboxGroup'
  <2>1. ASSUME NEW r \in Requests, Ask(r) PROVE InboxGroup'
    BY <1>3, <2>1 DEF Ask
  <2>2. CASE OnHttpRequest
    <3>1. PICK r \in Requests : /\ Arrives(RequestLine(r))
                                /\ IF Subscribed THEN Broadcast(r)
                                   ELSE Becomes(r, "lost") /\ UNCHANGED <<inbox, lagged>>
      BY <2>2 DEF OnHttpRequest
    <3>2. UNCHANGED <<task, ended, serve>> /\ req[r] = "input"
      BY <2>2, <3>1, ReadRequest DEF OnHttpRequest
    <3>3. CASE Subscribed
      BY <1>0, <3>1, <3>2, <3>3, InboxBroadcast
    <3>4. CASE ~Subscribed
      BY <1>2, <3>1, <3>2, <3>4 DEF servingVars, ReqStates
    <3> QED
      BY <3>3, <3>4
  <2>3. CASE ServeOnly
    <3>1. inbox' = inbox /\ lagged' = lagged /\ req' = req
      BY <2>3 DEF ServeOnly, ServeWithOptions, Bind, ServeReturns, StartHttpIpcServer, LoopEnds,
         requestVars, servingVars
    <3>2. /\ task' \in {"off", "spawned", "waiting", "handling", "writing", "ended"}
          /\ ended' \in {"none", "Ok", "Err"} /\ (task' = "ended" <=> ended' # "none")
          /\ serve' \in {"off", "negotiate", "both", "ipc_only", "Ok", "Err"}
      <4> USE DEF InboxGroup, ServingTypeOK, servingVars
      <4>1. CASE ServeWithOptions
        <5>1. task' = "spawned" /\ ended' = ended /\ serve' \in {"ipc_only", "negotiate"}
          BY <4>1 DEF ServeWithOptions
        <5>2. ended = "none"
          BY <4>1 DEF ServeWithOptions, ServeInv
        <5> QED
          BY <5>1, <5>2
      <4>2. CASE Bind
        BY <4>2 DEF Bind
      <4>3. CASE ServeReturns
        BY <4>3 DEF ServeReturns
      <4>4. CASE StartHttpIpcServer
        BY <4>4 DEF StartHttpIpcServer
      <4>5. CASE LoopEnds
        BY <4>5 DEF LoopEnds
      <4> QED
        BY <2>3, <4>1, <4>2, <4>3, <4>4, <4>5 DEF ServeOnly
    <3> QED
      BY <3>1, <3>2, InboxKept DEF InboxGroup, ServingTypeOK
  <2> QED
    BY <1>0, <1>1, <1>4, <2>1, <2>2, <2>3, InboxServed
    DEF IpcStep, AnswerPort, OnPortResponse, requestVars
<1>5. ASSUME TcpStep, UNCHANGED servingVars PROVE InboxGroup'
  <2>1. ASSUME NEW r \in Requests, ClientSends(r) PROVE InboxGroup'
    BY <1>3, <1>5, <2>1 DEF ClientSends
  <2>2. ASSUME NEW r \in Requests, HandleRequest(r) \/ SendResponse(r) \/ ClientFails(r) PROVE InboxGroup'
    <3>1. PICK st \in ReqStates \ {"queued"} : Becomes(r, st)
      BY <2>2 DEF HandleRequest, SendResponse, ClientFails, ReqStates
    <3>2. req[r] # "queued"
      BY <2>2 DEF HandleRequest, SendResponse, ClientFails
    <3> QED
      BY <1>2, <1>5, <3>1, <3>2
  <2>3. CASE ServerReceives
    <3>1. PICK r \in Requests : Arrives(RequestLine(r))
                                /\ Becomes(r, IF r \in malformed THEN "lost" ELSE "taken")
      BY <2>3 DEF ServerReceives
    <3> QED
      BY <1>2, <1>5, <3>1, ReadRequest DEF ReqStates
  <2>4. CASE ServerReceiveFails
    BY <1>1, <1>5, <2>4 DEF ServerReceiveFails
  <2> QED
    BY <1>1, <1>5, <2>1, <2>2, <2>3, <2>4
    DEF TcpStep, ServerStep, ServerLocks, StartHttpServer, Shutdown, ClientStep, ClientLocks,
        ClientReceives, ClientGivesUp, requestVars
<1> QED
  BY <1>1, <1>4, <1>5, Steps DEF httpVars, requestVars

-----------------------------------------------------------------------------
(* The calls for a port.                                                   *)

\* What becomes of the calls when c goes on or returns.
LEMMA PortCallMoves ==
    ASSUME PortTypeOK, NEW c \in PortCallers
    PROVE  /\ \A l \in {"idle", "lock", "send", "wait", "store"} : PortGoes(c, l) =>
                /\ port' \in [PortCallers -> PortCall] /\ port'[c].pc = l
                /\ \A d \in PortCallers \ {c} : port'[d] = port[d]
           /\ \A r \in {"none", "Ok", "Err"}, p \in Ports \union {NoOne} : PortReturns(c, r, p) =>
                /\ port' \in [PortCallers -> PortCall] /\ port'[c].pc = "idle"
                /\ port'[c].res = r /\ port'[c].port = p
                /\ \A d \in PortCallers \ {c} : port'[d] = port[d]
<1>1. ASSUME NEW l \in {"idle", "lock", "send", "wait", "store"}, PortGoes(c, l)
      PROVE  /\ port' \in [PortCallers -> PortCall] /\ port'[c].pc = l
             /\ \A d \in PortCallers \ {c} : port'[d] = port[d]
  BY <1>1 DEF PortTypeOK, PortGoes, PortCall
<1>2. ASSUME NEW r \in {"none", "Ok", "Err"}, NEW p \in Ports \union {NoOne}, PortReturns(c, r, p)
      PROVE  /\ port' \in [PortCallers -> PortCall] /\ port'[c].pc = "idle"
             /\ port'[c].res = r /\ port'[c].port = p
             /\ \A d \in PortCallers \ {c} : port'[d] = port[d]
  BY <1>2, PollsAssumption DEF PortTypeOK, PortReturns, PortCall
<1> QED
  BY <1>1, <1>2

LEMMA LocksSlotTypes ==
    ASSUME PortTypeOK, NEW c \in PortCallers, ~Calling(c), LocksSlot(c), kind' = kind
    PROVE  PortTypeOK' /\ \A d \in PortCallers \ {c} : port'[d] = port[d]
<1> USE PortCallersAssumption, PortCallMoves DEF Calling
<1>1. sole' \subseteq PortCallers /\ granted' \in [PortCallers -> Ports \union {NoOne}]
  BY DEF LocksSlot, PortTypeOK
<1>2. CASE guard = NoOne
  <2>1. PortGoes(c, "send") /\ guard' = c /\ slot' = TRUE
    BY <1>2 DEF LocksSlot
  <2> QED
    BY <1>1, <1>2, <2>1 DEF LocksSlot, PortTypeOK
<1>3. CASE guard # NoOne
  <2>1. PortGoes(c, "lock") /\ UNCHANGED <<guard, slot>>
    BY <1>3 DEF LocksSlot
  <2> QED
    BY <1>1, <1>3, <2>1 DEF LocksSlot, PortTypeOK
<1> QED
  BY <1>2, <1>3

\* A step of the calls alone keeps their types, and lets no call begin but
\* that of the application.
LEMMA PortOnlyTypes ==
    ASSUME PortTypeOK, kind' = kind, PortOnly
    PROVE  PortTypeOK' /\ \A c \in PortCallers : ~Calling(c) /\ c # "app" => ~Calling(c)'
<1> USE PortCallersAssumption DEF Calling
<1> DEFINE Goal == PortTypeOK' /\ \A c \in PortCallers : ~Calling(c) /\ c # "app" => ~Calling(c)'
<1>1. CASE RequestPort
  <2>1. CASE allocated = NoOne
    BY <1>1, <2>1, LocksSlotTypes DEF RequestPort
  <2>2. CASE allocated # NoOne
    <3>1. PortReturns("app", "Ok", allocated) /\ allocated \in Ports \union {NoOne}
      BY <1>1, <2>2 DEF RequestPort, PortTypeOK
    <3>2. \A d \in PortCallers : port'[d].pc = port[d].pc
      BY <1>1, <3>1, PortCallMoves DEF RequestPort
    <3>3. port' \in [PortCallers -> PortCall]
      BY <1>1, <3>1, PortCallMoves DEF RequestPort
    <3>4. UNCHANGED <<thread, loop, slot, guard, allocated, asked, sole, granted>>
      BY <1>1, <2>2 DEF RequestPort
    <3> QED
      BY <3>2, <3>3, <3>4 DEF PortTypeOK
  <2> QED
    BY <2>1, <2>2
<1>2. ASSUME NEW c \in PortCallers, Unblocked(c) PROVE Goal
  <2>1. PortGoes(c, "send") /\ guard' = c /\ slot' = TRUE /\ guard = NoOne /\ port[c].pc = "lock"
    BY <1>2 DEF Unblocked
  <2>2. /\ port' \in [PortCallers -> PortCall] /\ port'[c].pc = "send"
        /\ \A d \in PortCallers \ {c} : port'[d] = port[d]
    BY <2>1, PortCallMoves
  <2>3. UNCHANGED <<thread, loop, allocated, asked, sole, granted>>
    BY <1>2 DEF Unblocked
  <2>4. \A d \in PortCallers : guard' = d <=> port'[d].pc = "send"
    BY <2>1, <2>2 DEF PortTypeOK
  <2> QED
    BY <2>1, <2>2, <2>3, <2>4 DEF PortTypeOK
<1>3. ASSUME NEW c \in PortCallers, SendPortRequest(c) PROVE Goal
  <2>1. asked' \in Seq(PortCallers)
    BY <1>3, AppendIndex DEF SendPortRequest, PortTypeOK
  <2>2. PortGoes(c, "wait") \/ PortReturns(c, "Err", NoOne)
    BY <1>3 DEF SendPortRequest
  <2>3. port[c].pc = "send" /\ guard' = NoOne
    BY <1>3 DEF SendPortRequest
  <2>4. port' \in [PortCallers -> PortCall] /\ port'[c].pc # "send"
        /\ \A d \in PortCallers \ {c} : port'[d] = port[d]
    BY <2>2, PortCallMoves
  <2> QED
    BY <1>3, <2>1, <2>3, <2>4 DEF SendPortRequest, PortTypeOK
<1>4. ASSUME NEW c \in PortCallers, Poll(c) PROVE Goal
  <2>1. /\ port' \in [PortCallers -> PortCall] /\ port'[c].pc # "send" /\ port[c].pc = "wait"
        /\ \A d \in PortCallers \ {c} : port'[d] = port[d]
    <3>0. /\ port[c].pc = "wait" /\ allocated \in Ports \union {NoOne}
          /\ port \in [PortCallers -> PortCall] /\ port[c] \in PortCall
      BY <1>4 DEF Poll, PortTypeOK
    <3>t. port[c].tries = Polls \/ port[c].tries < Polls
      BY <3>0, PollsAssumption DEF PortCall
    <3>1. CASE PortReturns(c, "Err", NoOne) \/ PortReturns(c, "Ok", allocated)
      BY <3>0, <3>1, PortCallMoves
    <3>2. CASE port' = [port EXCEPT ![c].pc = "store", ![c].port = allocated]
      <4>1. port'[c] = [port[c] EXCEPT !.pc = "store", !.port = allocated]
        BY <3>0, <3>2
      <4>2. port'[c] \in PortCall /\ port'[c].pc = "store"
        BY <3>0, <4>1 DEF PortCall
      <4> QED
        BY <3>0, <3>2, <4>2
    <3>3. CASE port' = [port EXCEPT ![c].tries = @ + 1] /\ port[c].tries < Polls
      BY <3>0, <3>3, PollsAssumption DEF PortCall
    <3> QED
      BY <1>4, <3>0, <3>t, <3>1, <3>2, <3>3 DEF Poll
  <2> QED
    BY <1>4, <2>1 DEF Poll, PortTypeOK
<1>5. CASE StorePort
  <2>1. port["app"].port \in Ports \union {NoOne} /\ "app" \in PortCallers
    BY <1>5 DEF StorePort, PortTypeOK, PortCall
  <2>2. PortReturns("app", "Ok", port["app"].port) /\ port["app"].pc = "store"
    BY <1>5 DEF StorePort
  <2> QED
    BY <1>5, <2>1, <2>2, PortCallMoves DEF StorePort, PortTypeOK
<1>6. CASE EmptySlot
  BY <1>6 DEF EmptySlot, PortTypeOK
<1> QED
  BY <1>1, <1>2, <1>3, <1>4, <1>5, <1>6 DEF PortOnly, CallGoesOn

LEMMA PortStepTypes ==
    ASSUME PortTypeOK, ServeInv, kind \in Kinds, [HttpNext]_httpVars PROVE PortTypeOK' /\ ServeInv'
<1> kind' = kind
  BY KindKept
<1>1. ASSUME UNCHANGED portVars, UNCHANGED <<task, serve>> PROVE PortTypeOK' /\ ServeInv'
  BY <1>1 DEF portVars, PortTypeOK, ServeInv, OverTcp, Calling
<1>2. ASSUME IpcStep, OverIpc PROVE PortTypeOK' /\ ServeInv'
  <2> ~OverTcp
    BY <1>2 DEF OverIpc, OverTcp
  <2> USE DEF OverTcp
  <2>1. CASE AnswerPort /\ UNCHANGED servingVars
    <3>1. asked' \in Seq(PortCallers) /\ granted' \in [PortCallers -> Ports \union {NoOne}]
      BY <2>1, TailIndex DEF AnswerPort, PortTypeOK
    <3> QED
      BY <2>1, <3>1 DEF AnswerPort, PortTypeOK, ServeInv, servingVars, Calling
  <2>2. CASE OnPortResponse /\ UNCHANGED servingVars
    BY <2>2 DEF OnPortResponse, Grants, PortTypeOK, ServeInv, servingVars, Calling
  <2>3. CASE PortOnly /\ UNCHANGED <<requestVars, servingVars>>
    BY <2>3, PortOnlyTypes DEF ServeInv, servingVars
  <2>4. CASE ServeWithOptions
    <3>1. CASE kind = "ipc_only"
      BY <2>4, <3>1 DEF ServeWithOptions, portVars, PortTypeOK, ServeInv, Calling
    <3>2. CASE kind # "ipc_only"
      <4>1. /\ "serve" \in PortCallers /\ ~Calling("serve") /\ LocksSlot("serve")
            /\ serve' = "negotiate"
        BY <2>4, <3>2, PortCallersAssumption DEF ServeWithOptions, ServeInv
      <4> QED
        BY <4>1, LocksSlotTypes DEF ServeInv
    <3> QED
      BY <3>1, <3>2
  <2>5. CASE Bind \/ ServeReturns
    <3>1. serve # "off" /\ serve' # "off"
      BY <2>5 DEF Bind, ServeReturns
    <3> QED
      BY <2>5, <3>1 DEF Bind, ServeReturns, portVars, PortTypeOK, ServeInv
  <2>6. CASE StartHttpIpcServer
    BY <2>6 DEF StartHttpIpcServer, portVars, PortTypeOK, ServeInv, Calling
  <2>7. CASE LoopEnds
    BY <2>7 DEF LoopEnds, servingVars, PortTypeOK, ServeInv, Calling
  <2>8. CASE ServeIpcStep
    <3>1. task # "off" /\ UNCHANGED <<portVars, serve>>
      BY <2>8 DEF ServeIpcStep, TaskGoesOn, TaskSubscribes, TaskReceives, TaskHandles, TaskAnswers,
         TaskFails, EndTask
    <3> QED
      BY <3>1 DEF portVars, PortTypeOK, ServeInv, Calling
  <2> QED
    BY <1>1, <1>2, <2>1, <2>2, <2>3, <2>4, <2>5, <2>6, <2>7, <2>8
    DEF IpcStep, ServeOnly, Ask, servingVars, OnHttpRequest
<1> QED
  BY <1>1, <1>2, Steps DEF httpVars, servingVars

-----------------------------------------------------------------------------
(* The calls of the TCP client.                                            *)

\* The two halves of TcpTypeOK: the server with its line, and the client.
LineGroup ==
    /\ server \in {"off", "running", "stopped"} /\ line \in Seq(Requests \union {Receiver})
    /\ Contains(line, Receiver) => server = "running"
    /\ \A r \in Requests : Contains(line, r) <=> req[r] = "ready"
    /\ LineInv
ClientTypeOK ==
    /\ back \in Seq(Requests) /\ reader \in Requests \union {NoOne}
    /\ client \in [Requests -> {"idle", "awaiting", "reading", "Ok", "Err"}]
    /\ \A r \in Requests : reader = r <=> client[r] = "reading"
    /\ got \in [Requests -> Requests \union {NoOne}]
    /\ \A r \in Requests : got[r] = NoOne <=> client[r] # "Ok"
    /\ alone \subseteq Requests

LEMMA TcpHalves == TcpTypeOK /\ LineInv <=> LineGroup /\ ClientTypeOK
BY DEF TcpTypeOK, LineGroup, ClientTypeOK

LEMMA LineKept ==
    ASSUME LineGroup, UNCHANGED <<server, line>>,
           \A r \in Requests : req'[r] = "ready" <=> req[r] = "ready"
    PROVE  LineGroup'
BY DEF LineGroup, LineInv

\* x gets in line, under its own request or as the server.
LEMMA LineGrows ==
    ASSUME LineGroup, NEW x \in Requests \union {Receiver}, ~Contains(line, x), server' = server,
           line' = Append(line, x), x = Receiver => server = "running",
           \A r \in Requests : req'[r] = "ready" <=> req[r] = "ready" \/ r = x
    PROVE  LineGroup'
<1> USE DEF LineGroup, LineInv
<1>1. line' \in Seq(Requests \union {Receiver})
  BY AppendIndex
<1>2. \A y : Contains(line', y) <=> Contains(line, y) \/ y = x
  BY MembersOfAppend
<1>3. \A i \in DOMAIN line : line[i] # x
  BY LenProperties DEF Contains
<1>4. Once(line')
  BY <1>3, AppendIndex DEF Once
<1> QED
  BY <1>1, <1>2, <1>4

\* The first is served.
LEMMA LineServed ==
    ASSUME LineGroup, NEW x, Turn(x), line' = Tail(line), server' \in {"off", "running", "stopped"},
           x # Receiver => server' = server,
           \A r \in Requests : IF r = x THEN req'[r] # "ready" ELSE req'[r] = "ready" <=> req[r] = "ready"
    PROVE  LineGroup'
<1> USE DEF LineGroup, LineInv, Turn
<1>1. line' \in Seq(Requests \union {Receiver}) /\ Once(line')
  BY TailIndex DEF Once
<1>2. \A i, j \in DOMAIN line : line[i] = line[j] /\ line[i] = x => i = j
  BY DEF Once
<1>3. \A y : Contains(line', y) <=> Contains(line, y) /\ y # x
  BY <1>2, MembersOfTail
<1> QED
  BY <1>1, <1>3

\* The server leaves its place in line.
LEMMA LineLeft ==
    ASSUME LineGroup, req' = req, server' \in {"off", "running", "stopped"},
           NEW p \in DOMAIN line, line[p] = Receiver, line' = RemoveAt(line, p)
    PROVE  LineGroup'
<1> USE DEF LineGroup, LineInv
<1> DEFINE S == Requests \union {Receiver}
           n == Len(line)
           before == SubSeq(line, 1, p - 1)
           after == SubSeq(line, p + 1, n)
<1>1. n \in Nat /\ DOMAIN line = 1..n /\ p \in 1..n /\ \A i \in 1..n : line[i] \in S
  BY LenProperties
<1>2. before \in Seq(S) /\ Len(before) = p - 1 /\ \A i \in 1..(p - 1) : before[i] = line[i]
  <2>1. 1 \in Int /\ p - 1 \in Int /\ \A i \in 1..(p - 1) : line[i] \in S
    BY <1>1
  <2>2. /\ before \in Seq(S) /\ Len(before) = IF 1 <= p - 1 THEN (p - 1) - 1 + 1 ELSE 0
        /\ \A i \in 1..((p - 1) - 1 + 1) : before[i] = line[1 + i - 1]
    BY <2>1, SubSeqProperties
  <2> QED
    BY <1>1, <2>2
<1>3. after \in Seq(S) /\ Len(after) = n - p /\ \A i \in 1..(n - p) : after[i] = line[p + i]
  <2>1. p + 1 \in Int /\ n \in Int /\ \A i \in (p + 1)..n : line[i] \in S
    BY <1>1
  <2>2. /\ after \in Seq(S) /\ Len(after) = IF p + 1 <= n THEN n - (p + 1) + 1 ELSE 0
        /\ \A i \in 1..(n - (p + 1) + 1) : after[i] = line[(p + 1) + i - 1]
    BY <2>1, SubSeqProperties
  <2> QED
    BY <1>1, <2>2
<1>4. line' = before \o after
  BY DEF RemoveAt
<1> HIDE DEF before, after, n, S
<1>5. /\ line' \in Seq(S) /\ Len(line') = n - 1
      /\ \A i \in 1..(n - 1) : line'[i] = IF i < p THEN line[i] ELSE line[i + 1]
  <2>0. before \in Seq(S) /\ after \in Seq(S) /\ Len(before) = p - 1 /\ Len(after) = n - p
    BY <1>2, <1>3
  <2>c. /\ before \o after \in Seq(S) /\ Len(before \o after) = Len(before) + Len(after)
        /\ \A i \in 1..(Len(before) + Len(after)) :
              (before \o after)[i] = IF i <= Len(before) THEN before[i] ELSE after[i - Len(before)]
    BY <2>0, ConcatProperties
  <2>1. /\ line' \in Seq(S) /\ Len(line') = (p - 1) + (n - p)
        /\ \A i \in 1..((p - 1) + (n - p)) : line'[i] = IF i <= p - 1 THEN before[i] ELSE after[i - (p - 1)]
    BY <2>0, <2>c, <1>4
  <2>2. (p - 1) + (n - p) = n - 1
    BY <1>1
  <2>3. ASSUME NEW i \in 1..(n - 1) PROVE line'[i] = IF i < p THEN line[i] ELSE line[i + 1]
    <3>1. CASE i < p
      <4>1. i <= p - 1 /\ i \in 1..(p - 1)
        BY <1>1, <3>1
      <4> QED
        BY <1>2, <2>1, <2>2, <3>1, <4>1
    <3>2. CASE ~(i < p)
      <4>1. ~(i <= p - 1) /\ i - (p - 1) \in 1..(n - p) /\ p + (i - (p - 1)) = i + 1
        BY <1>1, <3>2
      <4> QED
        BY <1>3, <2>1, <2>2, <3>2, <4>1
    <3> QED
      BY <3>1, <3>2
  <2> QED
    BY <2>1, <2>2, <2>3
<1>6. DOMAIN line' = 1..(n - 1)
  BY <1>5, LenProperties
<1> DEFINE at(i) == IF i < p THEN i ELSE i + 1
<1>7. \A i \in DOMAIN line' : at(i) \in DOMAIN line /\ at(i) # p /\ line'[i] = line[at(i)]
  BY <1>1, <1>5, <1>6
<1>8. \A i, j \in DOMAIN line' : at(i) = at(j) => i = j
  BY <1>1, <1>6
<1>9. \A k \in DOMAIN line : k # p => \E i \in DOMAIN line' : at(i) = k
  <2>1. SUFFICES ASSUME NEW k \in 1..n, k # p PROVE \E i \in 1..(n - 1) : at(i) = k
    BY <1>1, <1>6
  <2>2. CASE k < p
    BY <1>1, <2>2
  <2>3. CASE k > p
    <3>1. k - 1 \in 1..(n - 1) /\ at(k - 1) = k
      BY <1>1, <2>3
    <3> QED
      BY <3>1
  <2> QED
    BY <1>1, <2>1, <2>2, <2>3
<1> HIDE DEF at
<1>10. Once(line')
  BY <1>7, <1>8 DEF Once
<1>11. \A y : Contains(line', y) <=> \E i \in DOMAIN line' : line'[i] = y
  BY <1>5, <1>6 DEF Contains
<1>12. \A y : Contains(line, y) <=> \E i \in DOMAIN line : line[i] = y
  BY <1>1 DEF Contains, n
<1>13. \A y : Contains(line', y) <=> Contains(line, y) /\ y # Receiver
  <2>1. ASSUME NEW y, Contains(line', y) PROVE Contains(line, y) /\ y # Receiver
    <3>1. PICK i \in DOMAIN line' : line'[i] = y
      BY <1>11, <2>1
    <3>2. at(i) \in DOMAIN line /\ at(i) # p /\ line[at(i)] = y
      BY <1>7, <3>1
    <3> QED
      BY <1>12, <3>2 DEF Once
  <2>2. ASSUME NEW y, Contains(line, y), y # Receiver PROVE Contains(line', y)
    <3>1. PICK k \in DOMAIN line : line[k] = y
      BY <1>12, <2>2
    <3>2. PICK i \in DOMAIN line' : at(i) = k
      BY <1>9, <2>2, <3>1
    <3> QED
      BY <1>7, <1>11, <3>1, <3>2
  <2> QED
    BY <2>1, <2>2
<1> QED
  BY <1>5, <1>10, <1>13, RequestsAssumption DEF S, Receiver

\* The line for the stream mutex of the server's channel.
LEMMA LineStep ==
    ASSUME LineGroup, InputGroup, InboxGroup, [HttpNext]_httpVars PROVE LineGroup'
<1>t. req \in [Requests -> ReqStates]
  BY DEF InputGroup, RequestsTypeOK
<1>r. \A r \in Requests : r # Receiver
  BY RequestsAssumption DEF Receiver
<1>0. ASSUME UNCHANGED <<server, line, req>> PROVE LineGroup'
  BY <1>0, LineKept
<1>1. ASSUME UNCHANGED <<server, line>>, NEW r \in Requests, req[r] # "ready",
             \E s \in ReqStates \ {"ready"} : Becomes(r, s)
      PROVE  LineGroup'
  BY <1>t, <1>1, LineKept DEF Becomes
<1>2. ASSUME IpcStep, UNCHANGED tcpVars PROVE LineGroup'
  <2> UNCHANGED <<server, line>>
    BY <1>2 DEF tcpVars
  <2>1. ASSUME NEW r \in Requests, Ask(r) PROVE LineGroup'
    BY <1>1, <2>1 DEF Ask, Sent, ReqStates
  <2>2. CASE OnHttpRequest
    <3>1. PICK r \in Requests : /\ Arrives(RequestLine(r))
                                /\ IF Subscribed THEN Broadcast(r)
                                   ELSE Becomes(r, "lost") /\ UNCHANGED <<inbox, lagged>>
      BY <2>2 DEF OnHttpRequest
    <3>2. req[r] = "input"
      BY <3>1, ReadRequest
    <3>3. CASE \E s \in {"lost", "queued"} : Becomes(r, s)
      BY <1>1, <3>2, <3>3 DEF ReqStates
    <3>4. CASE Subscribed /\ ~(Len(inbox) < Cap)
      <4>1. inbox # <<>> /\ Contains(inbox, Head(inbox)) /\ Head(inbox) \in Requests
        BY <3>4, CapAssumption, MembersOfTail, TailIndex, EmptySeq DEF InboxGroup, ServingTypeOK
      <4>2. req[Head(inbox)] = "queued"
        BY <4>1 DEF InboxGroup, ServingTypeOK
      <4>3. req' = [req EXCEPT ![r] = "queued", ![Head(inbox)] = "lost"]
        BY <3>1, <3>4 DEF Broadcast
      <4>4. \A s \in Requests : req'[s] = "ready" <=> req[s] = "ready"
        BY <1>t, <3>2, <4>2, <4>3
      <4> QED
        BY <4>4, LineKept
    <3> QED
      BY <3>1, <3>3, <3>4 DEF Broadcast
  <2>3. CASE ServeIpcStep
    <3>1. \A r \in Requests : req'[r] = "ready" <=> req[r] = "ready"
      <4>1. ASSUME NEW how, EndTask(how) PROVE <3>1
        BY <1>t, <4>1 DEF EndTask
      <4>2. CASE inbox # <<>> /\ Becomes(Head(inbox), "taken")
        <5>1. Contains(inbox, Head(inbox)) /\ Head(inbox) \in Requests
          BY <4>2, MembersOfTail, TailIndex DEF InboxGroup, ServingTypeOK
        <5>2. req[Head(inbox)] = "queued"
          BY <5>1 DEF InboxGroup, ServingTypeOK
        <5> QED
          BY <1>t, <4>2, <5>1, <5>2 DEF Becomes
      <4>3. CASE TaskAnswers
        BY <1>t, <4>3 DEF TaskAnswers
      <4>4. CASE TaskSubscribes \/ TaskHandles
        BY <4>4 DEF TaskSubscribes, TaskHandles
      <4> QED
        BY <2>3, <4>1, <4>2, <4>3, <4>4 DEF ServeIpcStep, TaskGoesOn, TaskReceives, TaskFails
    <3> QED
      BY <3>1, LineKept
  <2>4. CASE ServeOnly \/ AnswerPort \/ OnPortResponse \/ UNCHANGED requestVars
    BY <1>0, <2>4 DEF ServeOnly, ServeWithOptions, Bind, ServeReturns, StartHttpIpcServer, LoopEnds,
       AnswerPort, OnPortResponse, requestVars
  <2> QED
    BY <1>2, <2>1, <2>2, <2>3, <2>4 DEF IpcStep
<1>3. ASSUME TcpStep PROVE LineGroup'
  <2>1. CASE ServerLocks
    BY <2>1, <1>r, LineGrows DEF ServerLocks, requestVars
  <2>2. CASE ServerReceives
    <3>1. PICK r \in Requests : Arrives(RequestLine(r))
                                /\ \E s \in {"lost", "taken"} : Becomes(r, s)
      BY <2>2 DEF ServerReceives
    <3>2. req[r] = "input"
      BY <3>1, ReadRequest
    <3>3. \A s \in Requests : req'[s] = "ready" <=> req[s] = "ready"
      BY <1>t, <3>1, <3>2 DEF Becomes
    <3>4. Turn(Receiver) /\ line' = Tail(line) /\ server' \in {"stopped", "running"}
      BY <2>2 DEF ServerReceives
    <3> QED
      BY <1>r, <3>3, <3>4, LineServed
  <2>3. CASE ServerReceiveFails
    <3>1. \A s \in Requests : req'[s] = "ready" <=> req[s] = "ready"
      BY <1>t, <2>3 DEF ServerReceiveFails
    <3>2. Turn(Receiver) /\ line' = Tail(line) /\ server' = server
      BY <2>3 DEF ServerReceiveFails
    <3>3. server' \in {"off", "running", "stopped"}
      BY <3>2 DEF LineGroup
    <3> QED
      BY <1>r, <3>1, <3>2, <3>3, LineServed
  <2>4. CASE Shutdown
    <3>1. req' = req /\ server' = "stopped"
      BY <2>4 DEF Shutdown, requestVars
    <3>2. CASE ~Contains(line, Receiver) /\ UNCHANGED line
      BY <3>1, <3>2 DEF LineGroup, LineInv
    <3>3. CASE \E i \in DOMAIN line : line[i] = Receiver /\ line' = RemoveAt(line, i)
      BY <3>1, <3>3, LineLeft
    <3> QED
      BY <2>4, <3>2, <3>3 DEF Shutdown
  <2>5. CASE StartHttpServer
    BY <2>5 DEF StartHttpServer, LineGroup, LineInv, requestVars
  <2>6. ASSUME NEW r \in Requests, HandleRequest(r) PROVE LineGroup'
    <3>1. /\ req[r] = "taken" /\ Becomes(r, "ready") /\ line' = Append(line, r) /\ server' = server
      BY <2>6 DEF HandleRequest
    <3>2. ~Contains(line, r)
      BY <3>1 DEF LineGroup
    <3>3. \A s \in Requests : req'[s] = "ready" <=> req[s] = "ready" \/ s = r
      BY <1>t, <3>1 DEF Becomes
    <3> QED
      BY <1>r, <3>1, <3>2, <3>3, LineGrows
  <2>7. ASSUME NEW r \in Requests, SendResponse(r) PROVE LineGroup'
    <3>1. /\ Turn(r) /\ line' = Tail(line) /\ server' = server
          /\ \E s \in {"lost", "answered"} : Becomes(r, s)
      BY <2>7 DEF SendResponse
    <3>2. \A s \in Requests : IF s = r THEN req'[s] # "ready" ELSE req'[s] = "ready" <=> req[s] = "ready"
      BY <1>t, <3>1 DEF Becomes
    <3>3. server' \in {"off", "running", "stopped"}
      BY <3>1 DEF LineGroup
    <3> QED
      BY <3>1, <3>2, <3>3, LineServed
  <2>8. ASSUME NEW r \in Requests, ClientSends(r) PROVE LineGroup'
    BY <1>1, <2>8 DEF ClientSends, Sent, ReqStates
  <2>9. ASSUME NEW r \in Requests, ClientFails(r) PROVE LineGroup'
    BY <1>1, <2>9 DEF ClientFails, ReqStates
  <2>10. ASSUME NEW r \in Requests, ClientLocks(r) \/ ClientReceives(r) \/ ClientGivesUp(r) PROVE LineGroup'
    BY <1>0, <2>10 DEF ClientLocks, ClientReceives, ClientGivesUp, requestVars
  <2> QED
    BY <1>3, <2>1, <2>2, <2>3, <2>4, <2>5, <2>6, <2>7, <2>8, <2>9, <2>10
    DEF TcpStep, ServerStep, ClientStep
<1> QED
  BY <1>0, <1>2, <1>3, Steps DEF httpVars, requestVars, tcpVars

LEMMA ClientTypes ==
    ASSUME ClientTypeOK, [HttpNext]_httpVars PROVE ClientTypeOK'
<1> USE RequestsAssumption DEF ClientTypeOK
<1>1. ASSUME UNCHANGED tcpVars PROVE ClientTypeOK'
  BY <1>1 DEF tcpVars
<1>2. ASSUME TcpStep PROVE ClientTypeOK'
  <2>1. CASE ServerStep \/ StartHttpServer \/ Shutdown
    <3>1. UNCHANGED <<back, reader, client, got, alone>>
      BY <2>1 DEF ServerStep, ServerLocks, ServerReceives, ServerReceiveFails, StartHttpServer, Shutdown
    <3> QED
      BY <3>1
  <2>2. ASSUME NEW r \in Requests, HandleRequest(r) PROVE ClientTypeOK'
    BY <1>1, <2>2 DEF HandleRequest
  <2>3. ASSUME NEW r \in Requests, SendResponse(r) PROVE ClientTypeOK'
    <3>1. back' \in Seq(Requests)
      BY <2>3, AppendIndex DEF SendResponse, Respond
    <3> QED
      BY <2>3, <3>1 DEF SendResponse
  <2>4. ASSUME NEW r \in Requests, ClientSends(r) PROVE ClientTypeOK'
    BY <2>4 DEF ClientSends
  <2>5. ASSUME NEW r \in Requests, ClientFails(r) PROVE ClientTypeOK'
    BY <2>5 DEF ClientFails
  <2>6. ASSUME NEW r \in Requests, ClientLocks(r) PROVE ClientTypeOK'
    BY <2>6 DEF ClientLocks
  <2>7. ASSUME NEW r \in Requests, ClientReceives(r) PROVE ClientTypeOK'
    <3>1. Head(back) \in Requests /\ back' \in Seq(Requests)
      BY <2>7, TailIndex DEF ClientReceives
    <3>2. /\ client' = [client EXCEPT ![r] = "Ok"] /\ got' = [got EXCEPT ![r] = Head(back)]
          /\ reader = r /\ reader' = NoOne /\ UNCHANGED <<server, line, alone>>
      BY <2>7 DEF ClientReceives
    <3> QED
      BY <3>1, <3>2
  <2>8. ASSUME NEW r \in Requests, ClientGivesUp(r) PROVE ClientTypeOK'
    BY <2>8 DEF ClientGivesUp, Calls
  <2> QED
    BY <1>2, <2>1, <2>2, <2>3, <2>4, <2>5, <2>6, <2>7, <2>8 DEF TcpStep, ClientStep
<1> QED
  BY <1>1, <1>2, Steps DEF httpVars

TcpInv == TcpTypeOK /\ ResponseInv /\ AloneInv /\ AloneGetsOwn

\* A step in which no call goes on and no answer comes or goes.
LEMMA CallsKept ==
    ASSUME TcpInv, kind' = kind, UNCHANGED <<back, reader, client, got, alone>>,
           \A r \in Requests :
                /\ req[r] = "answered" => req'[r] = "answered"
                /\ req[r] = "new" <=> req'[r] = "new"
                /\ req[r] = "lost" => req'[r] = "lost"
    PROVE  ResponseInv' /\ AloneInv' /\ AloneGetsOwn'
<1>1. Oks' = Oks /\ Taken' = Taken /\ OverTcp' = OverTcp
  BY DEF Oks, Taken, OverTcp
<1>2. \A i \in DOMAIN back : back[i] \in Requests
  BY LenProperties DEF TcpInv, TcpTypeOK
<1>3. \A r \in Oks : got[r] \in Requests /\ r \in Requests
  BY DEF TcpInv, TcpTypeOK, Oks
<1>4. ResponseInv'
  BY <1>1, <1>2, <1>3 DEF TcpInv, ResponseInv, Once
<1>5. AloneInv'
  BY <1>1 DEF TcpInv, AloneInv, Calls, TcpTypeOK
<1>6. AloneGetsOwn'
  BY DEF TcpInv, AloneGetsOwn
<1> QED
  BY <1>4, <1>5, <1>6

\* When every call has ended with Ok that began, the responses are all taken:
\* they are as many as the calls, and each is to a call that has begun.
LEMMA AllTaken ==
    ASSUME TcpInv, OverTcp, NEW r \in Requests, client[r] = "idle",
           \A s \in Requests \ {r} : client[s] \in {"idle", "Ok"}
    PROVE  \A s \in Requests \ {r} : s \in Taken \/ req[s] = "new"
<1> USE DEF TcpInv, ResponseInv, TcpTypeOK
<1>1. Taken \subseteq Oks
  <2>1. SUFFICES ASSUME NEW s \in Oks PROVE got[s] \in Oks
    BY DEF Taken
  <2>2. got[s] \in Requests /\ req[got[s]] = "answered"
    BY DEF Oks
  <2> QED
    BY <2>2 DEF Oks
<1> DEFINE f == [s \in Oks |-> got[s]]
<1>2. f \in Surjection(Oks, Taken)
  BY DEF Surjection, Taken
<1>3. f \in Injection(Oks, Taken)
  BY DEF Injection, IsInjective, Taken
<1>4. IsFiniteSet(Taken) /\ Cardinality(Taken) = Cardinality(Oks)
  BY <1>2, <1>3, FS_Surjection
<1>5. Taken = Oks
  BY <1>1, <1>4, FS_Subset
<1> QED
  BY <1>5 DEF Oks

\* What becomes of the calls that are ended, when one begins, goes on or
\* ends with an error.
LEMMA OksKept ==
    ASSUME TcpTypeOK, NEW r \in Requests, NEW s \in {"awaiting", "reading", "Err"}, client[r] # "Ok",
           client' = [client EXCEPT ![r] = s], got' = got
    PROVE  Oks' = Oks /\ Taken' = Taken
<1>1. Oks' = Oks
  BY DEF Oks, TcpTypeOK
<1> QED
  BY <1>1 DEF Taken

\* A call that is not over begins, goes on or ends with an error.
LEMMA ClientMoves ==
    ASSUME TcpInv, kind' = kind, NEW r \in Requests, NEW s \in {"awaiting", "reading", "Err"},
           client[r] # "Ok", client' = [client EXCEPT ![r] = s], UNCHANGED <<got, back>>,
           client[r] = "idle" => req[r] = "new" /\ req'[r] \in {"input", "lost"},
           client[r] # "idle" => req'[r] = req[r],
           \A t \in Requests \ {r} : req'[t] = req[t],
           \A t \in alone' : t # r => t \in alone
    PROVE  ResponseInv' /\ AloneGetsOwn' /\ Taken' = Taken /\ OverTcp' = OverTcp
<1> USE DEF TcpInv, TcpTypeOK
<1>1. Oks' = Oks /\ Taken' = Taken /\ OverTcp' = OverTcp
  BY OksKept DEF OverTcp
<1>2. \A t \in Requests : req[t] = "answered" => req'[t] = "answered"
  OBVIOUS
<1>3. \A i \in DOMAIN back : back[i] \in Requests
  BY LenProperties
<1>4. \A t \in Oks : got[t] \in Requests /\ t \in Requests
  BY DEF Oks
<1>5. ASSUME OverTcp PROVE \A t \in Requests : client'[t] = "idle" <=> req'[t] = "new"
  BY <1>5 DEF ResponseInv
<1>6. ResponseInv'
  BY <1>1, <1>2, <1>3, <1>4, <1>5 DEF ResponseInv, Once
<1>7. AloneGetsOwn'
  BY DEF AloneGetsOwn
<1> QED
  BY <1>1, <1>6, <1>7

LEMMA TcpInvStep ==
    ASSUME TcpInv, TcpTypeOK', InputGroup, [HttpNext]_httpVars PROVE TcpInv'
<1> USE DEF TcpInv, TcpTypeOK
<1> DEFINE Goal == ResponseInv' /\ AloneInv' /\ AloneGetsOwn'
<1> kind' = kind
  BY KindKept
<1>t. req \in [Requests -> ReqStates]
  BY DEF InputGroup, RequestsTypeOK
<1>0. TcpTypeOK'
  OBVIOUS
<1>1. CASE UNCHANGED httpVars
  <2>1. UNCHANGED <<req, back, reader, client, got, alone>>
    BY <1>1 DEF httpVars, requestVars, tcpVars
  <2> QED
    BY <1>0, <2>1, CallsKept
<1>2. CASE OverIpc /\ UNCHANGED tcpVars
  <2>1. ~OverTcp' /\ UNCHANGED <<client, got, alone>>
    BY <1>2 DEF OverIpc, OverTcp, tcpVars
  <2> QED
    BY <1>0, <2>1 DEF ResponseInv, AloneInv, AloneGetsOwn
<1>3. ASSUME OverTcp, TcpStep PROVE Goal
  <2>1. CASE ServerStep \/ StartHttpServer \/ Shutdown \/ \E r \in Requests : HandleRequest(r)
    <3>1. UNCHANGED <<back, reader, client, got, alone>>
      BY <2>1 DEF ServerStep, ServerLocks, ServerReceives, ServerReceiveFails, StartHttpServer, Shutdown,
         HandleRequest, tcpVars
    <3>2. \A r \in Requests : /\ req[r] = "answered" => req'[r] = "answered"
                              /\ req[r] = "new" <=> req'[r] = "new"
                              /\ req[r] = "lost" => req'[r] = "lost"
      <4>1. CASE UNCHANGED req
        BY <4>1
      <4>2. CASE ServerReceives
        <5>1. PICK r \in Requests : Arrives(RequestLine(r)) /\ \E to \in {"lost", "taken"} : Becomes(r, to)
          BY <4>2 DEF ServerReceives
        <5>2. req[r] = "input"
          BY <5>1, MembersOfTail DEF Arrives, InputGroup, InputInv, RequestsTypeOK
        <5> QED
          BY <1>t, <5>1, <5>2 DEF Becomes
      <4>3. CASE ServerReceiveFails
        BY <4>3 DEF ServerReceiveFails
      <4>4. CASE \E r \in Requests : HandleRequest(r)
        BY <4>4 DEF HandleRequest, Becomes
      <4> QED
        BY <2>1, <4>1, <4>2, <4>3, <4>4
        DEF ServerStep, ServerLocks, StartHttpServer, Shutdown, requestVars
    <3> QED
      BY <3>1, <3>2, CallsKept
  <2>2. ASSUME NEW r \in Requests, SendResponse(r) PROVE Goal
    <3>1. req[r] = "ready" /\ UNCHANGED <<reader, client, got, alone>>
      BY <2>2 DEF SendResponse
    <3>2. CASE Becomes(r, "lost") /\ UNCHANGED back
      BY <1>t, <3>1, <3>2, CallsKept DEF Becomes
    <3>3. CASE Becomes(r, "answered") /\ Respond(r)
      <4>1. req' = [req EXCEPT ![r] = "answered"] /\ back' = Append(back, r)
        BY <3>3 DEF Becomes, Respond
      <4>2. Oks' = Oks /\ Taken' = Taken /\ OverTcp' = OverTcp
        BY <3>1 DEF Oks, Taken, OverTcp
      <4>3. \A i \in DOMAIN back : back[i] \in Requests
        BY LenProperties
      <4>4. \A t \in Oks : got[t] \in Requests /\ t \in Requests
        BY DEF Oks
      <4>5. r \notin Taken /\ \A i \in DOMAIN back : back[i] # r
        BY <1>3, <3>1 DEF ResponseInv, Taken
      <4>6. Once(back')
        BY <1>3, <4>1, <4>5, AppendIndex DEF ResponseInv, Once
      <4>7. \A i \in DOMAIN back' : req'[back'[i]] = "answered" /\ back'[i] \notin Taken'
        BY <1>t, <1>3, <4>1, <4>2, <4>3, <4>5, AppendIndex DEF ResponseInv
      <4>8. \A t \in Requests : (client'[t] = "idle" <=> req'[t] = "new")
        BY <1>t, <1>3, <3>1, <4>1 DEF ResponseInv
      <4>9. \A t \in Oks' : req'[got'[t]] = "answered"
        BY <1>t, <1>3, <3>1, <4>1, <4>2, <4>4 DEF ResponseInv
      <4>10. ResponseInv'
        BY <1>3, <3>1, <4>2, <4>6, <4>7, <4>8, <4>9 DEF ResponseInv
      <4>11. AloneInv'
        BY <1>t, <1>3, <3>1, <4>1, <4>2, <4>5 DEF AloneInv, Calls
      <4>12. AloneGetsOwn'
        BY <3>1 DEF AloneGetsOwn
      <4> QED
        BY <4>10, <4>11, <4>12
    <3> QED
      BY <2>2, <3>2, <3>3 DEF SendResponse
  <2>3. ASSUME NEW r \in Requests, ClientSends(r) PROVE Goal
    <3>1. /\ client[r] = "idle" /\ req[r] = "new" /\ req' = [req EXCEPT ![r] = "input"]
          /\ client' = [client EXCEPT ![r] = "awaiting"] /\ UNCHANGED <<got, back>>
          /\ \A t \in alone' : t # r => t \in alone /\ ~Calls(t)
          /\ r \in alone' => r \in alone \/ \A t \in Requests \ {r} : client[t] \in {"idle", "Ok"}
      BY <2>3 DEF ClientSends, Sent, Becomes
    <3>2. ResponseInv' /\ AloneGetsOwn' /\ Taken' = Taken /\ OverTcp' = OverTcp
      <4>1. /\ client[r] # "Ok" /\ req[r] = "new" /\ req'[r] \in {"input", "lost"}
            /\ \A t \in Requests \ {r} : req'[t] = req[t]
            /\ \A t \in alone' : t # r => t \in alone
        BY <1>t, <3>1
      <4>2. TcpInv /\ kind' = kind
        OBVIOUS
      <4> HIDE DEF TcpInv, TcpTypeOK
      <4> QED
        BY <3>1, <4>1, <4>2, ClientMoves
    <3>3. r \notin alone
      BY <1>3, <3>1 DEF AloneInv
    <3>4. r \in alone' => \A t \in Requests \ {r} : t \in Taken \/ req'[t] \in {"new", "lost"}
      BY <1>t, <1>3, <3>1, <3>3, AllTaken
    <3>5. ASSUME NEW t \in alone' PROVE client'[t] # "idle" /\ (t # r => ~Calls(t)')
      BY <1>0, <1>3, <3>1 DEF AloneInv, Calls
    <3>6. AloneInv'
      BY <3>2, <3>4, <3>5 DEF AloneInv
    <3> QED
      BY <3>2, <3>6
  <2>4. ASSUME NEW r \in Requests, ClientFails(r) PROVE Goal
    <3>1. /\ client[r] = "idle" /\ req[r] = "new" /\ req' = [req EXCEPT ![r] = "lost"]
          /\ client' = [client EXCEPT ![r] = "Err"] /\ UNCHANGED <<got, back, alone>>
      BY <2>4 DEF ClientFails, Becomes
    <3>2. ResponseInv' /\ AloneGetsOwn' /\ Taken' = Taken /\ OverTcp' = OverTcp
      <4>1. /\ client[r] # "Ok" /\ req[r] = "new" /\ req'[r] \in {"input", "lost"}
            /\ \A t \in Requests \ {r} : req'[t] = req[t]
            /\ \A t \in alone' : t # r => t \in alone
        BY <1>t, <3>1
      <4>2. TcpInv /\ kind' = kind
        OBVIOUS
      <4> HIDE DEF TcpInv, TcpTypeOK
      <4> QED
        BY <3>1, <4>1, <4>2, ClientMoves
    <3>3. AloneInv'
      BY <1>t, <1>3, <3>1, <3>2 DEF AloneInv, Calls
    <3> QED
      BY <3>2, <3>3
  <2>5. ASSUME NEW r \in Requests, ClientLocks(r) \/ ClientGivesUp(r) PROVE Goal
    <3>1. PICK s \in {"reading", "Err"} : client' = [client EXCEPT ![r] = s]
      BY <2>5 DEF ClientLocks, ClientGivesUp
    <3>2. /\ client[r] \in {"awaiting", "reading"} /\ UNCHANGED <<req, got, back, alone>>
      BY <2>5 DEF ClientLocks, ClientGivesUp, Calls, requestVars
    <3>3. ResponseInv' /\ AloneGetsOwn' /\ Taken' = Taken /\ OverTcp' = OverTcp
      BY <3>1, <3>2, ClientMoves
    <3>4. AloneInv'
      BY <1>3, <3>1, <3>2, <3>3 DEF AloneInv, Calls
    <3> QED
      BY <3>3, <3>4
  <2>6. ASSUME NEW r \in Requests, ClientReceives(r) PROVE Goal
    <3> DEFINE h == Head(back)
    <3>1. /\ client[r] = "reading" /\ back # <<>> /\ back' = Tail(back)
          /\ got' = [got EXCEPT ![r] = h] /\ client' = [client EXCEPT ![r] = "Ok"]
          /\ UNCHANGED <<req, alone>>
      BY <2>6 DEF ClientReceives, requestVars
    <3>2. /\ h \in Requests /\ h = back[1] /\ 1 \in DOMAIN back
          /\ \A i \in DOMAIN back' : i + 1 \in DOMAIN back /\ i + 1 # 1 /\ back'[i] = back[i + 1]
          /\ \A i, j \in DOMAIN back' : i + 1 = j + 1 => i = j
      BY <3>1, TailIndex
    <3>3. Oks' = Oks \union {r} /\ r \notin Oks
      BY <3>1 DEF Oks
    <3>4. got'[r] = h /\ \A t \in Oks : t # r /\ got'[t] = got[t]
      BY <3>1, <3>3 DEF Oks
    <3>5. Taken' = Taken \union {h}
      BY <3>3, <3>4 DEF Taken
    <3>6. h \notin Taken /\ req[h] = "answered" /\ \A t \in Oks : got[t] # h
      BY <1>3, <3>2 DEF ResponseInv, Taken
    <3> HIDE DEF h
    <3>7. ResponseInv'
      <4>1. \A t \in Requests : client'[t] = "idle" <=> req'[t] = "new"
        BY <1>3, <3>1 DEF ResponseInv
      <4>2. Once(back')
        BY <1>3, <3>2 DEF ResponseInv, Once
      <4>3. \A i \in DOMAIN back' : req'[back'[i]] = "answered" /\ back'[i] \notin Taken'
        BY <1>3, <3>1, <3>2, <3>5 DEF ResponseInv, Once
      <4>4. \A t \in Oks' : req'[got'[t]] = "answered"
        BY <1>3, <3>1, <3>3, <3>4, <3>6 DEF ResponseInv
      <4>5. \A t, u \in Oks' : got'[t] = got'[u] => t = u
        BY <1>3, <3>3, <3>4, <3>6 DEF ResponseInv
      <4>6. IsFiniteSet(Oks')
        BY <1>3, <3>3, FS_AddElement DEF ResponseInv
      <4> QED
        BY <4>1, <4>2, <4>3, <4>4, <4>5, <4>6 DEF ResponseInv
    <3>8. AloneInv'
      <4>1. SUFFICES ASSUME NEW t \in alone
                     PROVE  /\ client'[t] # "idle"
                            /\ Calls(t)' => \A s \in Requests \ {t} : s \in Taken' \/ req'[s] \in {"new", "lost"}
        BY <3>1 DEF AloneInv
      <4>2. Calls(t)' => Calls(t)
        BY <3>1 DEF Calls
      <4> QED
        BY <1>3, <3>1, <3>5, <4>2 DEF AloneInv
    <3>9. r \in alone => h = r
      BY <1>3, <3>1, <3>2, <3>6 DEF AloneInv, Calls
    <3>10. AloneGetsOwn'
      BY <3>1, <3>9 DEF AloneGetsOwn
    <3> QED
      BY <3>7, <3>8, <3>10
  <2> QED
    BY <1>3, <2>1, <2>2, <2>3, <2>4, <2>5, <2>6 DEF TcpStep, ClientStep
<1> QED
  BY <1>0, <1>1, <1>2, <1>3, Steps

-----------------------------------------------------------------------------
(* The call for a port that has the negotiation to itself.                 *)

SoleGroup == PortTypeOK /\ InputInv /\ ServeInv /\ SoleInv

\* Nothing happens to the negotiation, except that requests come and go.
LEMMA SoleKept ==
    ASSUME SoleGroup, UNCHANGED <<allocated, slot, asked, port, sole, granted>>,
           loop' = "port" <=> loop = "port", NoPortLine => NoPortLine',
           \A c \in PortCallers : Arriving(c) => Arriving(c)'
    PROVE  SoleInv'
<1>1. SUFFICES ASSUME NEW c \in sole, Calling(c) PROVE SoleCall(c)'
  BY DEF SoleInv, Calling
<1>2. SoleCall(c) /\ c \in PortCallers
  BY <1>1 DEF SoleGroup, SoleInv, PortTypeOK
<1>3. WithOrchestrator(c) => WithOrchestrator(c)'
  BY DEF WithOrchestrator
<1>4. Arrived(c) => Arrived(c)'
  BY DEF Arrived
<1> QED
  BY <1>2, <1>3, <1>4 DEF SoleCall, Calling

LEMMA SoleRequests ==
    ASSUME SoleGroup, UNCHANGED portVars,
           \/ UNCHANGED input
           \/ \E r \in Requests : Arrives(RequestLine(r)) \/ input' = Append(input, RequestLine(r))
    PROVE  SoleInv'
<1> USE DEF SoleGroup, InputInv, portVars
<1>1. CASE UNCHANGED input
  BY <1>1, SoleKept DEF NoPortLine, Arriving
<1>2. ASSUME NEW r \in Requests, Arrives(RequestLine(r)) PROVE SoleInv'
  <2>1. \A i \in DOMAIN input' : i + 1 \in DOMAIN input /\ input'[i] = input[i + 1]
    BY <1>2, TailIndex, LineFacts DEF Arrives
  <2>a. \A i \in DOMAIN input : input[i].is = "port" => i - 1 \in DOMAIN input' /\ input'[i - 1] = input[i]
    BY <1>2, TailIndex, LineFacts DEF Arrives
  <2>b. /\ \A i, j \in DOMAIN input' : i + 1 = j + 1 => i = j
        /\ \A i \in DOMAIN input : (i - 1) + 1 = i
    BY <1>2, TailIndex, LineFacts DEF Arrives
  <2>2. NoPortLine => NoPortLine'
    <3>1. SUFFICES ASSUME NoPortLine, NEW i \in DOMAIN input' PROVE input'[i].is # "port"
      BY DEF NoPortLine
    <3>2. input'[i] = input[i + 1] /\ i + 1 \in DOMAIN input
      BY <2>1
    <3> QED
      BY <3>1, <3>2 DEF NoPortLine
  <2>3. ASSUME NEW c \in PortCallers, Arriving(c) PROVE Arriving(c)'
    <3>1. PICK i \in DOMAIN input : /\ input[i] = PortLine(c, granted[c])
                                    /\ \A j \in DOMAIN input : input[j].is = "port" => j = i
      BY <2>3 DEF Arriving
    <3>2. i - 1 \in DOMAIN input' /\ input'[i - 1] = PortLine(c, granted[c])
      <4>1. input[i].is = "port"
        BY <3>1, LineFacts
      <4> QED
        BY <2>a, <3>1, <4>1
    <3>3. \A j \in DOMAIN input' : input'[j].is = "port" => j = i - 1
      BY <2>1, <2>b, <3>1, <3>2
    <3> QED
      BY <2>3, <3>2, <3>3 DEF Arriving
  <2> QED
    BY <2>2, <2>3, SoleKept
<1>3. ASSUME NEW r \in Requests, input' = Append(input, RequestLine(r)) PROVE SoleInv'
  <2>1. /\ \A i \in DOMAIN input' : \/ i \in DOMAIN input /\ input'[i] = input[i]
                                    \/ input'[i].is = "request"
        /\ \A i \in DOMAIN input : i \in DOMAIN input' /\ input'[i] = input[i]
    BY <1>3, AppendIndex, LineSets, LineFacts
  <2>2. NoPortLine => NoPortLine'
    BY <2>1 DEF NoPortLine
  <2>3. ASSUME NEW c \in PortCallers, Arriving(c) PROVE Arriving(c)'
    BY <2>1, <2>3 DEF Arriving
  <2> QED
    BY <2>2, <2>3, SoleKept
<1> QED
  BY <1>1, <1>2, <1>3

\* A call goes on: if another had the negotiation to itself it could not.
LEMMA SoleMoves ==
    ASSUME SoleGroup, NEW c \in PortCallers, Calling(c), sole' = sole,
           \A d \in PortCallers \ {c} : port'[d] = port[d],
           c \in sole /\ SoleCall(c) /\ Calling(c)' => SoleCall(c)'
    PROVE  SoleInv'
<1>1. SUFFICES ASSUME NEW d \in sole, Calling(d)' PROVE SoleCall(d)'
  BY DEF SoleInv
<1>2. CASE d = c
  BY <1>1, <1>2 DEF SoleGroup, SoleInv
<1>3. CASE d # c
  BY <1>1, <1>3 DEF SoleGroup, SoleInv, SoleCall, PortTypeOK, Calling
<1> QED
  BY <1>2, <1>3

\* A call begins.
LEMMA SoleBegins ==
    ASSUME SoleGroup, NEW c \in PortCallers, LocksSlot(c), UNCHANGED input
    PROVE  SoleInv'
<1> USE DEF SoleGroup, PortTypeOK
<1>1. SUFFICES ASSUME Undisturbed, sole' = {c} PROVE SoleCall(c)'
  BY DEF LocksSlot, SoleInv
<1>2. guard = NoOne
  BY <1>1 DEF Undisturbed, Calling
<1>3. port' = [port EXCEPT ![c].pc = "send"] /\ slot' /\ UNCHANGED <<loop, allocated, asked>>
  BY <1>2 DEF LocksSlot, PortGoes
<1>4. port'[c] = [port[c] EXCEPT !.pc = "send"] /\ port[c] \in PortCall
  BY <1>3
<1>5. port'[c].pc = "send"
  BY <1>4 DEF PortCall
<1>6. \A d \in PortCallers \ {c} : ~Calling(d)'
  BY <1>1, <1>3 DEF Undisturbed, Calling
<1> QED
  BY <1>1, <1>3, <1>5, <1>6 DEF SoleCall, Undisturbed, NoPortLine

LEMMA SoleCallStep == ASSUME SoleGroup, NEW c \in PortCallers, CallGoesOn(c), UNCHANGED input PROVE SoleInv'
<1> USE DEF SoleGroup, PortTypeOK
<1>1. ASSUME Unblocked(c) PROVE SoleInv'
  <2>1. /\ port[c].pc = "lock" /\ port' = [port EXCEPT ![c].pc = "send"] /\ sole' = sole
    BY <1>1 DEF Unblocked, PortGoes
  <2> QED
    BY <2>1, SoleMoves DEF SoleCall, Calling
<1>2. ASSUME SendPortRequest(c) PROVE SoleInv'
  <2>1. port[c].pc = "send" /\ UNCHANGED <<allocated, loop, slot, sole>>
    BY <1>2 DEF SendPortRequest
  <2>2. CASE PortReturns(c, "Err", NoOne)
    BY <2>1, <2>2, PortCallMoves, SoleMoves DEF Calling
  <2>3. CASE PortGoes(c, "wait") /\ asked' = Append(asked, c)
    <3>1. /\ port' = [port EXCEPT ![c].pc = "wait"] /\ port[c] \in PortCall
          /\ port'[c] = [port[c] EXCEPT !.pc = "wait"]
      BY <2>3 DEF PortGoes
    <3>2. port'[c].pc = "wait" /\ \A d \in PortCallers \ {c} : port'[d] = port[d]
      BY <3>1 DEF PortCall
    <3>3. ASSUME c \in sole, SoleCall(c) PROVE SoleCall(c)'
      <4>1. asked' = <<c>>
        BY <2>1, <2>3, <3>3 DEF SoleCall
      <4> QED
        BY <2>1, <3>2, <3>3, <4>1 DEF SoleCall, WithOrchestrator, NoPortLine, Calling
    <3> QED
      BY <2>1, <3>2, <3>3, SoleMoves DEF Calling
  <2> QED
    BY <1>2, <2>2, <2>3 DEF SendPortRequest
<1>3. ASSUME Poll(c) PROVE SoleInv'
  <2>1. /\ port[c].pc = "wait" /\ port[c] \in PortCall /\ allocated \in Ports \union {NoOne}
        /\ UNCHANGED <<allocated, loop, slot, sole, asked, granted>>
    BY <1>3 DEF Poll
  <2>t. port[c].tries = Polls \/ port[c].tries < Polls
    BY <2>1, PollsAssumption DEF PortCall
  <2>2. CASE PortReturns(c, "Err", NoOne) \/ PortReturns(c, "Ok", allocated)
    BY <2>1, <2>2, PortCallMoves, SoleMoves DEF Calling
  <2>3. CASE Answered(c) /\ port' = [port EXCEPT ![c].pc = "store", ![c].port = allocated]
    <3>1. port'[c] = [port[c] EXCEPT !.pc = "store", !.port = allocated]
      BY <2>3
    <3>2. /\ port'[c].pc = "store" /\ port'[c].port = allocated
          /\ \A d \in PortCallers \ {c} : port'[d] = port[d]
      BY <2>1, <2>3, <3>1 DEF PortCall
    <3>3. ASSUME c \in sole, SoleCall(c) PROVE SoleCall(c)'
      <4>1. Arrived(c)
        BY <2>1, <2>3, <3>3 DEF SoleCall, WithOrchestrator, Arriving, Answered
      <4> QED
        BY <2>1, <3>2, <3>3, <4>1 DEF SoleCall, Arrived, Calling
    <3> QED
      BY <2>1, <3>2, <3>3, SoleMoves DEF Calling
  <2>4. CASE port' = [port EXCEPT ![c].tries = @ + 1]
    <3>1. port'[c] = [port[c] EXCEPT !.tries = @ + 1]
      BY <2>4
    <3>2. port'[c].pc = "wait" /\ \A d \in PortCallers \ {c} : port'[d] = port[d]
      BY <2>1, <2>4, <3>1 DEF PortCall
    <3>3. ASSUME c \in sole, SoleCall(c) PROVE SoleCall(c)'
      BY <2>1, <3>2, <3>3 DEF SoleCall, WithOrchestrator, Arriving, Arrived, Calling, NoPortLine
    <3> QED
      BY <2>1, <3>2, <3>3, SoleMoves DEF Calling
  <2> QED
    BY <1>3, <2>t, <2>2, <2>3, <2>4 DEF Poll
<1> QED
  BY <1>1, <1>2, <1>3 DEF CallGoesOn

\* The orchestrator answers.
LEMMA SoleAnswers == ASSUME SoleGroup, AnswerPort PROVE SoleInv'
<1> USE DEF SoleGroup, PortTypeOK, InputInv
<1>1. PICK p \in Ports \union {NoOne} :
        /\ input' = Append(input, PortLine(Head(asked), p))
        /\ granted' = [granted EXCEPT ![Head(asked)] = IF Head(asked) \in sole THEN p ELSE NoOne]
  BY DEF AnswerPort
<1>2. /\ asked # <<>> /\ asked' = Tail(asked)
      /\ UNCHANGED <<loop, slot, allocated, port, sole>>
  BY DEF AnswerPort
<1>3. SUFFICES ASSUME NEW c \in sole, Calling(c) PROVE SoleCall(c)'
  BY <1>2 DEF SoleInv, Calling
<1>4. SoleCall(c) /\ c \in PortCallers
  BY <1>3 DEF SoleInv
<1>5. CASE port[c].pc = "wait"
  <2>1. asked = <<c>> /\ NoPortLine /\ allocated = NoOne /\ loop # "port" /\ slot
    BY <1>2, <1>4, <1>5 DEF SoleCall, Arriving, Arrived, WithOrchestrator
  <2>2. Head(asked) = c /\ asked' = <<>>
    BY <1>2, <2>1
  <2>3. granted'[c] = p /\ PortLine(c, p) \in Lines
    BY <1>1, <1>3, <1>4, <2>2, LineSets
  <2>4. /\ Len(input) + 1 \in DOMAIN input' /\ input'[Len(input) + 1] = PortLine(c, granted'[c])
        /\ \A j \in DOMAIN input' : input'[j].is = "port" => j = Len(input) + 1
    BY <1>1, <2>1, <2>2, <2>3, AppendIndex DEF NoPortLine
  <2>5. Arriving(c)'
    BY <1>2, <2>1, <2>2, <2>4 DEF Arriving
  <2> QED
    BY <1>2, <1>4, <1>5, <2>5 DEF SoleCall, Calling
<1>6. CASE port[c].pc # "wait"
  BY <1>2, <1>3, <1>4, <1>6 DEF SoleCall, Calling, PortCall
<1> QED
  BY <1>5, <1>6

\* The loop reads an answer.
LEMMA SoleReads == ASSUME SoleGroup, OnPortResponse PROVE SoleInv'
<1> USE DEF SoleGroup, PortTypeOK, InputInv
<1>1. PICK d \in PortCallers, p \in Ports \union {NoOne} : Arrives(PortLine(d, p)) /\ Grants(p)
  BY DEF OnPortResponse
<1>2. loop = "running" /\ loop' = "port" /\ UNCHANGED <<slot, asked, port, sole, granted>>
  BY DEF OnPortResponse
<1>3. /\ input[1] = PortLine(d, p) /\ 1 \in DOMAIN input /\ input[1].is = "port"
      /\ \A i \in DOMAIN input' : i + 1 \in DOMAIN input /\ i + 1 # 1 /\ input'[i] = input[i + 1]
  BY <1>1, TailIndex, LineFacts DEF Arrives
<1>4. SUFFICES ASSUME NEW c \in sole, Calling(c) PROVE SoleCall(c)'
  BY <1>2 DEF SoleInv, Calling
<1>5. SoleCall(c) /\ c \in PortCallers /\ ~NoPortLine
  BY <1>3, <1>4 DEF SoleInv, NoPortLine
<1>6. CASE port[c].pc = "wait"
  <2>1. Arriving(c)
    BY <1>5, <1>6 DEF SoleCall, WithOrchestrator, Arrived
  <2>2. PICK i \in DOMAIN input : /\ input[i] = PortLine(c, granted[c])
                                  /\ \A j \in DOMAIN input : input[j].is = "port" => j = i
    BY <2>1 DEF Arriving
  <2>3. i = 1 /\ p = granted[c]
    BY <1>3, <2>2, LineFacts
  <2>4. allocated' = granted[c]
    BY <1>1, <2>1, <2>3 DEF Grants, Arriving
  <2>5. NoPortLine'
    BY <1>3, <2>2, <2>3 DEF NoPortLine
  <2>6. Arrived(c)'
    BY <1>2, <2>1, <2>4, <2>5 DEF Arrived, Arriving
  <2> QED
    BY <1>2, <1>5, <1>6, <2>6 DEF SoleCall, Calling
<1>7. CASE port[c].pc # "wait"
  BY <1>2, <1>5, <1>7 DEF SoleCall, Calling
<1> QED
  BY <1>6, <1>7

LEMMA SoleStep == ASSUME SoleGroup, kind \in Kinds, [HttpNext]_httpVars PROVE SoleInv'
<1> USE DEF SoleGroup
<1>1. CASE UNCHANGED httpVars
  BY <1>1, SoleRequests DEF httpVars, requestVars
<1>2. ASSUME OverTcp, UNCHANGED portVars PROVE SoleInv'
  BY <1>2 DEF ServeInv, SoleInv, Calling, PortTypeOK, portVars
<1>3. ASSUME IpcStep PROVE SoleInv'
  <2>1. ASSUME NEW r \in Requests, Ask(r) PROVE SoleInv'
    BY <2>1, SoleRequests DEF Ask, Sent
  <2>2. CASE OnHttpRequest
    BY <2>2, SoleRequests DEF OnHttpRequest
  <2>3. CASE ServeIpcStep \/ Bind \/ ServeReturns \/ StartHttpIpcServer
    BY <2>3, SoleRequests DEF ServeIpcStep, TaskGoesOn, Bind, ServeReturns, StartHttpIpcServer,
       requestVars
  <2>4. CASE LoopEnds
    BY <2>4, SoleKept DEF LoopEnds, requestVars, NoPortLine, Arriving
  <2>5. CASE ServeWithOptions
    <3>1. CASE UNCHANGED portVars
      BY <2>5, <3>1, SoleRequests DEF ServeWithOptions, requestVars
    <3>2. CASE kind = "ipc_and_http" /\ LocksSlot("serve")
      BY <2>5, <3>2, SoleBegins, PortCallersAssumption DEF ServeWithOptions, requestVars
    <3> QED
      BY <2>5, <3>1, <3>2 DEF ServeWithOptions
  <2>6. CASE RequestPort /\ UNCHANGED requestVars
    <3>1. CASE LocksSlot("app")
      BY <2>6, <3>1, SoleBegins DEF RequestPort, requestVars
    <3>2. CASE PortReturns("app", "Ok", allocated) /\ UNCHANGED <<loop, slot, allocated, asked, sole, granted>>
      <4>1. /\ port' = [port EXCEPT !["app"] = [pc |-> "idle", tries |-> 0, res |-> "Ok", port |-> allocated]]
            /\ "app" \in PortCallers /\ input' = input
        BY <2>6, <3>2 DEF PortReturns, RequestPort, requestVars
      <4>i. ~Calling("app")'
        BY <4>1 DEF Calling, PortTypeOK
      <4>2. SUFFICES ASSUME NEW c \in sole, Calling(c)' PROVE SoleCall(c)'
        BY <3>2 DEF SoleInv
      <4>3. c # "app" /\ Calling(c) /\ c \in PortCallers /\ port'[c] = port[c]
        BY <3>2, <4>1, <4>i, <4>2 DEF Calling, PortTypeOK
      <4>4. SoleCall(c)
        BY <3>2, <4>2, <4>3 DEF SoleInv
      <4>5. \A d \in PortCallers \ {c} : ~Calling(d)'
        BY <4>1, <4>i, <4>4 DEF SoleCall, Calling, PortTypeOK
      <4> QED
        BY <3>2, <4>1, <4>3, <4>4, <4>5
        DEF SoleCall, Calling, WithOrchestrator, Arriving, Arrived, NoPortLine
    <3> QED
      BY <2>6, <3>1, <3>2 DEF RequestPort
  <2>7. ASSUME NEW c \in PortCallers, CallGoesOn(c), UNCHANGED requestVars PROVE SoleInv'
    BY <2>7, SoleCallStep DEF requestVars
  <2>8. CASE StorePort
    <3>1. /\ port' = [port EXCEPT !["app"] = [pc |-> "idle", tries |-> 0, res |-> "Ok", port |-> port["app"].port]]
          /\ "app" \in PortCallers /\ port["app"].pc = "store" /\ sole' = sole
      BY <2>8 DEF StorePort, PortReturns
    <3>2. ~Calling("app")' /\ Calling("app") /\ \A d \in PortCallers \ {"app"} : port'[d] = port[d]
      BY <3>1 DEF Calling, PortTypeOK
    <3> QED
      BY <3>1, <3>2, SoleMoves
  <2>9. CASE EmptySlot /\ UNCHANGED requestVars
    <3>1. /\ loop = "port" /\ loop' = "running" /\ slot' = FALSE
          /\ UNCHANGED <<allocated, asked, port, sole, granted, input>>
      BY <2>9 DEF EmptySlot, requestVars
    <3>2. SUFFICES ASSUME NEW c \in sole, Calling(c) PROVE SoleCall(c)'
      BY <3>1 DEF SoleInv, Calling
    <3>3. SoleCall(c)
      BY <3>2 DEF SoleInv
    <3> QED
      BY <3>1, <3>3 DEF SoleCall, Calling, WithOrchestrator, Arriving, Arrived, NoPortLine
  <2>10. CASE AnswerPort
    BY <2>10, SoleAnswers
  <2>11. CASE OnPortResponse
    BY <2>11, SoleReads
  <2> QED
    BY <1>3, <2>1, <2>2, <2>3, <2>4, <2>5, <2>6, <2>7, <2>8, <2>9, <2>10, <2>11
    DEF IpcStep, PortOnly, ServeOnly
<1> QED
  BY <1>1, <1>2, <1>3, Steps

-----------------------------------------------------------------------------
(* The theorems.                                                           *)

\* All that is said of a state of the servers holds of the initial ones.
LEMMA Starts == ASSUME HttpInit PROVE HttpInv
<1> USE DEF HttpInit, RequestsInit, PortInit, ServingInit, TcpInit
<1>e. <<>> \in Seq(Lines) /\ <<>> \in Seq(Requests) /\ Len(<<>>) = 0 /\ DOMAIN <<>> = {}
      /\ <<>> \in Seq(PortCallers)
  BY EmptySeq
<1>n. \A r \in Requests : req[r] = "new"
  OBVIOUS
<1>1. InputGroup
  <2>1. input = <<>> /\ kind \in Kinds /\ malformed \subseteq Requests
    OBVIOUS
  <2>2. req \in [Requests -> ReqStates]
    BY DEF ReqStates
  <2>3. ASSUME NEW r \in Requests PROVE ~Contains(input, RequestLine(r)) /\ req[r] # "input"
    <3>1. ~Contains(<<>>, RequestLine(r))
      BY EmptyHasNone
    <3> QED
      BY <1>n, <2>1, <3>1
  <2>4. InputInv
    BY <1>e, <2>1 DEF InputInv
  <2> QED
    BY <2>1, <2>2, <2>3, <2>4 DEF InputGroup, RequestsTypeOK
<1>2. InboxGroup
  <2>1. inbox = <<>> /\ task = "off" /\ ended = "none" /\ serve = "off" /\ lagged = FALSE
    OBVIOUS
  <2>2. Len(inbox) <= Cap
    BY <1>e, <2>1, CapAssumption
  <2>3. ASSUME NEW r \in Requests PROVE ~Contains(inbox, r) /\ req[r] # "queued"
    <3>1. ~Contains(<<>>, r)
      BY EmptyHasNone
    <3> QED
      BY <1>n, <2>1, <3>1
  <2>4. InboxInv
    BY <1>e, <2>1 DEF InboxInv, Once
  <2> QED
    BY <1>e, <2>1, <2>2, <2>3, <2>4 DEF InboxGroup, ServingTypeOK
<1>3. PortTypeOK /\ SoleInv /\ ServeInv
  <2>1. [pc |-> "idle", tries |-> 0, res |-> "none", port |-> NoOne] \in PortCall
    BY PollsAssumption DEF PortCall
  <2>2. \A c \in PortCallers : port[c].pc = "idle" /\ c # NoOne
    BY PortCallersAssumption
  <2> QED
    BY <1>e, <2>1, <2>2 DEF PortTypeOK, SoleInv, ServeInv, Calling
<1>4. TcpTypeOK /\ LineInv /\ AloneInv /\ AloneGetsOwn
  <2>1. ClientTypeOK /\ AloneInv /\ AloneGetsOwn
    BY EmptySeq, RequestsAssumption DEF ClientTypeOK, AloneInv, AloneGetsOwn
  <2>2. LineGroup
    <3>1. \A x : ~Contains(line, x)
      BY EmptyHasNone
    <3>2. line \in Seq(Requests \union {Receiver}) /\ DOMAIN line = {}
      BY EmptySeq
    <3> QED
      BY <1>n, <3>1, <3>2 DEF LineGroup, LineInv, Once
  <2> QED
    BY <2>1, <2>2, TcpHalves
<1>5. Oks = {}
  BY DEF Oks
<1>6. ResponseInv
  BY <1>5, FS_EmptySet DEF ResponseInv, Once
<1> QED
  BY <1>1, <1>2, <1>3, <1>4, <1>6 DEF HttpInv, HttpTypeOK, InputGroup, InboxGroup

\* Whatever the servers, the clients, the calls for a port and the
\* orchestrator do, all that is said of a state goes on to hold.
THEOREM HttpInvariance == HttpSpec => []HttpInv
<1>1. ASSUME HttpInv, [HttpNext]_httpVars PROVE HttpInv'
  <2> USE <1>1 DEF HttpInv, HttpTypeOK
  <2>1. InputGroup'
    BY InputStep DEF InputGroup
  <2>2. InboxGroup'
    BY InboxStep DEF InboxGroup, InputGroup
  <2>3. PortTypeOK' /\ ServeInv'
    BY PortStepTypes DEF RequestsTypeOK
  <2>l. LineGroup' /\ ClientTypeOK'
    BY TcpHalves, LineStep, ClientTypes DEF InputGroup, InboxGroup
  <2>h. TcpTypeOK' /\ LineInv'
    BY <2>l DEF TcpTypeOK, LineGroup, ClientTypeOK
  <2>4. TcpInv'
    BY <2>h, TcpInvStep DEF TcpInv, InputGroup
  <2>5. SoleInv'
    BY SoleStep DEF SoleGroup, RequestsTypeOK
  <2> QED
    BY <2>1, <2>2, <2>3, <2>h, <2>4, <2>5 DEF InputGroup, InboxGroup, TcpInv
<1> QED
  BY <1>1, Starts, PTL DEF HttpSpec

\* Requests are where the variables say they are; a call for a port writes
\* with the mutex; who receives from a TCP stream has its mutex
\* (src/ipc.rs, src/server.rs, src/http_tcp).
THEOREM HttpTypeCorrect == HttpSpec => []HttpTypeOK
<1>1. HttpInv => HttpTypeOK
  BY DEF HttpInv
<1> QED
  BY <1>1, HttpInvariance, PTL

\* A call of the TCP client that has the channel to itself gets its own
\* response, whatever earlier calls took from each other
\* (RequestBuilder::send, src/http_tcp/client.rs).
THEOREM AloneCallsGetTheirOwn == HttpSpec => []AloneGetsOwn
<1>1. HttpInv => AloneGetsOwn
  BY DEF HttpInv
<1> QED
  BY <1>1, HttpInvariance, PTL

\* The port that a call returns which has the negotiation to itself is the one
\* the orchestrator granted to it: the globals that wait_for_port_response
\* sees can say Ok only when its answer has set them (src/ipc.rs).
THEOREM PortsAreOwn == HttpSpec => PortIsOwn
<1> DEFINE Own == \A c \in sole :
        port[c].pc \in {"wait", "store"} /\ port'[c].pc = "idle" /\ port'[c].res = "Ok"
            => port'[c].port = granted[c]
<1>1. ASSUME HttpInv, HttpNext PROVE Own
  <2> USE DEF HttpInv, HttpTypeOK, PortTypeOK
  <2>1. SUFFICES ASSUME NEW c \in sole, port[c].pc \in {"wait", "store"},
                        port'[c].pc = "idle", port'[c].res = "Ok"
                 PROVE  port'[c].port = granted[c]
    OBVIOUS
  <2>2. c \in PortCallers /\ Calling(c) /\ SoleCall(c)
    BY <1>1, <2>1 DEF SoleInv, Calling
  <2>3. ~OverTcp
    BY <1>1, <2>2 DEF ServeInv
  <2>4. \A d \in PortCallers \ {c} : port[d].pc = "idle"
    BY <2>2 DEF SoleCall, Calling
  <2>5. IpcStep
    BY <1>1, <2>3, Steps
  <2>6. port'[c] # port[c]
    BY <2>1
  <2>7. Poll(c) \/ (c = "app" /\ StorePort)
    <3>1. ASSUME NEW d \in PortCallers, LocksSlot(d) \/ PortReturns(d, "Ok", allocated),
                 ~Calling(d)
          PROVE  FALSE
      BY <1>1, <2>2, <2>6, <3>1 DEF LocksSlot, PortGoes, PortReturns
    <3>2. ASSUME NEW d \in PortCallers, Unblocked(d) \/ SendPortRequest(d) PROVE FALSE
      BY <2>1, <2>2, <2>4, <3>2 DEF Unblocked, SendPortRequest
    <3>3. ASSUME NEW d \in PortCallers, Poll(d) PROVE d = c
      BY <2>4, <3>3 DEF Poll
    <3>4. ASSUME StorePort PROVE c = "app"
      BY <2>4, <3>4 DEF StorePort
    <3>5. ~RequestPort
      BY <3>1 DEF RequestPort
    <3>6. ~ServeWithOptions
      <4>1. ASSUME ServeWithOptions PROVE FALSE
        <5>1. kind = "ipc_and_http" /\ LocksSlot("serve") /\ serve = "off"
          BY <2>6, <4>1 DEF ServeWithOptions, portVars
        <5>2. "serve" \in PortCallers /\ ~Calling("serve")
          BY <1>1, <5>1, PortCallersAssumption DEF ServeInv, RequestsTypeOK
        <5> QED
          BY <3>1, <5>1, <5>2
      <4> QED
        BY <4>1
    <3>7. /\ \A r \in Requests : ~Ask(r)
          /\ ~AnswerPort /\ ~OnPortResponse /\ ~EmptySlot /\ ~OnHttpRequest /\ ~ServeIpcStep
          /\ ~Bind /\ ~ServeReturns /\ ~StartHttpIpcServer /\ ~LoopEnds
      BY <2>6 DEF Ask, AnswerPort, OnPortResponse, EmptySlot, OnHttpRequest, ServeIpcStep, TaskGoesOn, Bind,
         ServeReturns, StartHttpIpcServer, LoopEnds, portVars
    <3> QED
      BY <2>5, <3>2, <3>3, <3>4, <3>5, <3>6, <3>7 DEF IpcStep, PortOnly, ServeOnly, CallGoesOn
  <2>8. ASSUME Poll(c) PROVE port'[c].port = granted[c]
    <3>1. port[c].pc = "wait" /\ port[c] \in PortCall
      BY <1>1, <2>2, <2>8 DEF Poll
    <3>2. /\ PortReturns(c, "Ok", allocated) => port'[c].port = allocated
          /\ PortReturns(c, "Err", NoOne) => port'[c].res = "Err"
      BY <1>1, <2>2 DEF PortReturns
    <3>3. port' = [port EXCEPT ![c].pc = "store", ![c].port = allocated] => port'[c].pc = "store"
      <4>1. SUFFICES ASSUME port' = [port EXCEPT ![c].pc = "store", ![c].port = allocated]
                     PROVE  port'[c].pc = "store"
        OBVIOUS
      <4>2. port'[c] = [port[c] EXCEPT !.pc = "store", !.port = allocated]
        BY <1>1, <2>2, <4>1
      <4> QED
        BY <3>1, <4>2 DEF PortCall
    <3>4. port' = [port EXCEPT ![c].tries = @ + 1] => port'[c].pc = "wait"
      <4>1. SUFFICES ASSUME port' = [port EXCEPT ![c].tries = @ + 1] PROVE port'[c].pc = "wait"
        OBVIOUS
      <4>2. port'[c] = [port[c] EXCEPT !.tries = @ + 1]
        BY <1>1, <2>2, <4>1
      <4> QED
        BY <3>1, <4>2 DEF PortCall
    <3>t. port[c].tries = Polls \/ port[c].tries < Polls
      BY <3>1, PollsAssumption DEF PortCall
    <3>5. Answered(c) /\ PortReturns(c, "Ok", allocated)
      BY <2>1, <2>8, <3>t, <3>2, <3>3, <3>4 DEF Poll
    <3>6. Arrived(c)
      BY <2>2, <3>1, <3>5 DEF SoleCall, WithOrchestrator, Arriving, Answered
    <3> QED
      BY <3>2, <3>5, <3>6 DEF Arrived
  <2>9. ASSUME c = "app", StorePort PROVE port'[c].port = granted[c]
    BY <1>1, <2>2, <2>9 DEF StorePort, PortReturns, SoleCall
  <2> QED
    BY <2>7, <2>8, <2>9
<1>2. ASSUME HttpInv, [HttpNext]_httpVars PROVE [Own]_httpVars
  BY <1>1, <1>2
<1> QED
  BY <1>2, HttpInvariance, PTL DEF HttpSpec, PortIsOwn
=============================================================================
