----------------------------- MODULE TcpChannel -----------------------------
(***************************************************************************)
(* The TCP channel between a module and the orchestrator                   *)
(* (src/tcp_channel.rs), shared by several tokio tasks through an Arc.     *)
(*                                                                         *)
(* The channel keeps a ConnectionState and an Option<TcpStream>, each      *)
(* behind its own tokio mutex.  A task runs one call at a time (connect,   *)
(* send, receive, disconnect); a step of a task is the code between two    *)
(* points where it may be suspended.  The state mutex is never held across *)
(* such a point, so it needs no variable; the stream mutex is held while a *)
(* whole frame is read or written and is modelled by streamLock.  The      *)
(* counter connect_attempts is written and never read: it is left out.     *)
(*                                                                         *)
(* A frame travels as two chunks: the header (length and format byte) and  *)
(* the payload.  Chunks are not stored: a connection is a record of        *)
(*   up      whether the peer's end is up,                                 *)
(*   reads   whether it takes what is written, or the buffers still do,    *)
(*   outMid  the task whose frame is half written, or NoTask,              *)
(*   inMid   whether the next chunk to read is a payload,                  *)
(*   unread  the chunks in flight towards the module.                      *)
(***************************************************************************)
EXTENDS Naturals, FiniteSets

CONSTANTS
    Tasks,        \* tasks that share the Arc<TcpChannel>
    NoTask,       \* "no task": a free mutex, no frame under way
    NoStream,     \* the None of Option<TcpStream>
    Ops,          \* the calls the tasks make
    Policy,       \* the ReconnectPolicy of the ConnectionConfig
    MaxAttempts,  \* max_attempts of FixedInterval
    AddrParses,   \* whether host:port parses as a SocketAddr
    MaxUnread     \* bound: chunks in flight towards the module

AllOps == {"connect", "send", "receive", "receive_timeout", "disconnect"}
Policies == {"None", "FixedInterval", "ExponentialBackoff"}
Connections == [up : BOOLEAN, reads : BOOLEAN, outMid : Tasks \union {NoTask},
                inMid : BOOLEAN, unread : 0..MaxUnread]

ASSUME TasksAssumption == NoTask \notin Tasks
ASSUME StreamAssumption == NoStream \notin Connections
ASSUME OpsAssumption == Ops \subseteq AllOps
ASSUME PolicyAssumption == Policy \in Policies /\ AddrParses \in BOOLEAN
ASSUME BoundsAssumption == MaxAttempts \in Nat /\ MaxUnread \in Nat

VARIABLES
    state,        \* ConnectionState
    stream,       \* Option<TcpStream>: a connection, or NoStream
    streamLock,   \* holder of the stream mutex
    pc,           \* where each task is
    op,           \* the call it runs, or ran last
    retried,      \* its one reconnect-and-retry has been used
    attempts,     \* its local count of failed attempts
    result,       \* what its last call returned
    written       \* whole frames its call has written

chanVars == <<state, stream, streamLock>>
callVars == <<op, retried, attempts, result, written>>
vars == <<chanVars, pc, callVars>>

States == {"Disconnected", "Connecting", "Connected", "Failed"}
Writing == {"w_head", "w_body"}
Reading == {"r_head", "r_body"}
InIO == Writing \union Reading
PCs == InIO \union {"idle", "ensure", "begin", "loop", "check", "mark", "dial",
                    "failed", "store", "finish", "io_check", "io_lock", "close"}

TypeOK ==
    /\ state \in States
    /\ stream \in Connections \union {NoStream}
    /\ streamLock \in Tasks \union {NoTask}
    /\ pc \in [Tasks -> PCs]
    /\ op \in [Tasks -> AllOps \union {"none"}]
    /\ retried \in [Tasks -> BOOLEAN]
    /\ attempts \in [Tasks -> 0..MaxAttempts]
    /\ result \in [Tasks -> {"none", "Ok", "Err", "Timeout"}]
    /\ written \in [Tasks -> Nat]

\* TcpChannel::new: no stream, state Disconnected.
Init ==
    /\ state = "Disconnected"
    /\ stream = NoStream
    /\ streamLock = NoTask
    /\ pc = [t \in Tasks |-> "idle"]
    /\ op = [t \in Tasks |-> "none"]
    /\ retried = [t \in Tasks |-> FALSE]
    /\ attempts = [t \in Tasks |-> 0]
    /\ result = [t \in Tasks |-> "none"]
    /\ written = [t \in Tasks |-> 0]

Goto(t, l) == pc' = [pc EXCEPT ![t] = l]

\* The call of t returns r.
Return(t, r) ==
    /\ Goto(t, "idle")
    /\ result' = [result EXCEPT ![t] = r]

-----------------------------------------------------------------------------
(* The calls: MessageChannel::connect, send, receive, disconnect, and      *)
(* receive under a timeout (receive_with_timeout).                         *)

FirstStep(o) ==
    CASE o = "connect" -> "begin"
      [] o = "disconnect" -> "close"
      [] OTHER -> "ensure"

Call(t, o) ==
    /\ pc[t] = "idle"
    /\ Goto(t, FirstStep(o))
    /\ op' = [op EXCEPT ![t] = o]
    /\ retried' = [retried EXCEPT ![t] = FALSE]
    /\ result' = [result EXCEPT ![t] = "none"]
    /\ written' = [written EXCEPT ![t] = 0]
    /\ UNCHANGED <<chanVars, attempts>>

\* ensure_connected: the state is read once; a Failed channel refuses.
EnsureConnected(t) ==
    /\ pc[t] = "ensure"
    /\ \/ state = "Connected" /\ Goto(t, "io_check") /\ UNCHANGED result
       \/ state = "Failed" /\ Return(t, "Err")
       \/ state \in {"Disconnected", "Connecting"} /\ Goto(t, "begin") /\ UNCHANGED result
    /\ UNCHANGED <<chanVars, op, retried, attempts, written>>

\* connect_with_retry: whatever the state was, it becomes Connecting.
BeginConnect(t) ==
    /\ pc[t] = "begin"
    /\ state' = "Connecting"
    /\ attempts' = [attempts EXCEPT ![t] = 0]
    /\ Goto(t, "loop")
    /\ UNCHANGED <<stream, streamLock, op, retried, result, written>>

\* The head of the retry loop: only FixedInterval gives up here.
GivesUp(t) == Policy = "FixedInterval" /\ attempts[t] >= MaxAttempts

RetryLoop(t) ==
    /\ pc[t] = "loop"
    /\ \/ /\ GivesUp(t)
          /\ state' = "Failed"
          /\ Return(t, "Err")
       \/ /\ ~GivesUp(t)
          /\ Goto(t, "check")
          /\ UNCHANGED <<state, result>>
    /\ UNCHANGED <<stream, streamLock, op, retried, attempts, written>>

\* connect_with_retry succeeded: connect returns, send and receive go on.
Connected(t) ==
    IF op[t] = "connect" THEN Return(t, "Ok")
                         ELSE Goto(t, "io_check") /\ UNCHANGED result

\* try_connect, first lock of the state: somebody else may have connected.
TryCheck(t) ==
    /\ pc[t] = "check"
    /\ \/ state = "Connected" /\ Connected(t)
       \/ state # "Connected" /\ Goto(t, "mark") /\ UNCHANGED result
    /\ UNCHANGED <<chanVars, op, retried, attempts, written>>

\* Second lock of the state, then socket_addr()?, which fails without
\* touching the state when host:port is not an IP literal.
TryMark(t) ==
    /\ pc[t] = "mark"
    /\ state' = "Connecting"
    /\ Goto(t, IF AddrParses THEN "dial" ELSE "failed")
    /\ UNCHANGED <<stream, streamLock, callVars>>

Fresh == [up |-> TRUE, reads |-> TRUE, outMid |-> NoTask, inMid |-> FALSE, unread |-> 0]

\* The connection is established; the task holds its socket.
DialOk(t) ==
    /\ pc[t] = "dial"
    /\ Goto(t, "store")
    /\ UNCHANGED <<chanVars, callVars>>

\* Refused, unreachable, or no answer within config.timeout.
DialFail(t) ==
    /\ pc[t] = "dial"
    /\ state' = "Disconnected"
    /\ Goto(t, "failed")
    /\ UNCHANGED <<stream, streamLock, callVars>>

\* Defect for the check of TypeOK: the attempt is counted before the limit
\* is tested, and again after it.
CountAttempt_Twice(t) == attempts' = [attempts EXCEPT ![t] = @ + 2]

\* Defect for the check of CallsReturn: a failed attempt is not counted.
CountAttempt_Lost(t) == UNCHANGED attempts

\* A counter that no limit reads (ExponentialBackoff) is left alone.
CountAttempt(t) ==
    attempts' = [attempts EXCEPT ![t] = IF Policy = "FixedInterval" THEN @ + 1 ELSE @]

\* A failed attempt: the None policy ends in Failed, the others sleep and loop.
AttemptFailed(t) ==
    /\ pc[t] = "failed"
    /\ \/ /\ Policy = "None"
          /\ state' = "Failed"
          /\ Return(t, "Err")
          /\ UNCHANGED attempts
       \/ /\ Policy # "None"
          /\ CountAttempt(t)
          /\ Goto(t, "loop")
          /\ UNCHANGED <<state, result>>
    /\ UNCHANGED <<stream, streamLock, op, retried, written>>

\* Storing the new stream needs the stream mutex; the old stream is dropped.
\* What the peer has already done on the new one shows as later steps of it.
StoreStream(t) ==
    /\ pc[t] = "store"
    /\ streamLock = NoTask
    /\ stream' = Fresh
    /\ Goto(t, "finish")
    /\ UNCHANGED <<state, streamLock, callVars>>

MarkConnected(t) ==
    /\ pc[t] = "finish"
    /\ state' = "Connected"
    /\ Connected(t)
    /\ UNCHANGED <<stream, streamLock, op, retried, attempts, written>>

-----------------------------------------------------------------------------
(* send_message and receive_message, and the one reconnect-and-retry of    *)
(* send_with_reconnect and receive_with_reconnect.                         *)

\* A connection error: reconnect and retry once, then give up.
ConnectionError(t) ==
    IF retried[t] THEN Return(t, "Err") /\ UNCHANGED retried
                  ELSE /\ Goto(t, "begin")
                       /\ retried' = [retried EXCEPT ![t] = TRUE]
                       /\ UNCHANGED result

IoCheck(t) ==
    /\ pc[t] = "io_check"
    /\ \/ state # "Connected" /\ ConnectionError(t)
       \/ state = "Connected" /\ Goto(t, "io_lock") /\ UNCHANGED <<retried, result>>
    /\ UNCHANGED <<chanVars, op, attempts, written>>

\* The stream mutex is taken, and kept only if there is a stream.
IoLock(t) ==
    /\ pc[t] = "io_lock"
    /\ streamLock = NoTask
    /\ \/ /\ stream = NoStream
          /\ ConnectionError(t)
          /\ UNCHANGED streamLock
       \/ /\ stream # NoStream
          /\ streamLock' = t
          /\ Goto(t, IF op[t] = "send" THEN "w_head" ELSE "r_head")
          /\ UNCHANGED <<retried, result>>
    /\ UNCHANGED <<state, stream, op, attempts, written>>

\* write_all has no timer: it waits, with the stream mutex, for a peer that
\* reads.  It also succeeds while the loss of the peer is not yet noticed.
WriteHead(t) ==
    /\ pc[t] = "w_head"
    /\ stream.reads
    /\ stream' = [stream EXCEPT !.outMid = t]
    /\ Goto(t, "w_body")
    /\ UNCHANGED <<state, streamLock, callVars>>

\* Defect for the check of SendOutcome: an error after the last byte (of the
\* flush, say) takes the reconnect-and-retry path.
WriteBody_FlushFails(t) ==
    /\ pc[t] = "w_body"
    /\ stream.reads
    /\ stream' = [stream EXCEPT !.outMid = NoTask]
    /\ written' = [written EXCEPT ![t] = @ + 1]
    /\ streamLock' = NoTask
    /\ ConnectionError(t)
    /\ UNCHANGED <<state, op, attempts>>

\* The last byte is written.  flush follows, which does nothing on a TcpStream
\* of tokio and cannot fail.
WriteBody(t) ==
    /\ pc[t] = "w_body"
    /\ stream.reads
    /\ stream' = [stream EXCEPT !.outMid = NoTask]
    /\ written' = [written EXCEPT ![t] = @ + 1]
    /\ streamLock' = NoTask
    /\ Return(t, "Ok")
    /\ UNCHANGED <<state, op, retried, attempts>>

\* read_exact takes the next chunk off the connection.
TakeChunk ==
    /\ stream.unread > 0
    /\ stream' = [stream EXCEPT !.unread = @ - 1, !.inMid = ~@]

ReadHead(t) ==
    /\ pc[t] = "r_head"
    /\ TakeChunk
    /\ Goto(t, "r_body")
    /\ UNCHANGED <<state, streamLock, callVars>>

\* The frame is complete; it may still have an unknown format byte, which is
\* an error that is not retried and leaves the connection up.
ReadBody(t) ==
    /\ pc[t] = "r_body"
    /\ TakeChunk
    /\ streamLock' = NoTask
    /\ \E r \in {"Ok", "Err"} : Return(t, r)
    /\ UNCHANGED <<state, op, retried, attempts, written>>

\* Defect for the check of Framing: the stream survives a failed write or read.
DropStream_Kept(t) ==
    /\ state' = "Disconnected"
    /\ streamLock' = NoTask
    /\ UNCHANGED stream

\* State Disconnected, the stream dropped and its mutex released.
DropStream(t) ==
    /\ state' = "Disconnected"
    /\ stream' = NoStream
    /\ streamLock' = NoTask

\* A write fails, or a read meets the end of the data, on a connection whose
\* peer is gone.
IoFail(t) ==
    /\ pc[t] \in InIO
    /\ ~stream.up
    /\ pc[t] \in Reading => stream.unread = 0
    /\ DropStream(t)
    /\ ConnectionError(t)
    /\ UNCHANGED <<op, attempts, written>>

Close(t) ==
    /\ pc[t] = "close"
    /\ streamLock = NoTask
    /\ DropStream(t)
    /\ Return(t, "Ok")
    /\ UNCHANGED <<op, retried, attempts, written>>

\* The timer of tokio::time::timeout drops the future wherever it is
\* suspended: the guard it holds is released and a socket it has opened is
\* closed, but the bytes it has read are gone and the state stays as it is.
TimeoutElapses(t) ==
    /\ op[t] = "receive_timeout"
    /\ pc[t] # "idle"
    /\ streamLock' = IF streamLock = t THEN NoTask ELSE streamLock
    /\ Return(t, "Timeout")
    /\ UNCHANGED <<state, stream, op, retried, attempts, written>>

-----------------------------------------------------------------------------
(* The other end of the connection.                                        *)

PeerUp == stream # NoStream /\ stream.up

PeerWrites ==
    /\ PeerUp
    /\ stream.unread < MaxUnread
    /\ stream' = [stream EXCEPT !.unread = @ + 1]
    /\ UNCHANGED <<state, streamLock, pc, callVars>>

\* The peer stops reading and the buffers fill up, or it reads again.
PeerStalls ==
    /\ PeerUp
    /\ stream' = [stream EXCEPT !.reads = ~@]
    /\ UNCHANGED <<state, streamLock, pc, callVars>>

\* The peer closes, crashes or becomes unreachable, at any chunk.
PeerGone ==
    /\ PeerUp
    /\ stream' = [stream EXCEPT !.up = FALSE]
    /\ UNCHANGED <<state, streamLock, pc, callVars>>

Step(t) ==
    \/ EnsureConnected(t) \/ BeginConnect(t) \/ RetryLoop(t)
    \/ TryCheck(t) \/ TryMark(t) \/ DialOk(t) \/ DialFail(t) \/ AttemptFailed(t)
    \/ StoreStream(t) \/ MarkConnected(t)
    \/ IoCheck(t) \/ IoLock(t)
    \/ WriteHead(t) \/ WriteBody(t) \/ ReadHead(t) \/ ReadBody(t) \/ IoFail(t)
    \/ Close(t)

Next ==
    \/ \E t \in Tasks : Step(t) \/ TimeoutElapses(t) \/ \E o \in Ops : Call(t, o)
    \/ PeerWrites \/ PeerStalls \/ PeerGone

Spec == Init /\ [][Next]_vars

(***************************************************************************)
(* Fairness.  tokio polls a ready task, and its Mutex queues waiters in    *)
(* FIFO order, so a task that waits for the stream mutex gets it if it is  *)
(* released over and over: strong fairness of a task's steps.  A timer     *)
(* fires.  A write ends only if the peer reads or is found to be gone, and *)
(* nothing is assumed of the peer or of the caller.                        *)
(***************************************************************************)
Fairness == \A t \in Tasks : SF_vars(Step(t)) /\ WF_vars(TimeoutElapses(t))

FairSpec == Spec /\ Fairness

-----------------------------------------------------------------------------
(* Properties.                                                             *)

AtBoundary == ~stream.inMid /\ stream.outMid = NoTask

(***************************************************************************)
(* When no receive is cancelled by a timer, frames are never torn or       *)
(* interleaved: a reader begins at a header and ends with its payload, a   *)
(* writer has the connection to itself, and a stream that nobody uses is   *)
(* at a frame boundary in both directions, however calls, reconnections    *)
(* and failures in the middle of a frame are interleaved.                  *)
(***************************************************************************)
Framing ==
    "receive_timeout" \notin Ops =>
        /\ stream # NoStream /\ streamLock = NoTask => AtBoundary
        /\ \A t \in Tasks :
            /\ pc[t] \in {"w_head", "r_head"} => AtBoundary
            /\ pc[t] = "w_body" => stream.outMid = t /\ ~stream.inMid
            /\ pc[t] = "r_body" => stream.inMid /\ stream.outMid = NoTask

(***************************************************************************)
(* A send that returns Ok wrote its frame exactly once, and one that       *)
(* returns an error or is still under way has not written it: the retry    *)
(* after a connection error never duplicates a message.                    *)
(***************************************************************************)
SendOutcome ==
    \A t \in Tasks : op[t] = "send" =>
        written[t] = IF pc[t] = "idle" /\ result[t] = "Ok" THEN 1 ELSE 0

\* A task waits in write_all, with the mutex, for a peer that does not read.
WriteBlocked == \E t \in Tasks : pc[t] \in Writing /\ stream.up /\ ~stream.reads

(***************************************************************************)
(* Every call returns, when reconnection has a limit and every receive a   *)
(* timer, or some write stays blocked for ever: nothing else keeps a task  *)
(* waiting for the stream mutex, and no retry loop is kept alive by what   *)
(* the other tasks do to the state.                                        *)
(***************************************************************************)
CallsReturn == \A t \in Tasks : []<>(pc[t] = "idle") \/ <>[]WriteBlocked
=============================================================================
