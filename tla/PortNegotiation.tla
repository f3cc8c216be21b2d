--------------------------- MODULE PortNegotiation ---------------------------
(***************************************************************************)
(* How a module is given a port (src/ipc.rs): send_port_negotiation,       *)
(* wait_for_port_response and request_port, the branch of                  *)
(* process_ipc_messages for a port response, and negotiate_port of         *)
(* src/server.rs.                                                          *)
(*                                                                         *)
(* The answer is not sent to the call that asked: its receiver is dropped  *)
(* before the request is answered.  The calls look at two globals instead: *)
(* PORT_RESPONSE_SENDER, which the loop empties with any answer, and       *)
(* ALLOCATED_PORT, which it sets with any grant.                           *)
(*                                                                         *)
(* PORT_RESPONSE_SENDER is a std mutex, and send_port_negotiation keeps it *)
(* locked while it waits for the standard output: whoever locks it         *)
(* meanwhile blocks its thread.  A future that keeps a guard is not Send,  *)
(* so the calls are not spawned on a pool: they run where block_on or a    *)
(* LocalSet runs them, which may be one thread for all of them.            *)
(***************************************************************************)
EXTENDS HttpRequests

CONSTANTS
    PortCallers,   \* "serve" calls negotiate_port, "app" calls request_port
    Ports,
    Polls,         \* how often wait_for_port_response looks (10)
    Threads,       \* for each kind: on what threads the calls and the tasks may run
    MaxPortCalls   \* bound, for each kind of server

ASSUME PortCallersAssumption ==
    /\ PortCallers \subseteq {"serve", "app"} /\ NoOne \notin PortCallers
    /\ "ipc_and_http" \in Kinds => "serve" \in PortCallers
ASSUME PollsAssumption ==
    Polls \in Nat \ {0} /\ MaxPortCalls \in [Kinds -> Nat]
ASSUME PortsAssumption == NoOne \notin Ports

\* The calls, process_ipc_messages and serve_ipc.
Actors == PortCallers \union {"loop", "task"}
ASSUME ThreadsAssumption == \A k \in Kinds : Threads[k] \subseteq [Actors -> Nat]

VARIABLES
    thread,     \* where each of them runs
    loop,       \* process_ipc_messages: running, about to empty the slot, or ended
    slot,       \* PORT_RESPONSE_SENDER holds a sender
    guard,      \* the call that has it locked
    allocated,  \* ALLOCATED_PORT
    asked,      \* port requests the orchestrator has not answered: who asked
    port,       \* the port call of each caller
    portCalls,  \* bound
    sole,       \* history: calls that had the negotiation to themselves
    granted     \* history: what the orchestrator answered to the call's request

portVars == <<thread, loop, slot, guard, allocated, asked, port, portCalls, sole, granted>>

PortCall == [pc : {"idle", "lock", "send", "wait", "store"}, tries : 0..Polls,
             res : {"none", "Ok", "Err"}, port : Ports \union {NoOne}]
PortLine(c, p) == [is |-> "port", of |-> c, port |-> p]

PortTypeOK ==
    /\ thread \in Threads[kind] /\ loop \in {"running", "port", "ended"}
    /\ slot \in BOOLEAN /\ allocated \in Ports \union {NoOne}
    /\ guard \in PortCallers \union {NoOne}
    /\ port \in [PortCallers -> PortCall]
    /\ \A c \in PortCallers : guard = c <=> port[c].pc = "send"
    /\ asked \in Seq(PortCallers) /\ sole \subseteq PortCallers
    /\ granted \in [PortCallers -> Ports \union {NoOne}]

PortInit ==
    /\ thread \in Threads[kind]
    /\ loop = "running" /\ slot = FALSE /\ guard = NoOne /\ allocated = NoOne
    /\ asked = <<>> /\ portCalls = 0 /\ sole = {}
    /\ port = [c \in PortCallers |-> [pc |-> "idle", tries |-> 0, res |-> "none", port |-> NoOne]]
    /\ granted = [c \in PortCallers |-> NoOne]

\* In a call of lock(), which blocks all that run on the same thread.
InLock == {c \in PortCallers : port[c].pc = "lock"} \union (IF loop = "port" THEN {"loop"} ELSE {})
Runs(a) == \A b \in InLock \ {a} : thread[b] # thread[a]

Calling(c) == port[c].pc # "idle"
PortGoes(c, l) == port' = [port EXCEPT ![c].pc = l]
PortReturns(c, r, p) ==
    port' = [port EXCEPT ![c] = [pc |-> "idle", tries |-> 0, res |-> r, port |-> p]]

-----------------------------------------------------------------------------
(* The calls.                                                              *)

\* Nobody else is calling, no answer is on its way, no port is known.
Undisturbed ==
    /\ allocated = NoOne /\ asked = <<>> /\ loop = "running"
    /\ \A i \in DOMAIN input : input[i].is # "port"
    /\ \A c \in PortCallers : ~Calling(c)

\* PORT_RESPONSE_SENDER.lock(): the sender is stored, or the thread blocks.
LocksSlot(c) ==
    /\ portCalls < MaxPortCalls[kind] /\ portCalls' = portCalls + 1
    /\ sole' = IF Undisturbed THEN {c} ELSE {}
    /\ granted' = [granted EXCEPT ![c] = NoOne]
    /\ IF guard = NoOne
       THEN PortGoes(c, "send") /\ guard' = c /\ slot' = TRUE
       ELSE PortGoes(c, "lock") /\ UNCHANGED <<guard, slot>>
    /\ UNCHANGED <<thread, loop, allocated, asked>>

\* request_port of the application: a port that is known is returned.
RequestPort ==
    /\ "app" \in PortCallers /\ ~Calling("app") /\ Runs("app")
    /\ IF allocated = NoOne THEN LocksSlot("app")
       ELSE /\ portCalls < MaxPortCalls[kind] /\ portCalls' = portCalls + 1
            /\ PortReturns("app", "Ok", allocated)
            /\ UNCHANGED <<thread, loop, slot, guard, allocated, asked, sole, granted>>

\* A blocked thread has the mutex.
Unblocked(c) ==
    /\ port[c].pc = "lock" /\ guard = NoOne
    /\ PortGoes(c, "send") /\ guard' = c /\ slot' = TRUE
    /\ UNCHANGED <<thread, loop, allocated, asked, portCalls, sole, granted>>

\* The request is written, or it cannot be; then the sender stays.  The
\* orchestrator may never read it, and then the call waits with the mutex.
SendPortRequest(c) ==
    /\ port[c].pc = "send" /\ Runs(c) /\ guard' = NoOne
    /\ \/ PortGoes(c, "wait") /\ asked' = Append(asked, c)
       \/ PortReturns(c, "Err", NoOne) /\ UNCHANGED asked
    /\ UNCHANGED <<thread, loop, slot, allocated, portCalls, sole, granted>>

\* The sender is gone, so a response has come: to this request or another.
Answered(c) == guard = NoOne /\ ~slot

\* ALLOCATED_PORT.try_lock fails when the loop or another call, on another
\* thread, is at it.
Contended(c) == \E a \in (PortCallers \union {"loop"}) \ {c} : thread[a] # thread[c]

\* wait_for_port_response looks Polls times, with a pause after each.
\* PORT_RESPONSE_SENDER.try_lock fails while a call has the mutex; that
\* ALLOCATED_PORT.try_lock fails is taken for no port.
Poll(c) ==
    /\ port[c].pc = "wait" /\ Runs(c)
    /\ CASE port[c].tries = Polls -> PortReturns(c, "Err", NoOne)
         [] port[c].tries < Polls /\ ~Answered(c) -> port' = [port EXCEPT ![c].tries = @ + 1]
         [] port[c].tries < Polls /\ Answered(c) /\ allocated = NoOne -> PortReturns(c, "Err", NoOne)
         [] port[c].tries < Polls /\ Answered(c) /\ allocated # NoOne ->
                \/ c = "app" /\ port' = [port EXCEPT ![c].pc = "store", ![c].port = allocated]
                \/ c = "serve" /\ PortReturns(c, "Ok", allocated)
                \/ Contended(c) /\ PortReturns(c, "Err", NoOne)
    /\ UNCHANGED <<thread, loop, slot, guard, allocated, asked, portCalls, sole, granted>>

\* request_port stores the port it was told, which may no longer be the last.
StorePort ==
    /\ "app" \in PortCallers /\ port["app"].pc = "store" /\ Runs("app")
    /\ allocated' = port["app"].port /\ PortReturns("app", "Ok", port["app"].port)
    /\ UNCHANGED <<thread, loop, slot, guard, asked, portCalls, sole, granted>>

-----------------------------------------------------------------------------
(* The loop, and the orchestrator.                                         *)

\* A port response: a granted port is stored, then the slot is locked.
Grants_Always(p) == allocated' = CHOOSE q \in Ports : TRUE
Grants(p) == allocated' = IF p = NoOne THEN allocated ELSE p
OnPortResponse ==
    /\ loop = "running" /\ Runs("loop")
    /\ \E c \in PortCallers, p \in Ports \union {NoOne} : Arrives(PortLine(c, p)) /\ Grants(p)
    /\ loop' = "port"
    /\ UNCHANGED <<kind, malformed, req, thread, slot, guard, asked, port, portCalls, sole, granted>>

EmptySlot ==
    /\ loop = "port" /\ guard = NoOne
    /\ slot' = FALSE /\ loop' = "running"
    /\ UNCHANGED <<thread, guard, allocated, asked, port, portCalls, sole, granted>>

\* The orchestrator grants a port or refuses one; NoOne stands for a refusal.
AnswerPort ==
    /\ asked # <<>>
    /\ \E p \in Ports \union {NoOne} :
        /\ input' = Append(input, PortLine(Head(asked), p))
        /\ granted' = [granted EXCEPT ![Head(asked)] = IF Head(asked) \in sole THEN p ELSE NoOne]
    /\ asked' = Tail(asked)
    /\ UNCHANGED <<kind, malformed, req, thread, loop, slot, guard, allocated, port, portCalls, sole>>

PortCallStep(c) == Unblocked(c) \/ Poll(c) \/ (c = "app" /\ StorePort)
=============================================================================
