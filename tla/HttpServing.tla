---------------------------- MODULE HttpServing ------------------------------
(***************************************************************************)
(* The SDK's HTTP servers: over stdin and stdout with the negotiation of a *)
(* port, and over TCP with a client.                                       *)
(***************************************************************************)
EXTENDS IpcServing, TcpServing

httpVars == <<requestVars, portVars, servingVars, tcpVars>>

\* Requests are where they are said to be, a call that negotiates has the
\* sender's mutex when it writes, and for the stream mutex wait the server as
\* long as it runs and the tasks whose response is made.
HttpTypeOK == RequestsTypeOK /\ PortTypeOK /\ ServingTypeOK /\ TcpTypeOK

HttpInit == RequestsInit /\ PortInit /\ ServingInit /\ TcpInit

InIpc(A) == OverIpc /\ A /\ UNCHANGED tcpVars
InTcp(A) == OverTcp /\ A /\ UNCHANGED <<portVars, servingVars>>
InNegotiation(A) == InIpc(A /\ UNCHANGED <<requestVars, servingVars>>)

Orchestrator == InIpc((\E r \in Requests : Ask(r)) \/ (AnswerPort /\ UNCHANGED servingVars))
AppCalls == InNegotiation(RequestPort)
PortStep(c) == InNegotiation(PortCallStep(c))
PortWrite(c) == InNegotiation(SendPortRequest(c))
PortLoop == InIpc((OnPortResponse /\ UNCHANGED servingVars)
                  \/ (EmptySlot /\ UNCHANGED <<requestVars, servingVars>>))
HttpLoop == InIpc(OnHttpRequest)
Serving == InIpc(ServeWithOptions \/ Bind \/ ServeReturns \/ StartHttpIpcServer \/ LoopEnds)
ServeIpc == InIpc(ServeIpcStep)
ServeIpcGoesOn == InIpc(TaskGoesOn)
TcpServer == InTcp(ServerStep)
TcpHandles(r) == InTcp(HandleRequest(r))
TcpResponds(r) == InTcp(SendResponse(r))
TcpOthers == InTcp(StartHttpServer \/ Shutdown \/ \E r \in Requests : ClientStep(r))

HttpNext ==
    \/ Orchestrator \/ AppCalls \/ (\E c \in PortCallers : PortStep(c) \/ PortWrite(c)) \/ PortLoop
    \/ HttpLoop \/ Serving \/ ServeIpc
    \/ TcpServer \/ TcpOthers \/ \E r \in Requests : TcpHandles(r) \/ TcpResponds(r)

(***************************************************************************)
(* Fairness: what is ready runs, and a message that has arrived is read.   *)
(* Of what lies outside nothing is assumed: handlers need not return, the  *)
(* orchestrator need not read the standard output, a peer its stream, and  *)
(* neither they nor the clients need ask or answer.                        *)
(***************************************************************************)
HttpFairness ==
    /\ \A c \in PortCallers : WF_httpVars(PortStep(c))
    /\ WF_httpVars(PortLoop) /\ WF_httpVars(HttpLoop)
    /\ WF_httpVars(ServeIpcGoesOn) /\ WF_httpVars(TcpServer)

HttpSpec == HttpInit /\ [][HttpNext]_httpVars /\ HttpFairness

-----------------------------------------------------------------------------
(* Properties.                                                             *)

\* A call for a port that has the negotiation to itself (no other call, no
\* answer under way, no port known) and returns Ok returns the port that the
\* orchestrator granted to it; so it does not return Ok when that was refused
\* (wait_for_port_response, which sees two globals and no answer).
PortIsOwn ==
    [][\A c \in sole :
        port[c].pc \in {"wait", "store"} /\ port'[c].pc = "idle" /\ port'[c].res = "Ok"
            => port'[c].port = granted[c]]_httpVars

\* A call that was made when all earlier calls on its channel had ended with
\* Ok, and that no other call overlaps, gets its own response, whatever the
\* earlier calls have done to each other's (RequestBuilder::send, which takes
\* the next message).
AloneGetsOwn == \A r \in alone : client[r] = "Ok" => got[r] = r

\* A call keeps the sender's mutex: its request is not written, as the
\* orchestrator does not read or the call's own thread is blocked in lock().
Keeps(c) == guard = c

\* A server has the request, and has neither answered it nor given it up.
Pending(r) == req[r] \in {"queued", "taken", "ready"}

\* Where a server can stay for good with request r: in the user's handler, for
\* it or for one that was queued before; in the write of its response or of one
\* that is due before; in a receive that has the stream mutex; in lock(), while
\* a call keeps the sender's mutex.
AtHandler(r) == IF OverIpc THEN task = "handling" ELSE req[r] = "taken"
AtWrite(q) == IF OverIpc THEN task = "writing" ELSE Turn(q)
AtReceive(r) == OverTcp /\ req[r] = "ready" /\ Turn(Receiver) /\ input = <<>>
AtLock == guard # NoOne /\ ~Runs("task")

\* A request that a server has received is answered or given up unless one of
\* these goes on for good, a single one; in particular a response waits for one
\* more message at most (serve_ipc, start_http_server).  And a call for a port
\* returns, unless one call keeps the mutex for good (send_port_negotiation).
CallsEnd ==
    /\ \A r \in Requests :
        \/ []<>~Pending(r)
        \/ <>[]AtHandler(r) \/ (\E q \in Requests : <>[]AtWrite(q)) \/ <>[]AtReceive(r) \/ <>[]AtLock
    /\ \A c \in PortCallers : []<>~Calling(c) \/ \E d \in PortCallers : <>[]Keeps(d)
=============================================================================
