----------------------------- MODULE TcpServing ------------------------------
(***************************************************************************)
(* HTTP over TCP (src/http_tcp): the calls of one HttpTcpClient            *)
(* (RequestBuilder::send), the orchestrator that routes them, and          *)
(* start_http_server, which receives requests and handles each in a task   *)
(* of its own.  Client and server each have a TcpChannel (module           *)
(* TcpChannel): a receive keeps its stream mutex until a message has       *)
(* arrived, and a send waits for the mutex, which tokio gives to its       *)
(* waiters in turn.                                                        *)
(*                                                                         *)
(* A call is named by its request.  The retries of a RequestBuilder are    *)
(* stored and never used.                                                  *)
(***************************************************************************)
EXTENDS HttpRequests

VARIABLES
    server,   \* the task of start_http_server
    line,     \* who has and who waits for the stream mutex of the server's channel
    back,     \* responses on the way to the client
    reader,   \* the call that has the stream mutex of the client's channel
    client,   \* per call
    got,      \* whose response it got
    alone     \* history: calls that began when all others were over with Ok

\* In line: the server itself; the tasks are there under their requests.
Receiver == NoOne
Turn(x) == line # <<>> /\ Head(line) = x

tcpVars == <<server, line, back, reader, client, got, alone>>

TcpTypeOK ==
    /\ server \in {"off", "running", "stopped"} /\ line \in Seq(Requests \union {Receiver})
    /\ Contains(line, Receiver) => server = "running"
    /\ \A r \in Requests : Contains(line, r) <=> req[r] = "ready"
    /\ back \in Seq(Requests)
    /\ reader \in Requests \union {NoOne}
    /\ client \in [Requests -> {"idle", "awaiting", "reading", "Ok", "Err"}]
    /\ \A r \in Requests : reader = r <=> client[r] = "reading"
    /\ got \in [Requests -> Requests \union {NoOne}]
    /\ \A r \in Requests : got[r] = NoOne <=> client[r] # "Ok"
    /\ alone \subseteq Requests

TcpInit ==
    /\ server = "off" /\ line = <<>> /\ back = <<>> /\ reader = NoOne
    /\ client = [r \in Requests |-> "idle"] /\ got = [r \in Requests |-> NoOne]
    /\ alone = {}

-----------------------------------------------------------------------------
(* The client.                                                             *)

Calls(r) == client[r] \in {"awaiting", "reading"}

\* The request is sent as soon as no other call is receiving.
ClientSends(r) ==
    /\ OverTcp /\ client[r] = "idle" /\ reader = NoOne /\ Sent(r)
    /\ client' = [client EXCEPT ![r] = "awaiting"]
    /\ alone' = {s \in alone : ~Calls(s)}
                \union (IF \A s \in Requests \ {r} : client[s] \in {"idle", "Ok"} THEN {r} ELSE {})
    /\ UNCHANGED <<server, line, back, reader, got>>

\* No connection, or the send fails.
ClientFails(r) ==
    /\ OverTcp /\ client[r] = "idle" /\ reader = NoOne
    /\ req[r] = "new" /\ \A s \in Requests : s < r => req[s] # "new"
    /\ client' = [client EXCEPT ![r] = "Err"] /\ Becomes(r, "lost")
    /\ UNCHANGED <<kind, malformed, input, server, line, back, reader, got, alone>>

ClientLocks(r) ==
    /\ client[r] = "awaiting" /\ reader = NoOne
    /\ reader' = r /\ client' = [client EXCEPT ![r] = "reading"]
    /\ UNCHANGED <<requestVars, server, line, back, got, alone>>

\* The next message is the response: that its request_id is another is only
\* logged.
ClientReceives(r) ==
    /\ reader = r /\ back # <<>>
    /\ got' = [got EXCEPT ![r] = Head(back)] /\ back' = Tail(back)
    /\ client' = [client EXCEPT ![r] = "Ok"] /\ reader' = NoOne
    /\ UNCHANGED <<requestVars, server, line, alone>>

\* The timer is over, or the receive fails.
ClientGivesUp(r) ==
    /\ Calls(r)
    /\ client' = [client EXCEPT ![r] = "Err"]
    /\ reader' = IF reader = r THEN NoOne ELSE reader
    /\ UNCHANGED <<requestVars, server, line, back, got, alone>>

-----------------------------------------------------------------------------
(* start_http_server.                                                      *)

StartHttpServer ==
    /\ OverTcp /\ server = "off" /\ server' = "running"
    /\ UNCHANGED <<requestVars, line, back, reader, client, got, alone>>

\* channel.receive() needs the stream mutex.
ServerLocks ==
    /\ server = "running" /\ ~Contains(line, Receiver) /\ line' = Append(line, Receiver)
    /\ UNCHANGED <<requestVars, server, back, reader, client, got, alone>>

\* A request is handed to a task; one that cannot be decoded is left, and
\* with a shutdown signal the server ends there.
ServerReceives ==
    /\ Turn(Receiver) /\ line' = Tail(line)
    /\ \E r \in Requests :
        /\ Arrives(RequestLine(r))
        /\ Becomes(r, IF r \in malformed THEN "lost" ELSE "taken")
        /\ server' = IF r \in malformed /\ kind = "tcp_shutdown" THEN "stopped" ELSE "running"
    /\ UNCHANGED <<kind, malformed, back, reader, client, got, alone>>

\* The connection is lost with what was on it; the next receive makes a new
\* one.
ServerReceiveFails ==
    /\ Turn(Receiver) /\ input # <<>> /\ line' = Tail(line)
    /\ input' = <<>> /\ req' = [r \in Requests |-> IF req[r] = "input" THEN "lost" ELSE req[r]]
    /\ UNCHANGED <<kind, malformed, server, back, reader, client, got, alone>>

Shutdown_StaysInLine ==
    /\ kind = "tcp_shutdown" /\ server = "running" /\ server' = "stopped"
    /\ UNCHANGED <<requestVars, line, back, reader, client, got, alone>>

\* The signal ends the loop and drops the receive that it is waiting in, or
\* waiting for.
Shutdown ==
    /\ kind = "tcp_shutdown" /\ server = "running" /\ server' = "stopped"
    /\ \/ ~Contains(line, Receiver) /\ UNCHANGED line
       \/ \E i \in DOMAIN line : line[i] = Receiver /\ line' = RemoveAt(line, i)
    /\ UNCHANGED <<requestVars, back, reader, client, got, alone>>

\* The router's response, or an error turned into one, if the handler ever
\* returns; the task waits for the mutex to send it.
HandleRequest(r) ==
    /\ OverTcp /\ req[r] = "taken" /\ Becomes(r, "ready") /\ line' = Append(line, r)
    /\ UNCHANGED <<kind, malformed, input, server, back, reader, client, got, alone>>

Respond_Twice(r) == back' = back \o <<r, r>>
Respond(r) == back' = Append(back, r)

\* The response is sent in its turn, or that fails; or the peer never takes it
\* and the task keeps the mutex.
SendResponse(r) ==
    /\ OverTcp /\ req[r] = "ready" /\ Turn(r) /\ line' = Tail(line)
    /\ \/ Becomes(r, "answered") /\ Respond(r)
       \/ Becomes(r, "lost") /\ UNCHANGED back
    /\ UNCHANGED <<kind, malformed, input, server, reader, client, got, alone>>

ClientStep(r) == ClientSends(r) \/ ClientFails(r) \/ ClientLocks(r) \/ ClientReceives(r)
                 \/ ClientGivesUp(r)
ServerStep == ServerLocks \/ ServerReceives \/ ServerReceiveFails
=============================================================================
