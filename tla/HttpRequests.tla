---------------------------- MODULE HttpRequests -----------------------------
(***************************************************************************)
(* Requests for a module's HTTP server, as the servers of the SDK share    *)
(* them: serve_with_options (src/server.rs) and start_http_ipc_server      *)
(* (src/http_ipc/mod.rs) over stdin and stdout, start_http_server          *)
(* (src/http_tcp/router.rs) over a TcpChannel of its own, with and without *)
(* a shutdown signal.  Routes, headers and bodies are left out: that a     *)
(* request may not be well formed is kept.                                 *)
(***************************************************************************)
EXTENDS Naturals, Sequences, FiniteSets, SequencesExt

CONSTANTS
    Requests,  \* their ids, in the order in which they are sent
    Kinds,     \* the servers
    MaxAsks,   \* bound: how many of the requests are sent to each kind of server
    NoOne

ASSUME RequestsAssumption == Requests \subseteq Nat /\ NoOne \notin Requests
ASSUME KindsAssumption == Kinds \subseteq {"ipc_only", "ipc_and_http", "http_ipc",
                                         "tcp", "tcp_shutdown"}
ASSUME MaxAsksAssumption == MaxAsks \in [Kinds -> Nat]

VARIABLES
    kind,
    malformed,  \* requests that cannot be parsed
    input,      \* what the server's process has not read: stdin, or its TCP stream
    req         \* where each request is

requestVars == <<kind, malformed, input, req>>

\* In the broadcast channel, with a handler, with its response made, answered,
\* or answered by nobody.
ReqStates == {"new", "input", "queued", "taken", "ready", "answered", "lost"}

RequestLine(r) == [is |-> "request", of |-> r, port |-> NoOne]

RequestsTypeOK ==
    /\ kind \in Kinds /\ malformed \subseteq Requests
    /\ req \in [Requests -> ReqStates]
    /\ \A r \in Requests : Contains(input, RequestLine(r)) <=> req[r] = "input"

RequestsInit ==
    /\ kind \in Kinds
    /\ malformed \in SUBSET {r \in Requests : r <= MaxAsks[kind]} /\ Cardinality(malformed) <= 1
    /\ input = <<>> /\ req = [r \in Requests |-> "new"]

OverIpc == kind \in {"ipc_only", "ipc_and_http", "http_ipc"}
OverTcp == kind \in {"tcp", "tcp_shutdown"}

Arrives(line) == input # <<>> /\ Head(input) = line /\ input' = Tail(input)
Becomes(r, s) == req' = [req EXCEPT ![r] = s]

\* Request r is on its way to the server; ids are used in order.
Sent(r) ==
    /\ r <= MaxAsks[kind] /\ req[r] = "new" /\ \A s \in Requests : s < r => req[s] # "new"
    /\ input' = Append(input, RequestLine(r)) /\ Becomes(r, "input")
    /\ UNCHANGED <<kind, malformed>>
=============================================================================
