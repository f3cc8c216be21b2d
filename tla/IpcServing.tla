----------------------------- MODULE IpcServing ------------------------------
(***************************************************************************)
(* Serving HTTP over stdin and stdout: serve_with_options and its task     *)
(* serve_ipc (src/server.rs), start_http_ipc_server (src/http_ipc/mod.rs)  *)
(* and the part of process_ipc_messages (src/ipc.rs) that broadcasts       *)
(* requests.                                                               *)
(*                                                                         *)
(* The loop broadcasts on HTTP_CHANNEL of ipc.rs.  start_http_ipc_server   *)
(* subscribes to HTTP_REQUEST_CHANNEL of http_ipc, on which nothing sends: *)
(* its branches for a request are out of reach and left out.               *)
(***************************************************************************)
EXTENDS PortNegotiation

CONSTANT Cap  \* capacity of the broadcast channel (100)

ASSUME CapAssumption == Cap \in Nat \ {0}

VARIABLES
    inbox,   \* the broadcast channel, as far as the server has not received it
    lagged,  \* something in it was overwritten
    task,    \* the task that receives requests
    ended,   \* how it ended
    serve    \* serve_with_options

servingVars == <<inbox, lagged, task, ended, serve>>

ServingTypeOK ==
    /\ inbox \in Seq(Requests) /\ Len(inbox) <= Cap /\ lagged \in BOOLEAN
    /\ \A r \in Requests : Contains(inbox, r) <=> req[r] = "queued"
    /\ task \in {"off", "spawned", "waiting", "handling", "writing", "ended"}
    /\ ended \in {"none", "Ok", "Err"}
    /\ serve \in {"off", "negotiate", "both", "ipc_only", "Ok", "Err"}
    /\ task = "ended" <=> ended # "none"

ServingInit ==
    /\ inbox = <<>> /\ lagged = FALSE
    /\ task = "off" /\ ended = "none" /\ serve = "off"

\* The orchestrator sends request r.
Ask(r) == OverIpc /\ Sent(r) /\ UNCHANGED <<portVars, servingVars>>

-----------------------------------------------------------------------------
(* process_ipc_messages.                                                   *)

\* A subscriber that is behind by the capacity loses the oldest request.
Broadcast(r) ==
    IF Len(inbox) < Cap
    THEN inbox' = Append(inbox, r) /\ UNCHANGED lagged /\ Becomes(r, "queued")
    ELSE /\ inbox' = Append(Tail(inbox), r) /\ lagged' = TRUE
         /\ req' = [req EXCEPT ![r] = "queued", ![Head(inbox)] = "lost"]

Subscribed_Leaked == kind # "http_ipc" /\ task # "off"
Subscribed == kind # "http_ipc" /\ task \in {"waiting", "handling", "writing"}

\* Without a subscriber the request is broadcast to nobody.
OnHttpRequest ==
    /\ loop = "running" /\ Runs("loop")
    /\ \E r \in Requests :
        /\ Arrives(RequestLine(r))
        /\ IF Subscribed THEN Broadcast(r) ELSE Becomes(r, "lost") /\ UNCHANGED <<inbox, lagged>>
    /\ UNCHANGED <<kind, malformed, portVars, task, ended, serve>>

\* Shutdown or the end of stdin; the channel of HTTP requests stays open.
LoopEnds ==
    /\ loop = "running" /\ OverIpc /\ Runs("loop")
    /\ loop' = "ended"
    /\ UNCHANGED <<requestVars, thread, slot, guard, allocated, asked, port, portCalls, sole,
                   granted, servingVars>>

-----------------------------------------------------------------------------
(* serve_ipc.                                                              *)

EndTask(how) ==
    /\ task' = "ended" /\ ended' = how
    /\ req' = [r \in Requests |-> IF req[r] \in {"queued", "taken"} THEN "lost" ELSE req[r]]
    /\ inbox' = <<>> /\ UNCHANGED lagged

TaskSubscribes ==
    /\ task = "spawned" /\ Runs("task") /\ task' = "waiting"
    /\ UNCHANGED <<req, inbox, lagged, ended>>

\* A receiver that has lagged gives an error, which ends the loop with Ok; a
\* request that cannot be built ends it with an error.
TaskReceives ==
    /\ task = "waiting" /\ Runs("task") /\ kind # "http_ipc"
    /\ \/ lagged /\ EndTask("Ok")
       \/ /\ ~lagged /\ inbox # <<>>
          /\ IF Head(inbox) \in malformed THEN EndTask("Err")
             ELSE /\ task' = "handling" /\ inbox' = Tail(inbox) /\ Becomes(Head(inbox), "taken")
                  /\ UNCHANGED <<lagged, ended>>

\* The router has made the response, if its handler ever does.
TaskHandles ==
    /\ task = "handling" /\ Runs("task") /\ task' = "writing"
    /\ UNCHANGED <<req, inbox, lagged, ended>>

\* It is written to stdout before the next request is received; the
\* orchestrator may never read it.
TaskAnswers ==
    /\ task = "writing" /\ Runs("task") /\ task' = "waiting"
    /\ req' = [r \in Requests |-> IF req[r] = "taken" THEN "answered" ELSE req[r]]
    /\ UNCHANGED <<inbox, lagged, ended>>

\* The handler panics, the body or the write fails.
TaskFails == task \in {"handling", "writing"} /\ Runs("task") /\ EndTask("Err")

TaskGoesOn ==
    /\ TaskSubscribes \/ TaskReceives
    /\ UNCHANGED <<kind, malformed, input, portVars, serve>>

ServeIpcStep ==
    \/ TaskGoesOn
    \/ /\ TaskHandles \/ TaskAnswers \/ TaskFails
       /\ UNCHANGED <<kind, malformed, input, portVars, serve>>

-----------------------------------------------------------------------------
(* serve_with_options and start_http_ipc_server.                           *)

\* The task is spawned; with bind_http a port is negotiated.
ServeWithOptions ==
    /\ kind # "http_ipc" /\ serve = "off" /\ Runs("serve") /\ task' = "spawned"
    /\ \/ kind = "ipc_only" /\ serve' = "ipc_only" /\ UNCHANGED portVars
       \/ kind = "ipc_and_http" /\ serve' = "negotiate" /\ LocksSlot("serve")
    /\ UNCHANGED <<requestVars, inbox, lagged, ended>>

\* negotiate_port has returned: an error is returned, and the task goes on.
\* Binding a port that is in use panics, which ends the call as an error does.
Bind ==
    /\ serve = "negotiate" /\ ~Calling("serve") /\ Runs("serve")
    /\ \/ port["serve"].res = "Err" /\ serve' = "Err"
       \/ port["serve"].res = "Ok" /\ serve' \in {"both", "Err"}
    /\ UNCHANGED <<requestVars, portVars, inbox, lagged, task, ended>>

\* The result of the task is returned, whether HTTP is served too or not; an
\* error of the HTTP server is returned, and the task goes on.
ServeReturns ==
    /\ Runs("serve")
    /\ \/ /\ serve \in {"both", "ipc_only"} /\ task = "ended"
          /\ serve' = IF ended = "Ok" THEN "Ok" ELSE "Err"
       \/ serve = "both" /\ serve' = "Err"
    /\ UNCHANGED <<requestVars, portVars, inbox, lagged, task, ended>>

\* start_http_ipc_server waits for its own channel and the shutdown signal.
StartHttpIpcServer ==
    /\ kind = "http_ipc"
    /\ \/ task = "off" /\ task' = "waiting" /\ UNCHANGED ended
       \/ task = "waiting" /\ task' = "ended" /\ ended' = "Ok"
    /\ UNCHANGED <<requestVars, portVars, inbox, lagged, serve>>
=============================================================================
