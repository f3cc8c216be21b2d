------------------------- MODULE InternalMessaging --------------------------
(***************************************************************************)
(* Module-to-module messages: InternalMessagingClient::send_request and    *)
(* process_routed_module_response (src/internal_messaging.rs), the task    *)
(* main_processing_task that bootstrap_module spawns, and the handlers     *)
(* that the application registers through AppStateExt (src/bootstrap.rs).  *)
(*                                                                         *)
(* The callers and the main task share one TcpChannel.  Of TcpChannel this *)
(* module keeps: whole messages, in order, lost together with their        *)
(* connection; a receive that waits keeps the stream mutex.                *)
(***************************************************************************)
EXTENDS Naturals, Sequences, FiniteSets

CONSTANTS
    Callers,     \* tasks that call send_request
    Main,        \* the main processing task
    NoOne,       \* a free mutex
    Ids,         \* request ids (Uuid::new_v4): one in use is never drawn again
    NoId,
    Sources,     \* modules that send messages to this one
    MaxInbox     \* bound: messages in flight towards the module

ASSUME CallersAssumption == Main \notin Callers /\ NoOne \notin Callers \union {Main}
ASSUME IdsAssumption == NoId \notin Ids
ASSUME BoundAssumption == MaxInbox \in Nat

Messages == [type : {"Heartbeat", "Shutdown", "Other"}]
            \union [type : {"Response"}, id : Ids]
            \union [type : {"Message"}, source : Sources]
Maps == {"new", "step9"}   \* the two handler maps that bootstrap_module creates

VARIABLES
    boot,       \* how far bootstrap_module is
    appMap,     \* the map that the returned AppState refers to
    taskMap,    \* the map that the main task's clone refers to
    link,       \* the host of the client's channel: an IP address, or a name
    handlers,   \* the sources with a handler, per map
    handled,    \* sources whose last message was given to a handler
    main,       \* where the main task is
    lock,       \* holder of the channel's stream mutex
    inbox,      \* messages towards the module
    out,        \* requests on their way to the orchestrator or beyond
    pending,    \* pending_internal_responses
    pc, id, got, result,
    lost        \* ids whose request or response went down with a connection

bootVars == <<boot, appMap, taskMap, link, handlers, handled>>
netVars == <<inbox, out, lost>>
callVars == <<pc, id, got, result>>
vars == <<bootVars, main, lock, netVars, pending, callVars>>

TypeOK ==
    /\ boot \in {"state", "spawned", "done"}
    /\ appMap \in Maps /\ taskMap \in Maps
    /\ link \in {"none", "address", "name"}
    /\ handlers \in [Maps -> SUBSET Sources]
    /\ handled \subseteq Sources
    /\ main \in {"unborn", "lock", "reading", "ack", "stopped"}
    /\ lock \in Callers \union {Main, NoOne}
    /\ inbox \in Seq(Messages)
    /\ out \subseteq Ids /\ pending \subseteq Ids /\ lost \subseteq Ids
    /\ pc \in [Callers -> {"idle", "send", "await"}]
    /\ id \in [Callers -> Ids \union {NoId}]
    /\ got \in [Callers -> Ids \union {NoId}]
    /\ result \in [Callers -> {"none", "Ok", "DeserializationError", "NetworkError"}]
    /\ lock = Main <=> main = "reading"

\* AppState::new: a first handler map, an empty pending map.
Init ==
    /\ boot = "state" /\ appMap = "new" /\ taskMap = "new" /\ link = "none"
    /\ handlers = [m \in Maps |-> {}] /\ handled = {}
    /\ main = "unborn" /\ lock = NoOne
    /\ inbox = <<>> /\ out = {} /\ lost = {}
    /\ pending = {}
    /\ pc = [t \in Callers |-> "idle"]
    /\ id = [t \in Callers |-> NoId] /\ got = [t \in Callers |-> NoId]
    /\ result = [t \in Callers |-> "none"]

-----------------------------------------------------------------------------
(* bootstrap_module, steps 7 to 10.                                        *)

\* Step 7: the main task starts on a clone of the state built so far.  The
\* connection that tests the host resolves names, as TcpChannel does not.
SpawnMain ==
    /\ boot = "state"
    /\ boot' = "spawned"
    /\ taskMap' = appMap
    /\ link' \in {"address", "name"}
    /\ main' = "lock"
    /\ UNCHANGED <<appMap, handlers, handled, lock, netVars, pending, callVars>>

\* The URL does not parse or nobody listens: no channel and no main task, and
\* the client of step 8 gets a channel of its own to "localhost".
NoConnection ==
    /\ boot = "state"
    /\ boot' = "spawned"
    /\ link' = "name"
    /\ UNCHANGED <<appMap, taskMap, handlers, handled, main, lock, netVars, pending, callVars>>

\* Defect for the check of OnlyShutdownEnds: step 9 keeps the map that the
\* main task has, so that handlers are found there.
FinishBootstrap_SameMap ==
    /\ boot = "spawned"
    /\ boot' = "done"
    /\ UNCHANGED <<appMap, taskMap, link, handlers, handled, main, lock, netVars, pending,
                   callVars>>

\* Steps 8 to 10: the client, and a new handler map in the state returned.
FinishBootstrap ==
    /\ boot = "spawned"
    /\ boot' = "done"
    /\ appMap' = "step9"
    /\ UNCHANGED <<taskMap, link, handlers, handled, main, lock, netVars, pending, callVars>>

\* AppStateExt::register_module_message_handler on the returned state.
RegisterHandler(s) ==
    /\ boot = "done"
    /\ s \notin handlers[appMap]
    /\ handlers' = [handlers EXCEPT ![appMap] = @ \union {s}]
    /\ UNCHANGED <<boot, appMap, taskMap, link, handled, main, lock, netVars, pending, callVars>>

RemoveHandler(s) ==
    /\ boot = "done"
    /\ s \in handlers[appMap]
    /\ handlers' = [handlers EXCEPT ![appMap] = @ \ {s}]
    /\ UNCHANGED <<boot, appMap, taskMap, link, handled, main, lock, netVars, pending, callVars>>

-----------------------------------------------------------------------------
(* InternalMessagingClient::send_request.                                  *)

\* Ids of the responses in flight, and ids that may still mean something.
Answering == {inbox[i].id : i \in {j \in DOMAIN inbox : inbox[j].type = "Response"}}
InUse == pending \union out \union Answering \union {id[t] : t \in Callers}

\* The id is drawn and its oneshot put into the pending map.
SendRequest(t) ==
    /\ boot = "done"
    /\ pc[t] = "idle"
    /\ \E i \in Ids \ InUse :
        /\ pending' = pending \union {i}
        /\ id' = [id EXCEPT ![t] = i]
        /\ lost' = lost \ {i}
    /\ pc' = [pc EXCEPT ![t] = "send"]
    /\ got' = [got EXCEPT ![t] = NoId]
    /\ result' = [result EXCEPT ![t] = "none"]
    /\ UNCHANGED <<bootVars, main, lock, inbox, out>>

\* orchestrator_channel.send: waits for the stream mutex.  A channel to a name
\* tries for ever to connect, since a name does not parse as a SocketAddr.
Sent(t) ==
    /\ pc[t] = "send"
    /\ link = "address" /\ lock = NoOne
    /\ out' = out \union {id[t]}
    /\ pc' = [pc EXCEPT ![t] = "await"]
    /\ UNCHANGED <<bootVars, main, lock, inbox, lost, pending, id, got, result>>

\* The send fails: the call returns and leaves its entry in the map.
SendFails(t) ==
    /\ pc[t] = "send"
    /\ link = "address" /\ lock = NoOne
    /\ pc' = [pc EXCEPT ![t] = "idle"]
    /\ result' = [result EXCEPT ![t] = "NetworkError"]
    /\ UNCHANGED <<bootVars, main, lock, netVars, pending, id, got>>

\* rx.await yields the payload; it may not decode as the type asked for.
Answered(t) ==
    /\ pc[t] = "await"
    /\ got[t] # NoId
    /\ pc' = [pc EXCEPT ![t] = "idle"]
    /\ \E r \in {"Ok", "DeserializationError"} : result' = [result EXCEPT ![t] = r]
    /\ UNCHANGED <<bootVars, main, lock, netVars, pending, id, got>>

\* The application drops the call (the timeout argument is not used, so a
\* caller that wants one wraps the call); the entry stays in the map.
Cancel(t) ==
    /\ pc[t] \in {"send", "await"}
    /\ pc' = [pc EXCEPT ![t] = "idle"]
    /\ UNCHANGED <<bootVars, main, lock, netVars, pending, id, got, result>>

-----------------------------------------------------------------------------
(* main_processing_task.                                                   *)

\* channel.receive takes the stream mutex and waits for a message with it.
MainLock ==
    /\ main = "lock"
    /\ link = "address" /\ lock = NoOne
    /\ main' = "reading"
    /\ lock' = Main
    /\ UNCHANGED <<bootVars, netVars, pending, callVars>>

\* Defect for the check of TypeOK: the mutex guard lives until the message
\* has been dispatched, across the sends that this makes.
Released_Late == UNCHANGED lock

Released == lock' = NoOne

\* A message has arrived whole: the mutex is released and it is dispatched.
Received(type) ==
    /\ main = "reading"
    /\ inbox # <<>> /\ Head(inbox).type = type
    /\ inbox' = Tail(inbox)
    /\ Released

OnHeartbeat ==
    /\ Received("Heartbeat")
    /\ main' = "ack"
    /\ UNCHANGED <<bootVars, out, lost, pending, callVars>>

\* Defect for the check of CallsProgress: a failed acknowledgement is tried
\* again instead of being forgotten, and keeps failing.
Ack_Retried ==
    /\ main = "ack"
    /\ lock = NoOne
    /\ UNCHANGED vars

\* The acknowledgement is sent, or fails and is forgotten.
Ack ==
    /\ main = "ack"
    /\ lock = NoOne
    /\ main' = "lock"
    /\ UNCHANGED <<bootVars, lock, netVars, pending, callVars>>

OnShutdown ==
    /\ Received("Shutdown")
    /\ main' = "stopped"
    /\ UNCHANGED <<bootVars, out, lost, pending, callVars>>

\* Defect for the check of OwnResponse: the sender is taken by position in
\* the map instead of by its id.
Waiter_Any(i) == {t \in Callers : pc[t] = "await" /\ id[t] \in pending}

\* The call whose oneshot is in the map under id i and still has a receiver.
Waiter(i) == {t \in Callers : pc[t] = "await" /\ id[t] = i /\ i \in pending}

\* process_routed_module_response: the entry is removed and completed; an
\* unknown id, or a caller that is gone, is only logged.
OnResponse ==
    LET i == Head(inbox).id IN
    /\ Received("Response")
    /\ got' = [t \in Callers |-> IF t \in Waiter(i) THEN i ELSE got[t]]
    /\ pending' = pending \ {i}
    /\ main' = "lock"
    /\ UNCHANGED <<bootVars, out, lost, pc, id, result>>

\* The handler is looked up in the task's own map and spawned, and after
\* that the task returns.
OnMessage ==
    LET s == Head(inbox).source
        found == s \in handlers[taskMap]
    IN
    /\ Received("Message")
    /\ handled' = IF found THEN handled \union {s} ELSE handled \ {s}
    /\ main' = IF found THEN "stopped" ELSE "lock"
    /\ UNCHANGED <<boot, appMap, taskMap, link, handlers, out, lost, pending, callVars>>

\* HTTP requests, other variants and what does not decode are skipped.
OnOther ==
    /\ Received("Other")
    /\ main' = "lock"
    /\ UNCHANGED <<bootVars, out, lost, pending, callVars>>

\* Every error of TcpChannel::receive is an IoError, and the task ends: also
\* when the connection is lost twice in one receive, or one frame has an
\* unknown format, and the channel could go on.
ReceiveFails ==
    /\ main = "reading"
    /\ lock' = NoOne
    /\ main' = "stopped"
    /\ UNCHANGED <<bootVars, netVars, pending, callVars>>

-----------------------------------------------------------------------------
(* The orchestrator and the network.                                       *)

Deliver(m) ==
    /\ link = "address"
    /\ Len(inbox) < MaxInbox
    /\ inbox' = Append(inbox, m)

\* A request comes back as a response from its target, in any order.
Respond(i) ==
    /\ i \in out
    /\ inbox' = Append(inbox, [type |-> "Response", id |-> i])
    /\ out' = out \ {i}
    /\ UNCHANGED <<bootVars, main, lock, lost, pending, callVars>>

SendHeartbeat ==
    /\ Deliver([type |-> "Heartbeat"])
    /\ UNCHANGED <<bootVars, main, lock, out, lost, pending, callVars>>

SendControl ==
    /\ \E ty \in {"Shutdown", "Other"} : Deliver([type |-> ty])
    /\ UNCHANGED <<bootVars, main, lock, out, lost, pending, callVars>>

SendMessage(s) ==
    /\ Deliver([type |-> "Message", source |-> s])
    /\ UNCHANGED <<bootVars, main, lock, out, lost, pending, callVars>>

\* The connection breaks; the receive of the main task reconnects.
ConnectionLost ==
    /\ out # {} \/ inbox # <<>>
    /\ out' = {} /\ inbox' = <<>>
    /\ lost' = lost \union out \union Answering
    /\ UNCHANGED <<bootVars, main, lock, pending, callVars>>

CallerStep(t) == Sent(t) \/ SendFails(t) \/ Answered(t)

MainStep ==
    \/ MainLock \/ OnHeartbeat \/ Ack \/ OnShutdown \/ OnResponse \/ OnMessage \/ OnOther

Next ==
    \/ SpawnMain \/ NoConnection \/ FinishBootstrap
    \/ \E s \in Sources : RegisterHandler(s) \/ RemoveHandler(s) \/ SendMessage(s)
    \/ \E t \in Callers : SendRequest(t) \/ CallerStep(t) \/ Cancel(t)
    \/ MainStep \/ ReceiveFails
    \/ \E i \in Ids : Respond(i)
    \/ SendHeartbeat \/ SendControl \/ ConnectionLost

Spec == Init /\ [][Next]_vars

(***************************************************************************)
(* Fairness.  Ready tasks run and the FIFO mutex reaches every waiter.  Of *)
(* the orchestrator: it reads (a send has no timer), it answers what it is *)
(* asked and it sends heartbeats.                                          *)
(* The heartbeats matter: only a message that arrives makes the main task  *)
(* release the mutex that a caller's send is waiting for.                  *)
(***************************************************************************)
Fairness ==
    /\ WF_vars(SpawnMain \/ NoConnection) /\ WF_vars(FinishBootstrap)
    /\ SF_vars(MainStep)
    /\ \A t \in Callers : SF_vars(CallerStep(t))
    /\ \A i \in Ids : WF_vars(Respond(i))
    /\ WF_vars(SendHeartbeat)

FairSpec == Spec /\ Fairness

-----------------------------------------------------------------------------
(* Properties.                                                             *)

(***************************************************************************)
(* The pending map never mixes calls up: a caller that is completed gets   *)
(* the response to its own id, once, and while it waits and nothing has    *)
(* come its entry is in the map - also when calls are dropped, sends fail  *)
(* and late responses arrive for calls that are gone.                      *)
(***************************************************************************)
OwnResponse ==
    /\ \A t \in Callers :
        /\ got[t] \in {NoId, id[t]}
        /\ pc[t] = "await" => (id[t] \in pending <=> got[t] = NoId)
    /\ \A t, u \in Callers : t # u /\ id[t] = id[u] => id[t] = NoId

(***************************************************************************)
(* No message but Shutdown ends the main task: not one for which a handler *)
(* is registered, although the code returns once it has spawned one, not a *)
(* response that nobody awaits, nor what does not decode.                  *)
(***************************************************************************)
OnlyShutdownEnds ==
    [][main # "stopped" /\ main' = "stopped" /\ inbox' # inbox
            => Head(inbox).type = "Shutdown"]_vars

(***************************************************************************)
(* With an orchestrator that reads, sends heartbeats and answers, a        *)
(* request is sent although the receive loop keeps the mutex while it      *)
(* waits, and its caller goes on, unless the request or its response was   *)
(* lost with a connection, the main task has stopped, or the channel has a *)
(* name for its host, with which it never connects.                        *)
(***************************************************************************)
CallsProgress ==
    \A t \in Callers :
        /\ pc[t] = "send" ~> (pc[t] # "send" \/ link = "name")
        /\ pc[t] = "await" ~> (pc[t] # "await" \/ id[t] \in lost \/ main = "stopped")
=============================================================================
