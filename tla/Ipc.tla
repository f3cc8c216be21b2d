-------------------------------- MODULE Ipc ---------------------------------
(***************************************************************************)
(* Requests over stdin and stdout (src/ipc.rs): send_request, the task     *)
(* handle_outgoing_requests that writes them, and the part of the loop     *)
(* process_ipc_messages that hands responses to the callers.               *)
(*                                                                         *)
(* A caller leaves a oneshot sender in the pending map under the id of its *)
(* request.  For a ServiceOperation that id is its connection_id, so calls *)
(* on one connection share a key; a ServiceRequest has a key of its own.   *)
(* The loop finds the connection_id of an operation's result only in a     *)
(* copy of the operation in the line, a field that ServiceOperationResult  *)
(* does not have: whether it is there is up to the orchestrator.           *)
(* Entries are replaced, never queued, and a replaced or removed sender    *)
(* that is dropped closes its receiver.                                    *)
(***************************************************************************)
EXTENDS Naturals, Sequences, FiniteSets

CONSTANTS
    Callers,    \* tasks that call send_request
    NoOne,      \* no sender in the map; the caller of a message that is gone
    Keys,       \* request ids and connection ids
    Conns,      \* those of them that are connection ids
    QueueCap,   \* capacity of the mpsc channel to the outgoing task
    MaxUnderWay \* bound: messages under way when a call starts

ASSUME CallersAssumption == NoOne \notin Callers
ASSUME KeysAssumption == Conns \subseteq Keys
ASSUME QueueAssumption == QueueCap \in Nat \ {0}
ASSUME BoundAssumption == MaxUnderWay \in Nat

Messages == [key : Keys, from : Callers \union {NoOne}]
Responses == [key : Keys, from : Callers \union {NoOne}, named : BOOLEAN]

VARIABLES
    loop,       \* process_ipc_messages
    channel,    \* IPC_CHANNEL.0 holds a sender of the mpsc channel
    pending,    \* IPC_CHANNEL.1: the call whose sender is under a key
    queue,      \* the mpsc channel
    atOrch,     \* requests the orchestrator has not answered
    stdin,      \* responses it has written; named ones can be matched
    pc, key, result,
    answered,   \* a response has been sent to the call's oneshot
    own,        \* and it was the response to this call
    alone,      \* no other message or call had the call's key
    missed      \* calls whose request was not written or response not matched

netVars == <<queue, atOrch, stdin>>
callVars == <<pc, key, result, answered, own, alone, missed>>
vars == <<loop, channel, pending, netVars, callVars>>

TypeOK ==
    /\ loop \in {"off", "running", "ended"}
    /\ channel = (loop = "running")
    /\ pending \in [Keys -> Callers \union {NoOne}]
    /\ queue \in Seq(Messages) /\ Len(queue) <= QueueCap
    /\ atOrch \in Seq(Messages) /\ stdin \in Seq(Responses)
    /\ pc \in [Callers -> {"idle", "channel", "enqueue", "await"}]
    /\ key \in [Callers -> Keys]
    /\ result \in [Callers -> {"none", "Ok", "NotInitialized", "NotReceived"}]
    /\ answered \in [Callers -> BOOLEAN] /\ own \in [Callers -> BOOLEAN]
    /\ alone \in [Callers -> BOOLEAN]
    /\ missed \subseteq Callers

Init ==
    /\ loop = "off" /\ channel = FALSE
    /\ pending = [k \in Keys |-> NoOne]
    /\ queue = <<>> /\ atOrch = <<>> /\ stdin = <<>>
    /\ pc = [t \in Callers |-> "idle"]
    /\ key \in [Callers -> Keys]
    /\ result = [t \in Callers |-> "none"]
    /\ answered = [t \in Callers |-> FALSE] /\ own = [t \in Callers |-> FALSE]
    /\ alone = [t \in Callers |-> FALSE]
    /\ missed = {}

Live(t, k) == pc[t] # "idle" /\ key[t] = k

\* The messages of t that are under way belong to nobody any more.
Orphaned(t, ms) ==
    [i \in DOMAIN ms |-> IF ms[i].from = t THEN [ms[i] EXCEPT !.from = NoOne] ELSE ms[i]]
Orphan(t) ==
    /\ queue' = Orphaned(t, queue)
    /\ atOrch' = Orphaned(t, atOrch)
    /\ stdin' = Orphaned(t, stdin)

Return(t, r) ==
    /\ pc' = [pc EXCEPT ![t] = "idle"]
    /\ result' = [result EXCEPT ![t] = r]

-----------------------------------------------------------------------------
(* send_request.                                                           *)

UnderWay(k) == \E ms \in {queue, atOrch, stdin} : \E i \in DOMAIN ms : ms[i].key = k

\* pending.insert(request_id, sender), before anything can fail.
SendRequest(t) ==
    /\ pc[t] = "idle"
    /\ Len(queue) + Len(atOrch) + Len(stdin) <= MaxUnderWay
    /\ \E k \in Keys :
        /\ pending' = [pending EXCEPT ![k] = t]
        /\ key' = [key EXCEPT ![t] = k]
        /\ alone' = [u \in Callers |->
                IF u = t THEN ~UnderWay(k) /\ \A v \in Callers \ {t} : ~Live(v, k)
                         ELSE alone[u] /\ ~Live(u, k)]
    /\ pc' = [pc EXCEPT ![t] = "channel"]
    /\ result' = [result EXCEPT ![t] = "none"]
    /\ answered' = [answered EXCEPT ![t] = FALSE]
    /\ own' = [own EXCEPT ![t] = FALSE]
    /\ missed' = missed \ {t}
    /\ UNCHANGED <<loop, channel, netVars>>

\* The sender of the mpsc channel is cloned; without one the call returns,
\* and its entry stays in the map.
GetChannel(t) ==
    /\ pc[t] = "channel"
    /\ \/ channel /\ pc' = [pc EXCEPT ![t] = "enqueue"] /\ UNCHANGED result
       \/ ~channel /\ Return(t, "NotInitialized")
    /\ UNCHANGED <<loop, channel, pending, netVars, key, answered, own, alone, missed>>

\* tx.send waits while the channel is full.  The clone keeps the channel open
\* also after the loop has ended.
Enqueue(t) ==
    /\ pc[t] = "enqueue"
    /\ Len(queue) < QueueCap
    /\ queue' = Append(queue, [key |-> key[t], from |-> t])
    /\ pc' = [pc EXCEPT ![t] = "await"]
    /\ UNCHANGED <<loop, channel, pending, atOrch, stdin, key, result, answered, own, alone,
                   missed>>

\* Defect for the check of CallsEnd: a replaced sender is kept (the map is a
\* map of lists), and nobody sends on it.
Closed_Never(t) == FALSE

\* The sender of t was replaced by a later call with the same key.
Closed(t) == ~answered[t] /\ pending[key[t]] # t

\* receiver.await: the response, or an error if the sender is gone.
Awake(t) ==
    /\ pc[t] = "await"
    /\ \/ answered[t] /\ Return(t, "Ok")
       \/ Closed(t) /\ Return(t, "NotReceived")
    /\ Orphan(t)
    /\ UNCHANGED <<loop, channel, pending, key, answered, own, alone, missed>>

\* The application drops the call; its entry stays in the map.
Cancel(t) ==
    /\ pc[t] # "idle"
    /\ pc' = [pc EXCEPT ![t] = "idle"]
    /\ Orphan(t)
    /\ UNCHANGED <<loop, channel, pending, key, result, answered, own, alone, missed>>

-----------------------------------------------------------------------------
(* handle_outgoing_requests and process_ipc_messages.                      *)

\* The next request is written to stdout as one line, under the global mutex.
Write ==
    /\ queue # <<>>
    /\ queue' = Tail(queue)
    /\ atOrch' = Append(atOrch, Head(queue))
    /\ UNCHANGED <<loop, channel, pending, stdin, callVars>>

\* It cannot be written: the error goes to a sender whose receiver is gone,
\* not to the one in the map.
WriteFails ==
    /\ queue # <<>>
    /\ queue' = Tail(queue)
    /\ missed' = missed \union ({Head(queue).from} \ {NoOne})
    /\ UNCHANGED <<loop, channel, pending, atOrch, stdin, pc, key, result, answered, own, alone>>

StartLoop ==
    /\ loop = "off"
    /\ loop' = "running"
    /\ channel' = TRUE
    /\ UNCHANGED <<pending, netVars, callVars>>

\* Defect for the check of AnswerIsOwn: the response goes to whichever call
\* has been waiting, when there is only one entry left.
Claimant_Any(k) ==
    LET waiting == {t \in Callers : pc[t] = "await" /\ ~answered[t]} IN
    IF waiting # {} THEN CHOOSE t \in waiting : TRUE ELSE NoOne

\* The call that the entry under k would complete.
Claimant(k) == IF pending[k] # NoOne /\ Live(pending[k], k) THEN pending[k] ELSE NoOne

Remove(k) == pending' = [pending EXCEPT ![k] = NoOne]

\* A response whose id can be told (extract_response_id): its entry is
\* removed and completed; without an entry the line is only logged.
OnResponse ==
    LET m == Head(stdin)
        t == Claimant(m.key)
    IN
    /\ loop = "running"
    /\ stdin # <<>> /\ m.named
    /\ stdin' = Tail(stdin)
    /\ Remove(m.key)
    /\ answered' = [u \in Callers |-> answered[u] \/ u = t]
    /\ own' = [u \in Callers |-> IF u = t THEN m.from = t ELSE own[u]]
    /\ UNCHANGED <<loop, channel, queue, atOrch, pc, key, result, alone, missed>>

\* A result without its operation is "not claimed" and only logged.
OnUnclaimed ==
    /\ loop = "running"
    /\ stdin # <<>> /\ ~Head(stdin).named
    /\ stdin' = Tail(stdin)
    /\ missed' = missed \union ({Head(stdin).from} \ {NoOne})
    /\ UNCHANGED <<loop, channel, pending, queue, atOrch, pc, key, result, answered, own, alone>>

\* Defect for the check of TypeOK: the loop ends without closing the channel.
LoopEnds_ChannelOpen ==
    /\ loop = "running"
    /\ loop' = "ended"
    /\ UNCHANGED <<channel, pending, netVars, callVars>>

\* End of stdin, a Shutdown message or a read error: the channel is closed,
\* the pending map is left as it is.
LoopEnds ==
    /\ loop = "running"
    /\ loop' = "ended"
    /\ channel' = FALSE
    /\ UNCHANGED <<pending, netVars, callVars>>

\* The orchestrator: responses in the order of the requests.  A
\* ServiceResponse has the id of its request.
Respond ==
    LET m == Head(atOrch) IN
    /\ atOrch # <<>>
    /\ atOrch' = Tail(atOrch)
    /\ \E named \in IF m.key \in Conns THEN BOOLEAN ELSE {TRUE} :
        stdin' = Append(stdin, [key |-> m.key, from |-> m.from, named |-> named])
    /\ UNCHANGED <<loop, channel, pending, queue, callVars>>

CallStep(t) == GetChannel(t) \/ Enqueue(t) \/ Awake(t)

Next ==
    \/ \E t \in Callers : SendRequest(t) \/ CallStep(t) \/ Cancel(t)
    \/ Write \/ WriteFails \/ StartLoop \/ OnResponse \/ OnUnclaimed \/ LoopEnds \/ Respond

Spec == Init /\ [][Next]_vars

(***************************************************************************)
(* Fairness.  Ready tasks run, a full channel lets its waiters in turn by  *)
(* turn (strong fairness of a caller's steps), the orchestrator reads and  *)
(* answers.                                                                *)
(***************************************************************************)
Fairness ==
    /\ \A t \in Callers : SF_vars(CallStep(t))
    /\ WF_vars(Write \/ WriteFails) /\ WF_vars(OnResponse \/ OnUnclaimed) /\ WF_vars(Respond)

FairSpec == Spec /\ Fairness

-----------------------------------------------------------------------------
(* Properties.                                                             *)

(***************************************************************************)
(* A call gets the response to its own request if, from the moment it      *)
(* enters the map, nothing else under way has its key - whatever the calls *)
(* with other keys do, and although entries of failed and dropped calls    *)
(* are never removed.  Until then its entry stays in the map, so that it   *)
(* is not turned away either.  Calls on one connection_id do not have this.*)
(***************************************************************************)
AnswerIsOwn == \A t \in Callers : alone[t] =>
    /\ answered[t] => own[t]
    /\ pc[t] # "idle" /\ ~answered[t] => pending[key[t]] = t

(***************************************************************************)
(* Every call ends, a replaced one with an error; one that waits for ever  *)
(* has had its request fail in the outgoing task or its result not matched *)
(* by the loop, or the loop has ended under it.                            *)
(***************************************************************************)
CallsEnd ==
    \A t \in Callers :
        pc[t] # "idle" ~> pc[t] = "idle" \/ t \in missed \/ loop = "ended"
=============================================================================
