---------------------------- MODULE Registration ----------------------------
(***************************************************************************)
(* The registration protocol (src/registration/mod.rs): register_module,   *)
(* heartbeat, advertise_capabilities and unregister_module, called for one *)
(* module by several tasks, one of which may be a heartbeat loop.          *)
(*                                                                         *)
(* Every call sends a request and takes the NEXT message that arrives on   *)
(* its channel as the answer, for at most DEFAULT_TIMEOUT; the id that the *)
(* request carries is never compared with anything.  register_module uses  *)
(* a channel of its own, which it puts into REGISTRY; the other calls use  *)
(* the registered channel, or one of their own when there is none.         *)
(*                                                                         *)
(* A channel is what TcpChannel provides: whole messages in both           *)
(* directions, in order, lost together with their connection, and one      *)
(* mutex which a waiting receive, or a send whose peer does not read,      *)
(* keeps from every other call.                                            *)
(***************************************************************************)
EXTENDS Naturals, Sequences

CONSTANTS
    Tasks,        \* tasks that call the protocol
    NoTask,       \* a free mutex; the addressee of an answer nobody awaits
    Loops,        \* tasks that run start_heartbeat_loop
    MaxInFlight   \* bound: messages under way on one channel

Shared == "shared"              \* the channel in REGISTRY
Chans == {Shared} \union Tasks  \* and a task's own channel, named after it
Kinds == {"register", "heartbeat", "capabilities", "unregister"}
Errors == {"ConnectionError", "ChannelError", "Timeout", "SerializationError", "Rejected"}
Requests == [from : Tasks \union {NoTask}, kind : Kinds]
Answers == [to : Tasks \union {NoTask}, kind : Kinds, success : BOOLEAN]

ASSUME TasksAssumption == NoTask \notin Tasks /\ Shared \notin Tasks /\ Loops \subseteq Tasks
ASSUME BoundAssumption == MaxInFlight \in Nat

VARIABLES
    known,       \* register_module has returned a RegisteredModule
    registry,    \* REGISTRY holds the module's channel
    enrolled,    \* the orchestrator has the module on its list
    requests,    \* messages towards the orchestrator, per channel
    answers,     \* messages towards the module, per channel
    holder,      \* the task that has a channel's mutex, in its send or receive
    pc, kind, chan, result,
    own,         \* the answer a call has taken was the one to its request
    alone        \* since its send, a call has had the channel to itself

chanVars == <<requests, answers, holder>>
vars == <<known, registry, enrolled, chanVars, pc, kind, chan, result, own, alone>>

Awaiting(t) == pc[t] \in {"lock", "reading"}
Sending(t) == pc[t] \in {"writing", "blocked"}

TypeOK ==
    /\ known \in BOOLEAN /\ registry \in BOOLEAN /\ enrolled \in BOOLEAN
    /\ requests \in [Chans -> Seq(Requests)]
    /\ answers \in [Chans -> Seq(Answers)]
    /\ holder \in [Chans -> Tasks \union {NoTask}]
    /\ pc \in [Tasks -> {"idle", "connect", "send", "writing", "blocked", "lock", "reading"}]
    /\ kind \in [Tasks -> Kinds]
    /\ chan \in [Tasks -> Chans]
    /\ \A t \in Tasks : chan[t] \in {Shared, t}
    /\ result \in [Tasks -> Errors \union {"none", "Ok"}]
    /\ own \in [Tasks -> BOOLEAN] /\ alone \in [Tasks -> BOOLEAN]
    /\ \A c \in Chans, t \in Tasks : 
        holder[c] = t <=> (Sending(t) \/ pc[t] = "reading") /\ chan[t] = c

Init ==
    /\ known = FALSE /\ registry = FALSE /\ enrolled = FALSE
    /\ requests = [c \in Chans |-> <<>>]
    /\ answers = [c \in Chans |-> <<>>]
    /\ holder = [c \in Chans |-> NoTask]
    /\ pc = [t \in Tasks |-> "idle"]
    /\ kind = [t \in Tasks |-> "register"]
    /\ chan = [t \in Tasks |-> t]
    /\ result = [t \in Tasks |-> "none"]
    /\ own = [t \in Tasks |-> FALSE] /\ alone = [t \in Tasks |-> FALSE]

Goto(t, l) == pc' = [pc EXCEPT ![t] = l]

Return(t, r) ==
    /\ Goto(t, "idle")
    /\ result' = [result EXCEPT ![t] = r]

\* Nobody waits any longer for the answers to the requests of t.
Orphan(t, rs) ==
    [i \in DOMAIN rs |-> IF rs[i].from = t THEN [rs[i] EXCEPT !.from = NoTask] ELSE rs[i]]
OrphanAnswers(t, as) ==
    [i \in DOMAIN as |-> IF as[i].to = t THEN [as[i] EXCEPT !.to = NoTask] ELSE as[i]]

\* Defect for the check of SoleCallerGetsItsAnswer: a call's own channel goes
\* to a pool instead of being dropped, and is taken again by the next call.
Abandon_Pooled(t) ==
    /\ requests' = [c \in Chans |-> Orphan(t, requests[c])]
    /\ answers' = [c \in Chans |-> OrphanAnswers(t, answers[c])]

\* A call of t ends without an answer: its own channel is dropped, and on the
\* shared one its request is on the way or its answer still to come.
Abandon(t) ==
    /\ requests' = [requests EXCEPT ![t] = <<>>, ![Shared] = Orphan(t, @)]
    /\ answers' = [answers EXCEPT ![t] = <<>>, ![Shared] = OrphanAnswers(t, @)]

-----------------------------------------------------------------------------

\* A task may call what it can call: registering comes first, once, and a
\* heartbeat loop only sends heartbeats.
Allowed(t, k) ==
    IF k = "register" THEN ~known /\ t \notin Loops /\ \A u \in Tasks : pc[u] = "idle"
                      ELSE known /\ (t \in Loops => k = "heartbeat")

\* The channel is looked up in REGISTRY; register_module and a miss connect.
Begin(t, k) ==
    /\ pc[t] = "idle"
    /\ Allowed(t, k)
    /\ kind' = [kind EXCEPT ![t] = k]
    /\ chan' = [chan EXCEPT ![t] = IF registry THEN Shared ELSE t]
    /\ result' = [result EXCEPT ![t] = "none"]
    /\ own' = [own EXCEPT ![t] = FALSE] /\ alone' = [alone EXCEPT ![t] = FALSE]
    /\ Goto(t, IF registry THEN "send" ELSE "connect")
    /\ UNCHANGED <<known, registry, enrolled, chanVars>>

\* TcpChannel::connect: a new channel with a connection of its own.
Connect(t) ==
    /\ pc[t] = "connect"
    /\ Goto(t, "send")
    /\ UNCHANGED <<known, registry, enrolled, chanVars, kind, chan, result, own, alone>>

ConnectFails(t) ==
    /\ pc[t] = "connect"
    /\ Return(t, "ConnectionError")
    /\ UNCHANGED <<known, registry, enrolled, chanVars, kind, chan, own, alone>>

\* Whether t would be the only one with a message under way on its channel.
Sole(t) ==
    LET c == chan[t] IN
    /\ requests[c] = <<>> /\ answers[c] = <<>>
    /\ \A u \in Tasks \ {t} : ~(Awaiting(u) /\ chan[u] = c)

\* channel.send takes the mutex.
StartSend(t) ==
    /\ pc[t] = "send"
    /\ holder[chan[t]] = NoTask
    /\ holder' = [holder EXCEPT ![chan[t]] = t]
    /\ Goto(t, "writing")
    /\ UNCHANGED <<known, registry, enrolled, requests, answers, kind, chan, result, own,
                   alone>>

\* The request is written; the calls that are awaiting their answers on the
\* same channel are no longer alone.
Send(t) ==
    LET c == chan[t] IN
    /\ pc[t] = "writing"
    /\ Len(requests[c]) + Len(answers[c]) < MaxInFlight
    /\ requests' = [requests EXCEPT ![c] = Append(@, [from |-> t, kind |-> kind[t]])]
    /\ alone' = [u \in Tasks |->
            IF u = t THEN Sole(t) ELSE alone[u] /\ ~(Awaiting(u) /\ chan[u] = c)]
    /\ holder' = [holder EXCEPT ![c] = NoTask]
    /\ Goto(t, "lock")
    /\ UNCHANGED <<known, registry, enrolled, answers, kind, chan, result, own>>

\* The channel gives up (its own reconnections included).
SendFails(t) ==
    /\ pc[t] = "writing"
    /\ holder' = [holder EXCEPT ![chan[t]] = NoTask]
    /\ Return(t, "ChannelError")
    /\ UNCHANGED <<known, registry, enrolled, requests, answers, kind, chan, own, alone>>

\* channel.receive takes the mutex and keeps it until a message arrives.
StartReceive(t) ==
    /\ pc[t] = "lock"
    /\ holder[chan[t]] = NoTask
    /\ holder' = [holder EXCEPT ![chan[t]] = t]
    /\ Goto(t, "reading")
    /\ UNCHANGED <<known, registry, enrolled, requests, answers, kind, chan, result, own,
                   alone>>

\* What the call makes of the answer: only heartbeats have a status, and only
\* answers to register_module the module; the type is not looked at.
Decode(k, a) ==
    CASE k = "heartbeat" /\ a.kind # "heartbeat" -> "SerializationError"
      [] ~a.success -> "Rejected"
      [] k = "register" /\ a.kind # "register" -> "Rejected"
      [] OTHER -> "Ok"

\* The next message is the answer.  A successful register_module stores its
\* channel, a successful unregister_module removes it; any other channel of
\* the call's own is dropped.
Receive(t) ==
    LET c == chan[t]
        a == Head(answers[c])
        r == Decode(kind[t], a)
        stored == r = "Ok" /\ kind[t] = "register"
    IN
    /\ pc[t] = "reading"
    /\ answers[c] # <<>>
    /\ answers' = IF stored THEN [answers EXCEPT ![Shared] = Tail(answers[c]), ![c] = <<>>]
                            ELSE [answers EXCEPT ![c] = IF c = t THEN <<>> ELSE Tail(@)]
    /\ requests' = IF stored THEN [requests EXCEPT ![Shared] = requests[c], ![c] = <<>>]
                             ELSE [requests EXCEPT ![t] = <<>>]
    /\ holder' = [holder EXCEPT ![c] = NoTask]
    /\ own' = [own EXCEPT ![t] = a.to = t]
    /\ registry' = (stored \/ (registry /\ ~(r = "Ok" /\ kind[t] = "unregister")))
    /\ known' = (known \/ stored)
    /\ Return(t, r)
    /\ UNCHANGED <<enrolled, kind, chan, alone>>

\* The connection is gone and receive cannot get another, or what arrived is
\* not a message.
ReceiveFails(t) ==
    /\ pc[t] = "reading"
    /\ holder' = [holder EXCEPT ![chan[t]] = NoTask]
    /\ Abandon(t)
    /\ Return(t, "ChannelError")
    /\ UNCHANGED <<known, registry, enrolled, kind, chan, own, alone>>

\* Defect for the check of HeartbeatsGoOn: the receive has no timer.
TimesOut_Never(t) == FALSE

\* Defect for the check of TypeOK: the cancelled receive keeps the mutex.
TimesOut_KeepsMutex(t) ==
    /\ Awaiting(t)
    /\ UNCHANGED holder

\* timeout(DEFAULT_TIMEOUT, channel.receive()): the receive is dropped, the
\* mutex released if it had it, and the answer may still come.
TimesOut(t) ==
    /\ Awaiting(t)
    /\ holder' = [c \in Chans |-> IF holder[c] = t THEN NoTask ELSE holder[c]]

TimeoutElapses(t) ==
    /\ TimesOut(t)
    /\ Abandon(t)
    /\ Return(t, "Timeout")
    /\ UNCHANGED <<known, registry, enrolled, kind, chan, own, alone>>

-----------------------------------------------------------------------------
(* The orchestrator and the network.                                       *)

\* Requests are answered one by one, in order, on the channel they came by.
Answer(c) ==
    LET q == Head(requests[c]) IN
    /\ requests[c] # <<>>
    /\ \E ok \in BOOLEAN :
        /\ answers' = [answers EXCEPT ![c] =
                Append(@, [to |-> q.from, kind |-> q.kind, success |-> ok])]
        /\ enrolled' = (IF ok THEN (enrolled \/ q.kind = "register") /\ q.kind # "unregister"
                              ELSE enrolled)
    /\ requests' = [requests EXCEPT ![c] = Tail(@)]
    /\ UNCHANGED <<known, registry, holder, pc, kind, chan, result, own, alone>>

\* A connection breaks: what was under way on it is lost, and the channel
\* reconnects on its next use.
ConnectionLost(c) ==
    /\ requests[c] # <<>> \/ answers[c] # <<>>
    /\ requests' = [requests EXCEPT ![c] = <<>>]
    /\ answers' = [answers EXCEPT ![c] = <<>>]
    /\ UNCHANGED <<known, registry, enrolled, holder, pc, kind, chan, result, own, alone>>

\* The peer of a call that is sending stops reading, and its send waits with
\* the mutex; or the peer reads again, or is found to be gone.
PeerStalls(t) ==
    /\ Sending(t)
    /\ Goto(t, IF pc[t] = "writing" THEN "blocked" ELSE "writing")
    /\ UNCHANGED <<known, registry, enrolled, chanVars, kind, chan, result, own, alone>>

Step(t) ==
    \/ Connect(t) \/ ConnectFails(t) \/ StartSend(t) \/ Send(t) \/ SendFails(t)
    \/ StartReceive(t) \/ Receive(t)

Next ==
    \/ \E t \in Tasks :
        \/ Step(t) \/ ReceiveFails(t) \/ TimeoutElapses(t) \/ PeerStalls(t)
        \/ \E k \in Kinds : Begin(t, k)
    \/ \E c \in Chans : Answer(c) \/ ConnectionLost(c)

Spec == Init /\ [][Next]_vars

(***************************************************************************)
(* Fairness.  A ready task runs, the FIFO mutex of a channel reaches every *)
(* waiter, timers fire, and a heartbeat loop calls again after its sleep.  *)
(* Step(t) includes the end of TcpChannel's reconnection, so this assumes  *)
(* an orchestrator that can be reached or a policy with a limit.  A send   *)
(* has no timer: it ends only if the orchestrator reads, which nothing     *)
(* makes it do, and nothing is assumed of the answers.                     *)
(***************************************************************************)
Fairness ==
    /\ \A t \in Tasks : SF_vars(Step(t)) /\ WF_vars(TimeoutElapses(t))
    /\ \A t \in Loops : WF_vars(Begin(t, "heartbeat"))

FairSpec == Spec /\ Fairness

-----------------------------------------------------------------------------
(* Properties.                                                             *)

(***************************************************************************)
(* A call that had its channel to itself, from an empty channel at its     *)
(* send to its answer, gets the answer to its own request; and a call on a *)
(* channel of its own (every register_module) always has it to itself.     *)
(***************************************************************************)
SoleCallerGetsItsAnswer ==
    \A t \in Tasks :
        /\ pc[t] = "idle" /\ result[t] \in {"Ok", "Rejected", "SerializationError"} /\ alone[t]
            => own[t]
        /\ Awaiting(t) /\ chan[t] = t => alone[t]

\* A send on the channel of t, its own or another task's, waits for the peer.
SendBlocked(t) == \E u \in Tasks : pc[u] = "blocked" /\ chan[u] = chan[t]

(***************************************************************************)
(* A heartbeat loop never gets stuck in a call, except behind a send that  *)
(* stays blocked for ever on its channel: whatever else the orchestrator   *)
(* answers, loses or delays, and whatever other tasks do on the shared     *)
(* channel, it comes back to send the next heartbeat.                      *)
(***************************************************************************)
HeartbeatsGoOn == \A t \in Loops : []<>(pc[t] = "idle") \/ <>[]SendBlocked(t)
=============================================================================
