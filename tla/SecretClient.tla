---------------------------- MODULE SecretClient ----------------------------
(***************************************************************************)
(* Secrets and their rotation (src/secret_client/client.rs, src/secrets.rs *)
(* and src/typed_secret.rs): get_secret with its cache, the background     *)
(* task that reads what the orchestrator writes, the acknowledgement of a  *)
(* rotation, and a task of subscribe_secret_rotations.                     *)
(*                                                                         *)
(* Every request writes a line and takes the NEXT line of the input for    *)
(* its answer.  The input is behind one mutex, and read_line blocks its    *)
(* thread: the timer of send_request bounds the wait for the mutex, never  *)
(* the read.  A secret is represented by its version, 1 being the first.   *)
(* rotation_tracking and last_ack are written and never read: left out.    *)
(***************************************************************************)
EXTENDS Naturals, Sequences, FiniteSets

CONSTANTS
    Callers,      \* tasks that call get_secret
    Background,   \* the task of start_background_task
    Subscriber,   \* the task of subscribe_secret_rotations
    Keys,         \* names of secrets
    Watched,      \* the ones the subscriber has asked for
    IoFails,      \* whether the input and the output may fail
    BroadcastCap, \* capacity of rotation_tx
    MaxVersion,   \* bound: versions of a secret
    MaxLines      \* bound: lines under way when a call or an extra line starts

Clients == Callers \union {Subscriber}
Tasks == Clients \union {Background}
NoValue == 0
Versions == 1..MaxVersion
Modes == {"CacheThenRemote", "ForceRemote", "CacheOnly"}

ASSUME TasksAssumption == Background # Subscriber /\ {Background, Subscriber} \cap Callers = {}
ASSUME KeysAssumption == Watched \subseteq Keys /\ IoFails \in BOOLEAN
ASSUME BoundsAssumption == {BroadcastCap, MaxVersion} \subseteq Nat \ {0} /\ MaxLines \in Nat

\* What a rotation says, and the versions it has brought about.
Rotations == [type : {"Rotated"}, keys : SUBSET Keys, versions : [Keys -> Versions]]
Lines == [type : {"Secret"}, key : Keys, value : Versions] \union Rotations
         \union [type : {"Other"}]

VARIABLES
    version,    \* the orchestrator's secrets
    requests,   \* the keys asked for in lines to the orchestrator
    lines,      \* lines from the orchestrator that nobody has read
    closed,     \* the orchestrator has closed them
    cache,
    queue,      \* rotation_tx: what the subscriber has not received
    lagged,     \* it has missed something
    delivered,  \* the last value given to on_rotate, per key
    pc,
    want,       \* the key a client asks for
    took,       \* the line a task has read
    todo,       \* keys still to invalidate, or to fetch
    due,        \* the versions of the rotation the subscriber is working on
    result,
    swallowed,  \* keys of rotations that were lost, or read by a task that drops them
    overtaken,  \* clients with a secret in hand that was invalidated meanwhile
    late        \* keys whose cached value such a client has put there

orchVars == <<version, requests, lines, closed>>
subVars == <<queue, lagged, delivered, due>>
ghosts == <<swallowed, overtaken, late>>
vars == <<orchVars, cache, subVars, pc, want, took, todo, result, ghosts>>

Other == [type |-> "Other"]
Reading == {"reading", "ack_reading"}
PCs == Reading \union {"idle", "write", "lock", "apply", "recv", "next", "ended",
                       "invalidate", "notify", "ack_lock"}

TypeOK ==
    /\ version \in [Keys -> Versions]
    /\ requests \in Seq(Keys) /\ lines \in Seq(Lines) /\ closed \in BOOLEAN
    /\ cache \in [Keys -> Versions \union {NoValue}]
    /\ queue \in Seq(Rotations) /\ Len(queue) <= BroadcastCap /\ lagged \in BOOLEAN
    /\ delivered \in [Keys -> Versions \union {NoValue}]
    /\ pc \in [Tasks -> PCs]
    /\ want \in [Clients -> Keys]
    /\ took \in [Tasks -> Lines]
    /\ todo \in [{Background, Subscriber} -> SUBSET Keys]
    /\ due \in [Keys -> Versions]
    /\ result \in [Callers -> {"none", "Ok", "Err"}]
    /\ swallowed \subseteq Keys /\ overtaken \subseteq Clients /\ late \subseteq Keys
    /\ \A t, u \in Tasks : pc[t] \in Reading /\ pc[u] \in Reading => t = u

\* SecretClient::connect: an empty cache and the background task.
Init ==
    /\ version = [k \in Keys |-> 1]
    /\ requests = <<>> /\ lines = <<>> /\ closed = FALSE
    /\ cache = [k \in Keys |-> NoValue]
    /\ queue = <<>> /\ lagged = FALSE /\ delivered = [k \in Keys |-> NoValue]
    /\ pc = [t \in Tasks |-> IF t = Background THEN "lock"
                             ELSE IF t = Subscriber THEN "recv" ELSE "idle"]
    /\ want \in [Clients -> Keys]
    /\ took = [t \in Tasks |-> Other]
    /\ todo = [t \in {Background, Subscriber} |-> {}]
    /\ due = [k \in Keys |-> 1]
    /\ result = [t \in Callers |-> "none"]
    /\ swallowed = {} /\ overtaken = {} /\ late = {}

Goto(t, l) == pc' = [pc EXCEPT ![t] = l]

\* get_secret of a client ends with r; the subscriber takes its next key.
Finish(t, r) ==
    /\ Goto(t, IF t = Subscriber THEN "next" ELSE "idle")
    /\ result' = IF t = Subscriber THEN result ELSE [result EXCEPT ![t] = r]

-----------------------------------------------------------------------------
(* get_secret and send_request.                                            *)

\* The cache is looked up unless the mode is ForceRemote.
GetSecret(t, k, mode) ==
    LET hit == mode # "ForceRemote" /\ cache[k] # NoValue IN
    /\ t \in Callers /\ pc[t] = "idle"
    /\ Len(requests) + Len(lines) < MaxLines
    /\ want' = [want EXCEPT ![t] = k]
    /\ \/ hit /\ Finish(t, "Ok")
       \/ ~hit /\ mode = "CacheOnly" /\ Finish(t, "Err")
       \/ ~hit /\ mode # "CacheOnly" /\ Goto(t, "write")
            /\ result' = [result EXCEPT ![t] = "none"]
    /\ UNCHANGED <<orchVars, cache, subVars, took, todo, ghosts>>

WriteRequest(t) ==
    /\ t \in Clients /\ pc[t] = "write"
    /\ requests' = Append(requests, want[t])
    /\ Goto(t, "lock")
    /\ UNCHANGED <<version, lines, closed, cache, subVars, want, took, todo, result, ghosts>>

WriteFails(t) ==
    /\ IoFails
    /\ t \in Clients /\ pc[t] = "write"
    /\ Finish(t, "Err")
    /\ UNCHANGED <<orchVars, cache, subVars, want, took, todo, ghosts>>

\* Defect for the check of TypeOK: every request opens its own reader of the
\* input, behind a mutex of its own.
LockInput_NoMutex(t) ==
    /\ pc[t] \in {"lock", "ack_lock"}
    /\ Goto(t, IF pc[t] = "lock" THEN "reading" ELSE "ack_reading")
    /\ UNCHANGED <<orchVars, cache, subVars, want, took, todo, result, ghosts>>

\* input.lock(): free when nobody is in read_line.
LockInput(t) ==
    /\ pc[t] \in {"lock", "ack_lock"}
    /\ \A u \in Tasks : pc[u] \notin Reading
    /\ Goto(t, IF pc[t] = "lock" THEN "reading" ELSE "ack_reading")
    /\ UNCHANGED <<orchVars, cache, subVars, want, took, todo, result, ghosts>>

\* Defect for the check of CallsReturn: no timer.
TimesOut_Never(t) == FALSE

\* timeout(5s): the wait for the mutex, which is the only place where the
\* future is suspended.  The background loop's own wait has no timer.
TimesOut(t) ==
    \/ t \in Clients /\ pc[t] = "lock" /\ Finish(t, "Err")
    \/ t = Background /\ pc[t] = "ack_lock" /\ Goto(t, "lock") /\ UNCHANGED result

TimeoutElapses(t) ==
    /\ TimesOut(t)
    /\ UNCHANGED <<orchVars, cache, subVars, want, took, todo, ghosts>>

\* read_line returns a line and the mutex is released.  A line that is read
\* for the answer to an acknowledgement is only parsed.
ReadLine(t) ==
    LET l == Head(lines) IN
    /\ pc[t] \in Reading
    /\ lines # <<>>
    /\ lines' = Tail(lines)
    /\ took' = [took EXCEPT ![t] = IF pc[t] = "reading" THEN l ELSE Other]
    /\ Goto(t, IF pc[t] = "reading" THEN "apply" ELSE "lock")
    /\ swallowed' = IF l.type = "Rotated" /\ ~(t = Background /\ pc[t] = "reading")
                    THEN swallowed \union l.keys ELSE swallowed
    /\ UNCHANGED <<version, requests, closed, cache, subVars, want, todo, result, overtaken,
                   late>>

\* read_line returns no line: a client's request fails, the background task's
\* loop is over; a failed acknowledgement is only logged.
NoLine(t) ==
    \/ t \in Clients /\ Finish(t, "Err")
    \/ t = Background /\ Goto(t, IF pc[t] = "reading" THEN "ended" ELSE "lock")
         /\ UNCHANGED result

\* End of the input: an empty line, which is not a response.
ReadEof(t) ==
    /\ pc[t] \in Reading
    /\ lines = <<>> /\ closed
    /\ NoLine(t)
    /\ UNCHANGED <<orchVars, cache, subVars, want, took, todo, ghosts>>

\* read_line returns an error, before a line or in it; what it had read of the
\* line (all of one that is not UTF-8) is gone.
ReadErr(t) ==
    /\ IoFails
    /\ pc[t] \in Reading
    /\ \/ UNCHANGED <<lines, swallowed>>
       \/ /\ lines # <<>>
          /\ lines' = Tail(lines)
          /\ swallowed' = IF Head(lines).type = "Rotated" THEN swallowed \union Head(lines).keys
                                                         ELSE swallowed
    /\ NoLine(t)
    /\ UNCHANGED <<version, requests, closed, cache, subVars, want, took, todo, overtaken,
                   late>>

Insert(t, k, v) ==
    /\ cache' = [cache EXCEPT ![k] = v]
    /\ late' = IF t \in overtaken THEN late \union {k} ELSE late \ {k}

IsAnswer(t) == took[t].type = "Secret" /\ took[t].key = want[t]

\* The response is the secret asked for: it goes into the cache, and from the
\* subscriber's call to on_rotate.
Apply(t) ==
    /\ t \in Clients /\ pc[t] = "apply"
    /\ \/ /\ IsAnswer(t)
          /\ Insert(t, want[t], took[t].value)
          /\ Finish(t, "Ok")
          /\ delivered' = IF t = Subscriber THEN [delivered EXCEPT ![want[t]] = took[t].value]
                                            ELSE delivered
       \/ /\ ~IsAnswer(t)
          /\ Finish(t, "Err")
          /\ UNCHANGED <<cache, late, delivered>>
    /\ took' = [took EXCEPT ![t] = Other]
    /\ overtaken' = overtaken \ {t}
    /\ UNCHANGED <<orchVars, queue, lagged, due, want, todo, swallowed>>

-----------------------------------------------------------------------------
(* start_background_task and process_server_message.                       *)

\* A secret goes into the cache, a rotation is handled, the rest is ignored.
ProcessMessage ==
    LET l == took[Background] IN
    /\ pc[Background] = "apply"
    /\ IF l.type = "Secret" THEN Insert(Background, l.key, l.value)
                            ELSE UNCHANGED <<cache, late>>
    /\ IF l.type = "Rotated"
       THEN /\ Goto(Background, "invalidate")
            /\ todo' = [todo EXCEPT ![Background] = l.keys]
            /\ UNCHANGED took
       ELSE /\ Goto(Background, "lock")
            /\ took' = [took EXCEPT ![Background] = Other]
            /\ UNCHANGED todo
    /\ UNCHANGED <<orchVars, subVars, want, result, swallowed, overtaken>>

\* Defect for the check of StaleHasCause: a rotated key is not removed
\* from the cache (it is left to the subscriber to refresh it).
Removed_None(k) == cache' = cache

Removed(k) == cache' = [cache EXCEPT ![k] = NoValue]

\* handle_rotation_notification removes the rotated keys one by one.
Invalidate(k) ==
    /\ pc[Background] = "invalidate"
    /\ k \in todo[Background]
    /\ Removed(k)
    /\ todo' = [todo EXCEPT ![Background] = @ \ {k}]
    /\ Goto(Background, IF todo[Background] = {k} THEN "notify" ELSE "invalidate")
    /\ overtaken' = overtaken \union
            {t \in Clients : pc[t] = "apply" /\ took[t].type = "Secret" /\ took[t].key = k}
    /\ late' = late \ {k} /\ swallowed' = swallowed \ {k}
    /\ UNCHANGED <<orchVars, subVars, want, took, result>>

\* rotation_tx.send; a receiver that is BroadcastCap behind misses something.
\* Then acknowledge_rotation writes the acknowledgement, which has no effect
\* that this module knows of, and wants a line for it; if it cannot be written
\* the loop goes on.
Notify ==
    /\ pc[Background] = "notify"
    /\ \/ /\ pc[Subscriber] = "ended"
          /\ UNCHANGED <<queue, lagged>>
       \/ /\ pc[Subscriber] # "ended" /\ Len(queue) < BroadcastCap
          /\ queue' = Append(queue, took[Background])
          /\ UNCHANGED lagged
       \/ /\ pc[Subscriber] # "ended" /\ Len(queue) = BroadcastCap
          /\ queue' = Append(Tail(queue), took[Background])
          /\ lagged' = TRUE
    /\ took' = [took EXCEPT ![Background] = Other]
    /\ \E l \in {"ack_lock"} \union (IF IoFails THEN {"lock"} ELSE {}) : Goto(Background, l)
    /\ UNCHANGED <<orchVars, cache, delivered, due, want, todo, result, ghosts>>

-----------------------------------------------------------------------------
(* subscribe_secret_rotations: "while let Ok(keys) = rx.recv().await".     *)

\* recv returns a rotation, or the error of a receiver that lags, after which
\* the loop and with it the subscription is over.
Receive ==
    /\ pc[Subscriber] = "recv"
    /\ \/ /\ lagged
          /\ Goto(Subscriber, "ended")
          /\ queue' = <<>> /\ lagged' = FALSE
          /\ UNCHANGED <<todo, due>>
       \/ /\ ~lagged /\ queue # <<>>
          /\ todo' = [todo EXCEPT ![Subscriber] = Head(queue).keys \cap Watched]
          /\ due' = Head(queue).versions
          /\ queue' = Tail(queue)
          /\ Goto(Subscriber, "next")
          /\ UNCHANGED lagged
    /\ UNCHANGED <<orchVars, cache, delivered, want, took, result, ghosts>>

\* Defect for the check of OnRotateIsCurrent: the mode is CacheThenRemote.
NextKey_Cached ==
    /\ pc[Subscriber] = "next"
    /\ \/ \E k \in todo[Subscriber] :
            /\ todo' = [todo EXCEPT ![Subscriber] = @ \ {k}]
            /\ IF cache[k] # NoValue
               THEN delivered' = [delivered EXCEPT ![k] = cache[k]] /\ UNCHANGED <<want, pc>>
               ELSE /\ want' = [want EXCEPT ![Subscriber] = k]
                    /\ Goto(Subscriber, "write")
                    /\ UNCHANGED delivered
            /\ UNCHANGED due
       \/ /\ todo[Subscriber] = {}
          /\ Goto(Subscriber, "recv")
          /\ due' = [k \in Keys |-> 1]
          /\ UNCHANGED <<want, todo, delivered>>
    /\ UNCHANGED <<orchVars, cache, queue, lagged, took, result, ghosts>>

\* The next watched key is fetched, with ForceRemote.
NextKey ==
    /\ pc[Subscriber] = "next"
    /\ \/ \E k \in todo[Subscriber] :
            /\ want' = [want EXCEPT ![Subscriber] = k]
            /\ todo' = [todo EXCEPT ![Subscriber] = @ \ {k}]
            /\ Goto(Subscriber, "write")
            /\ UNCHANGED due
       \/ /\ todo[Subscriber] = {}
          /\ Goto(Subscriber, "recv")
          /\ due' = [k \in Keys |-> 1]
          /\ UNCHANGED <<want, todo>>
    /\ UNCHANGED <<orchVars, cache, queue, lagged, delivered, took, result, ghosts>>

-----------------------------------------------------------------------------
(* The orchestrator.                                                       *)

\* A request for a secret is answered with its value.  OrchestratorToModule
\* has no message that answers an acknowledgement.
Answer ==
    LET k == Head(requests) IN
    /\ requests # <<>> /\ ~closed
    /\ requests' = Tail(requests)
    /\ lines' = Append(lines, [type |-> "Secret", key |-> k, value |-> version[k]])
    /\ UNCHANGED <<version, closed, cache, subVars, pc, want, took, todo, result, ghosts>>

Rotate(ks) ==
    LET new == [k \in Keys |-> IF k \in ks THEN version[k] + 1 ELSE version[k]] IN
    /\ ~closed
    /\ \A k \in ks : version[k] < MaxVersion
    /\ version' = new
    /\ lines' = Append(lines, [type |-> "Rotated", keys |-> ks, versions |-> new])
    /\ UNCHANGED <<requests, closed, cache, subVars, pc, want, took, todo, result, ghosts>>

\* Shutdown, and lines that no variant matches.
SendOther ==
    /\ ~closed
    /\ Len(lines) < MaxLines
    /\ lines' = Append(lines, Other)
    /\ UNCHANGED <<version, requests, closed, cache, subVars, pc, want, took, todo, result,
                   ghosts>>

CloseInput ==
    /\ ~closed
    /\ closed' = TRUE
    /\ UNCHANGED <<version, requests, lines, cache, subVars, pc, want, took, todo, result,
                   ghosts>>

ClientStep(t) ==
    WriteRequest(t) \/ WriteFails(t) \/ LockInput(t) \/ ReadLine(t) \/ ReadEof(t) \/ Apply(t)

BackgroundStep ==
    \/ LockInput(Background) \/ ReadLine(Background) \/ ReadEof(Background)
    \/ ProcessMessage \/ (\E k \in Keys : Invalidate(k)) \/ Notify

Next ==
    \/ \E t \in Callers, k \in Keys, m \in Modes : GetSecret(t, k, m)
    \/ \E t \in Clients : ClientStep(t)
    \/ BackgroundStep
    \/ Receive \/ NextKey
    \/ \E t \in Tasks : TimeoutElapses(t) \/ ReadErr(t)
    \/ Answer \/ SendOther \/ CloseInput
    \/ \E ks \in SUBSET Keys \ {{}} : Rotate(ks)

Spec == Init /\ [][Next]_vars

(***************************************************************************)
(* Fairness.  Ready tasks run - a multi-threaded runtime with a worker to  *)
(* spare for a task that blocks in read_line - the FIFO mutex reaches its  *)
(* waiters, timers fire, the orchestrator reads and answers.  Nothing is   *)
(* assumed of a line that never comes: that read blocks.                   *)
(***************************************************************************)
Fairness ==
    /\ \A t \in Clients : SF_vars(ClientStep(t))
    /\ \A t \in Tasks : WF_vars(TimeoutElapses(t))
    /\ SF_vars(BackgroundStep) /\ WF_vars(Receive \/ NextKey)
    /\ WF_vars(Answer)

FairSpec == Spec /\ Fairness

-----------------------------------------------------------------------------
(* Properties.                                                             *)

\* A rotation of k has been announced and not yet reached the cache.
Announced(k) ==
    \/ \E i \in DOMAIN lines : lines[i].type = "Rotated" /\ k \in lines[i].keys
    \/ /\ pc[Background] = "apply" /\ took[Background].type = "Rotated"
       /\ k \in took[Background].keys
    \/ pc[Background] = "invalidate" /\ k \in todo[Background]

(***************************************************************************)
(* The cache has an old secret only while its rotation is on the way to    *)
(* the cache, or in one of two ways: the notification was read by a task   *)
(* that was waiting for something else or whose read failed (swallowed),   *)
(* or a client read the old value before the background task read the      *)
(* rotation and put it into the cache after the key was removed (late).    *)
(***************************************************************************)
StaleHasCause ==
    \A k \in Keys : cache[k] \notin {NoValue, version[k]} =>
        Announced(k) \/ k \in swallowed \/ k \in late

(***************************************************************************)
(* The value that on_rotate is given is at least as new as the rotation it *)
(* is called for, whichever answers, meant for whom, the tasks pick up     *)
(* from the input.                                                         *)
(***************************************************************************)
OnRotateIsCurrent ==
    [][\A k \in Keys : delivered'[k] # delivered[k] => delivered'[k] >= due[k]]_vars

(***************************************************************************)
(* get_secret ends, with an error if somebody else has taken its answer,   *)
(* unless it sits in its blocking read: it is not kept waiting by another  *)
(* task that does.                                                         *)
(***************************************************************************)
CallsReturn == \A t \in Callers : pc[t] # "idle" ~> pc[t] \in {"idle", "reading"}
=============================================================================
