----------------------- MODULE InternalMessagingProofs -----------------------
(***************************************************************************)
(* Theorems about InternalMessaging for any callers, ids and sources.      *)
(* OwnResponse rests on what is known of a call before its request is sent *)
(* (CallInv), OnlyShutdownEnds on the map of the main task being empty     *)
(* (BootInv).                                                              *)
(***************************************************************************)
EXTENDS InternalMessaging, SequenceTheorems, TLAPS

\* No response with id i is in flight.
NoAnswer(ms, i) == \A j \in DOMAIN ms : ms[j].type = "Response" => ms[j].id # i

\* A call has an id.  Before its request is sent nobody answers it, and its
\* entry is in the map.
CallInv ==
    \A t \in Callers :
        /\ pc[t] # "idle" => id[t] \in Ids
        /\ pc[t] = "send" => /\ id[t] \in pending /\ got[t] = NoId
                             /\ id[t] \notin out /\ NoAnswer(inbox, id[t])

\* The main task starts with the first map, and the application registers
\* its handlers in another.
BootInv ==
    /\ taskMap = "new" /\ handlers["new"] = {}
    /\ boot = "state" => appMap = "new" /\ main = "unborn"
    /\ boot = "done" => appMap = "step9"

IInv == TypeOK /\ CallInv /\ BootInv /\ OwnResponse

-----------------------------------------------------------------------------
(* Messages in flight.                                                     *)

\* Taking the first message leaves the others.
LEMMA NoAnswerTail ==
    ASSUME NEW S, NEW ms \in Seq(S), ms # <<>>, NEW i, NoAnswer(ms, i)
    PROVE  NoAnswer(Tail(ms), i) /\ (Head(ms).type = "Response" => Head(ms).id # i)
<1>1. /\ DOMAIN ms = 1..Len(ms) /\ Len(ms) \in Nat \ {0}
      /\ Tail(ms) \in Seq(S) /\ Len(Tail(ms)) = Len(ms) - 1
      /\ \A j \in 1..Len(Tail(ms)) : Tail(ms)[j] = ms[j + 1]
  BY HeadTailProperties, EmptySeq, LenProperties
<1>2. DOMAIN Tail(ms) = 1..Len(Tail(ms))
  BY <1>1, LenProperties
<1>3. NoAnswer(Tail(ms), i)
  BY <1>1, <1>2 DEF NoAnswer
<1>4. Head(ms) = ms[1] /\ 1 \in DOMAIN ms
  BY <1>1
<1> QED
  BY <1>3, <1>4 DEF NoAnswer

\* One more message that is no response with id i.
LEMMA NoAnswerAppend ==
    ASSUME NEW S, NEW ms \in Seq(S), NEW m \in S, NEW i, NoAnswer(ms, i),
           m.type = "Response" => m.id # i
    PROVE  NoAnswer(Append(ms, m), i)
<1>1. /\ DOMAIN ms = 1..Len(ms) /\ Len(ms) \in Nat
      /\ DOMAIN Append(ms, m) = 1..(Len(ms) + 1)
      /\ \A j \in 1..(Len(ms) + 1) : Append(ms, m)[j] = IF j <= Len(ms) THEN ms[j] ELSE m
  BY LenProperties
<1> QED
  BY <1>1 DEF NoAnswer

\* An id that is not in use is in no response.
LEMMA FreshId ==
    ASSUME NEW i, i \notin InUse
    PROVE  /\ i \notin pending /\ i \notin out /\ NoAnswer(inbox, i)
           /\ \A t \in Callers : id[t] # i
BY DEF InUse, Answering, NoAnswer

\* Responses have an id of a request.
LEMMA ResponseId ==
    ASSUME TypeOK, inbox # <<>>, Head(inbox).type = "Response"
    PROVE  Head(inbox).id \in Ids
<1>1. Head(inbox) \in Messages
  BY HeadTailProperties DEF TypeOK
<1> QED
  BY <1>1 DEF Messages

-----------------------------------------------------------------------------

\* The initial state.
LEMMA InitOK == Init => IInv
<1> SUFFICES ASSUME Init PROVE IInv
  OBVIOUS
<1>1. inbox \in Seq(Messages)
  BY EmptySeq DEF Init
<1>2. TypeOK
  BY <1>1, CallersAssumption DEF Init, TypeOK, Maps
<1>3. CallInv /\ BootInv /\ OwnResponse
  BY DEF Init, CallInv, BootInv, OwnResponse, Maps
<1> QED
  BY <1>2, <1>3 DEF IInv

\* Every step keeps every variable in its type.
LEMMA TypeStep == TypeOK /\ CallInv /\ BootInv /\ [Next]_vars => TypeOK'
<1> SUFFICES ASSUME TypeOK, CallInv, BootInv, [Next]_vars PROVE TypeOK'
  OBVIOUS
<1> USE CallersAssumption DEF TypeOK, bootVars, netVars, callVars
<1>1. CASE SpawnMain \/ NoConnection \/ FinishBootstrap
  <2>1. CASE SpawnMain
    BY <1>1, <2>1 DEF SpawnMain, BootInv
  <2>2. CASE NoConnection
    BY <2>2 DEF NoConnection
  <2>3. CASE FinishBootstrap
    BY <1>1, <2>3 DEF FinishBootstrap, Maps
  <2> QED
    BY <1>1, <2>1, <2>2, <2>3
<1>2. ASSUME NEW s \in Sources, RegisterHandler(s) \/ RemoveHandler(s) PROVE TypeOK'
  <2>1. handlers' \in [Maps -> SUBSET Sources]
    BY <1>2 DEF RegisterHandler, RemoveHandler
  <2> QED
    BY <1>2, <2>1 DEF RegisterHandler, RemoveHandler
<1>3. ASSUME NEW m \in Messages, Deliver(m),
             UNCHANGED <<bootVars, main, lock, out, lost, pending, callVars>>
      PROVE  TypeOK'
  BY <1>3 DEF Deliver
<1>4. ASSUME NEW s \in Sources, SendMessage(s) PROVE TypeOK'
  <2>1. [type |-> "Message", source |-> s] \in Messages
    BY DEF Messages
  <2> QED
    BY <1>3, <1>4, <2>1 DEF SendMessage
<1>5. CASE SendHeartbeat \/ SendControl
  <2>1. \A ty \in {"Heartbeat", "Shutdown", "Other"} : [type |-> ty] \in Messages
    BY DEF Messages
  <2> QED
    BY <1>3, <1>5, <2>1 DEF SendHeartbeat, SendControl
<1>6. ASSUME NEW t \in Callers, SendRequest(t) PROVE TypeOK'
  BY <1>6 DEF SendRequest
<1>7. ASSUME NEW t \in Callers, CallerStep(t) \/ Cancel(t) PROVE TypeOK'
  BY <1>7 DEF CallerStep, Cancel, Sent, SendFails, Answered, CallInv
<1>8. CASE MainLock \/ Ack \/ ReceiveFails
  BY <1>8 DEF MainLock, Ack, ReceiveFails
<1>9. CASE OnHeartbeat \/ OnShutdown \/ OnResponse \/ OnMessage \/ OnOther
  <2>1. inbox # <<>> /\ inbox' = Tail(inbox) /\ lock' = NoOne /\ main = "reading"
    BY <1>9 DEF OnHeartbeat, OnShutdown, OnResponse, OnMessage, OnOther, Received, Released
  <2>2. inbox' \in Seq(Messages)
    BY <2>1, HeadTailProperties
  <2>3. CASE OnResponse
    <3>1. Head(inbox).id \in Ids
      BY <2>1, <2>3, ResponseId DEF OnResponse, Received
    <3> QED
      BY <2>1, <2>2, <2>3, <3>1 DEF OnResponse
  <2>4. CASE OnMessage
    <3>1. Head(inbox) \in Messages
      BY <2>1, HeadTailProperties
    <3>2. Head(inbox).source \in Sources
      BY <2>4, <3>1 DEF OnMessage, Received, Messages
    <3> QED
      BY <2>1, <2>2, <2>4, <3>2 DEF OnMessage
  <2>5. CASE OnHeartbeat \/ OnShutdown \/ OnOther
    BY <2>1, <2>2, <2>5 DEF OnHeartbeat, OnShutdown, OnOther
  <2> QED
    BY <1>9, <2>3, <2>4, <2>5
<1>10. ASSUME NEW i \in Ids, Respond(i) PROVE TypeOK'
  <2>1. [type |-> "Response", id |-> i] \in Messages
    BY DEF Messages
  <2>2. inbox' \in Seq(Messages)
    BY <1>10, <2>1 DEF Respond
  <2> QED
    BY <1>10, <2>2 DEF Respond
<1>11. CASE ConnectionLost
  <2>1. Answering \subseteq Ids
    <3>1. \A j \in DOMAIN inbox : inbox[j] \in Messages
      BY LenProperties, ElementOfSeq
    <3> QED
      BY <3>1 DEF Answering, Messages
  <2> QED
    BY <1>11, <2>1, EmptySeq DEF ConnectionLost
<1>12. CASE UNCHANGED vars
  BY <1>12 DEF vars
<1> QED
  BY <1>1, <1>2, <1>4, <1>5, <1>6, <1>7, <1>8, <1>9, <1>10, <1>11, <1>12
  DEF Next, MainStep

-----------------------------------------------------------------------------
(* The handler maps.                                                       *)

\* The main task's map stays empty.
LEMMA BootStep == TypeOK /\ BootInv /\ [Next]_vars => BootInv'
<1> SUFFICES ASSUME TypeOK, BootInv, [Next]_vars PROVE BootInv'
  OBVIOUS
<1> USE DEF TypeOK, BootInv, bootVars, Maps
<1>1. CASE SpawnMain \/ NoConnection
  BY <1>1 DEF SpawnMain, NoConnection
<1>2. CASE FinishBootstrap
  BY <1>2 DEF FinishBootstrap
<1>3. ASSUME NEW s \in Sources, RegisterHandler(s) \/ RemoveHandler(s) PROVE BootInv'
  BY <1>3 DEF RegisterHandler, RemoveHandler
<1>4. ASSUME UNCHANGED <<boot, appMap, taskMap, handlers>>,
             main = "unborn" => main' = "unborn"
      PROVE  BootInv'
  BY <1>4
<1>5. ASSUME NEW t \in Callers, SendRequest(t) \/ CallerStep(t) \/ Cancel(t) PROVE BootInv'
  BY <1>4, <1>5 DEF SendRequest, CallerStep, Cancel, Sent, SendFails, Answered
<1>6. CASE MainLock \/ Ack \/ ReceiveFails
  BY <1>4, <1>6 DEF MainLock, Ack, ReceiveFails
<1>7. CASE OnHeartbeat \/ OnShutdown \/ OnResponse \/ OnMessage \/ OnOther
  BY <1>4, <1>7 DEF OnHeartbeat, OnShutdown, OnResponse, OnMessage, OnOther, Received
<1>8. CASE SendHeartbeat \/ SendControl \/ ConnectionLost
  BY <1>4, <1>8 DEF SendHeartbeat, SendControl, ConnectionLost
<1>9. ASSUME NEW s \in Sources, SendMessage(s) PROVE BootInv'
  BY <1>4, <1>9 DEF SendMessage
<1>10. ASSUME NEW i \in Ids, Respond(i) PROVE BootInv'
  BY <1>4, <1>10 DEF Respond
<1>11. CASE UNCHANGED vars
  BY <1>4, <1>11 DEF vars
<1> QED
  BY <1>1, <1>2, <1>3, <1>5, <1>6, <1>7, <1>8, <1>9, <1>10, <1>11 DEF Next, MainStep

\* Only OnShutdown and ReceiveFails stop the main task: OnMessage finds no
\* handler.
LEMMA StopStep ==
    TypeOK /\ BootInv /\ [Next]_vars =>
        (main # "stopped" /\ main' = "stopped" => OnShutdown \/ ReceiveFails)
<1> SUFFICES ASSUME TypeOK, BootInv, [Next]_vars, main # "stopped", main' = "stopped",
                    ~OnShutdown, ~ReceiveFails
             PROVE  FALSE
  OBVIOUS
<1> USE DEF bootVars, netVars, callVars
<1>1. CASE \/ SpawnMain \/ NoConnection \/ FinishBootstrap
           \/ SendHeartbeat \/ SendControl \/ ConnectionLost
  BY <1>1 DEF SpawnMain, NoConnection, FinishBootstrap, SendHeartbeat, SendControl, ConnectionLost
<1>2. ASSUME NEW s \in Sources, RegisterHandler(s) \/ RemoveHandler(s) \/ SendMessage(s)
      PROVE  FALSE
  BY <1>2 DEF RegisterHandler, RemoveHandler, SendMessage
<1>3. ASSUME NEW t \in Callers, SendRequest(t) \/ CallerStep(t) \/ Cancel(t) PROVE FALSE
  BY <1>3 DEF SendRequest, CallerStep, Cancel, Sent, SendFails, Answered
<1>4. CASE MainLock \/ Ack \/ OnHeartbeat \/ OnResponse \/ OnOther
  BY <1>4 DEF MainLock, Ack, OnHeartbeat, OnResponse, OnOther
<1>5. CASE OnMessage
  BY <1>5 DEF OnMessage, BootInv
<1>6. ASSUME NEW i \in Ids, Respond(i) PROVE FALSE
  BY <1>6 DEF Respond
<1>7. CASE UNCHANGED vars
  BY <1>7 DEF vars
<1> QED
  BY <1>1, <1>2, <1>3, <1>4, <1>5, <1>6, <1>7 DEF Next, MainStep

-----------------------------------------------------------------------------
(* The calls and their responses.                                          *)

\* Every step keeps what is known of the calls.
LEMMA CallsStep == TypeOK /\ CallInv /\ OwnResponse /\ [Next]_vars => CallInv' /\ OwnResponse'
<1> SUFFICES ASSUME TypeOK, CallInv, OwnResponse, [Next]_vars
             PROVE  CallInv' /\ OwnResponse'
  OBVIOUS
<1> USE IdsAssumption DEF TypeOK, bootVars, netVars, callVars
\* Steps that touch no call and send no response.
<1>1. ASSUME UNCHANGED <<pc, id, got, pending>>, out' \subseteq out,
             \A i \in Ids : i \notin out /\ NoAnswer(inbox, i) => NoAnswer(inbox', i)
      PROVE  CallInv' /\ OwnResponse'
  <2>1. CallInv'
    BY <1>1 DEF CallInv
  <2>2. OwnResponse'
    BY <1>1 DEF OwnResponse
  <2> QED
    BY <2>1, <2>2
<1>2. CASE \/ SpawnMain \/ NoConnection \/ FinishBootstrap \/ MainLock \/ Ack \/ ReceiveFails
           \/ UNCHANGED vars
  <2>1. UNCHANGED <<pc, id, got, pending, out, inbox>>
    BY <1>2 DEF SpawnMain, NoConnection, FinishBootstrap, MainLock, Ack, ReceiveFails, vars
  <2> QED
    BY <1>1, <2>1
<1>3. ASSUME NEW s \in Sources, RegisterHandler(s) \/ RemoveHandler(s)
      PROVE  CallInv' /\ OwnResponse'
  <2>1. UNCHANGED <<pc, id, got, pending, out, inbox>>
    BY <1>3 DEF RegisterHandler, RemoveHandler
  <2> QED
    BY <1>1, <2>1
<1>4. ASSUME NEW m \in Messages, m.type # "Response", Deliver(m),
             UNCHANGED <<out, pending, callVars>>
      PROVE  CallInv' /\ OwnResponse'
  <2>1. \A i \in Ids : NoAnswer(inbox, i) => NoAnswer(inbox', i)
    BY <1>4, NoAnswerAppend DEF Deliver
  <2> QED
    BY <1>1, <1>4, <2>1
<1>5. ASSUME NEW s \in Sources, SendMessage(s) PROVE CallInv' /\ OwnResponse'
  <2>1. [type |-> "Message", source |-> s] \in Messages
    BY DEF Messages
  <2> QED
    BY <1>4, <1>5, <2>1 DEF SendMessage
<1>6. CASE SendHeartbeat \/ SendControl
  <2>1. \A ty \in {"Heartbeat", "Shutdown", "Other"} : [type |-> ty] \in Messages
    BY DEF Messages
  <2>2. PICK ty \in {"Heartbeat", "Shutdown", "Other"} : Deliver([type |-> ty])
    BY <1>6 DEF SendHeartbeat, SendControl
  <2>3. UNCHANGED <<out, pending, callVars>>
    BY <1>6 DEF SendHeartbeat, SendControl
  <2> QED
    BY <1>4, <2>1, <2>2, <2>3
<1>7. CASE OnHeartbeat \/ OnShutdown \/ OnMessage \/ OnOther
  <2>1. inbox # <<>> /\ inbox' = Tail(inbox) /\ UNCHANGED <<out, pending, callVars>>
    BY <1>7 DEF OnHeartbeat, OnShutdown, OnMessage, OnOther, Received
  <2>2. \A i \in Ids : NoAnswer(inbox, i) => NoAnswer(inbox', i)
    BY <2>1, NoAnswerTail
  <2> QED
    BY <1>1, <2>1, <2>2
<1>8. CASE ConnectionLost
  <2>1. out' = {} /\ inbox' = <<>> /\ UNCHANGED <<pending, callVars>>
    BY <1>8 DEF ConnectionLost
  <2>2. \A i \in Ids : NoAnswer(inbox', i)
    BY <2>1 DEF NoAnswer
  <2> QED
    BY <1>1, <2>1, <2>2
\* A response is for a request that was sent, so not for a call that has not.
<1>9. ASSUME NEW i \in Ids, Respond(i) PROVE CallInv' /\ OwnResponse'
  <2>1. i \in out /\ out' = out \ {i} /\ UNCHANGED <<pending, callVars>>
    BY <1>9 DEF Respond
  <2>2. [type |-> "Response", id |-> i] \in Messages
    BY DEF Messages
  <2>3. \A j \in Ids : j # i /\ NoAnswer(inbox, j) => NoAnswer(inbox', j)
    BY <1>9, <2>2, NoAnswerAppend DEF Respond
  <2> QED
    BY <1>1, <2>1, <2>3
\* A new call draws an id that nothing knows.
<1>10. ASSUME NEW t \in Callers, SendRequest(t) PROVE CallInv' /\ OwnResponse'
  <2>1. PICK i \in Ids \ InUse : pending' = pending \union {i} /\ id' = [id EXCEPT ![t] = i]
    BY <1>10 DEF SendRequest
  <2>2. /\ pc' = [pc EXCEPT ![t] = "send"] /\ got' = [got EXCEPT ![t] = NoId]
        /\ UNCHANGED <<out, inbox>>
    BY <1>10 DEF SendRequest
  <2>3. /\ i \notin pending /\ i \notin out /\ NoAnswer(inbox, i)
        /\ \A u \in Callers : id[u] # i
    BY <2>1, FreshId
  <2>4. CallInv'
    BY <2>1, <2>2, <2>3 DEF CallInv
  <2>5. OwnResponse'
    BY <2>1, <2>2, <2>3 DEF OwnResponse
  <2> QED
    BY <2>4, <2>5
<1>11. ASSUME NEW t \in Callers, Sent(t) PROVE CallInv' /\ OwnResponse'
  <2>1. /\ pc[t] = "send" /\ out' = out \union {id[t]} /\ pc' = [pc EXCEPT ![t] = "await"]
        /\ UNCHANGED <<inbox, pending, id, got>>
    BY <1>11 DEF Sent
  <2>2. CallInv'
    BY <2>1 DEF CallInv, OwnResponse
  <2>3. OwnResponse'
    BY <2>1 DEF CallInv, OwnResponse
  <2> QED
    BY <2>2, <2>3
<1>12. ASSUME NEW t \in Callers, SendFails(t) \/ Answered(t) \/ Cancel(t)
       PROVE  CallInv' /\ OwnResponse'
  <2>1. pc' = [pc EXCEPT ![t] = "idle"] /\ UNCHANGED <<out, inbox, pending, id, got>>
    BY <1>12 DEF SendFails, Answered, Cancel
  <2>2. CallInv'
    BY <2>1 DEF CallInv
  <2>3. OwnResponse'
    BY <2>1 DEF OwnResponse
  <2> QED
    BY <2>2, <2>3
\* A response completes the call of its id, if that waits.
<1>13. CASE OnResponse
  <2> DEFINE i == Head(inbox).id
  <2>1. /\ inbox # <<>> /\ Head(inbox).type = "Response" /\ inbox' = Tail(inbox)
        /\ got' = [t \in Callers |-> IF t \in Waiter(i) THEN i ELSE got[t]]
        /\ pending' = pending \ {i} /\ UNCHANGED <<out, pc, id>>
    BY <1>13 DEF OnResponse, Received
  <2>2. i \in Ids
    BY <2>1, ResponseId
  <2> HIDE DEF i
  <2>3. \A j \in Ids : NoAnswer(inbox, j) => NoAnswer(inbox', j) /\ j # i
    BY <2>1, NoAnswerTail DEF i
  <2>4. CallInv'
    BY <2>1, <2>3 DEF CallInv, Waiter
  <2>5. OwnResponse'
    BY <2>1, <2>2 DEF OwnResponse, Waiter
  <2> QED
    BY <2>4, <2>5
<1> QED
  BY <1>2, <1>3, <1>5, <1>6, <1>7, <1>8, <1>9, <1>10, <1>11, <1>12, <1>13
  DEF Next, MainStep, CallerStep

-----------------------------------------------------------------------------
(* The theorems.                                                           *)

LEMMA Invariance == Spec => []IInv
<1>1. IInv /\ [Next]_vars => IInv'
  BY TypeStep, BootStep, CallsStep DEF IInv
<1> QED
  BY InitOK, <1>1, PTL DEF Spec

\* Every reachable state of bootstrap_module, its main task and the callers
\* of send_request is well typed: in particular the main task has the stream
\* mutex exactly while it receives.
THEOREM TypeCorrect == Spec => []TypeOK
<1>1. IInv => TypeOK
  BY DEF IInv
<1> QED
  BY Invariance, <1>1, PTL

\* send_request and process_routed_module_response: every caller is given the
\* response to its own id, and is in the map until it comes, for any callers
\* and ids.
THEOREM OwnResponseCorrect == Spec => []OwnResponse
<1>1. IInv => OwnResponse
  BY DEF IInv
<1> QED
  BY Invariance, <1>1, PTL

\* main_processing_task: no message ends it but Shutdown, whatever handlers
\* are registered and whatever comes.
THEOREM OnlyShutdownEndsCorrect == Spec => OnlyShutdownEnds
<1>1. OnShutdown => Head(inbox).type = "Shutdown"
  BY DEF OnShutdown, Received
<1>2. ReceiveFails => inbox' = inbox
  BY DEF ReceiveFails, netVars
<1>3. IInv /\ [Next]_vars
          => [main # "stopped" /\ main' = "stopped" /\ inbox' # inbox
                  => Head(inbox).type = "Shutdown"]_vars
  BY <1>1, <1>2, StopStep DEF IInv
<1> QED
  BY Invariance, <1>3, PTL DEF Spec, OnlyShutdownEnds
=============================================================================
