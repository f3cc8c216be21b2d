------------------------------ MODULE IpcProofs ------------------------------
(***************************************************************************)
(* Theorems about Ipc for any callers, keys and queue.  AnswerIsOwn is not *)
(* inductive: it rests on what is under way (AloneInv).                    *)
(***************************************************************************)
EXTENDS Ipc, SequenceTheorems, TLAPS

\* All that is under way under key k is of call t.
Only(ms, k, t) == \A i \in DOMAIN ms : ms[i].key = k => ms[i].from = t

\* The call is the only one with its key, and so are its messages.
AloneWithKey(t) ==
    /\ Only(queue, key[t], t) /\ Only(atOrch, key[t], t) /\ Only(stdin, key[t], t)
    /\ \A u \in Callers \ {t} : ~Live(u, key[t])
AloneInv == \A t \in Callers : pc[t] # "idle" /\ alone[t] => AloneWithKey(t)

IInv == TypeOK /\ AloneInv /\ AnswerIsOwn

-----------------------------------------------------------------------------
(* What is under way.                                                      *)

\* Taking the first message leaves the others.
LEMMA OnlyTail ==
    ASSUME NEW S, NEW ms \in Seq(S), ms # <<>>, NEW k, NEW t, Only(ms, k, t)
    PROVE  Only(Tail(ms), k, t) /\ (Head(ms).key = k => Head(ms).from = t)
<1>1. /\ DOMAIN ms = 1..Len(ms) /\ Len(ms) \in Nat \ {0}
      /\ Tail(ms) \in Seq(S) /\ Len(Tail(ms)) = Len(ms) - 1
      /\ \A i \in 1..Len(Tail(ms)) : Tail(ms)[i] = ms[i + 1]
  BY HeadTailProperties, EmptySeq, LenProperties
<1>2. DOMAIN Tail(ms) = 1..Len(Tail(ms))
  BY <1>1, LenProperties
<1>3. Only(Tail(ms), k, t)
  BY <1>1, <1>2 DEF Only
<1>4. Head(ms) = ms[1] /\ 1 \in DOMAIN ms
  BY <1>1
<1> QED
  BY <1>3, <1>4 DEF Only

\* One more message of the same call, or under another key.
LEMMA OnlyAppend ==
    ASSUME NEW S, NEW ms \in Seq(S), NEW m \in S, NEW k, NEW t, Only(ms, k, t),
           m.key = k => m.from = t
    PROVE  Only(Append(ms, m), k, t)
<1>1. /\ DOMAIN ms = 1..Len(ms) /\ Len(ms) \in Nat
      /\ DOMAIN Append(ms, m) = 1..(Len(ms) + 1)
      /\ \A i \in 1..(Len(ms) + 1) : Append(ms, m)[i] = IF i <= Len(ms) THEN ms[i] ELSE m
  BY LenProperties
<1> QED
  BY <1>1 DEF Only

\* The messages of another call may lose it.
LEMMA OnlyOrphaned ==
    ASSUME NEW ms, NEW k, NEW t, NEW u, u # t, Only(ms, k, t)
    PROVE  Only(Orphaned(u, ms), k, t)
BY DEF Only, Orphaned

\* Orphaned messages are messages.
LEMMA OrphanedType ==
    ASSUME NEW t
    PROVE  /\ \A ms \in Seq(Messages) : /\ Orphaned(t, ms) \in Seq(Messages)
                                        /\ Len(Orphaned(t, ms)) = Len(ms)
           /\ \A ms \in Seq(Responses) : Orphaned(t, ms) \in Seq(Responses)
<1>1. ASSUME NEW ms \in Seq(Messages)
      PROVE  /\ Orphaned(t, ms) \in Seq(Messages)
             /\ Len(Orphaned(t, ms)) = Len(ms)
  <2>1. ms \in [1..Len(ms) -> Messages] /\ Len(ms) \in Nat /\ DOMAIN ms = 1..Len(ms)
    BY LenProperties
  <2>2. Orphaned(t, ms) \in [1..Len(ms) -> Messages]
    BY <2>1 DEF Orphaned, Messages
  <2> QED
    BY <2>1, <2>2
<1>2. ASSUME NEW ms \in Seq(Responses)
      PROVE  Orphaned(t, ms) \in Seq(Responses)
  <2>1. ms \in [1..Len(ms) -> Responses] /\ Len(ms) \in Nat /\ DOMAIN ms = 1..Len(ms)
    BY LenProperties
  <2>2. Orphaned(t, ms) \in [1..Len(ms) -> Responses]
    BY <2>1 DEF Orphaned, Responses
  <2> QED
    BY <2>1, <2>2
<1> QED
  BY <1>1, <1>2

-----------------------------------------------------------------------------
(* Type correctness.                                                       *)

\* The initial state.
LEMMA InitOK == Init => IInv
<1> SUFFICES ASSUME Init PROVE IInv
  OBVIOUS
<1>1. TypeOK
  <2>1. /\ queue \in Seq(Messages) /\ Len(queue) <= QueueCap
        /\ atOrch \in Seq(Messages) /\ stdin \in Seq(Responses)
    BY EmptySeq, QueueAssumption DEF Init
  <2> QED
    BY <2>1 DEF Init, TypeOK
<1>2. AloneInv /\ AnswerIsOwn
  BY DEF Init, AloneInv, AnswerIsOwn
<1> QED
  BY <1>1, <1>2 DEF IInv

\* Every step keeps every variable in its type.
LEMMA TypeStep == TypeOK /\ [Next]_vars => TypeOK'
<1> SUFFICES ASSUME TypeOK, [Next]_vars PROVE TypeOK'
  OBVIOUS
<1> USE KeysAssumption, QueueAssumption DEF TypeOK, Return, netVars, callVars
<1>1. ASSUME NEW t \in Callers, SendRequest(t) PROVE TypeOK'
  <2>1. PICK k \in Keys :
            /\ pending' = [pending EXCEPT ![k] = t] /\ key' = [key EXCEPT ![t] = k]
            /\ alone' = [u \in Callers |->
                    IF u = t THEN ~UnderWay(k) /\ \A v \in Callers \ {t} : ~Live(v, k)
                             ELSE alone[u] /\ ~Live(u, k)]
    BY <1>1 DEF SendRequest
  <2>2. alone' \in [Callers -> BOOLEAN]
    BY <2>1
  <2> QED
    BY <1>1, <2>1, <2>2 DEF SendRequest
<1>2. ASSUME NEW t \in Callers, CallStep(t) PROVE TypeOK'
  <2>1. CASE GetChannel(t)
    BY <2>1 DEF GetChannel
  <2>2. CASE Enqueue(t)
    <3>1. [key |-> key[t], from |-> t] \in Messages
      BY DEF Messages
    <3>2. queue' \in Seq(Messages) /\ Len(queue') <= QueueCap
      BY <2>2, <3>1, LenProperties DEF Enqueue
    <3> QED
      BY <2>2, <3>2 DEF Enqueue
  <2>3. CASE Awake(t)
    <3>1. /\ queue' \in Seq(Messages) /\ Len(queue') <= QueueCap
          /\ atOrch' \in Seq(Messages) /\ stdin' \in Seq(Responses)
      BY <2>3, OrphanedType DEF Awake, Orphan
    <3> QED
      BY <2>3, <3>1 DEF Awake
  <2> QED
    BY <1>2, <2>1, <2>2, <2>3 DEF CallStep
<1>3. ASSUME NEW t \in Callers, Cancel(t) PROVE TypeOK'
  <2>1. /\ queue' \in Seq(Messages) /\ Len(queue') <= QueueCap
        /\ atOrch' \in Seq(Messages) /\ stdin' \in Seq(Responses)
    BY <1>3, OrphanedType DEF Cancel, Orphan
  <2> QED
    BY <1>3, <2>1 DEF Cancel
<1>4. CASE Write \/ WriteFails
  <2>1. queue # <<>>
    BY <1>4 DEF Write, WriteFails
  <2>2. /\ Head(queue) \in Messages /\ Tail(queue) \in Seq(Messages)
        /\ Len(Tail(queue)) <= QueueCap
    BY <2>1, HeadTailProperties, LenProperties
  <2>3. CASE Write
    <3>1. atOrch' \in Seq(Messages)
      BY <2>2, <2>3 DEF Write
    <3> QED
      BY <2>2, <2>3, <3>1 DEF Write
  <2>4. CASE WriteFails
    <3>1. {Head(queue).from} \ {NoOne} \subseteq Callers
      BY <2>2 DEF Messages
    <3> QED
      BY <2>2, <2>4, <3>1 DEF WriteFails
  <2> QED
    BY <1>4, <2>3, <2>4
<1>5. CASE StartLoop \/ LoopEnds
  BY <1>5 DEF StartLoop, LoopEnds
<1>6. CASE OnResponse
  <2>1. Head(stdin) \in Responses /\ Tail(stdin) \in Seq(Responses)
    BY <1>6, HeadTailProperties DEF OnResponse
  <2>2. pending' \in [Keys -> Callers \union {NoOne}]
    BY <1>6 DEF OnResponse, Remove
  <2>3. own' \in [Callers -> BOOLEAN] /\ answered' \in [Callers -> BOOLEAN]
    BY <1>6 DEF OnResponse
  <2> QED
    BY <1>6, <2>1, <2>2, <2>3 DEF OnResponse
<1>7. CASE OnUnclaimed
  <2>1. Head(stdin) \in Responses /\ Tail(stdin) \in Seq(Responses)
    BY <1>7, HeadTailProperties DEF OnUnclaimed
  <2>2. {Head(stdin).from} \ {NoOne} \subseteq Callers
    BY <2>1 DEF Responses
  <2> QED
    BY <1>7, <2>1, <2>2 DEF OnUnclaimed
<1>8. CASE Respond
  <2>1. Head(atOrch) \in Messages /\ Tail(atOrch) \in Seq(Messages)
    BY <1>8, HeadTailProperties DEF Respond
  <2>2. PICK named \in BOOLEAN :
            stdin' = Append(stdin, [key |-> Head(atOrch).key, from |-> Head(atOrch).from,
                                    named |-> named])
    BY <1>8 DEF Respond
  <2>3. stdin' \in Seq(Responses)
    BY <2>1, <2>2 DEF Messages, Responses
  <2> QED
    BY <1>8, <2>1, <2>3 DEF Respond
<1>9. CASE UNCHANGED vars
  BY <1>9 DEF vars
<1> QED
  BY <1>1, <1>2, <1>3, <1>4, <1>5, <1>6, <1>7, <1>8, <1>9 DEF Next

-----------------------------------------------------------------------------
(* What a call that is alone can rely on.                                  *)

\* A call that is alone stays so, and a new one is alone only if nothing of
\* another call is under way.
LEMMA AloneStep == TypeOK /\ AloneInv /\ [Next]_vars => AloneInv'
<1> SUFFICES ASSUME TypeOK, AloneInv, [Next]_vars,
                    NEW v \in Callers, pc'[v] # "idle", alone'[v]
             PROVE  AloneWithKey(v)'
  BY DEF AloneInv
<1> USE DEF TypeOK, Return, netVars, callVars
<1>1. ASSUME NEW t \in Callers, SendRequest(t) PROVE AloneWithKey(v)'
  <2>1. PICK k \in Keys :
            /\ key' = [key EXCEPT ![t] = k]
            /\ alone' = [u \in Callers |->
                    IF u = t THEN ~UnderWay(k) /\ \A w \in Callers \ {t} : ~Live(w, k)
                             ELSE alone[u] /\ ~Live(u, k)]
    BY <1>1 DEF SendRequest
  <2>2. /\ pc' = [pc EXCEPT ![t] = "channel"] /\ pc[t] = "idle"
        /\ UNCHANGED netVars
    BY <1>1 DEF SendRequest
  <2>3. CASE v = t
    <3>1. ~UnderWay(k) /\ \A w \in Callers \ {t} : ~Live(w, k)
      BY <2>1, <2>3
    <3>2. key'[v] = k
      BY <2>1, <2>3
    <3>3. Only(queue, k, v) /\ Only(atOrch, k, v) /\ Only(stdin, k, v)
      BY <3>1 DEF UnderWay, Only
    <3>4. \A w \in Callers \ {v} : ~Live(w, k)'
      BY <2>1, <2>2, <2>3, <3>1 DEF Live
    <3> QED
      BY <2>2, <3>2, <3>3, <3>4 DEF AloneWithKey, Only, Live
  <2>4. CASE v # t
    <3>1. alone[v] /\ ~Live(v, k) /\ pc[v] # "idle" /\ key'[v] = key[v]
      BY <2>1, <2>2, <2>4
    <3>2. AloneWithKey(v)
      BY <3>1 DEF AloneInv
    <3>3. \A u \in Callers \ {v} : ~Live(u, key[v])'
      BY <2>1, <2>2, <2>4, <3>1, <3>2 DEF Live, AloneWithKey
    <3> QED
      BY <2>2, <3>1, <3>2, <3>3 DEF AloneWithKey, Only, Live
  <2> QED
    BY <2>3, <2>4
<1>2. ASSUME UNCHANGED <<key, alone>>, pc[v] # "idle",
             \A u \in Callers : pc'[u] # "idle" => pc[u] # "idle",
             AloneWithKey(v) => /\ Only(queue', key[v], v)
                                /\ Only(atOrch', key[v], v)
                                /\ Only(stdin', key[v], v)
      PROVE  AloneWithKey(v)'
  <2>1. AloneWithKey(v)
    BY <1>2 DEF AloneInv
  <2>2. \A u \in Callers \ {v} : ~Live(u, key[v])'
    BY <1>2, <2>1 DEF AloneWithKey, Live
  <2> QED
    BY <1>2, <2>1, <2>2 DEF AloneWithKey, Only, Live
<1>3. ASSUME NEW t \in Callers, GetChannel(t) PROVE AloneWithKey(v)'
  <2>1. pc[t] # "idle" /\ \A u \in Callers \ {t} : pc'[u] = pc[u]
    BY <1>3 DEF GetChannel
  <2>2. UNCHANGED <<key, alone, queue, atOrch, stdin>>
    BY <1>3 DEF GetChannel
  <2> QED
    BY <1>2, <2>1, <2>2 DEF AloneWithKey
<1>4. ASSUME NEW t \in Callers, Enqueue(t) PROVE AloneWithKey(v)'
  <2>1. pc[t] # "idle" /\ \A u \in Callers \ {t} : pc'[u] = pc[u]
    BY <1>4 DEF Enqueue
  <2>2. UNCHANGED <<key, alone, atOrch, stdin>>
    BY <1>4 DEF Enqueue
  <2>3. ASSUME AloneWithKey(v) PROVE Only(queue', key[v], v)
    <3>1. key[t] = key[v] => t = v
      BY <2>1, <2>3 DEF AloneWithKey, Live
    <3>2. [key |-> key[t], from |-> t] \in Messages
      BY DEF Messages
    <3>3. queue' = Append(queue, [key |-> key[t], from |-> t])
      BY <1>4 DEF Enqueue
    <3>4. Only(Append(queue, [key |-> key[t], from |-> t]), key[v], v)
      BY <2>3, <3>1, <3>2, OnlyAppend DEF AloneWithKey
    <3> QED
      BY <3>3, <3>4
  <2> QED
    BY <1>2, <2>1, <2>2, <2>3 DEF AloneWithKey
<1>5. ASSUME NEW t \in Callers, Orphan(t), pc' = [pc EXCEPT ![t] = "idle"],
             UNCHANGED <<key, alone>>
      PROVE  AloneWithKey(v)'
  <2>1. v # t /\ pc[v] # "idle"
    BY <1>5
  <2>2. ASSUME AloneWithKey(v)
        PROVE  Only(queue', key[v], v) /\ Only(atOrch', key[v], v) /\ Only(stdin', key[v], v)
    BY <1>5, <2>1, <2>2, OnlyOrphaned DEF AloneWithKey, Orphan
  <2> QED
    BY <1>2, <1>5, <2>1, <2>2
<1>6. ASSUME NEW t \in Callers, Awake(t) \/ Cancel(t) PROVE AloneWithKey(v)'
  BY <1>5, <1>6 DEF Awake, Cancel
<1>7. ASSUME Write \/ WriteFails PROVE AloneWithKey(v)'
  <2>1. UNCHANGED <<key, alone, pc, stdin>> /\ queue # <<>> /\ queue' = Tail(queue)
    BY <1>7 DEF Write, WriteFails
  <2>2. ASSUME AloneWithKey(v)
        PROVE  Only(queue', key[v], v) /\ Only(atOrch', key[v], v)
    <3>1. Head(queue) \in Messages
      BY <2>1, HeadTailProperties
    <3>2. Only(queue', key[v], v) /\ (Head(queue).key = key[v] => Head(queue).from = v)
      BY <2>1, <2>2, OnlyTail DEF AloneWithKey
    <3>3. Only(Append(atOrch, Head(queue)), key[v], v)
      BY <2>2, <3>1, <3>2, OnlyAppend DEF AloneWithKey
    <3> QED
      BY <1>7, <2>2, <3>2, <3>3 DEF Write, WriteFails, AloneWithKey
  <2> QED
    BY <1>2, <2>1, <2>2 DEF AloneWithKey
<1>8. ASSUME OnResponse \/ OnUnclaimed PROVE AloneWithKey(v)'
  <2>1. /\ UNCHANGED <<key, alone, pc, queue, atOrch>>
        /\ stdin # <<>> /\ stdin' = Tail(stdin)
    BY <1>8 DEF OnResponse, OnUnclaimed
  <2>2. ASSUME AloneWithKey(v) PROVE Only(stdin', key[v], v)
    BY <2>1, <2>2, OnlyTail DEF AloneWithKey
  <2> QED
    BY <1>2, <2>1, <2>2 DEF AloneWithKey
<1>9. ASSUME Respond PROVE AloneWithKey(v)'
  <2>1. /\ UNCHANGED <<key, alone, pc, queue>>
        /\ atOrch # <<>> /\ atOrch' = Tail(atOrch)
    BY <1>9 DEF Respond
  <2>2. PICK named \in BOOLEAN :
            stdin' = Append(stdin, [key |-> Head(atOrch).key, from |-> Head(atOrch).from,
                                    named |-> named])
    BY <1>9 DEF Respond
  <2>3. [key |-> Head(atOrch).key, from |-> Head(atOrch).from, named |-> named] \in Responses
    <3>1. Head(atOrch) \in Messages
      BY <2>1, HeadTailProperties
    <3> QED
      BY <3>1 DEF Messages, Responses
  <2>4. ASSUME AloneWithKey(v)
        PROVE  Only(atOrch', key[v], v) /\ Only(stdin', key[v], v)
    <3>1. Only(atOrch', key[v], v) /\ (Head(atOrch).key = key[v] => Head(atOrch).from = v)
      BY <2>1, <2>4, OnlyTail DEF AloneWithKey
    <3>2. Only(stdin, key[v], v)
      BY <2>4 DEF AloneWithKey
    <3> DEFINE m == [key |-> Head(atOrch).key, from |-> Head(atOrch).from, named |-> named]
    <3>3. m \in Responses /\ (m.key = key[v] => m.from = v)
      BY <2>3, <3>1
    <3> HIDE DEF m
    <3>4. Only(Append(stdin, m), key[v], v)
      BY <3>2, <3>3, OnlyAppend
    <3> QED
      BY <2>2, <3>1, <3>4 DEF m
  <2> QED
    BY <1>2, <2>1, <2>4 DEF AloneWithKey
<1>10. CASE StartLoop \/ LoopEnds \/ UNCHANGED vars
  <2>1. UNCHANGED <<key, alone, pc, queue, atOrch, stdin>>
    BY <1>10 DEF StartLoop, LoopEnds, vars
  <2> QED
    BY <1>2, <2>1 DEF AloneWithKey
<1> QED
  BY <1>1, <1>3, <1>4, <1>6, <1>7, <1>8, <1>9, <1>10 DEF Next, CallStep

\* The response that completes a call that is alone is its own, and until
\* then nobody takes its entry.
LEMMA OwnStep == TypeOK /\ AloneInv /\ AnswerIsOwn /\ [Next]_vars => AnswerIsOwn'
<1> SUFFICES ASSUME TypeOK, AloneInv, AnswerIsOwn, [Next]_vars,
                    NEW v \in Callers, alone'[v]
             PROVE  /\ answered'[v] => own'[v]
                    /\ pc'[v] # "idle" /\ ~answered'[v] => pending'[key'[v]] = v
  BY DEF AnswerIsOwn
<1> DEFINE Own == /\ answered[v] => own[v]
                  /\ pc[v] # "idle" /\ ~answered[v] => pending[key[v]] = v
<1> USE DEF TypeOK, Return, netVars, callVars
<1>1. ASSUME NEW t \in Callers, SendRequest(t) PROVE Own'
  <2>1. PICK k \in Keys :
            /\ pending' = [pending EXCEPT ![k] = t] /\ key' = [key EXCEPT ![t] = k]
            /\ alone' = [u \in Callers |->
                    IF u = t THEN ~UnderWay(k) /\ \A w \in Callers \ {t} : ~Live(w, k)
                             ELSE alone[u] /\ ~Live(u, k)]
    BY <1>1 DEF SendRequest
  <2>2. /\ pc' = [pc EXCEPT ![t] = "channel"]
        /\ answered' = [answered EXCEPT ![t] = FALSE] /\ own' = [own EXCEPT ![t] = FALSE]
    BY <1>1 DEF SendRequest
  <2>3. CASE v = t
    BY <2>1, <2>2, <2>3
  <2>4. CASE v # t
    <3>1. alone[v] /\ ~Live(v, k)
      BY <2>1, <2>4
    <3>2. Own
      BY <3>1 DEF AnswerIsOwn
    <3> QED
      BY <2>1, <2>2, <2>4, <3>1, <3>2 DEF Live
  <2> QED
    BY <2>3, <2>4
<1>2. ASSUME UNCHANGED <<key, alone, answered, own, pending>>,
             pc'[v] # "idle" => pc[v] # "idle"
      PROVE  Own'
  BY <1>2 DEF AnswerIsOwn
<1>3. ASSUME NEW t \in Callers, CallStep(t) \/ Cancel(t) PROVE Own'
  <2>1. UNCHANGED <<key, alone, answered, own, pending>>
    BY <1>3 DEF CallStep, GetChannel, Enqueue, Awake, Cancel
  <2>2. pc[t] # "idle" /\ \A u \in Callers \ {t} : pc'[u] = pc[u]
    BY <1>3 DEF CallStep, GetChannel, Enqueue, Awake, Cancel
  <2> QED
    BY <1>2, <2>1, <2>2
<1>4. CASE Write \/ WriteFails \/ StartLoop \/ OnUnclaimed \/ LoopEnds \/ Respond
  <2>1. UNCHANGED <<key, alone, answered, own, pending, pc>>
    BY <1>4 DEF Write, WriteFails, StartLoop, OnUnclaimed, LoopEnds, Respond
  <2> QED
    BY <1>2, <2>1
<1>5. CASE OnResponse
  <2> DEFINE m == Head(stdin)
             t == Claimant(m.key)
  <2>1. /\ stdin # <<>> /\ UNCHANGED <<pc, key, alone>>
        /\ pending' = [pending EXCEPT ![m.key] = NoOne]
        /\ answered' = [u \in Callers |-> answered[u] \/ u = t]
        /\ own' = [u \in Callers |-> IF u = t THEN m.from = t ELSE own[u]]
    BY <1>5 DEF OnResponse, Remove
  <2>2. m \in Responses
    BY <2>1, HeadTailProperties
  <2>3. Own
    BY <2>1 DEF AnswerIsOwn
  <2>4. CASE v = t
    <3>1. Live(v, m.key)
      BY <2>4, CallersAssumption DEF Claimant
    <3>2. Only(stdin, key[v], v) /\ key[v] = m.key
      BY <2>1, <3>1 DEF AloneInv, AloneWithKey, Live
    <3>3. m.from = v
      BY <2>1, <3>2, OnlyTail
    <3> QED
      BY <2>1, <2>4, <3>3
  <2>5. CASE v # t
    <3>1. pc[v] # "idle" /\ ~answered[v] => key[v] # m.key
      BY <2>3, <2>5, CallersAssumption DEF Claimant, Live
    <3> QED
      BY <2>1, <2>2, <2>3, <2>5, <3>1 DEF Responses
  <2> QED
    BY <2>4, <2>5
<1>6. CASE UNCHANGED vars
  BY <1>2, <1>6 DEF vars
<1> QED
  BY <1>1, <1>3, <1>4, <1>5, <1>6 DEF Next

-----------------------------------------------------------------------------
(* The theorems.                                                           *)

LEMMA Invariance == Spec => []IInv
<1>1. IInv /\ [Next]_vars => IInv'
  BY TypeStep, AloneStep, OwnStep DEF IInv
<1> QED
  BY InitOK, <1>1, PTL DEF Spec

\* Every reachable state of ipc.rs's requests is well typed, for any callers,
\* keys and capacity; the channel is open exactly while the loop runs.
THEOREM TypeCorrect == Spec => []TypeOK
<1>1. IInv => TypeOK
  BY DEF IInv
<1> QED
  BY Invariance, <1>1, PTL

\* send_request: a call that is alone with its key is given the response to
\* its own request and nobody takes its entry, for any callers and keys.
THEOREM AnswerIsOwnCorrect == Spec => []AnswerIsOwn
<1>1. IInv => AnswerIsOwn
  BY DEF IInv
<1> QED
  BY Invariance, <1>1, PTL
=============================================================================
