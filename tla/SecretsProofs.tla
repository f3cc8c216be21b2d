----------------------------- MODULE SecretsProofs -----------------------------
(***************************************************************************)
(* Theorems about the secret client and about the secret providers, for    *)
(* any callers, keys, chains and bounds.                                   *)
(*                                                                         *)
(* SecretClient: StaleHasCause rests on the order of the lines: a secret   *)
(* on its way is the current one or followed by its rotation (LineInv),    *)
(* and so is what a task has in hand, unless the rotation has got past it  *)
(* (TookInv).  OnRotateIsCurrent rests on the secrets on their way being   *)
(* at least as new as the rotations that were read before them (DueInv).   *)
(*                                                                         *)
(* SecretProviders: SubscriberIsCurrent rests on each key being named by   *)
(* an event to come, or having in the copy the value that the chain gives  *)
(* when the reload in progress is over (CopyInv, FetchInv).                *)
(***************************************************************************)
EXTENDS SecretClient, SecretProviders, SequenceTheorems, TLAPS

\* There is a rotation of k among the lines, after the first i.
RotatedAfter(ls, i, k) ==
    \E j \in DOMAIN ls : j > i /\ ls[j].type = "Rotated" /\ k \in ls[j].keys

\* A secret among the lines is the current one or has a rotation after it.
Followed(ls, ver) ==
    \A i \in DOMAIN ls : ls[i].type = "Secret" =>
        ls[i].value = ver[ls[i].key] \/ RotatedAfter(ls, i, ls[i].key)

LineInv == Followed(lines, version)

\* A secret in hand is the current one, or its rotation is still to reach the
\* cache, has been lost, or has been there since the secret was read.
TookInv ==
    \A t \in Tasks : pc[t] = "apply" /\ took[t].type = "Secret" =>
        \/ took[t].value = version[took[t].key]
        \/ Announced(took[t].key) \/ took[t].key \in swallowed \/ t \in overtaken

\* The secrets among the lines after the first i are not older than vs.
NotOlder(ls, i, vs) ==
    \A j \in DOMAIN ls : j > i /\ ls[j].type = "Secret" => vs[ls[j].key] <= ls[j].value
NotNewer(vs, ver) == \A k \in Keys : vs[k] <= ver[k]

\* What is still to be read is not older than a rotation that was read, or
\* than one that is read before it.
DueInv ==
    /\ NotNewer(due, version) /\ NotOlder(lines, 0, due)
    /\ \A i \in DOMAIN queue :
        NotNewer(queue[i].versions, version) /\ NotOlder(lines, 0, queue[i].versions)
    /\ took[Background].type = "Rotated" =>
        /\ NotNewer(took[Background].versions, version)
        /\ NotOlder(lines, 0, took[Background].versions)
    /\ \A i \in DOMAIN lines : lines[i].type = "Rotated" =>
        NotNewer(lines[i].versions, version) /\ NotOlder(lines, i, lines[i].versions)

\* The background task handles a rotation; the subscriber has nothing older
\* in hand than the rotation it works on.
HandInv ==
    /\ pc[Background] \in {"invalidate", "notify"} => took[Background].type = "Rotated"
    /\ pc[Subscriber] = "apply" /\ took[Subscriber].type = "Secret" =>
        due[took[Subscriber].key] <= took[Subscriber].value

IInv == TypeOK /\ LineInv /\ TookInv /\ StaleHasCause /\ DueInv /\ HandInv

-----------------------------------------------------------------------------
(* Tasks and lines.                                                        *)

LEMMA TaskSets ==
    /\ Tasks = Clients \union {Background} /\ Background \notin Clients
    /\ Subscriber \in Clients /\ Callers \subseteq Clients /\ Subscriber \notin Callers
    /\ \A t \in Clients : t # Subscriber => t \in Callers
BY TasksAssumption DEF Tasks, Clients

LEMMA LineTypes ==
    /\ Other \in Lines /\ Other.type = "Other"
    /\ \A l \in Lines :
        /\ l.type \in {"Secret", "Rotated", "Other"}
        /\ l.type = "Secret" => l.key \in Keys /\ l.value \in Versions
        /\ l.type = "Rotated" => l \in Rotations
    /\ \A r \in Rotations :
        /\ r \in Lines /\ r.type = "Rotated"
        /\ r.keys \subseteq Keys /\ r.versions \in [Keys -> Versions]
    /\ \A k \in Keys, v \in Versions : [type |-> "Secret", key |-> k, value |-> v] \in Lines
BY DEF Other, Lines, Rotations

-----------------------------------------------------------------------------
(* Type correctness.                                                       *)

LEMMA InitOK == Init => IInv
<1> SUFFICES ASSUME Init PROVE IInv
  OBVIOUS
<1>1. TypeOK
  <2>1. requests \in Seq(Keys) /\ lines \in Seq(Lines) /\ queue \in Seq(Rotations)
    BY EmptySeq DEF Init
  <2>2. Len(queue) <= BroadcastCap /\ 1 \in Versions
    BY EmptySeq, BoundsAssumption DEF Init, Versions
  <2>3. pc \in [Tasks -> PCs] /\ \A t \in Tasks : pc[t] \notin Reading
    BY TaskSets DEF Init, PCs, Reading
  <2>4. took \in [Tasks -> Lines]
    BY LineTypes DEF Init
  <2> QED
    BY <2>1, <2>2, <2>3, <2>4 DEF Init, TypeOK
<1>2. LineInv /\ TookInv /\ StaleHasCause /\ HandInv
  BY TaskSets, LineTypes DEF Init, LineInv, Followed, TookInv, StaleHasCause, HandInv
<1>3. DueInv
  <2>1. 1 \in Versions
    BY BoundsAssumption DEF Versions
  <2> QED
    BY TaskSets, LineTypes DEF Init, DueInv, NotNewer, NotOlder
<1> QED
  BY <1>1, <1>2, <1>3 DEF IInv

\* At most one task is in the input's blocking read.
OneReader == \A t, u \in Tasks : pc[t] \in Reading /\ pc[u] \in Reading => t = u

\* Nobody starts to read, or one that found nobody reading.
LEMMA OneReaderStep ==
    ASSUME OneReader,
           \/ \A t \in Tasks : pc'[t] \in Reading => pc[t] \in Reading
           \/ /\ \A t \in Tasks : pc[t] \notin Reading
              /\ \E u \in Tasks : \A t \in Tasks \ {u} : pc'[t] = pc[t]
    PROVE  OneReader'
BY DEF OneReader, Reading

\* Where a call's end leads.
LEMMA FinishType ==
    ASSUME TypeOK, NEW t \in Clients, NEW r \in {"none", "Ok", "Err"}, Finish(t, r)
    PROVE  /\ pc' \in [Tasks -> PCs] /\ result' \in [Callers -> {"none", "Ok", "Err"}]
           /\ OneReader'
<1>1. t \in Tasks /\ (t # Subscriber => t \in Callers)
  BY TaskSets
<1>2. pc' = [pc EXCEPT ![t] = IF t = Subscriber THEN "next" ELSE "idle"]
  BY DEF Finish, Goto
<1>3. pc' \in [Tasks -> PCs]
  BY <1>1, <1>2 DEF TypeOK, PCs
<1>4. \A u \in Tasks : pc'[u] \in Reading => pc[u] \in Reading
  BY <1>1, <1>2 DEF TypeOK, Reading
<1>5. result' \in [Callers -> {"none", "Ok", "Err"}]
  BY <1>1 DEF TypeOK, Finish
<1> QED
  BY <1>3, <1>4, <1>5, OneReaderStep DEF TypeOK, OneReader

\* A step to a place where nothing is read.
LEMMA GotoType ==
    ASSUME TypeOK, NEW t \in Tasks, NEW l \in PCs \ Reading, Goto(t, l)
    PROVE  pc' \in [Tasks -> PCs] /\ OneReader'
<1>1. pc' = [pc EXCEPT ![t] = l]
  BY DEF Goto
<1>2. \A u \in Tasks : pc'[u] \in Reading => pc[u] \in Reading
  BY <1>1 DEF TypeOK, Reading
<1> QED
  BY <1>1, <1>2, OneReaderStep DEF TypeOK, OneReader

\* Every step keeps every variable in its type.
LEMMA TypeStep == TypeOK /\ HandInv /\ [Next]_vars => TypeOK'
<1> SUFFICES ASSUME TypeOK, HandInv, [Next]_vars PROVE TypeOK'
  OBVIOUS
<1> DEFINE Control == /\ pc \in [Tasks -> PCs] /\ OneReader
                      /\ result \in [Callers -> {"none", "Ok", "Err"}]
           Data == /\ requests \in Seq(Keys) /\ lines \in Seq(Lines) /\ closed \in BOOLEAN
                   /\ version \in [Keys -> Versions]
                   /\ cache \in [Keys -> Versions \union {NoValue}]
                   /\ took \in [Tasks -> Lines]
           Subs == /\ queue \in Seq(Rotations) /\ Len(queue) <= BroadcastCap
                   /\ lagged \in BOOLEAN
                   /\ delivered \in [Keys -> Versions \union {NoValue}]
                   /\ want \in [Clients -> Keys]
                   /\ todo \in [{Background, Subscriber} -> SUBSET Keys]
                   /\ due \in [Keys -> Versions]
           Ghosts == swallowed \subseteq Keys /\ overtaken \subseteq Clients /\ late \subseteq Keys
<1>0. Control /\ Data /\ Subs /\ Ghosts
  BY DEF TypeOK, OneReader
<1>a. Control' /\ Data' /\ Subs' /\ Ghosts' => TypeOK'
  BY DEF TypeOK, OneReader
<1>b. UNCHANGED <<pc, result>> => Control'
  BY <1>0 DEF OneReader
<1>c. UNCHANGED <<orchVars, cache, took>> => Data'
  BY <1>0 DEF orchVars
<1>d. UNCHANGED <<subVars, want, todo>> => Subs'
  BY <1>0 DEF subVars
<1>e. UNCHANGED ghosts => Ghosts'
  BY <1>0 DEF ghosts
<1> HIDE DEF Control, Data, Subs, Ghosts
<1>1. ASSUME NEW t \in Callers, NEW k \in Keys, NEW m \in Modes, GetSecret(t, k, m)
      PROVE  TypeOK'
  <2>1. t \in Clients /\ t \in Tasks
    BY TaskSets
  <2>2. Control'
    <3>1. CASE Finish(t, "Ok") \/ Finish(t, "Err")
      BY <2>1, <3>1, FinishType DEF Control
    <3>2. CASE Goto(t, "write") /\ result' = [result EXCEPT ![t] = "none"]
      <4>1. pc' \in [Tasks -> PCs] /\ OneReader'
        BY <2>1, <3>2, GotoType DEF PCs, Reading
      <4> QED
        BY <1>0, <3>2, <4>1 DEF Control
    <3> QED
      BY <1>1, <3>1, <3>2 DEF GetSecret
  <2>3. Subs'
    BY <1>0, <1>1, <2>1 DEF GetSecret, Subs, subVars
  <2> QED
    BY <1>1, <1>a, <1>c, <1>e, <2>2, <2>3 DEF GetSecret
<1>2. ASSUME NEW t \in Clients, WriteRequest(t) PROVE TypeOK'
  <2>1. Control'
    <3>1. pc' \in [Tasks -> PCs] /\ OneReader'
      BY <1>2, TaskSets, GotoType DEF WriteRequest, PCs, Reading
    <3> QED
      BY <1>0, <1>2, <3>1 DEF WriteRequest, Control
  <2>2. Data'
    <3>1. want[t] \in Keys
      BY <1>0 DEF Subs
    <3> QED
      BY <1>0, <1>2, <3>1 DEF WriteRequest, Data
  <2> QED
    BY <1>2, <1>a, <1>d, <1>e, <2>1, <2>2 DEF WriteRequest
<1>3. ASSUME NEW t \in Clients, WriteFails(t) PROVE TypeOK'
  <2>1. Control'
    BY <1>3, FinishType DEF WriteFails, Control
  <2> QED
    BY <1>3, <1>a, <1>c, <1>d, <1>e, <2>1 DEF WriteFails
<1>4. ASSUME NEW t \in Tasks, LockInput(t) PROVE TypeOK'
  <2>1. /\ pc' = [pc EXCEPT ![t] = IF pc[t] = "lock" THEN "reading" ELSE "ack_reading"]
        /\ \A u \in Tasks : pc[u] \notin Reading
    BY <1>4 DEF LockInput, Goto
  <2>2. \A u \in Tasks \ {t} : pc'[u] = pc[u]
    BY <1>0, <2>1 DEF Control
  <2>3. OneReader'
    BY <1>0, <2>1, <2>2, OneReaderStep DEF Control
  <2>4. Control'
    BY <1>0, <1>4, <2>1, <2>3 DEF LockInput, Control, PCs, Reading
  <2> QED
    BY <1>4, <1>a, <1>c, <1>d, <1>e, <2>4 DEF LockInput
<1>5. ASSUME NEW t \in Tasks, TimeoutElapses(t) PROVE TypeOK'
  <2>1. Control'
    <3>1. CASE t \in Clients /\ Finish(t, "Err")
      BY <3>1, FinishType DEF Control
    <3>2. CASE Goto(t, "lock") /\ UNCHANGED result
      <4>1. pc' \in [Tasks -> PCs] /\ OneReader'
        BY <3>2, GotoType DEF PCs, Reading
      <4> QED
        BY <1>0, <3>2, <4>1 DEF Control
    <3> QED
      BY <1>5, <3>1, <3>2 DEF TimeoutElapses, TimesOut
  <2> QED
    BY <1>5, <1>a, <1>c, <1>d, <1>e, <2>1 DEF TimeoutElapses
<1>6. ASSUME NEW t \in Tasks, ReadLine(t) PROVE TypeOK'
  <2>1. Head(lines) \in Lines /\ Tail(lines) \in Seq(Lines)
    BY <1>0, <1>6, HeadTailProperties DEF ReadLine, Data
  <2>2. Control'
    <3>1. pc' \in [Tasks -> PCs] /\ OneReader'
      BY <1>6, GotoType DEF ReadLine, PCs, Reading
    <3> QED
      BY <1>0, <1>6, <3>1 DEF ReadLine, Control
  <2>3. took' \in [Tasks -> Lines]
    <3>1. took' = [took EXCEPT ![t] = IF pc[t] = "reading" THEN Head(lines) ELSE Other]
      BY <1>6 DEF ReadLine
    <3> QED
      BY <1>0, <2>1, <3>1, LineTypes DEF Data
  <2>4. Data'
    BY <1>0, <1>6, <2>1, <2>3 DEF ReadLine, Data
  <2>5. Head(lines).type = "Rotated" => Head(lines).keys \subseteq Keys
    BY <2>1, LineTypes
  <2>6. Ghosts'
    BY <1>0, <1>6, <2>5 DEF ReadLine, Ghosts
  <2> QED
    BY <1>6, <1>a, <1>d, <2>2, <2>4, <2>6 DEF ReadLine
<1>7. ASSUME NEW t \in Tasks, ReadEof(t) \/ ReadErr(t) PROVE TypeOK'
  <2>1. Control'
    <3>0. NoLine(t)
      BY <1>7 DEF ReadEof, ReadErr
    <3>1. CASE t \in Clients /\ Finish(t, "Err")
      BY <3>1, FinishType DEF Control
    <3>2. CASE /\ Goto(t, "ended") \/ Goto(t, "lock")
               /\ UNCHANGED result
      <4>1. pc' \in [Tasks -> PCs] /\ OneReader'
        BY <3>2, GotoType DEF PCs, Reading
      <4> QED
        BY <1>0, <3>2, <4>1 DEF Control
    <3> QED
      BY <3>0, <3>1, <3>2 DEF NoLine
  <2>2. CASE ReadEof(t)
    BY <1>a, <1>c, <1>d, <1>e, <2>1, <2>2 DEF ReadEof
  <2>3. CASE ReadErr(t)
    <3>1. Data'
      BY <1>0, <2>3, HeadTailProperties DEF ReadErr, Data
    <3>2. lines # <<>> => Head(lines) \in Lines
      BY <1>0, HeadTailProperties DEF Data
    <3>3. Ghosts'
      BY <1>0, <2>3, <3>2, LineTypes DEF ReadErr, Ghosts
    <3> QED
      BY <1>a, <1>d, <2>1, <2>3, <3>1, <3>3 DEF ReadErr
  <2> QED
    BY <1>7, <2>2, <2>3
<1>8. ASSUME NEW t \in Clients, Apply(t) PROVE TypeOK'
  <2>1. t \in Tasks /\ took[t] \in Lines
    BY <1>0, TaskSets DEF Data
  <2>2. Control'
    BY <1>8, FinishType DEF Apply, Control
  <2>3. IsAnswer(t) => want[t] \in Keys /\ took[t].value \in Versions
    BY <1>0, <2>1, LineTypes DEF IsAnswer, Subs
  <2>4. cache' \in [Keys -> Versions \union {NoValue}] /\ late' \subseteq Keys
    BY <1>0, <1>8, <2>3 DEF Apply, Insert, Data, Ghosts
  <2>5. delivered' \in [Keys -> Versions \union {NoValue}]
    BY <1>0, <1>8, <2>3 DEF Apply, Subs
  <2>6. Data'
    BY <1>0, <1>8, <2>1, <2>4, LineTypes DEF Apply, Data, orchVars
  <2>7. Subs' /\ Ghosts'
    BY <1>0, <1>8, <2>4, <2>5 DEF Apply, Subs, Ghosts
  <2> QED
    BY <1>a, <2>2, <2>6, <2>7
<1>9. ASSUME ProcessMessage PROVE TypeOK'
  <2> DEFINE l == took[Background]
  <2>1. l \in Lines /\ Background \in Tasks
    BY <1>0, TaskSets DEF Data
  <2>2. Control'
    <3>1. CASE Goto(Background, "invalidate") \/ Goto(Background, "lock")
      <4>1. pc' \in [Tasks -> PCs] /\ OneReader'
        BY <2>1, <3>1, GotoType DEF PCs, Reading
      <4> QED
        BY <1>0, <1>9, <4>1 DEF ProcessMessage, Control
    <3> QED
      BY <1>9, <3>1 DEF ProcessMessage
  <2>3. /\ l.type = "Secret" => l.key \in Keys /\ l.value \in Versions
        /\ l.type = "Rotated" => l.keys \subseteq Keys
    BY <2>1, LineTypes
  <2>4. cache' \in [Keys -> Versions \union {NoValue}] /\ late' \subseteq Keys
    BY <1>0, <1>9, <2>3 DEF ProcessMessage, Insert, Data, Ghosts
  <2>5. took' \in [Tasks -> Lines]
    BY <1>0, <1>9, LineTypes DEF ProcessMessage, Data
  <2>6. todo' \in [{Background, Subscriber} -> SUBSET Keys]
    BY <1>0, <1>9, <2>3 DEF ProcessMessage, Subs
  <2>7. Data' /\ Subs' /\ Ghosts'
    BY <1>0, <1>9, <2>4, <2>5, <2>6
       DEF ProcessMessage, Data, Subs, Ghosts, orchVars, subVars
  <2> QED
    BY <1>a, <2>2, <2>7
<1>10. ASSUME NEW k \in Keys, Invalidate(k) PROVE TypeOK'
  <2>1. Control'
    <3>1. CASE Goto(Background, "notify") \/ Goto(Background, "invalidate")
      <4>1. pc' \in [Tasks -> PCs] /\ OneReader'
        BY <3>1, TaskSets, GotoType DEF PCs, Reading
      <4> QED
        BY <1>0, <1>10, <4>1 DEF Invalidate, Control
    <3> QED
      BY <1>10, <3>1 DEF Invalidate
  <2>2. Data' /\ Subs' /\ Ghosts'
    BY <1>0, <1>10 DEF Invalidate, Removed, Data, Subs, Ghosts, orchVars, subVars
  <2> QED
    BY <1>a, <2>1, <2>2
<1>11. ASSUME Notify PROVE TypeOK'
  <2>1. Control'
    <3>1. PICK l \in {"ack_lock", "lock"} : Goto(Background, l)
      BY <1>11 DEF Notify
    <3>2. pc' \in [Tasks -> PCs] /\ OneReader'
      BY <3>1, TaskSets, GotoType DEF PCs, Reading
    <3> QED
      BY <1>0, <1>11, <3>2 DEF Notify, Control
  <2>2. took[Background] \in Rotations
    BY <1>0, <1>11, TaskSets, LineTypes DEF Notify, HandInv, Data
  <2>3. queue' \in Seq(Rotations) /\ Len(queue') <= BroadcastCap /\ lagged' \in BOOLEAN
    <3>1. queue \in Seq(Rotations) /\ Len(queue) <= BroadcastCap /\ lagged \in BOOLEAN
          /\ Len(queue) \in Nat /\ BroadcastCap \in Nat \ {0}
      BY <1>0, BoundsAssumption, LenProperties DEF Subs
    <3>2. CASE UNCHANGED <<queue, lagged>>
      BY <3>1, <3>2
    <3>3. CASE Len(queue) < BroadcastCap /\ queue' = Append(queue, took[Background])
               /\ UNCHANGED lagged
      BY <2>2, <3>1, <3>3, LenProperties
    <3>4. CASE Len(queue) = BroadcastCap /\ queue' = Append(Tail(queue), took[Background])
               /\ lagged' = TRUE
      <4>1. Tail(queue) \in Seq(Rotations) /\ Len(Tail(queue)) = Len(queue) - 1
        BY <3>1, <3>4, HeadTailProperties, EmptySeq
      <4> QED
        BY <2>2, <3>1, <3>4, <4>1, LenProperties
    <3> QED
      BY <1>11, <3>2, <3>3, <3>4 DEF Notify
  <2>4. Subs'
    BY <1>0, <1>11, <2>3 DEF Notify, Subs
  <2>5. Data'
    BY <1>0, <1>11, LineTypes DEF Notify, Data, orchVars
  <2> QED
    BY <1>11, <1>a, <1>e, <2>1, <2>4, <2>5 DEF Notify
<1>12. ASSUME Receive PROVE TypeOK'
  <2>1. Control'
    <3>1. CASE Goto(Subscriber, "ended") \/ Goto(Subscriber, "next")
      <4>1. pc' \in [Tasks -> PCs] /\ OneReader'
        BY <3>1, TaskSets, GotoType DEF PCs, Reading
      <4> QED
        BY <1>0, <1>12, <4>1 DEF Receive, Control
    <3> QED
      BY <1>12, <3>1 DEF Receive
  <2>2. CASE lagged
    <3>1. queue' = <<>> /\ lagged' = FALSE /\ UNCHANGED <<todo, due, delivered, want>>
      BY <1>12, <2>2 DEF Receive
    <3>2. <<>> \in Seq(Rotations) /\ Len(<<>>) <= BroadcastCap
      BY EmptySeq, BoundsAssumption
    <3>3. Subs'
      BY <1>0, <3>1, <3>2 DEF Subs
    <3> QED
      BY <1>12, <1>a, <1>c, <1>e, <2>1, <3>3 DEF Receive
  <2>3. CASE ~lagged
    <3>1. /\ queue # <<>> /\ queue' = Tail(queue) /\ due' = Head(queue).versions
          /\ todo' = [todo EXCEPT ![Subscriber] = Head(queue).keys \cap Watched]
          /\ UNCHANGED <<lagged, delivered, want>>
      BY <1>12, <2>3 DEF Receive
    <3>2. Head(queue) \in Rotations /\ Tail(queue) \in Seq(Rotations)
          /\ Len(Tail(queue)) = Len(queue) - 1 /\ Len(queue) \in Nat
      BY <1>0, <3>1, HeadTailProperties, LenProperties, EmptySeq DEF Subs
    <3>3. Head(queue).keys \subseteq Keys /\ Head(queue).versions \in [Keys -> Versions]
      BY <3>2, LineTypes
    <3>4. Len(queue') <= BroadcastCap
      BY <1>0, <3>1, <3>2, BoundsAssumption DEF Subs
    <3>5. Subs'
      BY <1>0, <3>1, <3>2, <3>3, <3>4 DEF Subs
    <3> QED
      BY <1>12, <1>a, <1>c, <1>e, <2>1, <3>5 DEF Receive
  <2> QED
    BY <2>2, <2>3
<1>13. ASSUME NextKey PROVE TypeOK'
  <2>1. Control'
    <3>1. CASE Goto(Subscriber, "write") \/ Goto(Subscriber, "recv")
      <4>1. pc' \in [Tasks -> PCs] /\ OneReader'
        BY <3>1, TaskSets, GotoType DEF PCs, Reading
      <4> QED
        BY <1>0, <1>13, <4>1 DEF NextKey, Control
    <3> QED
      BY <1>13, <3>1 DEF NextKey
  <2>2. todo[Subscriber] \subseteq Keys /\ 1 \in Versions
    BY <1>0, BoundsAssumption DEF Subs, Versions
  <2>3. CASE \E k \in todo[Subscriber] :
                /\ want' = [want EXCEPT ![Subscriber] = k]
                /\ todo' = [todo EXCEPT ![Subscriber] = @ \ {k}]
                /\ UNCHANGED due
    <3>1. Subs'
      BY <1>0, <1>13, <2>2, <2>3 DEF NextKey, Subs
    <3> QED
      BY <1>13, <1>a, <1>c, <1>e, <2>1, <3>1 DEF NextKey
  <2>4. CASE due' = [k \in Keys |-> 1] /\ UNCHANGED <<want, todo>>
    <3>1. Subs'
      BY <1>0, <1>13, <2>2, <2>4 DEF NextKey, Subs
    <3> QED
      BY <1>13, <1>a, <1>c, <1>e, <2>1, <3>1 DEF NextKey
  <2> QED
    BY <1>13, <2>3, <2>4 DEF NextKey
<1>14. ASSUME Answer PROVE TypeOK'
  <2>1. Head(requests) \in Keys /\ Tail(requests) \in Seq(Keys)
    BY <1>0, <1>14, HeadTailProperties DEF Answer, Data
  <2>2. [type |-> "Secret", key |-> Head(requests), value |-> version[Head(requests)]] \in Lines
    BY <1>0, <2>1, LineTypes DEF Data
  <2>3. Data'
    BY <1>0, <1>14, <2>1, <2>2 DEF Answer, Data
  <2> QED
    BY <1>14, <1>a, <1>b, <1>d, <1>e, <2>3 DEF Answer
<1>15. ASSUME NEW ks \in SUBSET Keys, Rotate(ks) PROVE TypeOK'
  <2> DEFINE new == [k \in Keys |-> IF k \in ks THEN version[k] + 1 ELSE version[k]]
  <2>1. new \in [Keys -> Versions]
    BY <1>0, <1>15, BoundsAssumption DEF Rotate, Data, Versions
  <2>2. [type |-> "Rotated", keys |-> ks, versions |-> new] \in Lines
    BY <2>1 DEF Lines, Rotations
  <2>3. Data'
    BY <1>0, <1>15, <2>1, <2>2 DEF Rotate, Data
  <2> QED
    BY <1>15, <1>a, <1>b, <1>d, <1>e, <2>3 DEF Rotate
<1>16. ASSUME SendOther \/ CloseInput PROVE TypeOK'
  <2>1. Data'
    <3>1. CASE SendOther
      <4>1. lines' \in Seq(Lines)
        BY <1>0, <3>1, LineTypes DEF SendOther, Data
      <4> QED
        BY <1>0, <3>1, <4>1 DEF SendOther, Data
    <3>2. CASE CloseInput
      BY <1>0, <3>2 DEF CloseInput, Data
    <3> QED
      BY <1>16, <3>1, <3>2
  <2> QED
    BY <1>16, <1>a, <1>b, <1>d, <1>e, <2>1 DEF SendOther, CloseInput
<1>17. CASE UNCHANGED vars
  BY <1>17, <1>a, <1>b, <1>c, <1>d, <1>e DEF vars
<1> QED
  BY <1>1, <1>2, <1>3, <1>4, <1>5, <1>6, <1>7, <1>8, <1>9, <1>10, <1>11, <1>12, <1>13,
     <1>14, <1>15, <1>16, <1>17, TaskSets DEF Next, ClientStep, BackgroundStep

-----------------------------------------------------------------------------
(* The order of the lines.                                                 *)

\* Where the elements of a tail, and of a longer sequence, come from.
LEMMA TailIndex ==
    ASSUME NEW S, NEW ls \in Seq(S), ls # <<>>
    PROVE  /\ Head(ls) = ls[1] /\ 1 \in DOMAIN ls /\ Head(ls) \in S /\ Tail(ls) \in Seq(S)
           /\ \A i \in DOMAIN ls : i \in Nat \ {0}
           /\ \A i \in DOMAIN Tail(ls) :
                i \in Nat \ {0} /\ i + 1 \in DOMAIN ls /\ Tail(ls)[i] = ls[i + 1]
           /\ \A i \in DOMAIN ls : i # 1 =>
                i - 1 \in DOMAIN Tail(ls) /\ ls[i] = Tail(ls)[i - 1]
<1>1. /\ DOMAIN ls = 1..Len(ls) /\ Len(ls) \in Nat \ {0}
      /\ Tail(ls) \in Seq(S) /\ Len(Tail(ls)) = Len(ls) - 1
      /\ \A i \in 1..Len(Tail(ls)) : Tail(ls)[i] = ls[i + 1]
  BY HeadTailProperties, EmptySeq, LenProperties
<1>2. DOMAIN Tail(ls) = 1..Len(Tail(ls))
  BY <1>1, LenProperties
<1>3. Head(ls) = ls[1] /\ 1 \in DOMAIN ls /\ Head(ls) \in S
  BY <1>1, HeadTailProperties
<1>4. \A i \in DOMAIN Tail(ls) :
        i \in Nat \ {0} /\ i + 1 \in DOMAIN ls /\ Tail(ls)[i] = ls[i + 1]
  BY <1>1, <1>2
<1>5. ASSUME NEW i \in DOMAIN ls, i # 1
      PROVE  i - 1 \in DOMAIN Tail(ls) /\ ls[i] = Tail(ls)[i - 1]
  <2>1. i \in 2..Len(ls) /\ i - 1 \in 1..Len(Tail(ls)) /\ (i - 1) + 1 = i
    BY <1>1, <1>5
  <2> QED
    BY <1>1, <1>2, <2>1
<1> QED
  BY <1>1, <1>3, <1>4, <1>5

LEMMA AppendIndex ==
    ASSUME NEW S, NEW ls \in Seq(S), NEW m \in S
    PROVE  /\ Append(ls, m) \in Seq(S) /\ Append(ls, m)[Len(ls) + 1] = m
           /\ Len(ls) + 1 \in DOMAIN Append(ls, m)
           /\ \A i \in DOMAIN ls :
                /\ i \in Nat /\ i < Len(ls) + 1
                /\ i \in DOMAIN Append(ls, m) /\ Append(ls, m)[i] = ls[i]
           /\ \A i \in DOMAIN Append(ls, m) :
                i \in Nat /\ (i = Len(ls) + 1 \/ (i \in DOMAIN ls /\ i <= Len(ls)))
<1>1. /\ DOMAIN ls = 1..Len(ls) /\ Len(ls) \in Nat
      /\ DOMAIN Append(ls, m) = 1..(Len(ls) + 1) /\ Append(ls, m) \in Seq(S)
      /\ \A i \in 1..(Len(ls) + 1) : Append(ls, m)[i] = IF i <= Len(ls) THEN ls[i] ELSE m
  BY LenProperties
<1> DEFINE ns == Append(ls, m)
<1> HIDE DEF ns
<1>2. ns[Len(ls) + 1] = m /\ Len(ls) + 1 \in DOMAIN ns
  BY <1>1 DEF ns
<1>3. ASSUME NEW i \in DOMAIN ls
      PROVE  i \in Nat /\ i < Len(ls) + 1 /\ i \in DOMAIN ns /\ ns[i] = ls[i]
  <2>1. i \in Nat /\ i <= Len(ls) /\ i \in 1..(Len(ls) + 1)
    BY <1>1
  <2> QED
    BY <1>1, <2>1 DEF ns
<1>4. ASSUME NEW i \in DOMAIN ns
      PROVE  i \in Nat /\ (i = Len(ls) + 1 \/ (i \in DOMAIN ls /\ i <= Len(ls)))
  BY <1>1 DEF ns
<1> QED
  BY <1>1, <1>2, <1>3, <1>4 DEF ns

\* A secret is taken from the lines: if it is not the current one its rotation
\* is still among them.
LEMMA FollowedTail ==
    ASSUME NEW S, NEW ls \in Seq(S), ls # <<>>, NEW ver, Followed(ls, ver)
    PROVE  /\ Followed(Tail(ls), ver)
           /\ Head(ls).type = "Secret" =>
                Head(ls).value = ver[Head(ls).key] \/ RotatedAfter(Tail(ls), 0, Head(ls).key)
<1>1. ASSUME NEW i \in DOMAIN ls, NEW k, NEW n \in Nat, i = n + 1, RotatedAfter(ls, i, k)
      PROVE  RotatedAfter(Tail(ls), n, k)
  <2>1. PICK j \in DOMAIN ls : j > i /\ ls[j].type = "Rotated" /\ k \in ls[j].keys
    BY <1>1 DEF RotatedAfter
  <2>2. j - 1 \in DOMAIN Tail(ls) /\ j - 1 > n /\ ls[j] = Tail(ls)[j - 1]
    BY <1>1, <2>1, TailIndex
  <2> QED
    BY <2>1, <2>2 DEF RotatedAfter
<1>2. ASSUME NEW i \in DOMAIN Tail(ls), Tail(ls)[i].type = "Secret"
      PROVE  Tail(ls)[i].value = ver[Tail(ls)[i].key] \/ RotatedAfter(Tail(ls), i, Tail(ls)[i].key)
  <2>1. i + 1 \in DOMAIN ls /\ Tail(ls)[i] = ls[i + 1] /\ i \in Nat
    BY TailIndex
  <2>2. ls[i + 1].value = ver[ls[i + 1].key] \/ RotatedAfter(ls, i + 1, ls[i + 1].key)
    BY <1>2, <2>1 DEF Followed
  <2> QED
    BY <1>1, <2>1, <2>2
<1>3. Head(ls) = ls[1] /\ 1 \in DOMAIN ls
  BY TailIndex
<1>4. ASSUME Head(ls).type = "Secret"
      PROVE  Head(ls).value = ver[Head(ls).key] \/ RotatedAfter(Tail(ls), 0, Head(ls).key)
  <2>1. ls[1].value = ver[ls[1].key] \/ RotatedAfter(ls, 1, ls[1].key)
    BY <1>3, <1>4 DEF Followed
  <2> QED
    BY <1>1, <1>3, <2>1
<1> QED
  BY <1>2, <1>4 DEF Followed

\* A rotation among the lines stays there unless it is the line taken.
LEMMA RotatedTail ==
    ASSUME NEW S, NEW ls \in Seq(S), ls # <<>>, NEW k, RotatedAfter(ls, 0, k)
    PROVE  RotatedAfter(Tail(ls), 0, k) \/ (Head(ls).type = "Rotated" /\ k \in Head(ls).keys)
<1>1. PICK j \in DOMAIN ls : ls[j].type = "Rotated" /\ k \in ls[j].keys
  BY DEF RotatedAfter
<1>2. CASE j = 1
  BY <1>1, <1>2, TailIndex
<1>3. CASE j # 1
  <2>1. j - 1 \in DOMAIN Tail(ls) /\ ls[j] = Tail(ls)[j - 1] /\ j - 1 > 0
    BY <1>3, TailIndex
  <2>2. Tail(ls)[j - 1].type = "Rotated" /\ k \in Tail(ls)[j - 1].keys
    BY <1>1, <2>1
  <2> QED
    BY <2>1, <2>2 DEF RotatedAfter
<1> QED
  BY <1>2, <1>3

\* A rotation that joins the lines follows the secrets it replaces; a secret
\* joins them as it is.
LEMMA FollowedAppend ==
    ASSUME NEW S, NEW ls \in Seq(S), NEW m \in S, NEW ver, NEW new, Followed(ls, ver),
           \A i \in DOMAIN ls : ls[i].type = "Secret" /\ new[ls[i].key] # ver[ls[i].key]
                => m.type = "Rotated" /\ ls[i].key \in m.keys,
           m.type = "Secret" => m.value = new[m.key]
    PROVE  /\ Followed(Append(ls, m), new)
           /\ \A k : (m.type = "Rotated" /\ k \in m.keys) \/ RotatedAfter(ls, 0, k)
                => RotatedAfter(Append(ls, m), 0, k)
<1> DEFINE ns == Append(ls, m)
           n == Len(ls) + 1
<1>1. /\ ns[n] = m /\ n \in DOMAIN ns /\ n \in Nat /\ n > 0
      /\ \A i \in DOMAIN ls : i \in Nat /\ i < n /\ i \in DOMAIN ns /\ ns[i] = ls[i]
      /\ \A i \in DOMAIN ns : i \in Nat /\ (i = n \/ i \in DOMAIN ls)
  BY AppendIndex, LenProperties
<1> HIDE DEF ns, n
<1>2. ASSUME NEW i \in Nat, NEW k, RotatedAfter(ls, i, k) PROVE RotatedAfter(ns, i, k)
  BY <1>1, <1>2 DEF RotatedAfter
<1>3. ASSUME NEW i \in DOMAIN ns, ns[i].type = "Secret"
      PROVE  ns[i].value = new[ns[i].key] \/ RotatedAfter(ns, i, ns[i].key)
  <2>1. CASE i = n
    BY <1>1, <1>3, <2>1
  <2>2. CASE i # n
    <3>1. i \in DOMAIN ls /\ ns[i] = ls[i] /\ i \in Nat /\ i < n
      BY <1>1, <2>2
    <3>2. ls[i].value = ver[ls[i].key] \/ RotatedAfter(ns, i, ls[i].key)
      BY <1>2, <1>3, <3>1 DEF Followed
    <3>3. CASE new[ls[i].key] = ver[ls[i].key]
      BY <3>1, <3>2, <3>3
    <3>4. CASE new[ls[i].key] # ver[ls[i].key]
      <4>1. m.type = "Rotated" /\ ls[i].key \in m.keys
        BY <1>3, <3>1, <3>4
      <4> QED
        BY <1>1, <3>1, <4>1 DEF RotatedAfter
    <3> QED
      BY <3>3, <3>4
  <2> QED
    BY <2>1, <2>2
<1>4. Followed(ns, new)
  BY <1>3 DEF Followed
<1>5. ASSUME NEW k, m.type = "Rotated", k \in m.keys PROVE RotatedAfter(ns, 0, k)
  BY <1>1, <1>5 DEF RotatedAfter
<1> QED
  BY <1>2, <1>4, <1>5 DEF ns

\* A secret on its way stays the current one or followed by its rotation.
LEMMA LineStep == TypeOK /\ LineInv /\ [Next]_vars => LineInv'
<1> SUFFICES ASSUME TypeOK, LineInv, [Next]_vars PROVE Followed(lines', version')
  BY DEF LineInv
<1> USE DEF LineInv
<1>0. lines \in Seq(Lines)
  BY DEF TypeOK
<1>1. ASSUME UNCHANGED <<version, lines>> PROVE Followed(lines', version')
  BY <1>1
<1>2. ASSUME NEW t \in Tasks, ReadLine(t) \/ ReadErr(t) PROVE Followed(lines', version')
  <2>1. CASE lines # <<>> /\ lines' = Tail(lines) /\ UNCHANGED version
    BY <1>0, <2>1, FollowedTail
  <2> QED
    BY <1>1, <1>2, <2>1 DEF ReadLine, ReadErr
<1>3. ASSUME Answer PROVE Followed(lines', version')
  <2> DEFINE m == [type |-> "Secret", key |-> Head(requests), value |-> version[Head(requests)]]
  <2>1. lines' = Append(lines, m) /\ UNCHANGED version /\ Head(requests) \in Keys
    BY <1>3, HeadTailProperties DEF Answer, TypeOK
  <2>2. m \in Lines /\ m.type = "Secret" /\ m.value = version[m.key]
    BY <2>1, LineTypes DEF TypeOK
  <2> HIDE DEF m
  <2> QED
    BY <1>0, <2>1, <2>2, FollowedAppend
<1>4. ASSUME NEW ks \in SUBSET Keys, Rotate(ks) PROVE Followed(lines', version')
  <2> DEFINE new == [k \in Keys |-> IF k \in ks THEN version[k] + 1 ELSE version[k]]
             m == [type |-> "Rotated", keys |-> ks, versions |-> new]
  <2>1. lines' = Append(lines, m) /\ version' = new
    BY <1>4 DEF Rotate
  <2>2. m \in Lines /\ m.type = "Rotated" /\ m.keys = ks
    <3>1. new \in [Keys -> Versions]
      BY <1>4, BoundsAssumption DEF Rotate, TypeOK, Versions
    <3> QED
      BY <3>1 DEF Lines, Rotations
  <2>3. \A i \in DOMAIN lines : lines[i].type = "Secret" => lines[i].key \in Keys
    <3>1. \A i \in DOMAIN lines : lines[i] \in Lines
      BY <1>0, LenProperties
    <3> QED
      BY <3>1, LineTypes
  <2> HIDE DEF m
  <2>4. \A k \in Keys : new[k] # version[k] => k \in m.keys
    BY <2>2
  <2> HIDE DEF new
  <2> QED
    BY <1>0, <2>1, <2>2, <2>3, <2>4, FollowedAppend
<1>5. ASSUME SendOther PROVE Followed(lines', version')
  <2>1. lines' = Append(lines, Other) /\ UNCHANGED version
    BY <1>5 DEF SendOther
  <2>2. Other \in Lines /\ Other.type # "Secret"
    BY LineTypes
  <2> QED
    BY <1>0, <2>1, <2>2, FollowedAppend
<1>6. ASSUME NEW t \in Tasks, \/ \E k \in Keys, m \in Modes : GetSecret(t, k, m)
                              \/ WriteRequest(t) \/ WriteFails(t) \/ LockInput(t) \/ ReadEof(t)
                              \/ Apply(t) \/ TimeoutElapses(t)
      PROVE  Followed(lines', version')
  BY <1>1, <1>6 DEF GetSecret, WriteRequest, WriteFails, LockInput, ReadEof, Apply,
                    TimeoutElapses, orchVars
<1>7. ASSUME \/ ProcessMessage \/ (\E k \in Keys : Invalidate(k)) \/ Notify
             \/ Receive \/ NextKey \/ CloseInput \/ UNCHANGED vars
      PROVE  Followed(lines', version')
  BY <1>1, <1>7 DEF ProcessMessage, Invalidate, Notify, Receive, NextKey, CloseInput,
                    orchVars, vars
<1> QED
  BY <1>2, <1>3, <1>4, <1>5, <1>6, <1>7, TaskSets DEF Next, ClientStep, BackgroundStep

-----------------------------------------------------------------------------
(* Rotations on their way to the cache.                                    *)

\* A rotation that the background task is working on.
InHand(k) ==
    \/ /\ pc[Background] = "apply" /\ took[Background].type = "Rotated"
       /\ k \in took[Background].keys
    \/ pc[Background] = "invalidate" /\ k \in todo[Background]

Pending(k) == RotatedAfter(lines, 0, k) \/ InHand(k) \/ k \in swallowed

LEMMA RotatedAny ==
    ASSUME NEW S, NEW ls \in Seq(S), NEW k
    PROVE  RotatedAfter(ls, 0, k) <=> \E i \in DOMAIN ls : ls[i].type = "Rotated" /\ k \in ls[i].keys
<1>1. \A i \in DOMAIN ls : i > 0
  BY LenProperties
<1> QED
  BY <1>1 DEF RotatedAfter

\* Pending says what the property says.
LEMMA PendingIs ==
    ASSUME lines \in Seq(Lines), NEW k
    PROVE  Pending(k) <=> Announced(k) \/ k \in swallowed
BY RotatedAny DEF Pending, InHand, Announced

LEMMA PendingIsNext ==
    ASSUME lines' \in Seq(Lines), NEW k
    PROVE  Pending(k)' <=> Announced(k)' \/ k \in swallowed'
<1>1. RotatedAfter(lines', 0, k)
            <=> \E i \in DOMAIN lines' : lines'[i].type = "Rotated" /\ k \in lines'[i].keys
  BY RotatedAny
<1> QED
  BY <1>1 DEF Pending, InHand, Announced

\* A new version is announced, and a rotation stays on its way, or lost, until
\* it reaches the cache.
LEMMA PendingStep ==
    ASSUME TypeOK, [Next]_vars, NEW k \in Keys
    PROVE  /\ version'[k] # version[k] => Pending(k)'
           /\ ~Invalidate(k) /\ Pending(k) => Pending(k)'
<1> DEFINE Stays == /\ version'[k] = version[k]
                    /\ Pending(k) => Pending(k)'
<1>0. lines \in Seq(Lines) /\ pc \in [Tasks -> PCs] /\ took \in [Tasks -> Lines]
      /\ Background \in Tasks /\ todo \in [{Background, Subscriber} -> SUBSET Keys]
      /\ Subscriber # Background
  BY TaskSets DEF TypeOK
<1>1. ASSUME UNCHANGED <<version, lines, swallowed>>, InHand(k) => InHand(k)'
      PROVE  Stays
  BY <1>1 DEF Pending
<1>2. ASSUME UNCHANGED <<version, lines, swallowed, todo[Background]>>,
             UNCHANGED <<pc[Background], took[Background]>>
      PROVE  Stays
  BY <1>1, <1>2 DEF InHand
<1>3. ASSUME NEW t \in Clients, \/ \E m \in Modes, j \in Keys : GetSecret(t, j, m)
                                \/ WriteRequest(t) \/ WriteFails(t) \/ Apply(t)
      PROVE  Stays
  <2>1. t # Background /\ t \in Tasks
    BY TaskSets
  <2>2. UNCHANGED <<version, lines, swallowed, todo>>
    BY <1>3 DEF GetSecret, WriteRequest, WriteFails, Apply, orchVars, ghosts
  <2>3. UNCHANGED pc[Background]
    BY <1>0, <1>3, <2>1 DEF GetSecret, WriteRequest, WriteFails, Apply, Finish, Goto
  <2>4. UNCHANGED took[Background]
    BY <1>0, <1>3, <2>1 DEF GetSecret, WriteRequest, WriteFails, Apply
  <2> QED
    BY <1>2, <2>2, <2>3, <2>4
<1>4. ASSUME NEW t \in Tasks, LockInput(t) \/ ReadEof(t) \/ TimeoutElapses(t)
      PROVE  Stays
  <2>1. UNCHANGED <<version, lines, swallowed, todo, took>>
    BY <1>4 DEF LockInput, ReadEof, TimeoutElapses, orchVars, ghosts
  <2>2. /\ pc[t] \notin {"apply", "invalidate"}
        /\ \A u \in Tasks \ {t} : pc'[u] = pc[u]
    BY <1>0, <1>4, TaskSets
       DEF LockInput, ReadEof, NoLine, TimeoutElapses, TimesOut, Finish, Goto, Reading
  <2> QED
    BY <1>0, <1>1, <2>1, <2>2 DEF InHand
<1>5. ASSUME NEW t \in Tasks, ReadLine(t) PROVE Stays
  <2>1. /\ lines # <<>> /\ lines' = Tail(lines) /\ UNCHANGED <<version, todo>>
        /\ pc[t] \in Reading
        /\ pc' = [pc EXCEPT ![t] = IF pc[t] = "reading" THEN "apply" ELSE "lock"]
        /\ took' = [took EXCEPT ![t] = IF pc[t] = "reading" THEN Head(lines) ELSE Other]
        /\ swallowed' = IF Head(lines).type = "Rotated" /\ ~(t = Background /\ pc[t] = "reading")
                        THEN swallowed \union Head(lines).keys ELSE swallowed
    BY <1>5 DEF ReadLine, Goto
  <2>2. CASE k \in swallowed
    BY <2>1, <2>2 DEF Pending
  <2>3. CASE InHand(k)
    <3>1. t # Background
      BY <2>1, <2>3 DEF InHand, Reading
    <3>2. InHand(k)'
      BY <1>0, <2>1, <2>3, <3>1 DEF InHand
    <3> QED
      BY <2>1, <3>2 DEF Pending
  <2>4. CASE RotatedAfter(lines, 0, k)
    <3>1. CASE RotatedAfter(Tail(lines), 0, k)
      BY <2>1, <3>1 DEF Pending
    <3>2. CASE Head(lines).type = "Rotated" /\ k \in Head(lines).keys
      <4>1. CASE t = Background /\ pc[t] = "reading"
        BY <1>0, <2>1, <3>2, <4>1 DEF Pending, InHand
      <4>2. CASE ~(t = Background /\ pc[t] = "reading")
        BY <2>1, <3>2, <4>2 DEF Pending
      <4> QED
        BY <4>1, <4>2
    <3> QED
      BY <1>0, <2>1, <2>4, <3>1, <3>2, RotatedTail
  <2> QED
    BY <2>1, <2>2, <2>3, <2>4 DEF Pending
<1>5a. ASSUME NEW t \in Tasks, ReadErr(t) PROVE Stays
  <2>1. UNCHANGED <<version, todo, took>> /\ pc[t] \in Reading
    BY <1>5a DEF ReadErr
  <2>2. \A u \in Tasks \ {t} : pc'[u] = pc[u]
    BY <1>0, <1>5a DEF ReadErr, NoLine, Finish, Goto
  <2>3. InHand(k) => InHand(k)'
    BY <1>0, <2>1, <2>2 DEF InHand, Reading
  <2>4. CASE UNCHANGED <<lines, swallowed>>
    BY <1>1, <2>1, <2>3, <2>4
  <2>5. CASE /\ lines # <<>> /\ lines' = Tail(lines)
             /\ swallowed' = IF Head(lines).type = "Rotated"
                             THEN swallowed \union Head(lines).keys ELSE swallowed
    <3>1. RotatedAfter(lines, 0, k) =>
            \/ RotatedAfter(Tail(lines), 0, k)
            \/ Head(lines).type = "Rotated" /\ k \in Head(lines).keys
      BY <1>0, <2>5, RotatedTail
    <3> QED
      BY <2>1, <2>3, <2>5, <3>1 DEF Pending
  <2> QED
    BY <1>5a, <2>4, <2>5 DEF ReadErr
<1>6. ASSUME ProcessMessage PROVE Stays
  <2>1. UNCHANGED <<version, lines, swallowed>>
    BY <1>6 DEF ProcessMessage, orchVars
  <2>2. InHand(k) => took[Background].type = "Rotated" /\ k \in took[Background].keys
    BY <1>6 DEF ProcessMessage, InHand
  <2>3. took[Background].type = "Rotated" =>
            /\ pc' = [pc EXCEPT ![Background] = "invalidate"]
            /\ todo' = [todo EXCEPT ![Background] = took[Background].keys]
    BY <1>6 DEF ProcessMessage, Goto
  <2> QED
    BY <1>0, <1>1, <2>1, <2>2, <2>3 DEF InHand
<1>7. ASSUME NEW j \in Keys, Invalidate(j), j # k PROVE Stays
  <2>1. /\ UNCHANGED <<version, lines, took>> /\ swallowed' = swallowed \ {j}
        /\ pc[Background] = "invalidate" /\ j \in todo[Background]
        /\ todo' = [todo EXCEPT ![Background] = @ \ {j}]
        /\ pc' = [pc EXCEPT ![Background] =
                    IF todo[Background] = {j} THEN "notify" ELSE "invalidate"]
    BY <1>7 DEF Invalidate, Goto, orchVars
  <2>2. InHand(k) => InHand(k)'
    BY <1>0, <1>7, <2>1 DEF InHand
  <2> QED
    BY <1>7, <2>1, <2>2 DEF Pending
<1>8. ASSUME Notify PROVE Stays
  <2>1. UNCHANGED <<version, lines, swallowed>> /\ pc[Background] = "notify"
    BY <1>8 DEF Notify, orchVars, ghosts
  <2> QED
    BY <1>1, <2>1 DEF InHand
<1>9. ASSUME Receive \/ NextKey PROVE Stays
  <2>1. UNCHANGED <<version, lines, swallowed, took, todo[Background]>>
    BY <1>0, <1>9 DEF Receive, NextKey, orchVars, ghosts
  <2>2. UNCHANGED pc[Background]
    BY <1>0, <1>9 DEF Receive, NextKey, Goto
  <2> QED
    BY <1>2, <2>1, <2>2
<1>10. ASSUME NEW m \in Lines, lines' = Append(lines, m), UNCHANGED <<swallowed, pc, took, todo>>
       PROVE  /\ Pending(k) => Pending(k)'
              /\ m.type = "Rotated" /\ k \in m.keys => Pending(k)'
  <2>1. InHand(k)' <=> InHand(k)
    BY <1>10 DEF InHand
  <2>2. (m.type = "Rotated" /\ k \in m.keys) \/ RotatedAfter(lines, 0, k)
            => RotatedAfter(Append(lines, m), 0, k)
    <3>1. /\ Append(lines, m)[Len(lines) + 1] = m /\ Len(lines) + 1 \in DOMAIN Append(lines, m)
          /\ \A i \in DOMAIN lines :
                i \in Nat /\ i \in DOMAIN Append(lines, m) /\ Append(lines, m)[i] = lines[i]
          /\ Len(lines) + 1 > 0
      BY <1>0, AppendIndex, LenProperties
    <3> QED
      BY <3>1 DEF RotatedAfter
  <2> QED
    BY <1>10, <2>1, <2>2 DEF Pending
<1>11. ASSUME Answer \/ SendOther PROVE Stays
  <2>1. UNCHANGED <<version, swallowed, pc, took, todo>>
    BY <1>11 DEF Answer, SendOther, ghosts
  <2>2. \E m \in Lines : lines' = Append(lines, m)
    <3>1. CASE Answer
      <4>1. Head(requests) \in Keys
        BY <3>1, HeadTailProperties DEF Answer, TypeOK
      <4> QED
        BY <3>1, <4>1, LineTypes DEF Answer, TypeOK
    <3>2. CASE SendOther
      BY <3>2, LineTypes DEF SendOther
    <3> QED
      BY <1>11, <3>1, <3>2
  <2> QED
    BY <1>10, <2>1, <2>2
<1>12. ASSUME NEW ks \in SUBSET Keys, Rotate(ks)
       PROVE  /\ version'[k] # version[k] => Pending(k)'
              /\ Pending(k) => Pending(k)'
  <2> DEFINE new == [j \in Keys |-> IF j \in ks THEN version[j] + 1 ELSE version[j]]
             m == [type |-> "Rotated", keys |-> ks, versions |-> new]
  <2>1. lines' = Append(lines, m) /\ version' = new /\ UNCHANGED <<swallowed, pc, took, todo>>
    BY <1>12 DEF Rotate, ghosts
  <2>2. m \in Lines /\ m.type = "Rotated" /\ m.keys = ks
    <3>1. new \in [Keys -> Versions]
      BY <1>12, BoundsAssumption DEF Rotate, TypeOK, Versions
    <3> QED
      BY <3>1 DEF Lines, Rotations
  <2>3. version'[k] # version[k] => k \in ks
    BY <2>1
  <2> HIDE DEF m
  <2> QED
    BY <1>10, <2>1, <2>2, <2>3
<1>13. ASSUME CloseInput \/ UNCHANGED vars PROVE Stays
  BY <1>2, <1>13 DEF CloseInput, ghosts, vars, orchVars
<1>14. ~Invalidate(k) => Stays \/ (\E ks \in SUBSET Keys : Rotate(ks))
  BY <1>3, <1>4, <1>5, <1>5a, <1>6, <1>7, <1>8, <1>9, <1>11, <1>13, TaskSets
     DEF Next, ClientStep, BackgroundStep
<1>15. Invalidate(k) => UNCHANGED version
  BY DEF Invalidate, orchVars
<1> QED
  BY <1>12, <1>14, <1>15

\* What a task has in hand stays the current one, or its rotation gets past
\* it.
LEMMA TookStep ==
    ASSUME TypeOK, TypeOK', LineInv, TookInv, [Next]_vars
    PROVE  TookInv'
<1> SUFFICES ASSUME NEW t \in Tasks, pc'[t] = "apply", took'[t].type = "Secret",
                    NEW k, took'[t].key = k
             PROVE  took'[t].value = version'[k] \/ Pending(k)' \/ t \in overtaken'
  BY PendingIsNext DEF TookInv, TypeOK
<1> DEFINE Goal == took'[t].value = version'[k] \/ Pending(k)' \/ t \in overtaken'
<1>0. /\ lines \in Seq(Lines) /\ pc \in [Tasks -> PCs] /\ took \in [Tasks -> Lines]
      /\ took'[t] \in Lines /\ k \in Keys
      /\ Background \in Tasks /\ Subscriber \in Tasks /\ Clients \subseteq Tasks
  BY TaskSets, LineTypes DEF TypeOK
<1>1. ASSUME pc[t] = "apply", took'[t] = took[t], t \in overtaken => t \in overtaken'
      PROVE  Goal
  <2>1. took[t].value = version[k] \/ Pending(k) \/ t \in overtaken
    BY <1>0, <1>1, PendingIs DEF TookInv
  <2>2. CASE Invalidate(k)
    <3>1. t # Background
      BY <1>0, <2>2 DEF Invalidate, Goto
    <3>2. t \in Clients /\ took[t].type = "Secret" /\ took[t].key = k
      BY <1>1, <3>1, TaskSets
    <3> QED
      BY <1>1, <2>2, <3>2 DEF Invalidate
  <2>3. CASE ~Invalidate(k)
    BY <1>0, <1>1, <2>1, <2>3, PendingStep
  <2> QED
    BY <2>2, <2>3
<1>2. ASSUME ReadLine(t) PROVE Goal
  <2>1. /\ lines # <<>> /\ lines' = Tail(lines) /\ UNCHANGED version
        /\ pc[t] = "reading" /\ took'[t] = Head(lines)
    BY <1>0, <1>2 DEF ReadLine, Goto
  <2>2. Head(lines).value = version[k] \/ RotatedAfter(Tail(lines), 0, k)
    BY <1>0, <2>1, FollowedTail DEF LineInv
  <2> QED
    BY <2>1, <2>2 DEF Pending
<1>3. ASSUME NEW u \in Tasks, ReadLine(u), u # t PROVE Goal
  BY <1>0, <1>1, <1>3 DEF ReadLine, Goto
<1>4. ASSUME NEW u \in Clients, \/ \E m \in Modes, j \in Keys : GetSecret(u, j, m)
                                \/ WriteRequest(u) \/ WriteFails(u)
      PROVE  Goal
  <2>1. UNCHANGED <<took, overtaken>> /\ pc'[u] # "apply"
    BY <1>0, <1>4 DEF GetSecret, WriteRequest, WriteFails, Finish, Goto, ghosts
  <2>2. \A v \in Tasks \ {u} : pc'[v] = pc[v]
    BY <1>0, <1>4 DEF GetSecret, WriteRequest, WriteFails, Finish, Goto
  <2> QED
    BY <1>1, <2>1, <2>2
<1>5. ASSUME NEW u \in Clients, Apply(u) PROVE Goal
  <2>1. /\ took' = [took EXCEPT ![u] = Other] /\ overtaken' = overtaken \ {u}
        /\ pc'[u] # "apply" /\ \A v \in Tasks \ {u} : pc'[v] = pc[v]
    BY <1>0, <1>5 DEF Apply, Finish, Goto
  <2> QED
    BY <1>0, <1>1, <2>1
<1>6. ASSUME NEW u \in Tasks,
             LockInput(u) \/ ReadEof(u) \/ ReadErr(u) \/ TimeoutElapses(u)
      PROVE  Goal
  <2>1. UNCHANGED <<took, overtaken>>
    BY <1>6 DEF LockInput, ReadEof, ReadErr, TimeoutElapses, ghosts
  <2>2. pc'[u] # "apply" /\ \A v \in Tasks \ {u} : pc'[v] = pc[v]
    BY <1>0, <1>6 DEF LockInput, ReadEof, ReadErr, NoLine, TimeoutElapses, TimesOut, Finish,
                      Goto
  <2> QED
    BY <1>1, <2>1, <2>2
<1>7. ASSUME ProcessMessage \/ Notify PROVE Goal
  <2>1. /\ UNCHANGED overtaken /\ pc'[Background] # "apply"
        /\ \A v \in Tasks \ {Background} : pc'[v] = pc[v] /\ took'[v] = took[v]
    BY <1>0, <1>7 DEF ProcessMessage, Notify, Goto, ghosts
  <2> QED
    BY <1>1, <2>1
<1>8. ASSUME NEW j \in Keys, Invalidate(j) PROVE Goal
  <2>1. /\ UNCHANGED took /\ overtaken \subseteq overtaken' /\ pc'[Background] # "apply"
        /\ \A v \in Tasks \ {Background} : pc'[v] = pc[v]
    BY <1>0, <1>8 DEF Invalidate, Goto
  <2> QED
    BY <1>1, <2>1
<1>9. ASSUME Receive \/ NextKey PROVE Goal
  <2>1. /\ UNCHANGED <<took, overtaken>> /\ pc'[Subscriber] # "apply"
        /\ \A v \in Tasks \ {Subscriber} : pc'[v] = pc[v]
    BY <1>0, <1>9 DEF Receive, NextKey, Goto, ghosts
  <2> QED
    BY <1>1, <2>1
<1>10. ASSUME Answer \/ SendOther \/ CloseInput \/ UNCHANGED vars
              \/ \E ks \in SUBSET Keys : Rotate(ks)
       PROVE  Goal
  <2>1. UNCHANGED <<took, overtaken, pc>>
    BY <1>10 DEF Answer, SendOther, CloseInput, Rotate, ghosts, vars
  <2> QED
    BY <1>1, <2>1
<1> QED
  BY <1>2, <1>3, <1>4, <1>5, <1>6, <1>7, <1>8, <1>9, <1>10, TaskSets
     DEF Next, ClientStep, BackgroundStep

\* What is put into the cache, or left there by a rotation, has its excuse.
LEMMA StaleStep ==
    ASSUME TypeOK, TypeOK', TookInv, StaleHasCause, [Next]_vars
    PROVE  StaleHasCause'
<1> SUFFICES ASSUME NEW k \in Keys, cache'[k] # NoValue, cache'[k] # version'[k]
             PROVE  Pending(k)' \/ k \in late'
  BY PendingIsNext DEF StaleHasCause, TypeOK
<1> DEFINE Goal == Pending(k)' \/ k \in late'
<1>0. /\ lines \in Seq(Lines) /\ cache \in [Keys -> Versions \union {NoValue}]
      /\ took \in [Tasks -> Lines] /\ Background \in Tasks /\ Clients \subseteq Tasks
  BY TaskSets DEF TypeOK
<1>1. ASSUME cache'[k] = cache[k], k \in late => k \in late' PROVE Goal
  <2>1. ~Invalidate(k)
    BY <1>0 DEF Invalidate, Removed
  <2>2. cache[k] = version[k] \/ Pending(k) \/ k \in late
    BY <1>0, <1>1, PendingIs DEF StaleHasCause
  <2> QED
    BY <1>1, <2>1, <2>2, PendingStep
<1>2. ASSUME NEW t \in Tasks, pc[t] = "apply", took[t].type = "Secret", took[t].key = k,
             ~Invalidate(k), cache'[k] = took[t].value, t \in overtaken => k \in late'
      PROVE  Goal
  <2>1. took[t].value = version[k] \/ Pending(k) \/ t \in overtaken
    BY <1>0, <1>2, PendingIs DEF TookInv
  <2> QED
    BY <1>2, <2>1, PendingStep
<1>3. ASSUME NEW t \in Clients, Apply(t) PROVE Goal
  <2>1. CASE IsAnswer(t) /\ want[t] = k
    <3>1. cache'[k] = took[t].value /\ (t \in overtaken => k \in late')
      BY <1>0, <1>3, <2>1 DEF Apply, Insert
    <3>2. ~Invalidate(k)
      BY <1>0, TaskSets, <1>3 DEF Apply, Invalidate, Goto, Finish, TypeOK
    <3> QED
      BY <1>0, <1>2, <1>3, <2>1, <3>1, <3>2 DEF Apply, IsAnswer
  <2>2. CASE ~(IsAnswer(t) /\ want[t] = k)
    BY <1>0, <1>1, <1>3, <2>2 DEF Apply, Insert
  <2> QED
    BY <2>1, <2>2
<1>4. ASSUME ProcessMessage PROVE Goal
  <2>1. CASE took[Background].type = "Secret" /\ took[Background].key = k
    <3>1. cache'[k] = took[Background].value
      BY <1>0, <1>4, <2>1 DEF ProcessMessage, Insert
    <3>2. ~Invalidate(k) /\ Background \notin overtaken
      BY <1>4, TaskSets DEF ProcessMessage, Invalidate, TypeOK
    <3> QED
      BY <1>0, <1>2, <1>4, <2>1, <3>1, <3>2 DEF ProcessMessage
  <2>2. CASE ~(took[Background].type = "Secret" /\ took[Background].key = k)
    BY <1>0, <1>1, <1>4, <2>2 DEF ProcessMessage, Insert
  <2> QED
    BY <2>1, <2>2
<1>5. ASSUME NEW j \in Keys, Invalidate(j) PROVE Goal
  <2>1. cache' = [cache EXCEPT ![j] = NoValue] /\ late' = late \ {j}
    BY <1>5 DEF Invalidate, Removed
  <2>2. j # k
    BY <1>0, <2>1
  <2> QED
    BY <1>0, <1>1, <2>1, <2>2
<1>6. ASSUME NEW t \in Tasks, \/ \E j \in Keys, m \in Modes : GetSecret(t, j, m)
                              \/ WriteRequest(t) \/ WriteFails(t) \/ LockInput(t)
                              \/ ReadLine(t) \/ ReadEof(t) \/ ReadErr(t)
                              \/ TimeoutElapses(t)
      PROVE  Goal
  <2>1. UNCHANGED <<cache, late>>
    BY <1>6 DEF GetSecret, WriteRequest, WriteFails, LockInput, ReadLine, ReadEof,
                ReadErr, TimeoutElapses, ghosts
  <2> QED
    BY <1>1, <2>1
<1>7. ASSUME \/ Notify \/ Receive \/ NextKey \/ Answer \/ SendOther \/ CloseInput
             \/ UNCHANGED vars \/ \E ks \in SUBSET Keys : Rotate(ks)
      PROVE  Goal
  <2>1. UNCHANGED <<cache, late>>
    BY <1>7 DEF Notify, Receive, NextKey, Answer, SendOther, CloseInput, Rotate, ghosts, vars
  <2> QED
    BY <1>1, <2>1
<1> QED
  BY <1>3, <1>4, <1>5, <1>6, <1>7, TaskSets DEF Next, ClientStep, BackgroundStep

-----------------------------------------------------------------------------
(* What is still to be read is not older than what was read.               *)

LEMMA NotOlderTail ==
    ASSUME NEW S, NEW ls \in Seq(S), ls # <<>>, NEW n \in Nat, NEW vs
    PROVE  /\ NotOlder(ls, n + 1, vs) => NotOlder(Tail(ls), n, vs)
           /\ NotOlder(ls, 0, vs) => /\ NotOlder(Tail(ls), 0, vs)
                                     /\ Head(ls).type = "Secret" =>
                                            vs[Head(ls).key] <= Head(ls).value
<1>1. ASSUME NotOlder(ls, n + 1, vs), NEW j \in DOMAIN Tail(ls), j > n,
             Tail(ls)[j].type = "Secret"
      PROVE  vs[Tail(ls)[j].key] <= Tail(ls)[j].value
  <2>1. j + 1 \in DOMAIN ls /\ Tail(ls)[j] = ls[j + 1] /\ j + 1 > n + 1
    BY <1>1, TailIndex
  <2> QED
    BY <1>1, <2>1 DEF NotOlder
<1>2. ASSUME NotOlder(ls, 0, vs), NEW j \in DOMAIN Tail(ls), Tail(ls)[j].type = "Secret"
      PROVE  vs[Tail(ls)[j].key] <= Tail(ls)[j].value
  <2>1. j + 1 \in DOMAIN ls /\ Tail(ls)[j] = ls[j + 1] /\ j + 1 > 0
    BY TailIndex
  <2> QED
    BY <1>2, <2>1 DEF NotOlder
<1>3. Head(ls) = ls[1] /\ 1 \in DOMAIN ls
  BY TailIndex
<1> QED
  BY <1>1, <1>2, <1>3 DEF NotOlder

LEMMA NotOlderAppend ==
    ASSUME NEW S, NEW ls \in Seq(S), NEW m \in S, NEW n \in Nat, NEW vs, NotOlder(ls, n, vs),
           m.type = "Secret" => vs[m.key] <= m.value
    PROVE  NotOlder(Append(ls, m), n, vs)
<1> SUFFICES ASSUME NEW j \in DOMAIN Append(ls, m), j > n, Append(ls, m)[j].type = "Secret"
             PROVE  vs[Append(ls, m)[j].key] <= Append(ls, m)[j].value
  BY DEF NotOlder
<1>1. CASE j = Len(ls) + 1
  BY <1>1, AppendIndex
<1>2. CASE j # Len(ls) + 1
  <2>1. j \in DOMAIN ls /\ Append(ls, m)[j] = ls[j]
    BY <1>2, AppendIndex
  <2> QED
    BY <2>1 DEF NotOlder
<1> QED
  BY <1>1, <1>2

\* How the lines change: one is taken, or one is added that is not older than
\* any version so far.
LEMMA LinesStep ==
    ASSUME TypeOK, [Next]_vars
    PROVE  /\ \A k \in Keys : version[k] <= version'[k]
           /\ \/ lines' = lines
              \/ lines # <<>> /\ lines' = Tail(lines)
              \/ \E m \in Lines :
                    /\ lines' = Append(lines, m)
                    /\ m.type = "Secret" => m.key \in Keys /\ m.value = version[m.key]
                    /\ m.type = "Rotated" => m.versions = version'
<1>0. version \in [Keys -> Versions] /\ \A v \in Versions : v <= v /\ v <= v + 1
  BY BoundsAssumption DEF TypeOK, Versions
<1>1. ASSUME NEW t \in Tasks, ReadLine(t) \/ ReadErr(t)
      PROVE  UNCHANGED version /\ (lines' = lines \/ (lines # <<>> /\ lines' = Tail(lines)))
  BY <1>1 DEF ReadLine, ReadErr
<1>2. ASSUME Answer \/ SendOther
      PROVE  /\ UNCHANGED version
             /\ \E m \in Lines : /\ lines' = Append(lines, m)
                                 /\ m.type = "Secret" => m.key \in Keys /\ m.value = version[m.key]
                                 /\ m.type # "Rotated"
  <2>1. CASE Answer
    <3>1. Head(requests) \in Keys
      BY <2>1, HeadTailProperties DEF Answer, TypeOK
    <3> DEFINE m == [type |-> "Secret", key |-> Head(requests),
                     value |-> version[Head(requests)]]
    <3>2. m \in Lines /\ m.type = "Secret" /\ m.key \in Keys /\ m.value = version[m.key]
      BY <1>0, <3>1, LineTypes
    <3>3. lines' = Append(lines, m) /\ UNCHANGED version
      BY <2>1 DEF Answer
    <3> HIDE DEF m
    <3> QED
      BY <3>2, <3>3
  <2>2. CASE SendOther
    BY <2>2, LineTypes DEF SendOther
  <2> QED
    BY <1>2, <2>1, <2>2
<1>3. ASSUME NEW ks \in SUBSET Keys, Rotate(ks)
      PROVE  /\ \A k \in Keys : version[k] <= version'[k]
             /\ \E m \in Lines : /\ lines' = Append(lines, m) /\ m.type = "Rotated"
                                 /\ m.versions = version'
  <2> DEFINE m == [type |-> "Rotated", keys |-> ks, versions |-> version']
  <2>1. version' = [k \in Keys |-> IF k \in ks THEN version[k] + 1 ELSE version[k]]
    BY <1>3 DEF Rotate
  <2>2. version' \in [Keys -> Versions]
    BY <1>0, <1>3, <2>1, BoundsAssumption DEF Rotate, Versions
  <2>3. m \in Lines
    BY <2>2 DEF Lines, Rotations
  <2>4. lines' = Append(lines, m)
    BY <1>3, <2>1 DEF Rotate
  <2> QED
    BY <1>0, <2>1, <2>3, <2>4
<1>4. ASSUME NEW t \in Tasks, \/ \E j \in Keys, m \in Modes : GetSecret(t, j, m)
                              \/ WriteRequest(t) \/ WriteFails(t) \/ LockInput(t)
                              \/ ReadEof(t) \/ TimeoutElapses(t) \/ Apply(t)
      PROVE  UNCHANGED <<version, lines>>
  BY <1>4 DEF GetSecret, WriteRequest, WriteFails, LockInput, ReadEof, TimeoutElapses, Apply,
              orchVars
<1>5. ASSUME \/ ProcessMessage \/ (\E k \in Keys : Invalidate(k)) \/ Notify
             \/ Receive \/ NextKey \/ CloseInput \/ UNCHANGED vars
      PROVE  UNCHANGED <<version, lines>>
  BY <1>5 DEF ProcessMessage, Invalidate, Notify, Receive, NextKey, CloseInput, orchVars, vars
<1>6. UNCHANGED version => \A k \in Keys : version[k] <= version'[k]
  BY <1>0
<1>7. \/ \E t \in Tasks : ReadLine(t) \/ ReadErr(t)
      \/ Answer \/ SendOther \/ (\E ks \in SUBSET Keys : Rotate(ks))
      \/ UNCHANGED <<version, lines>>
  BY <1>4, <1>5, TaskSets DEF Next, ClientStep, BackgroundStep
<1> QED
  BY <1>1, <1>2, <1>3, <1>6, <1>7

\* Versions only grow.
LEMMA NotNewerStep ==
    ASSUME TypeOK, TypeOK', [Next]_vars, NEW vs \in [Keys -> Versions], NotNewer(vs, version)
    PROVE  NotNewer(vs, version')
<1> SUFFICES ASSUME NEW k \in Keys PROVE vs[k] <= version'[k]
  BY DEF NotNewer
<1>1. vs[k] \in Nat /\ version[k] \in Nat /\ version'[k] \in Nat
  BY DEF TypeOK, Versions
<1>2. version[k] <= version'[k]
  BY LinesStep
<1>3. vs[k] <= version[k]
  BY DEF NotNewer
<1> QED
  BY <1>1, <1>2, <1>3

\* A version stays older than the secrets still to be read.
LEMMA FloorStep ==
    ASSUME TypeOK, TypeOK', [Next]_vars, NEW vs \in [Keys -> Versions],
           NotNewer(vs, version), NotOlder(lines, 0, vs)
    PROVE  NotNewer(vs, version') /\ NotOlder(lines', 0, vs)
<1>0. /\ lines \in Seq(Lines) /\ Versions \subseteq Nat
      /\ version \in [Keys -> Versions] /\ version' \in [Keys -> Versions]
  BY DEF TypeOK, Versions
<1>1. NotNewer(vs, version')
  BY NotNewerStep
<1>2. CASE lines' = lines
  BY <1>1, <1>2
<1>3. CASE lines # <<>> /\ lines' = Tail(lines)
  BY <1>0, <1>1, <1>3, NotOlderTail
<1>4. ASSUME NEW m \in Lines, lines' = Append(lines, m),
             m.type = "Secret" => m.key \in Keys /\ m.value = version[m.key]
      PROVE  NotOlder(lines', 0, vs)
  <2>1. m.type = "Secret" => vs[m.key] <= m.value
    BY <1>4 DEF NotNewer
  <2> QED
    BY <1>0, <1>4, <2>1, NotOlderAppend
<1> QED
  BY <1>1, <1>2, <1>3, <1>4, LinesStep

\* The rotations among the lines stay in order with the secrets.
LEMMA LineFloorStep ==
    ASSUME TypeOK, TypeOK', DueInv, [Next]_vars,
           NEW i \in DOMAIN lines', lines'[i].type = "Rotated"
    PROVE  NotNewer(lines'[i].versions, version') /\ NotOlder(lines', i, lines'[i].versions)
<1>0. /\ lines \in Seq(Lines) /\ lines' \in Seq(Lines)
      /\ version \in [Keys -> Versions] /\ version' \in [Keys -> Versions]
      /\ Versions \subseteq Nat
  BY DEF TypeOK, Versions
<1>1. \A vs \in [Keys -> Versions] : NotNewer(vs, version) => NotNewer(vs, version')
  BY NotNewerStep
<1>2. \A j \in DOMAIN lines : lines[j].type = "Rotated" =>
            /\ lines[j].versions \in [Keys -> Versions]
            /\ NotNewer(lines[j].versions, version) /\ NotOlder(lines, j, lines[j].versions)
  <2>1. \A j \in DOMAIN lines : lines[j] \in Lines
    BY <1>0, LenProperties
  <2> QED
    BY <2>1, LineTypes DEF DueInv
<1>3. CASE lines' = lines
  BY <1>1, <1>2, <1>3
<1>4. CASE lines # <<>> /\ lines' = Tail(lines)
  <2>1. i \in Nat /\ i + 1 \in DOMAIN lines /\ lines'[i] = lines[i + 1]
    BY <1>0, <1>4, TailIndex
  <2>2. NotOlder(lines, i + 1, lines[i + 1].versions) /\ NotNewer(lines[i + 1].versions, version')
    BY <1>1, <1>2, <2>1
  <2> QED
    BY <1>0, <1>4, <2>1, <2>2, NotOlderTail
<1>5. ASSUME NEW m \in Lines, lines' = Append(lines, m),
             m.type = "Secret" => m.key \in Keys /\ m.value = version[m.key],
             m.type = "Rotated" => m.versions = version'
      PROVE  NotNewer(lines'[i].versions, version') /\ NotOlder(lines', i, lines'[i].versions)
  <2>1. CASE i = Len(lines) + 1
    <3>1. lines'[i] = m /\ m.versions = version'
      BY <1>0, <1>5, <2>1, AppendIndex
    <3>2. ASSUME NEW j \in DOMAIN lines' PROVE ~(j > i)
      <4>1. Len(lines) \in Nat /\ j \in Nat
            /\ (j = Len(lines) + 1 \/ (j \in DOMAIN lines /\ j <= Len(lines)))
        BY <1>0, <1>5, AppendIndex, LenProperties
      <4> QED
        BY <2>1, <4>1
    <3>3. NotOlder(lines', i, lines'[i].versions)
      BY <3>2 DEF NotOlder
    <3>4. ASSUME NEW k \in Keys PROVE version'[k] <= version'[k]
      <4>1. version'[k] \in Nat
        BY <1>0
      <4> QED
        BY <4>1
    <3>5. NotNewer(version', version')
      BY <3>4 DEF NotNewer
    <3> QED
      BY <3>1, <3>3, <3>5
  <2>2. CASE i # Len(lines) + 1
    <3>1. i \in DOMAIN lines /\ lines'[i] = lines[i] /\ i \in Nat
      BY <1>0, <1>5, <2>2, AppendIndex
    <3> DEFINE vs == lines[i].versions
    <3>2. vs \in [Keys -> Versions] /\ NotNewer(vs, version) /\ NotOlder(lines, i, vs)
      BY <1>2, <3>1
    <3> HIDE DEF vs
    <3>3. m.type = "Secret" => vs[m.key] <= m.value
      BY <1>5, <3>2 DEF NotNewer
    <3>4. NotOlder(Append(lines, m), i, vs)
      BY <1>0, <3>1, <3>2, <3>3, NotOlderAppend
    <3> QED
      BY <1>1, <1>5, <3>1, <3>2, <3>4 DEF vs
  <2> QED
    BY <2>1, <2>2
<1> QED
  BY <1>3, <1>4, <1>5, LinesStep

\* The rotations read so far stay older than the secrets still to be read.
LEMMA DueStep ==
    ASSUME TypeOK, TypeOK', DueInv, HandInv, [Next]_vars
    PROVE  DueInv'
<1> DEFINE Floor(vs) == NotNewer(vs, version) /\ NotOlder(lines, 0, vs)
           FloorNext(vs) == NotNewer(vs, version') /\ NotOlder(lines', 0, vs)
<1>0. /\ lines \in Seq(Lines) /\ queue \in Seq(Rotations) /\ took \in [Tasks -> Lines]
      /\ due \in [Keys -> Versions] /\ Background \in Tasks
      /\ \A i \in DOMAIN queue : queue[i] \in Rotations
  BY TaskSets, LenProperties DEF TypeOK
<1>1. \A vs \in [Keys -> Versions] : Floor(vs) => FloorNext(vs)
  BY FloorStep
<1>2. Floor(due) /\ \A i \in DOMAIN queue : Floor(queue[i].versions)
  BY DEF DueInv
<1>3. \A i \in DOMAIN queue : FloorNext(queue[i].versions)
  BY <1>0, <1>1, <1>2, LineTypes
<1>4. took[Background].type = "Rotated" => FloorNext(took[Background].versions)
  BY <1>0, <1>1, LineTypes DEF DueInv
<1>5. ASSUME UNCHANGED due PROVE FloorNext(due')
  BY <1>0, <1>1, <1>2, <1>5
<1>6. ASSUME UNCHANGED queue, NEW i \in DOMAIN queue' PROVE FloorNext(queue'[i].versions)
  BY <1>3, <1>6
<1>7. ASSUME FloorNext(due'), \A i \in DOMAIN queue' : FloorNext(queue'[i].versions),
             took'[Background].type = "Rotated" => FloorNext(took'[Background].versions)
      PROVE  DueInv'
  BY <1>7, LineFloorStep DEF DueInv
<1> HIDE DEF Floor
<1>8. ASSUME NEW t \in Tasks, ReadLine(t) PROVE DueInv'
  <2>1. /\ UNCHANGED <<due, queue, version>> /\ lines # <<>> /\ lines' = Tail(lines)
        /\ took' = [took EXCEPT ![t] = IF pc[t] = "reading" THEN Head(lines) ELSE Other]
    BY <1>8 DEF ReadLine, subVars
  <2>2. ASSUME Head(lines).type = "Rotated" PROVE FloorNext(Head(lines).versions)
    <3>1. Head(lines) = lines[1] /\ 1 \in DOMAIN lines
      BY <1>0, <2>1, TailIndex
    <3>2. NotNewer(lines[1].versions, version) /\ NotOlder(lines, 0 + 1, lines[1].versions)
      BY <2>2, <3>1 DEF DueInv
    <3> QED
      BY <1>0, <2>1, <3>1, <3>2, NotOlderTail
  <2>3. ASSUME took'[Background].type = "Rotated"
        PROVE  \/ took'[Background] = took[Background]
               \/ took'[Background] = Head(lines)
    BY <1>0, <2>1, <2>3, LineTypes
  <2>4. took'[Background].type = "Rotated" => FloorNext(took'[Background].versions)
    BY <1>4, <2>2, <2>3
  <2> QED
    BY <1>5, <1>6, <1>7, <2>1, <2>4
<1>9. ASSUME Notify PROVE DueInv'
  <2>1. UNCHANGED due /\ took' = [took EXCEPT ![Background] = Other]
        /\ took[Background].type = "Rotated"
    BY <1>9 DEF Notify, HandInv
  <2>2. took'[Background].type # "Rotated"
    BY <1>0, <2>1, LineTypes
  <2>3. ASSUME NEW i \in DOMAIN queue' PROVE FloorNext(queue'[i].versions)
    <3>1. took[Background] \in Rotations
      BY <1>0, <2>1, LineTypes
    <3>2. CASE UNCHANGED queue
      BY <1>6, <3>2
    <3>3. CASE queue' = Append(queue, took[Background])
      <4>1. queue'[i] = took[Background] \/ (i \in DOMAIN queue /\ queue'[i] = queue[i])
        BY <1>0, <3>1, <3>3, AppendIndex
      <4> QED
        BY <1>3, <1>4, <2>1, <4>1
    <3>4. CASE queue # <<>> /\ queue' = Append(Tail(queue), took[Background])
      <4>1. Tail(queue) \in Seq(Rotations)
            /\ \A j \in DOMAIN Tail(queue) : j + 1 \in DOMAIN queue /\ Tail(queue)[j] = queue[j + 1]
        BY <1>0, <3>4, TailIndex
      <4>2. \/ queue'[i] = took[Background]
            \/ i \in DOMAIN Tail(queue) /\ queue'[i] = Tail(queue)[i]
        BY <3>1, <3>4, <4>1, AppendIndex
      <4> QED
        BY <1>3, <1>4, <2>1, <4>1, <4>2
    <3>5. Len(queue) = BroadcastCap => queue # <<>>
      BY <1>0, BoundsAssumption, EmptySeq
    <3> QED
      BY <1>9, <3>2, <3>3, <3>4, <3>5 DEF Notify
  <2> QED
    BY <1>5, <1>7, <2>1, <2>2, <2>3
<1>10. ASSUME Receive PROVE DueInv'
  <2>1. UNCHANGED took
    BY <1>10 DEF Receive
  <2>2. CASE lagged
    <3>1. queue' = <<>> /\ UNCHANGED due
      BY <1>10, <2>2 DEF Receive
    <3> QED
      BY <1>4, <1>5, <1>7, <2>1, <3>1
  <2>3. CASE ~lagged
    <3>1. queue # <<>> /\ queue' = Tail(queue) /\ due' = Head(queue).versions
      BY <1>10, <2>3 DEF Receive
    <3>2. /\ Head(queue) = queue[1] /\ 1 \in DOMAIN queue
          /\ \A i \in DOMAIN queue' : i + 1 \in DOMAIN queue /\ queue'[i] = queue[i + 1]
      BY <1>0, <3>1, TailIndex
    <3> QED
      BY <1>3, <1>4, <1>7, <2>1, <3>1, <3>2
  <2> QED
    BY <2>2, <2>3
<1>11. ASSUME NextKey PROVE DueInv'
  <2>1. UNCHANGED <<took, queue, lines, version>> /\ (due' = due \/ due' = [k \in Keys |-> 1])
    BY <1>11 DEF NextKey, orchVars
  <2>2. ASSUME due' = [k \in Keys |-> 1] PROVE FloorNext(due')
    <3>1. \A v \in Versions : 1 <= v
      BY DEF Versions
    <3>2. NotNewer(due', version')
      BY <2>1, <2>2, <3>1 DEF NotNewer, TypeOK
    <3>3. \A i \in DOMAIN lines : lines[i] \in Lines
      BY <1>0, LenProperties
    <3>4. NotOlder(lines', 0, due')
      BY <2>1, <2>2, <3>1, <3>3, LineTypes DEF NotOlder
    <3> QED
      BY <3>2, <3>4
  <2> QED
    BY <1>4, <1>5, <1>6, <1>7, <2>1, <2>2
<1>12. ASSUME UNCHANGED <<due, queue>>,
              took'[Background].type = "Rotated" => took'[Background] = took[Background]
       PROVE  DueInv'
  BY <1>4, <1>5, <1>6, <1>7, <1>12
<1>13. ASSUME NEW t \in Tasks, \/ \E j \in Keys, m \in Modes : GetSecret(t, j, m)
                               \/ WriteRequest(t) \/ WriteFails(t) \/ LockInput(t)
                               \/ ReadEof(t) \/ ReadErr(t) \/ TimeoutElapses(t)
       PROVE  DueInv'
  <2>1. UNCHANGED <<due, queue, took>>
    BY <1>13 DEF GetSecret, WriteRequest, WriteFails, LockInput, ReadEof, ReadErr,
                 TimeoutElapses, subVars
  <2> QED
    BY <1>12, <2>1
<1>14. ASSUME NEW t \in Clients, Apply(t) PROVE DueInv'
  <2>1. UNCHANGED <<due, queue>> /\ took' = [took EXCEPT ![t] = Other] /\ t # Background
    BY <1>14, TaskSets DEF Apply
  <2> QED
    BY <1>0, <1>12, <2>1
<1>15. ASSUME ProcessMessage PROVE DueInv'
  <2>1. /\ UNCHANGED <<due, queue>>
        /\ took' = took \/ took' = [took EXCEPT ![Background] = Other]
    BY <1>15 DEF ProcessMessage, subVars
  <2> QED
    BY <1>0, <1>12, <2>1, LineTypes
<1>16. ASSUME \/ (\E k \in Keys : Invalidate(k)) \/ Answer \/ SendOther \/ CloseInput
              \/ UNCHANGED vars \/ \E ks \in SUBSET Keys : Rotate(ks)
       PROVE  DueInv'
  <2>1. UNCHANGED <<due, queue, took>>
    BY <1>16 DEF Invalidate, Answer, SendOther, CloseInput, Rotate, subVars, vars
  <2> QED
    BY <1>12, <2>1
<1> QED
  BY <1>8, <1>9, <1>10, <1>11, <1>13, <1>14, <1>15, <1>16, TaskSets
     DEF Next, ClientStep, BackgroundStep

\* The background task has its rotation until it has told the subscriber, and
\* what the subscriber reads is not older than the rotation it works on.
LEMMA HandStep ==
    ASSUME TypeOK, DueInv, HandInv, [Next]_vars
    PROVE  HandInv'
<1> DEFINE B == pc[Background] \in {"invalidate", "notify"} => took[Background].type = "Rotated"
           S == pc[Subscriber] = "apply" /\ took[Subscriber].type = "Secret" =>
                    due[took[Subscriber].key] <= took[Subscriber].value
<1> SUFFICES B' /\ S'
  BY DEF HandInv
<1>0. /\ B /\ S
      /\ lines \in Seq(Lines) /\ pc \in [Tasks -> PCs] /\ took \in [Tasks -> Lines]
      /\ Background \in Tasks /\ Subscriber \in Tasks /\ Subscriber # Background
      /\ Clients \subseteq Tasks /\ Background \notin Clients
  BY TaskSets DEF TypeOK, HandInv
<1>1. UNCHANGED <<pc[Background], took[Background]>> => B'
  BY <1>0
<1>2. UNCHANGED <<pc[Subscriber], took[Subscriber], due>> => S'
  BY <1>0
<1>3. ASSUME NEW t \in Tasks, ReadLine(t) PROVE B' /\ S'
  <2>1. /\ lines # <<>> /\ UNCHANGED due
        /\ pc' = [pc EXCEPT ![t] = IF pc[t] = "reading" THEN "apply" ELSE "lock"]
        /\ took' = [took EXCEPT ![t] = IF pc[t] = "reading" THEN Head(lines) ELSE Other]
    BY <1>3 DEF ReadLine, Goto, subVars
  <2>2. Head(lines).type = "Secret" => due[Head(lines).key] <= Head(lines).value
    BY <1>0, <2>1, NotOlderTail DEF DueInv
  <2> QED
    BY <1>0, <1>1, <1>2, <2>1, <2>2, LineTypes
<1>4. ASSUME NEW t \in Clients, \/ \E j \in Keys, m \in Modes : GetSecret(t, j, m)
                                \/ WriteRequest(t) \/ WriteFails(t) \/ Apply(t)
      PROVE  B' /\ S'
  <2>1. /\ pc'[t] # "apply" /\ UNCHANGED due
        /\ \A u \in Tasks \ {t} : pc'[u] = pc[u] /\ took'[u] = took[u]
    BY <1>0, <1>4 DEF GetSecret, WriteRequest, WriteFails, Apply, Finish, Goto, subVars
  <2> QED
    BY <1>0, <1>1, <1>2, <2>1
<1>5. ASSUME NEW t \in Tasks,
             LockInput(t) \/ ReadEof(t) \/ ReadErr(t) \/ TimeoutElapses(t)
      PROVE  B' /\ S'
  <2>1. UNCHANGED <<took, due>>
    BY <1>5 DEF LockInput, ReadEof, ReadErr, TimeoutElapses, subVars
  <2>2. /\ pc'[t] \notin {"apply", "invalidate", "notify"}
        /\ \A u \in Tasks \ {t} : pc'[u] = pc[u]
    BY <1>0, <1>5 DEF LockInput, ReadEof, ReadErr, NoLine, TimeoutElapses, TimesOut, Finish,
                      Goto
  <2> QED
    BY <1>0, <1>1, <1>2, <2>1, <2>2
<1>6. ASSUME ProcessMessage PROVE B' /\ S'
  <2>1. /\ UNCHANGED <<due, pc[Subscriber], took[Subscriber]>>
        /\ \/ took[Background].type = "Rotated" /\ UNCHANGED took
           \/ pc'[Background] = "lock"
    BY <1>0, <1>6 DEF ProcessMessage, Goto, subVars
  <2> QED
    BY <1>2, <2>1
<1>7. ASSUME NEW k \in Keys, Invalidate(k) PROVE B' /\ S'
  <2>1. UNCHANGED <<due, took, pc[Subscriber]>> /\ pc[Background] = "invalidate"
    BY <1>0, <1>7 DEF Invalidate, Goto, subVars
  <2> QED
    BY <1>0, <1>2, <2>1
<1>8. ASSUME Notify PROVE B' /\ S'
  <2>1. /\ UNCHANGED <<due, pc[Subscriber], took[Subscriber]>>
        /\ pc'[Background] \in {"ack_lock", "lock"}
    BY <1>0, <1>8 DEF Notify, Goto
  <2> QED
    BY <1>2, <2>1
<1>9. ASSUME Receive \/ NextKey PROVE B' /\ S'
  <2>1. UNCHANGED <<took, pc[Background]>> /\ pc'[Subscriber] # "apply"
    BY <1>0, <1>9 DEF Receive, NextKey, Goto
  <2> QED
    BY <1>1, <2>1
<1>10. ASSUME \/ Answer \/ SendOther \/ CloseInput \/ UNCHANGED vars
              \/ \E ks \in SUBSET Keys : Rotate(ks)
       PROVE  B' /\ S'
  <2>1. UNCHANGED <<pc, took, due>>
    BY <1>10 DEF Answer, SendOther, CloseInput, Rotate, subVars, vars
  <2> QED
    BY <1>1, <1>2, <2>1
<1> QED
  BY <1>3, <1>4, <1>5, <1>6, <1>7, <1>8, <1>9, <1>10, TaskSets
     DEF Next, ClientStep, BackgroundStep

-----------------------------------------------------------------------------
(* The theorems.                                                           *)

LEMMA Invariance == Spec => []IInv
<1>1. IInv /\ [Next]_vars => IInv'
  BY TypeStep, LineStep, TookStep, StaleStep, DueStep, HandStep DEF IInv
<1> QED
  BY InitOK, <1>1, PTL DEF Spec

\* Every reachable state of the secret client is well typed, for any callers
\* and secrets: at most one task is in the blocking read of the input.
THEOREM TypeCorrect == Spec => []TypeOK
<1>1. IInv => TypeOK
  BY DEF IInv
<1> QED
  BY Invariance, <1>1, PTL

\* get_secret and handle_rotation_notification: an old secret in the cache has
\* its rotation on the way to it, or one of the two causes the property names,
\* for any callers, secrets and order of lines.
THEOREM StaleHasCauseCorrect == Spec => []StaleHasCause
<1>1. IInv => StaleHasCause
  BY DEF IInv
<1> QED
  BY Invariance, <1>1, PTL

\* subscribe_secret_rotations gives on_rotate a value that is not older than
\* the rotation it was told of, whosever answer its ForceRemote call takes.
THEOREM OnRotateIsCurrentCorrect == Spec => OnRotateIsCurrent
<1>1. ASSUME TypeOK, HandInv, Next, NEW k \in Keys, delivered'[k] # delivered[k]
      PROVE  delivered'[k] >= due[k]
  <2>1. PICK t \in Clients : Apply(t)
    BY <1>1 DEF Next, ClientStep, BackgroundStep, GetSecret, WriteRequest, WriteFails,
                LockInput, ReadLine, ReadEof, ReadErr, TimeoutElapses, ProcessMessage,
                Invalidate,
                Notify, Receive, NextKey, Answer, SendOther, CloseInput, Rotate, subVars
  <2>2. /\ t = Subscriber /\ IsAnswer(Subscriber) /\ pc[Subscriber] = "apply"
        /\ delivered' = [delivered EXCEPT ![want[Subscriber]] = took[Subscriber].value]
    BY <1>1, <2>1 DEF Apply
  <2>3. k = want[Subscriber] /\ delivered'[k] = took[Subscriber].value
    BY <1>1, <2>2 DEF TypeOK
  <2>4. due[k] <= took[Subscriber].value
    BY <1>1, <2>2, <2>3 DEF HandInv, IsAnswer
  <2>5. due[k] \in Nat /\ took[Subscriber].value \in Nat
    <3>1. took[Subscriber] \in Lines
      BY <1>1, TaskSets DEF TypeOK
    <3> QED
      BY <1>1, <2>2, <3>1, LineTypes DEF IsAnswer, TypeOK, Versions
  <2> QED
    BY <2>3, <2>4, <2>5
<1>2. IInv /\ [Next]_vars =>
        [\A k \in Keys : delivered'[k] # delivered[k] => delivered'[k] >= due[k]]_vars
  BY <1>1 DEF IInv
<1> QED
  BY Invariance, <1>2, PTL DEF Spec, OnRotateIsCurrent


-----------------------------------------------------------------------------
(* The providers: what the subscriber has, or will be told.                *)

Reloading == reload.pc \in {"clearing", "filling"}

\* What load_secrets will announce, and what it replaces without a word.
ReloadNames(k) == Reloading /\ (reload.was[k] = 0) # (reload.from[k] = 0)
ReloadReplaces(k) ==
    Reloading /\ reload.was[k] # 0 /\ reload.from[k] # 0 /\ reload.was[k] # reload.from[k]

\* An event names k, or will.
InEvents(k) == \E i \in DOMAIN events : k \in events[i]
NamedLater(k) ==
    \/ behind \/ InEvents(k)
    \/ \E t \in Setters : setter[t].pc = "announce" /\ setter[t].key = k
    \/ ReloadNames(k)

\* What a provider has when the reload in progress is over.
Provides(p, k) == IF p = "file" /\ Reloading THEN reload.from[k] ELSE Lookup(p, k)
LackedBefore(k, i) == \A j \in DOMAIN chain : j < i => Provides(chain[j], k) = 0
IsValue(k, v) ==
    \/ v # 0 /\ \E i \in DOMAIN chain : Provides(chain[i], k) = v /\ LackedBefore(k, i)
    \/ v = 0 /\ LackedBefore(k, Len(chain) + 1)

\* Only MemoryProvider is set, and it announces to whoever watches; a reload
\* has cleared the map of some keys when it begins to fill it.
SourceInv ==
    /\ \A t \in Setters : setter[t].pc # "idle" => setter[t].key \in Names /\ InChain("memory")
    /\ sub.on /\ InChain("memory") => watcher
    /\ ~sub.on => sub.todo = {} /\ sub.key = NoOne
    /\ reload.pc = "clearing" =>
        reload.todo = Have(reload.from) /\ \A k \in Names : secrets[k] \in {0, reload.was[k]}

\* A get that goes on has asked providers without the key, unless it will be
\* named, or the get has looked into a reload.
FetchInv == sub.key # NoOne => sub.torn \/ NamedLater(sub.key) \/ LackedBefore(sub.key, sub.at)

\* What the subscriber has is current, or will be fetched, or is stale.
CopyInv ==
    sub.on => \A k \in Names :
        \/ k \in stale \/ k \in sub.todo \/ sub.key = k
        \/ NamedLater(k) \/ ReloadReplaces(k) \/ IsValue(k, copy[k])

ProvidersInv == ProvidersTypeOK /\ SourceInv /\ FetchInv /\ CopyInv

SetterStates == [pc : {"idle", "insert", "announce"}, key : Names \union {NoOne}, val : Values]
SubStates ==
    [on : BOOLEAN, todo : SUBSET Names, key : Names \union {NoOne}, at : 0..Len(chain),
     torn : BOOLEAN]
ReloadStates == [pc : ReloadPCs, from : Maps, was : Maps, todo : SUBSET Names]
USE DEF SetterStates, SubStates, ReloadStates

\* broadcast::Sender::send keeps the type of the channel.
LEMMA AnnounceType ==
    ASSUME ProvidersTypeOK, NEW ks \in SUBSET Names, Announce(ks)
    PROVE  events' \in Seq(SUBSET Names) /\ Len(events') <= Cap /\ behind' \in BOOLEAN
<1>1. events \in Seq(SUBSET Names) /\ Len(events) <= Cap /\ behind \in BOOLEAN
  BY DEF ProvidersTypeOK
<1>2. Cap \in Nat \ {0} /\ Len(events) \in Nat
  BY <1>1, CapAssumption, LenProperties
<1>3. CASE ~sub.on
  BY <1>1, <1>3 DEF Announce, eventVars
<1>4. CASE sub.on /\ Len(events) < Cap
  <2>1. events' = Append(events, ks) /\ behind' = behind
    BY <1>4 DEF Announce
  <2> QED
    BY <1>1, <1>2, <1>4, <2>1, AppendProperties
<1>5. CASE sub.on /\ ~(Len(events) < Cap)
  <2>1. events' = Append(Tail(events), ks) /\ behind' = TRUE
    BY <1>5 DEF Announce
  <2>2. events # <<>>
    BY <1>1, <1>2, <1>5, EmptySeq
  <2>3. Tail(events) \in Seq(SUBSET Names) /\ Len(Tail(events)) = Len(events) - 1
    BY <1>1, <2>2, HeadTailProperties
  <2>4. events' \in Seq(SUBSET Names) /\ Len(events') = Len(events)
    BY <1>2, <2>1, <2>3, AppendProperties
  <2> QED
    BY <1>1, <2>1, <2>4
<1> QED
  BY <1>3, <1>4, <1>5

\* Whatever was named in an event still is, or the subscriber has lagged.
LEMMA AnnounceNames ==
    ASSUME ProvidersTypeOK, NEW ks \in SUBSET Names, Announce(ks), sub.on
    PROVE  behind' \/ (~behind /\ \A k \in Names : InEvents(k) \/ k \in ks => InEvents(k)')
<1> USE CapAssumption DEF ProvidersTypeOK, Announce
<1>1. CASE Len(events) < Cap
  <2>1. events' = Append(events, ks) /\ behind' = behind
    BY <1>1
  <2>2. ASSUME NEW k \in Names, k \in ks PROVE InEvents(k)'
    <3>1. Len(events) + 1 \in DOMAIN events' /\ events'[Len(events) + 1] = ks
      BY <2>1, AppendProperties
    <3> QED
      BY <2>2, <3>1 DEF InEvents
  <2>3. ASSUME NEW k \in Names, InEvents(k) PROVE InEvents(k)'
    <3>1. PICK i \in DOMAIN events : k \in events[i]
      BY <2>3 DEF InEvents
    <3>2. i \in DOMAIN events' /\ events'[i] = events[i]
      BY <2>1, AppendProperties
    <3> QED
      BY <3>1, <3>2 DEF InEvents
  <2> QED
    BY <2>1, <2>2, <2>3
<1>2. CASE ~(Len(events) < Cap)
  BY <1>2
<1> QED
  BY <1>1, <1>2

\* A chain has a provider, each one of three, which knows the keys.
LEMMA ChainFacts ==
    ASSUME ProvidersTypeOK
    PROVE  /\ Len(chain) \in Nat \ {0} /\ DOMAIN chain = 1..Len(chain)
           /\ \A i \in DOMAIN chain : chain[i] \in {"memory", "file", "env"}
           /\ \A i \in DOMAIN chain, k \in Names :
                Lookup(chain[i], k) \in Values \union {EnvValue, EnvError}
<1>1. chain \in Seq({"memory", "file", "env"}) /\ chain # <<>>
  BY ChainsAssumption DEF ProvidersTypeOK
<1>2. /\ Len(chain) \in Nat \ {0} /\ DOMAIN chain = 1..Len(chain)
      /\ \A i \in DOMAIN chain : chain[i] \in {"memory", "file", "env"}
  BY <1>1, EmptySeq, LenProperties
<1>3. /\ \A k \in Names : env[k] \in Values \union {EnvValue, EnvError}
      /\ \A k \in Names : memory[k] \in Values /\ secrets[k] \in Values
  BY EnvsAssumption DEF ProvidersTypeOK, Maps, Values
<1> QED
  BY <1>2, <1>3 DEF Lookup

\* What a fetch of one provider does.
LEMMA AsksType ==
    ASSUME ProvidersTypeOK, NEW k \in Names, NEW i \in DOMAIN chain, NEW b \in BOOLEAN,
           Asks(k, i, b)
    PROVE  /\ sub' \in SubStates
           /\ sub'.key = NoOne <=> sub'.at = 0
           /\ copy' \in [Names -> Values \union {EnvValue, EnvError}]
           /\ stale' \subseteq Names
           /\ sub'.on = sub.on
<1> DEFINE v == Lookup(chain[i], k)
           torn == b \/ FallsThrough(k, i)
<1>1. /\ sub \in SubStates
      /\ copy \in [Names -> Values \union {EnvValue, EnvError}] /\ stale \subseteq Names
  BY DEF ProvidersTypeOK
<1>2. /\ Len(chain) \in Nat \ {0} /\ i \in 1..Len(chain)
      /\ v \in Values \union {EnvValue, EnvError} /\ torn \in BOOLEAN /\ NoOne \notin Names
  BY ChainFacts, NoOneAssumption DEF FallsThrough
<1>3. \/ /\ i < Len(chain)
         /\ sub' = [sub EXCEPT !.key = k, !.at = i + 1, !.todo = @ \ {k}, !.torn = torn]
         /\ copy' = copy /\ stale' = stale
      \/ /\ sub' = [sub EXCEPT !.key = NoOne, !.at = 0, !.todo = @ \ {k}, !.torn = FALSE]
         /\ copy' = [copy EXCEPT ![k] = v]
         /\ stale' = IF torn THEN stale \union {k} ELSE stale \ {k}
  BY DEF Asks
<1> HIDE DEF v, torn
<1>4. CASE /\ i < Len(chain)
           /\ sub' = [sub EXCEPT !.key = k, !.at = i + 1, !.todo = @ \ {k}, !.torn = torn]
           /\ copy' = copy /\ stale' = stale
  <2>1. i + 1 \in 0..Len(chain) /\ i + 1 # 0
    BY <1>2, <1>4
  <2> QED
    BY <1>1, <1>2, <1>4, <2>1
<1>5. CASE /\ sub' = [sub EXCEPT !.key = NoOne, !.at = 0, !.todo = @ \ {k}, !.torn = FALSE]
           /\ copy' = [copy EXCEPT ![k] = v]
           /\ stale' = IF torn THEN stale \union {k} ELSE stale \ {k}
  <2>1. sub' = [on |-> sub.on, todo |-> sub.todo \ {k}, key |-> NoOne, at |-> 0, torn |-> FALSE]
    BY <1>1, <1>5
  <2>3. 0 \in 0..Len(chain)
    BY <1>2
  <2>2. copy' \in [Names -> Values \union {EnvValue, EnvError}]
    BY <1>1, <1>2, <1>5
  <2> QED
    BY <1>1, <1>5, <2>1, <2>2, <2>3
<1> QED
  BY <1>3, <1>4, <1>5


\* Every map and file has its type.
LEMMA ReloadFacts ==
    ASSUME ProvidersTypeOK
    PROVE  /\ reload \in ReloadStates
           /\ secrets \in Maps /\ disk \in Files /\ disk.has \in Maps
           /\ Nothing \in Maps /\ NotReloading \in [pc : {"off"}, from : Maps, was : Maps, todo : {{}}]
BY DEF ProvidersTypeOK, Files, Maps, Values, Nothing, NotReloading

\* Each step keeps the types.
LEMMA ProvidersTypeStep ==
    ProvidersTypeOK /\ SourceInv /\ [ProvidersNext]_providerVars => ProvidersTypeOK'
<1> SUFFICES ASSUME ProvidersTypeOK, SourceInv, [ProvidersNext]_providerVars
             PROVE  ProvidersTypeOK'
  OBVIOUS
<1>0. /\ reload \in ReloadStates
      /\ secrets \in Maps /\ disk \in Files /\ disk.has \in Maps
      /\ Nothing \in Maps /\ NotReloading \in [pc : {"off"}, from : Maps, was : Maps, todo : {{}}]
  BY ReloadFacts
<1>1. CASE UNCHANGED providerVars
  BY <1>1 DEF ProvidersTypeOK, providerVars, fileVars, memoryVars, subscriberVars, eventVars
<1>2. CASE FileBreaks
  <2>1. changes' \in 0..MaxChanges /\ disk' \in Files
    BY <1>0, <1>2, CapAssumption DEF FileBreaks, Changed, ProvidersTypeOK, Files
  <2>2. missed' \in BOOLEAN
    BY <1>2 DEF FileBreaks, FileNotice, Watching
  <2>3. /\ notice' \in {"none", "file", "other"}
        /\ reload.pc \in {"off", "starting"} => notice' = "none"
    BY <1>2 DEF FileBreaks, FileNotice, PutNotice, Watching, ProvidersTypeOK
  <2> QED
    BY <1>2, <2>1, <2>2, <2>3 DEF FileBreaks, Changed, ProvidersTypeOK,
       memoryVars, subscriberVars, eventVars
<1>3. ASSUME Changed, NewContents 
      PROVE  changes' \in 0..MaxChanges /\ disk' \in Files /\ newest' \in 1..MaxValues[chain]
  <2>1. newest \in Nat /\ changes \in Nat /\ MaxValues[chain] \in Nat
    BY CapAssumption DEF ProvidersTypeOK
  <2>2. \A k \in Names : secrets[k] \in Nat
    BY <1>0 DEF Maps, Values
  <2>3. changes' \in 0..MaxChanges /\ newest' \in 1..MaxValues[chain]
    <3>1. newest >= 1 /\ MaxChanges \in Nat
      BY CapAssumption DEF ProvidersTypeOK
    <3>2. newest < MaxValues[chain] /\ newest' = newest + 1
      BY <1>3 DEF NewContents
    <3>3. changes < MaxChanges /\ changes' = changes + 1
      BY <1>3 DEF Changed
    <3> QED
      BY <2>1, <3>1, <3>2, <3>3
  <2> QED
    BY <1>3, <2>1, <2>2, <2>3 DEF NewContents, Files, Maps, Values
<1>4. CASE FileWritten
  BY <1>3, <1>4 DEF FileWritten, Changed, FileNotice, PutNotice, Watching, ProvidersTypeOK,
     memoryVars, subscriberVars, eventVars
<1>5. CASE FileReplaced
  BY <1>3, <1>5 DEF FileReplaced, Changed, ProvidersTypeOK, memoryVars, subscriberVars, eventVars
<1>6. CASE OtherFileChanges
  BY <1>6 DEF OtherFileChanges, PutNotice, Watching, ProvidersTypeOK, memoryVars, subscriberVars,
     eventVars
<1>7. CASE StartsWatching
  BY <1>0, <1>7 DEF StartsWatching, Loads, ProvidersTypeOK, ReloadPCs, memoryVars, subscriberVars,
     eventVars
<1>8. CASE TakesNotice
  BY <1>0, <1>8 DEF TakesNotice, Loads, ProvidersTypeOK, ReloadPCs, memoryVars, subscriberVars,
     eventVars
<1>9. CASE Reads
  <2>1. Have(disk.has) \in SUBSET Names
    BY DEF Have
  <2>2. reload' \in ReloadStates
    BY <1>0, <1>9, <2>1 DEF Reads, ReloadPCs
  <2> QED
    BY <1>9, <2>2 DEF Reads, Loads, ProvidersTypeOK, memoryVars, subscriberVars, eventVars
<1>10. CASE ReadFails
  BY <1>0, <1>10 DEF ReadFails, Loads, ProvidersTypeOK, ReloadPCs, memoryVars, subscriberVars,
     eventVars
<1>11. CASE Clears
  <2>1. CASE Have(secrets) = {}
    <3>1. reload' = [reload EXCEPT !.pc = "filling"] /\ secrets' = secrets /\ reload.pc = "clearing"
      BY <1>11, <2>1 DEF Clears
    <3>2. reload.todo = Have(reload.from)
      BY <3>1 DEF SourceInv
    <3>3. \A k \in Names : secrets[k] = 0
      BY <2>1 DEF Have
    <3>4. secrets' = [k \in Names |-> IF k \in reload'.todo THEN 0 ELSE reload'.from[k]]
      BY <1>0, <3>1, <3>2, <3>3 DEF Maps, Have
    <3> QED
      BY <1>0, <1>11, <3>1, <3>4 DEF Clears, Loads, ProvidersTypeOK, ReloadPCs, memoryVars,
         subscriberVars, eventVars
  <2>2. CASE Have(secrets) # {}
    <3>1. secrets' \in Maps
      BY <1>0, <1>11, <2>2 DEF Clears, Without, Maps, Values
    <3> QED
      BY <1>11, <2>2, <3>1 DEF Clears, Loads, ProvidersTypeOK, memoryVars, subscriberVars, eventVars
  <2> QED
    BY <2>1, <2>2
<1>12. CASE Inserts
  <2>1. PICK k \in reload.todo : /\ secrets' = [secrets EXCEPT ![k] = reload.from[k]]
                                 /\ reload' = [reload EXCEPT !.todo = @ \ {k}]
    BY <1>12 DEF Inserts
  <2>2. /\ reload.pc = "filling" /\ reload.todo \subseteq Names
        /\ secrets = [n \in Names |-> IF n \in reload.todo THEN 0 ELSE reload.from[n]]
    BY <1>0, <1>12 DEF Inserts, ProvidersTypeOK
  <2>3. reload' = [pc |-> "filling", from |-> reload.from, was |-> reload.was,
                   todo |-> reload.todo \ {k}]
    BY <1>0, <2>1, <2>2
  <2>4. secrets' = [n \in Names |-> IF n \in reload'.todo THEN 0 ELSE reload'.from[n]]
    BY <2>1, <2>2, <2>3
  <2>5. secrets' \in Maps
    BY <1>0, <2>3, <2>4 DEF Maps, Values
  <2> QED
    BY <1>0, <1>12, <2>3, <2>4, <2>5 DEF Inserts, Loads, ProvidersTypeOK, memoryVars,
       subscriberVars, eventVars
<1>13. CASE Reloaded
  <2>1. events' \in Seq(SUBSET Names) /\ Len(events') <= Cap /\ behind' \in BOOLEAN
    <3>1. ChangedKeys(secrets) \in SUBSET Names
      BY DEF ChangedKeys, Have
    <3> QED
      BY <1>13, <3>1, AnnounceType DEF Reloaded, ProvidersTypeOK, eventVars
  <2>2. /\ reload' \in ReloadStates
        /\ reload'.pc = "waiting" /\ reload'.todo = {}
    BY <1>0, <1>13 DEF Reloaded, ReloadPCs, NotReloading
  <2>3. stale' \subseteq Names
    BY <1>13 DEF Reloaded, ProvidersTypeOK, Have
  <2> QED
    BY <1>13, <2>1, <2>2, <2>3 DEF Reloaded, Loads, ProvidersTypeOK, memoryVars, subscriberVars
<1>14. CASE Watch
  <2>1. /\ sub' \in SubStates
        /\ sub'.key = NoOne /\ sub'.at = 0
    <3>1. 0 \in 0..Len(chain)
      BY ChainFacts
    <3> QED
      BY <1>14, <3>1 DEF Watch
  <2>2. watcher' \in BOOLEAN
    BY <1>14 DEF Watch, InChain
  <2>3. reload' = reload \/ (reload.pc = "off" /\ reload' = [reload EXCEPT !.pc = "starting"])
    BY <1>14 DEF Watch
  <2> QED
    BY <1>0, <1>14, <2>1, <2>2, <2>3 DEF Watch, ProvidersTypeOK, ReloadPCs, eventVars
<1>15. ASSUME NEW t \in Setters, BeginSet(t) PROVE ProvidersTypeOK'
  <2>1. newest \in Nat /\ MaxValues[chain] \in Nat
    BY CapAssumption DEF ProvidersTypeOK
  <2>2. newest' \in 1..MaxValues[chain]
    BY <1>15, <2>1 DEF BeginSet, ProvidersTypeOK
  <2>3. setter' \in [Setters -> SetterStates]
    BY <1>15, <2>2 DEF BeginSet, ProvidersTypeOK, Values
  <2> QED
    BY <1>15, <2>2, <2>3 DEF BeginSet, ProvidersTypeOK, fileVars, subscriberVars, eventVars
<1>16. ASSUME NEW t \in Setters, SetInserts(t) PROVE ProvidersTypeOK'
  <2>1. setter \in [Setters -> SetterStates]
    BY DEF ProvidersTypeOK
  <2>2. setter' \in [Setters -> SetterStates]
    BY <1>16, <2>1 DEF SetInserts
  <2>3. memory' \in Maps
    <3>1. memory \in Maps
      BY DEF ProvidersTypeOK
    <3> QED
      BY <1>16, <2>1, <3>1 DEF SetInserts, Maps
  <2> QED
    BY <1>16, <2>2, <2>3 DEF SetInserts, ProvidersTypeOK, fileVars, subscriberVars, eventVars
<1>17. ASSUME NEW t \in Setters, SetAnnounces(t) PROVE ProvidersTypeOK'
  <2>1. setter \in [Setters -> SetterStates]
    BY DEF ProvidersTypeOK
  <2>2. setter' \in [Setters -> SetterStates]
    BY <1>17, <2>1 DEF SetAnnounces, Values
  <2>3. setter[t].key \in Names
    BY <1>17 DEF SetAnnounces, SourceInv
  <2>4. events' \in Seq(SUBSET Names) /\ Len(events') <= Cap /\ behind' \in BOOLEAN
    BY <1>17, <2>3, AnnounceType DEF SetAnnounces, ProvidersTypeOK, eventVars
  <2> QED
    BY <1>17, <2>2, <2>4 DEF SetAnnounces, ProvidersTypeOK, fileVars, subscriberVars
<1>18. CASE TakesEvent
  <2>1. sub \in SubStates
        /\ events \in Seq(SUBSET Names) /\ Len(events) <= Cap
    BY DEF ProvidersTypeOK
  <2>2. /\ events' \in Seq(SUBSET Names) /\ Len(events') <= Cap
        /\ \E ks \in SUBSET Names : sub' = [sub EXCEPT !.todo = ks]
    <3>1. CASE behind
      BY <1>18, <2>1, <3>1 DEF TakesEvent
    <3>2. CASE ~behind
      <4>1. /\ events # <<>> /\ sub' = [sub EXCEPT !.todo = Head(events)]
            /\ events' = Tail(events)
        BY <1>18, <3>2 DEF TakesEvent
      <4>2. /\ Head(events) \in SUBSET Names /\ Tail(events) \in Seq(SUBSET Names)
            /\ Len(Tail(events)) = Len(events) - 1
        BY <2>1, <4>1, HeadTailProperties
      <4>3. Len(events) \in Nat /\ Cap \in Nat
        BY <2>1, CapAssumption, LenProperties
      <4>4. Len(events') <= Cap
        BY <2>1, <4>1, <4>2, <4>3
      <4> QED
        BY <4>1, <4>2, <4>4
    <3> QED
      BY <3>1, <3>2
  <2>3. PICK ks \in SUBSET Names : sub' = [sub EXCEPT !.todo = ks]
    BY <2>2
  <2>4. /\ sub' \in SubStates
        /\ sub'.key = sub.key /\ sub'.at = sub.at
    BY <2>1, <2>3
  <2>5. behind' = FALSE /\ copy' = copy /\ stale' = stale /\ Fetched
    BY <1>18 DEF TakesEvent
  <2> QED
    BY <2>2, <2>4, <2>5 DEF Fetched, ProvidersTypeOK, fileVars, memoryVars
<1>19. ASSUME NEW k \in Names, NEW i \in DOMAIN chain, NEW b \in BOOLEAN, Asks(k, i, b)
       PROVE  ProvidersTypeOK'
  <2>1. Fetched /\ UNCHANGED eventVars
    BY <1>19 DEF Asks
  <2> QED
    BY <1>19, <2>1, AsksType DEF Fetched, ProvidersTypeOK, fileVars, memoryVars, eventVars
<1>20. CASE Get
  <2>1. PICK k \in sub.todo : Asks(k, 1, FALSE)
    BY <1>20 DEF Get
  <2>2. k \in Names /\ 1 \in DOMAIN chain
    BY ChainFacts DEF ProvidersTypeOK
  <2> QED
    BY <1>19, <2>1, <2>2
<1>21. CASE GetNext
  <2>1. sub.key \in Names /\ sub.at \in DOMAIN chain /\ sub.torn \in BOOLEAN
    BY <1>21, ChainFacts DEF GetNext, ProvidersTypeOK
  <2> QED
    BY <1>19, <1>21, <2>1 DEF GetNext
<1> QED
  BY <1>1, <1>2, <1>4, <1>5, <1>6, <1>7, <1>8, <1>9, <1>10, <1>11, <1>12, <1>13, <1>14, <1>15,
     <1>16, <1>17, <1>18, <1>20, <1>21 DEF ProvidersNext, ReloadStep


\* Each step keeps what holds of the sources.
LEMMA SourceStep == ProvidersTypeOK /\ SourceInv /\ [ProvidersNext]_providerVars => SourceInv'
<1> SUFFICES ASSUME ProvidersTypeOK, SourceInv, [ProvidersNext]_providerVars
             PROVE  SourceInv'
  OBVIOUS
<1> DEFINE Sources ==
             /\ \A t \in Setters : setter[t].pc # "idle" => setter[t].key \in Names /\ InChain("memory")
             /\ sub.on /\ InChain("memory") => watcher
             /\ ~sub.on => sub.todo = {} /\ sub.key = NoOne
           Cleared ==
             reload.pc = "clearing" =>
                reload.todo = Have(reload.from) /\ \A k \in Names : secrets[k] \in {0, reload.was[k]}
<1>0. /\ Sources /\ Cleared /\ (Sources' /\ Cleared' => SourceInv')
      /\ setter \in [Setters -> SetterStates]
      /\ sub \in SubStates
      /\ reload \in ReloadStates
      /\ secrets \in Maps
  BY DEF SourceInv, ProvidersTypeOK
<1>1. ASSUME UNCHANGED <<chain, memoryVars, sub>> PROVE Sources'
  BY <1>0, <1>1 DEF memoryVars, InChain
<1>2. ASSUME UNCHANGED <<reload, secrets>> PROVE Cleared'
  BY <1>0, <1>2 DEF Have
<1> HIDE DEF Sources, Cleared
<1>3. CASE UNCHANGED providerVars
  BY <1>0, <1>1, <1>2, <1>3 DEF providerVars, fileVars, subscriberVars
<1>4. CASE FileBreaks \/ FileWritten \/ FileReplaced \/ OtherFileChanges
  BY <1>0, <1>1, <1>2, <1>4 DEF FileBreaks, FileWritten, FileReplaced, OtherFileChanges, Changed,
     subscriberVars
<1>5. CASE ReloadStep
  <2>1. Sources'
    BY <1>1, <1>5 DEF ReloadStep, StartsWatching, TakesNotice, Reads, ReadFails, Clears, Inserts,
       Reloaded, Loads, subscriberVars
  <2>2. CASE Reads
    BY <1>0, <2>1, <2>2 DEF Reads, Cleared, Have
  <2>3. CASE Clears
    <3>1. CASE Have(secrets) = {}
      <4>1. reload'.pc = "filling"
        BY <1>0, <2>3, <3>1 DEF Clears
      <4> QED
        BY <1>0, <2>1, <4>1 DEF Cleared
    <3>2. CASE Have(secrets) # {}
      <4>1. PICK k \in Have(secrets) : secrets' = Without(secrets, k)
        BY <2>3, <3>2 DEF Clears
      <4>2. reload' = reload
        BY <2>3, <3>2 DEF Clears
      <4>3. \A n \in Names : secrets'[n] \in {0, secrets[n]}
        BY <1>0, <4>1 DEF Without, Maps
      <4> QED
        BY <1>0, <2>1, <4>2, <4>3 DEF Cleared, Have
    <3> QED
      BY <3>1, <3>2
  <2>4. CASE StartsWatching \/ TakesNotice \/ ReadFails \/ Inserts \/ Reloaded
    <3>1. reload'.pc # "clearing"
      BY <1>0, <2>4 DEF StartsWatching, TakesNotice, ReadFails, Inserts, Reloaded, NotReloading
    <3> QED
      BY <1>0, <2>1, <3>1 DEF Cleared
  <2> QED
    BY <1>5, <2>2, <2>3, <2>4 DEF ReloadStep
<1>6. CASE Watch
  <2>1. Sources'
    BY <1>0, <1>6 DEF Watch, Sources, InChain
  <2>2. Cleared'
    BY <1>0, <1>6 DEF Watch, Cleared, Have
  <2> QED
    BY <1>0, <2>1, <2>2
<1>7. ASSUME NEW t \in Setters, BeginSet(t) \/ SetInserts(t) \/ SetAnnounces(t) PROVE SourceInv'
  <2>1. Cleared'
    BY <1>2, <1>7 DEF BeginSet, SetInserts, SetAnnounces, fileVars
  <2>2. chain' = chain /\ watcher' = watcher /\ sub' = sub
    BY <1>7 DEF BeginSet, SetInserts, SetAnnounces, subscriberVars
  <2>3. \A u \in Setters : setter'[u].pc # "idle" => setter'[u].key \in Names /\ InChain("memory")
    <3>1. CASE BeginSet(t)
      BY <1>0, <3>1 DEF BeginSet, Sources
    <3>2. CASE SetInserts(t)
      BY <1>0, <3>2 DEF SetInserts, Sources
    <3>3. CASE SetAnnounces(t)
      BY <1>0, <3>3 DEF SetAnnounces, Sources
    <3> QED
      BY <1>7, <3>1, <3>2, <3>3
  <2> QED
    BY <1>0, <2>1, <2>2, <2>3 DEF Sources, InChain
<1>8. CASE TakesEvent \/ Get \/ GetNext
  <2>1. UNCHANGED <<chain, memoryVars, reload, secrets>> /\ sub.on
    BY <1>0, <1>8 DEF TakesEvent, Get, GetNext, Asks, Fetched, fileVars, Sources
  <2>2. sub'.on = sub.on
    BY <1>0, <1>8 DEF TakesEvent, Get, GetNext, Asks
  <2> QED
    BY <1>0, <1>2, <2>1, <2>2 DEF Sources, memoryVars, InChain
<1> QED
  BY <1>3, <1>4, <1>5, <1>6, <1>7, <1>8 DEF ProvidersNext

\* The keys of a map that has been filled are the keys of the file.
LEMMA FilledMap ==
    ASSUME ProvidersTypeOK, reload.pc = "filling", reload.todo = {}
    PROVE  /\ \A k \in Names : secrets[k] = reload.from[k]
           /\ \A k \in Names : k \in ChangedKeys(secrets) <=> ReloadNames(k)
           /\ ChangedKeys(secrets) \in SUBSET Names
<1>1. \A k \in Names : secrets[k] = reload.from[k]
  BY DEF ProvidersTypeOK
<1> QED
  BY <1>1 DEF ChangedKeys, ReloadNames, Reloading, Have

\* The steps of others than the subscriber.
SourceNext ==
    \/ FileBreaks \/ FileWritten \/ FileReplaced \/ OtherFileChanges \/ ReloadStep
    \/ \E t \in Setters : BeginSet(t) \/ SetInserts(t) \/ SetAnnounces(t)

\* They leave what the subscriber is doing alone, and who is named, or is
\* stale, stays so.
LEMMA NamedStep ==
    ASSUME ProvidersTypeOK, SourceInv, sub.on, SourceNext \/ UNCHANGED providerVars,
           NEW k \in Names
    PROVE  /\ UNCHANGED <<chain, sub, copy>>
           /\ k \in stale => k \in stale'
           /\ NamedLater(k) => NamedLater(k)'
           /\ ReloadReplaces(k) => ReloadReplaces(k)' \/ k \in stale'
<1>0. /\ reload \in ReloadStates
      /\ setter \in [Setters -> SetterStates]
  BY DEF ProvidersTypeOK
<1>1. UNCHANGED <<chain, sub, copy>>
  BY DEF SourceNext, FileBreaks, FileWritten, FileReplaced, OtherFileChanges, Changed, ReloadStep,
     StartsWatching, TakesNotice, Reads, ReadFails, Clears, Inserts, Reloaded, Loads,
     BeginSet, SetInserts, SetAnnounces, providerVars, subscriberVars
<1>2. ASSUME UNCHANGED <<events, behind, setter, stale>>,
             Reloading => Reloading' /\ reload'.from = reload.from /\ reload'.was = reload.was
      PROVE  /\ k \in stale => k \in stale'
             /\ NamedLater(k) => NamedLater(k)'
             /\ ReloadReplaces(k) => ReloadReplaces(k)' \/ k \in stale'
  BY <1>2 DEF NamedLater, InEvents, ReloadNames, ReloadReplaces
<1>3. CASE UNCHANGED providerVars
  BY <1>1, <1>2, <1>3 DEF providerVars, fileVars, eventVars, memoryVars, Reloading
<1>4. CASE FileBreaks \/ FileWritten \/ FileReplaced \/ OtherFileChanges
  <2>1. UNCHANGED <<events, behind, setter, stale, reload>>
    BY <1>4 DEF FileBreaks, FileWritten, FileReplaced, OtherFileChanges, Changed, eventVars, memoryVars
  <2> QED
    BY <1>1, <1>2, <2>1 DEF Reloading
<1>5. CASE StartsWatching \/ TakesNotice \/ Reads \/ ReadFails
  <2>1. UNCHANGED <<events, behind, setter, stale>> /\ ~Reloading
    BY <1>5 DEF StartsWatching, TakesNotice, Reads, ReadFails, Loads, eventVars, memoryVars, Reloading
  <2> QED
    BY <1>1, <1>2, <2>1
<1>6. CASE Clears \/ Inserts
  <2>1. UNCHANGED <<events, behind, setter, stale>>
    BY <1>6 DEF Clears, Inserts, Loads, eventVars, memoryVars
  <2>2. reload'.pc \in {"clearing", "filling"} /\ reload'.from = reload.from /\ reload'.was = reload.was
    BY <1>0, <1>6 DEF Clears, Inserts
  <2> QED
    BY <1>1, <1>2, <2>1, <2>2 DEF Reloading
<1>7. CASE Reloaded
  <2>1. /\ \A n \in Names : secrets[n] = reload.from[n]
        /\ \A n \in Names : n \in ChangedKeys(secrets) <=> ReloadNames(n)
        /\ ChangedKeys(secrets) \in SUBSET Names
    BY <1>7, FilledMap DEF Reloaded
  <2>2. setter' = setter
    BY <1>7 DEF Reloaded, Loads, memoryVars
  <2>3. k \in stale \/ ReloadReplaces(k) => k \in stale'
    BY <1>7, <2>1 DEF Reloaded, ReloadReplaces, Have
  <2>4. behind' \/ (~behind /\ (InEvents(k) \/ ReloadNames(k) => InEvents(k)'))
    <3>1. CASE ChangedKeys(secrets) # {}
      BY <1>7, <2>1, <3>1, AnnounceNames DEF Reloaded
    <3>2. CASE ChangedKeys(secrets) = {}
      BY <1>7, <2>1, <3>2 DEF Reloaded, eventVars, InEvents
    <3> QED
      BY <3>1, <3>2
  <2> QED
    BY <1>1, <2>2, <2>3, <2>4 DEF NamedLater
<1>8. ASSUME NEW t \in Setters, BeginSet(t) \/ SetInserts(t)
      PROVE  /\ k \in stale => k \in stale'
             /\ NamedLater(k) => NamedLater(k)'
             /\ ReloadReplaces(k) => ReloadReplaces(k)' \/ k \in stale'
  <2>1. UNCHANGED <<events, behind, stale, reload>>
    BY <1>8 DEF BeginSet, SetInserts, eventVars, fileVars
  <2>2. ASSUME NEW u \in Setters, setter[u].pc = "announce"
        PROVE  setter'[u] = setter[u]
    BY <1>0, <1>8, <2>2 DEF BeginSet, SetInserts
  <2> QED
    BY <2>1, <2>2 DEF NamedLater, InEvents, ReloadNames, ReloadReplaces, Reloading
<1>9. ASSUME NEW t \in Setters, SetAnnounces(t)
      PROVE  /\ k \in stale => k \in stale'
             /\ NamedLater(k) => NamedLater(k)'
             /\ ReloadReplaces(k) => ReloadReplaces(k)' \/ k \in stale'
  <2>1. UNCHANGED <<stale, reload>>
    BY <1>9 DEF SetAnnounces, fileVars
  <2>2. watcher /\ setter[t].key \in Names
    BY <1>9 DEF SetAnnounces, SourceInv
  <2>3. behind' \/ (~behind /\ (InEvents(k) \/ k = setter[t].key => InEvents(k)'))
    BY <1>9, <2>2, AnnounceNames DEF SetAnnounces
  <2>4. ASSUME NEW u \in Setters, setter[u].pc = "announce", setter[u].key = k
        PROVE  k = setter[t].key \/ setter'[u] = setter[u]
    BY <1>0, <1>9, <2>4 DEF SetAnnounces
  <2> QED
    BY <2>1, <2>3, <2>4 DEF NamedLater, ReloadNames, ReloadReplaces, Reloading
<1> QED
  BY <1>1, <1>3, <1>4, <1>5, <1>6, <1>7, <1>8, <1>9 DEF SourceNext, ReloadStep


\* What a provider has, at the end of the reload, changes only for keys that
\* will be named or are replaced.
LEMMA ProvidesStep ==
    ASSUME ProvidersTypeOK, SourceInv, sub.on, SourceNext \/ UNCHANGED providerVars,
           NEW k \in Names
    PROVE  \/ NamedLater(k)'
           \/ \A i \in DOMAIN chain : Provides(chain[i], k)' = Provides(chain[i], k)
           \/ /\ ReloadReplaces(k)'
              /\ \A i \in DOMAIN chain : Provides(chain[i], k)' = 0 <=> Provides(chain[i], k) = 0
<1>0. /\ reload \in ReloadStates
      /\ secrets \in Maps
      /\ setter \in [Setters -> SetterStates]
  BY DEF ProvidersTypeOK
<1>1. UNCHANGED <<chain, env>>
  BY DEF SourceNext, FileBreaks, FileWritten, FileReplaced, OtherFileChanges, Changed, ReloadStep,
     StartsWatching, TakesNotice, Reads, ReadFails, Clears, Inserts, Reloaded, Loads,
     BeginSet, SetInserts, SetAnnounces, providerVars, subscriberVars
<1>2. ASSUME memory' = memory,
             \/ Reloading /\ Reloading' /\ reload'.from = reload.from
             \/ ~Reloading /\ ~Reloading' /\ secrets' = secrets
             \/ Reloading /\ ~Reloading' /\ secrets'[k] = reload.from[k]
      PROVE  \A i \in DOMAIN chain : Provides(chain[i], k)' = Provides(chain[i], k)
  BY <1>1, <1>2, ChainFacts DEF Provides, Lookup
<1>3. CASE UNCHANGED providerVars
  BY <1>2, <1>3 DEF providerVars, fileVars, memoryVars, Reloading
<1>4. CASE FileBreaks \/ FileWritten \/ FileReplaced \/ OtherFileChanges
  <2>1. UNCHANGED <<memory, reload, secrets>>
    BY <1>4 DEF FileBreaks, FileWritten, FileReplaced, OtherFileChanges, Changed, memoryVars
  <2> QED
    BY <1>2, <2>1 DEF Reloading
<1>5. CASE StartsWatching \/ TakesNotice \/ ReadFails
  <2>1. memory' = memory /\ ~Reloading /\ secrets' = secrets
    BY <1>5 DEF StartsWatching, TakesNotice, ReadFails, Loads, memoryVars, Reloading
  <2>2. ~Reloading'
    BY <1>0, <1>5 DEF StartsWatching, TakesNotice, ReadFails, Reloading
  <2> QED
    BY <1>2, <2>1, <2>2
<1>6. CASE Reads
  <2>1. /\ Reloading' /\ ~Reloading /\ reload'.from = disk.has /\ reload'.was = secrets
        /\ memory' = memory /\ secrets' = secrets
    BY <1>6 DEF Reads, Reloading, Loads, memoryVars
  <2>2. CASE secrets[k] = disk.has[k]
    BY <1>1, <2>1, <2>2, ChainFacts DEF Provides, Lookup
  <2>3. CASE (secrets[k] = 0) # (disk.has[k] = 0)
    BY <2>1, <2>3 DEF NamedLater, ReloadNames
  <2>4. CASE secrets[k] # 0 /\ disk.has[k] # 0 /\ secrets[k] # disk.has[k]
    <3>1. ReloadReplaces(k)'
      BY <2>1, <2>4 DEF ReloadReplaces
    <3>2. \A i \in DOMAIN chain : Provides(chain[i], k)' = 0 <=> Provides(chain[i], k) = 0
      BY <1>1, <2>1, <2>4, ChainFacts DEF Provides, Lookup
    <3> QED
      BY <3>1, <3>2
  <2> QED
    BY <2>2, <2>3, <2>4
<1>7. CASE Clears \/ Inserts
  <2>1. memory' = memory
    BY <1>7 DEF Clears, Inserts, Loads, memoryVars
  <2>2. Reloading /\ Reloading' /\ reload'.from = reload.from
    BY <1>0, <1>7 DEF Clears, Inserts, Reloading
  <2> QED
    BY <1>2, <2>1, <2>2
<1>8. CASE Reloaded
  <2>1. memory' = memory /\ secrets' = secrets /\ Reloading /\ ~Reloading'
    BY <1>8 DEF Reloaded, Loads, memoryVars, Reloading, NotReloading
  <2>2. secrets[k] = reload.from[k]
    BY <1>8, FilledMap DEF Reloaded
  <2> QED
    BY <1>2, <2>1, <2>2
<1>9. ASSUME NEW t \in Setters, BeginSet(t) \/ SetAnnounces(t)
      PROVE  \A i \in DOMAIN chain : Provides(chain[i], k)' = Provides(chain[i], k)
  <2>1. UNCHANGED <<memory, reload, secrets>>
    BY <1>9 DEF BeginSet, SetAnnounces, fileVars
  <2> QED
    BY <1>2, <2>1 DEF Reloading
<1>10. ASSUME NEW t \in Setters, SetInserts(t)
       PROVE  \/ NamedLater(k)'
              \/ \A i \in DOMAIN chain : Provides(chain[i], k)' = Provides(chain[i], k)
  <2>1. UNCHANGED <<reload, secrets>> /\ memory' = [memory EXCEPT ![setter[t].key] = setter[t].val]
    BY <1>10 DEF SetInserts, fileVars
  <2>2. CASE setter[t].key = k
    <3>1. setter'[t].pc = "announce" /\ setter'[t].key = k
      BY <1>0, <1>10, <2>2 DEF SetInserts
    <3> QED
      BY <3>1 DEF NamedLater
  <2>3. CASE setter[t].key # k
    <3>1. memory'[k] = memory[k]
      BY <2>1, <2>3 DEF ProvidersTypeOK, Maps
    <3> QED
      BY <1>1, <2>1, <3>1, ChainFacts DEF Provides, Lookup, Reloading
  <2> QED
    BY <2>2, <2>3
<1> QED
  BY <1>3, <1>4, <1>5, <1>6, <1>7, <1>8, <1>9, <1>10 DEF SourceNext, ReloadStep

\* A get that asks one provider: nothing moves but the subscriber, and either
\* it goes on, or it has the value that the chain gives.
LEMMA AskStep ==
    ASSUME ProvidersTypeOK, SourceInv, NEW k \in Names, NEW i \in DOMAIN chain, NEW b \in BOOLEAN,
           Asks(k, i, b), b \/ NamedLater(k) \/ LackedBefore(k, i)
    PROVE  /\ UNCHANGED <<chain, events, behind, setter, reload>>
           /\ \A j \in DOMAIN chain, n \in Names : Provides(chain[j], n)' = Provides(chain[j], n)
           /\ \/ /\ sub'.key = k /\ sub'.at = i + 1 /\ sub'.todo = sub.todo \ {k}
                 /\ copy' = copy /\ stale' = stale
                 /\ sub'.torn \/ NamedLater(k) \/ LackedBefore(k, i + 1)
              \/ /\ sub'.key = NoOne /\ sub'.todo = sub.todo \ {k}
                 /\ \A n \in Names : n # k => copy'[n] = copy[n] /\ (n \in stale' <=> n \in stale)
                 /\ k \in stale' \/ NamedLater(k) \/ ReloadReplaces(k) \/ IsValue(k, copy'[k])
<1> DEFINE v == Lookup(chain[i], k)
           torn == b \/ FallsThrough(k, i)
<1>1. /\ UNCHANGED <<chain, env, memory, secrets, events, behind, setter, reload>>
      /\ \A j \in DOMAIN chain, n \in Names : Provides(chain[j], n)' = Provides(chain[j], n)
  <2>1. UNCHANGED <<chain, env, memory, secrets, events, behind, setter, reload>>
    BY DEF Asks, Fetched, fileVars, memoryVars, eventVars
  <2> QED
    BY <2>1, ChainFacts DEF Provides, Lookup, Reloading
<1>2. /\ Len(chain) \in Nat \ {0} /\ DOMAIN chain = 1..Len(chain) /\ i \in 1..Len(chain)
      /\ chain[i] \in {"memory", "file", "env"}
  BY ChainFacts
<1>3. /\ sub \in SubStates
      /\ copy \in [Names -> Values \union {EnvValue, EnvError}]
      /\ reload \in ReloadStates
      /\ secrets \in Maps
  BY DEF ProvidersTypeOK
\* The map without the key, and the file without it.
<1>4. torn \/ NamedLater(k) \/ ReloadReplaces(k) \/ Provides(chain[i], k) = v
  <2>1. CASE chain[i] = "file" /\ Reloading
    <3>1. Provides(chain[i], k) = reload.from[k] /\ v = secrets[k]
      BY <2>1 DEF Provides, Lookup
    <3>2. CASE reload.was[k] # 0 /\ reload.from[k] # 0
      BY <2>1, <3>1, <3>2 DEF FallsThrough, Reloading, Have
    <3>3. CASE (reload.was[k] = 0) # (reload.from[k] = 0)
      BY <2>1, <3>3 DEF NamedLater, ReloadNames
    <3>4. CASE reload.was[k] = 0 /\ reload.from[k] = 0
      BY <2>1, <3>1, <3>4 DEF SourceInv, ProvidersTypeOK, Reloading
    <3> QED
      BY <3>2, <3>3, <3>4
  <2>2. CASE ~(chain[i] = "file" /\ Reloading)
    BY <2>2 DEF Provides
  <2> QED
    BY <2>1, <2>2
<1>5. ASSUME v = 0 PROVE torn \/ NamedLater(k) \/ LackedBefore(k, i + 1)
  <2>1. torn \/ NamedLater(k) \/ Provides(chain[i], k) = 0
    <3>1. CASE chain[i] = "file" /\ Reloading /\ reload.was[k] # 0 /\ reload.from[k] # 0
      BY <1>5, <3>1 DEF FallsThrough, Reloading, Have, Lookup
    <3>2. CASE ~(chain[i] = "file" /\ Reloading /\ reload.was[k] # 0 /\ reload.from[k] # 0)
      BY <1>4, <1>5, <3>2 DEF ReloadReplaces, Provides, NamedLater, ReloadNames
    <3> QED
      BY <3>1, <3>2
  <2>2. LackedBefore(k, i) /\ Provides(chain[i], k) = 0 => LackedBefore(k, i + 1)
    BY <1>2 DEF LackedBefore
  <2> QED
    BY <2>1, <2>2
<1>6. \/ /\ i < Len(chain) /\ v = 0
         /\ sub' = [sub EXCEPT !.key = k, !.at = i + 1, !.todo = @ \ {k}, !.torn = torn]
         /\ copy' = copy /\ stale' = stale
      \/ /\ ~(v = 0 /\ i < Len(chain))
         /\ sub' = [sub EXCEPT !.key = NoOne, !.at = 0, !.todo = @ \ {k}, !.torn = FALSE]
         /\ copy' = [copy EXCEPT ![k] = v]
         /\ stale' = IF torn THEN stale \union {k} ELSE stale \ {k}
  BY DEF Asks
<1>7. torn \/ NamedLater(k) \/ LackedBefore(k, i)
  OBVIOUS
<1> HIDE DEF v, torn
<1>8. CASE /\ i < Len(chain) /\ v = 0
           /\ sub' = [sub EXCEPT !.key = k, !.at = i + 1, !.todo = @ \ {k}, !.torn = torn]
           /\ copy' = copy /\ stale' = stale
  BY <1>1, <1>3, <1>5, <1>8
<1>9. CASE /\ ~(v = 0 /\ i < Len(chain))
           /\ sub' = [sub EXCEPT !.key = NoOne, !.at = 0, !.todo = @ \ {k}, !.torn = FALSE]
           /\ copy' = [copy EXCEPT ![k] = v]
           /\ stale' = IF torn THEN stale \union {k} ELSE stale \ {k}
  <2>1. copy'[k] = v /\ \A n \in Names : n # k => copy'[n] = copy[n] /\ (n \in stale' <=> n \in stale)
    BY <1>3, <1>9
  <2>2. sub'.key = NoOne /\ sub'.todo = sub.todo \ {k}
    BY <1>3, <1>9
  <2>3. torn => k \in stale'
    BY <1>9
  <2>4. torn \/ NamedLater(k) \/ ReloadReplaces(k) \/ IsValue(k, v)
    <3>1. CASE v = 0
      <4>1. i = Len(chain)
        BY <1>2, <1>9, <3>1
      <4> QED
        BY <1>5, <3>1, <4>1 DEF IsValue
    <3>2. CASE v # 0
      BY <1>4, <1>7, <3>2 DEF IsValue
    <3> QED
      BY <3>1, <3>2
  <2> QED
    BY <1>1, <2>1, <2>2, <2>3, <2>4
<1> QED
  BY <1>6, <1>8, <1>9


\* What the providers start with.
LEMMA ProvidersInitOK == ProvidersInit => ProvidersInv
<1> SUFFICES ASSUME ProvidersInit PROVE ProvidersInv
  OBVIOUS
<1>1. Nothing \in Maps /\ secrets \in Maps /\ disk \in Files
  BY DEF ProvidersInit, Nothing, Maps, Values, Files
<1>2. reload = NotReloading /\ reload.pc = "off" /\ reload.todo = {}
      /\ reload \in ReloadStates
  BY <1>1 DEF ProvidersInit, NotReloading, ReloadPCs
<1>3. newest \in 1..MaxValues[chain] /\ changes \in 0..MaxChanges /\ Len(events) <= Cap
      /\ events \in Seq(SUBSET Names)
  BY CapAssumption, EmptySeq DEF ProvidersInit
<1>4. /\ sub \in SubStates
      /\ sub.key = NoOne /\ sub.at = 0 /\ ~sub.on /\ sub.todo = {}
  <2>1. 0 \in 0..Len(chain)
    <3>1. chain \in Seq({"memory", "file", "env"})
      BY ChainsAssumption DEF ProvidersInit
    <3>2. Len(chain) \in Nat
      BY <3>1, LenProperties
    <3> QED
      BY <3>2
  <2> QED
    BY <2>1 DEF ProvidersInit
<1>5. setter \in [Setters -> SetterStates]
      /\ \A t \in Setters : setter[t].pc = "idle"
  BY DEF ProvidersInit, Values
<1>6. copy \in [Names -> Values \union {EnvValue, EnvError}]
  BY DEF ProvidersInit, Nothing, Values
<1>7. ProvidersTypeOK
  <2>1. reload.todo \subseteq Have(reload.from) /\ reload.pc # "filling"
    BY <1>2
  <2> QED
    BY <1>1, <1>2, <1>3, <1>4, <1>5, <1>6, <2>1 DEF ProvidersInit, ProvidersTypeOK
<1>8. SourceInv /\ FetchInv /\ CopyInv
  BY <1>2, <1>4, <1>5 DEF SourceInv, FetchInv, CopyInv
<1> QED
  BY <1>7, <1>8 DEF ProvidersInv

\* Each step keeps what the subscriber has, or will be told.
LEMMA LearnStep ==
    ProvidersInv /\ [ProvidersNext]_providerVars => FetchInv' /\ CopyInv'
<1> SUFFICES ASSUME ProvidersInv, [ProvidersNext]_providerVars
             PROVE  FetchInv' /\ CopyInv'
  OBVIOUS
<1>0. /\ ProvidersTypeOK /\ SourceInv /\ FetchInv /\ CopyInv
      /\ sub \in SubStates
      /\ NoOne \notin Names
  BY NoOneAssumption DEF ProvidersInv, ProvidersTypeOK
<1>1. CASE Watch
  <2>1. sub'.key = NoOne /\ sub'.todo = Names
    BY <1>1 DEF Watch
  <2> QED
    BY <2>1 DEF FetchInv, CopyInv
<1>2. CASE SourceNext \/ UNCHANGED providerVars
  <2>0. sub' = sub
    BY <1>2 DEF SourceNext, FileBreaks, FileWritten, FileReplaced, OtherFileChanges, Changed,
       ReloadStep, StartsWatching, TakesNotice, Reads, ReadFails, Clears, Inserts, Reloaded, Loads,
       BeginSet, SetInserts, SetAnnounces, providerVars, subscriberVars
  <2>1. CASE ~sub.on
    BY <1>0, <2>0, <2>1 DEF SourceInv, FetchInv, CopyInv
  <2>2. CASE sub.on
    <3>1. \A k \in Names :
            /\ UNCHANGED <<chain, sub, copy>>
            /\ k \in stale => k \in stale'
            /\ NamedLater(k) => NamedLater(k)'
            /\ ReloadReplaces(k) => ReloadReplaces(k)' \/ k \in stale'
      BY <1>0, <1>2, <2>2, NamedStep
    <3>2. \A k \in Names :
            \/ NamedLater(k)'
            \/ \A i \in DOMAIN chain : Provides(chain[i], k)' = Provides(chain[i], k)
            \/ /\ ReloadReplaces(k)'
               /\ \A i \in DOMAIN chain : Provides(chain[i], k)' = 0 <=> Provides(chain[i], k) = 0
      BY <1>0, <1>2, <2>2, ProvidesStep
    <3>3. ASSUME sub'.key # NoOne
          PROVE  sub'.torn \/ NamedLater(sub.key)' \/ LackedBefore(sub.key, sub.at)'
      <4>1. sub' = sub /\ sub.key \in Names
        BY <1>0, <2>0, <3>3
      <4> QED
        BY <1>0, <3>1, <3>2, <3>3, <4>1 DEF FetchInv, LackedBefore
    <3>4. ASSUME NEW k \in Names
          PROVE  \/ k \in stale' \/ k \in sub'.todo \/ sub'.key = k
                 \/ NamedLater(k)' \/ ReloadReplaces(k)' \/ IsValue(k, copy[k])'
      <4>1. /\ UNCHANGED <<chain, sub, copy>>
            /\ k \in stale => k \in stale'
            /\ NamedLater(k) => NamedLater(k)'
            /\ ReloadReplaces(k) => ReloadReplaces(k)' \/ k \in stale'
        BY <3>1
      <4>2. \/ NamedLater(k)' \/ ReloadReplaces(k)'
            \/ \A i \in DOMAIN chain : Provides(chain[i], k)' = Provides(chain[i], k)
        BY <3>2
      <4>3. ASSUME \A i \in DOMAIN chain : Provides(chain[i], k)' = Provides(chain[i], k),
                   IsValue(k, copy[k])
            PROVE  IsValue(k, copy[k])'
        <5>1. \A i : LackedBefore(k, i) => LackedBefore(k, i)'
          BY <4>1, <4>3 DEF LackedBefore
        <5> QED
          BY <4>1, <4>3, <5>1 DEF IsValue
      <4>4. \/ k \in stale \/ k \in sub.todo \/ sub.key = k
            \/ NamedLater(k) \/ ReloadReplaces(k) \/ IsValue(k, copy[k])
        BY <1>0, <2>2 DEF CopyInv
      <4> QED
        BY <4>1, <4>2, <4>3, <4>4
    <3> QED
      BY <3>3, <3>4 DEF FetchInv, CopyInv
  <2> QED
    BY <2>1, <2>2
<1>3. CASE TakesEvent
  <2>1. /\ sub.on /\ sub.key = NoOne /\ sub.todo = {}
        /\ UNCHANGED <<chain, env, memory, secrets, setter, reload, copy, stale>>
    BY <1>3 DEF TakesEvent, Quiet, Fetched, fileVars, memoryVars
  <2>2. sub'.key = NoOne
    BY <1>0, <1>3, <2>1 DEF TakesEvent
  <2>3. CASE behind
    <3>1. sub'.todo = Names
      BY <1>0, <1>3, <2>3 DEF TakesEvent
    <3> QED
      BY <2>2, <3>1 DEF FetchInv, CopyInv
  <2>4. CASE ~behind
    <3>1. events # <<>> /\ sub'.todo = Head(events) /\ events' = Tail(events)
      BY <1>0, <1>3, <2>4 DEF TakesEvent
    <3>2. ASSUME NEW k \in Names, InEvents(k) PROVE k \in sub'.todo \/ InEvents(k)'
      <4>1. events \in Seq(SUBSET Names)
        BY <1>0 DEF ProvidersTypeOK
      <4>2. PICK i \in DOMAIN events : k \in events[i]
        BY <3>2 DEF InEvents
      <4>3. Len(events) \in Nat /\ i \in 1..Len(events) /\ Head(events) = events[1]
        BY <3>1, <4>1, LenProperties, HeadTailProperties
      <4>4. CASE i = 1
        BY <3>1, <4>2, <4>3, <4>4
      <4>5. CASE i # 1
        <5>1. i - 1 \in 1..Len(Tail(events)) /\ Tail(events)[i - 1] = events[i]
          BY <3>1, <4>1, <4>3, <4>5, HeadTailProperties
        <5>2. i - 1 \in DOMAIN events'
          BY <3>1, <4>1, <5>1, HeadTailProperties, LenProperties
        <5> QED
          BY <3>1, <4>2, <5>1, <5>2 DEF InEvents
      <4> QED
        BY <4>4, <4>5
    <3>3. \A k \in Names : NamedLater(k) => k \in sub'.todo \/ NamedLater(k)'
      BY <2>1, <2>4, <3>2 DEF NamedLater, ReloadNames, Reloading
    <3>4. ASSUME NEW k \in Names
          PROVE  /\ ReloadReplaces(k) => ReloadReplaces(k)'
                 /\ IsValue(k, copy[k]) => IsValue(k, copy[k])'
      <4>1. \A p : Provides(p, k)' = Provides(p, k)
        BY <2>1 DEF Provides, Lookup, Reloading
      <4>2. \A i : LackedBefore(k, i)' <=> LackedBefore(k, i)
        BY <2>1, <4>1 DEF LackedBefore
      <4>3. IsValue(k, copy[k]) => IsValue(k, copy[k])'
        BY <2>1, <4>1, <4>2 DEF IsValue
      <4> QED
        BY <2>1, <4>3 DEF ReloadReplaces, Reloading
    <3>5. ASSUME NEW k \in Names
          PROVE  \/ k \in stale' \/ k \in sub'.todo
                 \/ NamedLater(k)' \/ ReloadReplaces(k)' \/ IsValue(k, copy[k])'
      <4>1. \/ k \in stale \/ k \in sub.todo \/ sub.key = k
            \/ NamedLater(k) \/ ReloadReplaces(k) \/ IsValue(k, copy[k])
        BY <1>0, <2>1 DEF CopyInv
      <4>2. k # NoOne
        BY <1>0
      <4> QED
        BY <2>1, <3>3, <3>4, <4>1, <4>2
    <3> QED
      BY <2>2, <3>5 DEF FetchInv, CopyInv
  <2> QED
    BY <2>3, <2>4
<1>4. ASSUME NEW k \in Names, NEW i \in DOMAIN chain, NEW b \in BOOLEAN, Asks(k, i, b),
             sub.key \in {k, NoOne}, sub.on, b \/ NamedLater(k) \/ LackedBefore(k, i)
      PROVE  FetchInv' /\ CopyInv'
  <2>1. /\ UNCHANGED <<chain, events, behind, setter, reload>>
        /\ \A j \in DOMAIN chain, n \in Names : Provides(chain[j], n)' = Provides(chain[j], n)
        /\ \/ /\ sub'.key = k /\ sub'.at = i + 1 /\ sub'.todo = sub.todo \ {k}
              /\ copy' = copy /\ stale' = stale
              /\ sub'.torn \/ NamedLater(k) \/ LackedBefore(k, i + 1)
           \/ /\ sub'.key = NoOne /\ sub'.todo = sub.todo \ {k}
              /\ \A n \in Names : n # k => copy'[n] = copy[n] /\ (n \in stale' <=> n \in stale)
              /\ k \in stale' \/ NamedLater(k) \/ ReloadReplaces(k) \/ IsValue(k, copy'[k])
    BY <1>0, <1>4, AskStep
  <2>2. \A n \in Names : /\ NamedLater(n) => NamedLater(n)'
                         /\ ReloadReplaces(n) => ReloadReplaces(n)'
    BY <2>1 DEF NamedLater, InEvents, ReloadNames, ReloadReplaces, Reloading
  <2>3. ASSUME NEW n \in Names PROVE \A j : LackedBefore(n, j) => LackedBefore(n, j)'
    BY <2>1 DEF LackedBefore
  <2>4. ASSUME NEW n \in Names PROVE IsValue(n, copy'[n]) => IsValue(n, copy[n])'
    BY <2>1, <2>3 DEF IsValue
  <2>5. FetchInv'
    BY <2>1, <2>2, <2>3 DEF FetchInv
  <2>6. ASSUME NEW n \in Names
        PROVE  \/ n \in stale' \/ n \in sub'.todo \/ sub'.key = n
               \/ NamedLater(n)' \/ ReloadReplaces(n)' \/ IsValue(n, copy[n])'
    <3>1. CASE n = k
      BY <2>1, <2>2, <2>4, <3>1
    <3>2. CASE n # k
      <4>1. \/ n \in stale \/ n \in sub.todo \/ sub.key = n
            \/ NamedLater(n) \/ ReloadReplaces(n) \/ IsValue(n, copy[n])
        BY <1>0, <1>4 DEF CopyInv
      <4>2. copy'[n] = copy[n] /\ (n \in stale' <=> n \in stale) /\ (n \in sub.todo => n \in sub'.todo)
            /\ sub.key # n
        BY <1>0, <1>4, <2>1, <3>2
      <4> QED
        BY <2>2, <2>4, <4>1, <4>2
    <3> QED
      BY <3>1, <3>2
  <2> QED
    BY <2>5, <2>6 DEF CopyInv
<1>5. CASE Get
  <2>1. PICK k \in sub.todo : Asks(k, 1, FALSE)
    BY <1>5 DEF Get
  <2>2. k \in Names /\ 1 \in DOMAIN chain /\ sub.on /\ sub.key = NoOne /\ LackedBefore(k, 1)
    BY <1>0, <1>5, <2>1, ChainFacts DEF Get, SourceInv, LackedBefore
  <2> QED
    BY <1>4, <2>1, <2>2
<1>6. CASE GetNext
  <2>1. /\ sub.key \in Names /\ sub.at \in DOMAIN chain /\ sub.torn \in BOOLEAN /\ sub.on
        /\ Asks(sub.key, sub.at, sub.torn)
        /\ sub.torn \/ NamedLater(sub.key) \/ LackedBefore(sub.key, sub.at)
    BY <1>0, <1>6, ChainFacts DEF GetNext, ProvidersTypeOK, SourceInv, FetchInv
  <2> QED
    BY <1>4, <2>1
<1> QED
  BY <1>1, <1>2, <1>3, <1>5, <1>6 DEF ProvidersNext, SourceNext

\* The inductive invariant of the providers.
LEMMA ProvidersInvariance == ProvidersSpec => []ProvidersInv
<1>1. ProvidersInv /\ [ProvidersNext]_providerVars => ProvidersInv'
  BY ProvidersTypeStep, SourceStep, LearnStep DEF ProvidersInv
<1> QED
  BY ProvidersInitOK, <1>1, PTL DEF ProvidersSpec

\* Of any chain, environment and file, whoever sets, watches and reloads, the
\* state of the providers has its type: above all a map that is being filled
\* holds what the file had, but for the keys that are left (load_secrets).
THEOREM ProvidersTypeCorrect == ProvidersSpec => []ProvidersTypeOK
<1>1. ProvidersInv => ProvidersTypeOK
  BY DEF ProvidersInv
<1> QED
  BY ProvidersInvariance, <1>1, PTL

\* The value that a get of the chain gives.
LEMMA ValueOfChain ==
    ASSUME ProvidersTypeOK, ~Reloading, NEW k \in Names, NEW v, IsValue(k, v)
    PROVE  v = ChainValue(k)
<1> DEFINE having == {i \in DOMAIN chain : Lookup(chain[i], k) # 0}
           first == CHOOSE i \in having : \A j \in having : i <= j
<1>1. Len(chain) \in Nat /\ DOMAIN chain = 1..Len(chain)
  BY ChainFacts
<1>2. \A i \in DOMAIN chain : Provides(chain[i], k) = Lookup(chain[i], k)
  BY DEF Provides
<1>3. CASE v = 0
  <2>1. having = {}
    BY <1>1, <1>2, <1>3 DEF IsValue, LackedBefore
  <2> QED
    BY <1>3, <2>1 DEF ChainValue
<1>4. CASE v # 0
  <2>1. PICK i \in DOMAIN chain : Provides(chain[i], k) = v /\ LackedBefore(k, i)
    BY <1>4 DEF IsValue
  <2>2. i \in having /\ \A j \in having : i <= j
    BY <1>1, <1>2, <1>4, <2>1 DEF LackedBefore
  <2>3. first \in having /\ first <= i
    BY <2>2
  <2>4. first = i
    BY <1>1, <2>2, <2>3
  <2> QED
    BY <1>2, <2>1, <2>2, <2>4 DEF ChainValue
<1> QED
  BY <1>3, <1>4

\* A subscriber of any chain that fetches what the events name has the values
\* of the chain when nothing is under way, but for the keys whose new value no
\* event names and those fetched in the middle of a reload (watch, get, set and
\* load_secrets of src/secret_provider).
THEOREM SubscriberStaysCurrent == ProvidersSpec => []SubscriberIsCurrent
<1>1. ProvidersInv => SubscriberIsCurrent
  <2> SUFFICES ASSUME ProvidersInv,
                      sub.on, Quiet, events = <<>>, ~behind, reload.pc \in {"off", "waiting"},
                      \A t \in Setters : setter[t].pc # "announce",
                      NEW k \in Names \ stale
               PROVE  copy[k] = ChainValue(k)
    BY DEF SubscriberIsCurrent
  <2>1. ~Reloading /\ ~NamedLater(k) /\ ~ReloadReplaces(k)
    BY DEF Reloading, NamedLater, ReloadNames, ReloadReplaces, InEvents
  <2>2. k \notin sub.todo /\ sub.key # k
    BY NoOneAssumption DEF Quiet
  <2>3. IsValue(k, copy[k])
    BY <2>1, <2>2 DEF ProvidersInv, CopyInv
  <2> QED
    BY <2>1, <2>3, ValueOfChain DEF ProvidersInv
<1> QED
  BY ProvidersInvariance, <1>1, PTL
=============================================================================
