-------------------------- MODULE RegistrationProofs --------------------------
(***************************************************************************)
(* Theorems about Registration for any tasks, loops and bound.             *)
(* SoleCallerGetsItsAnswer rests on what is on a channel whose caller is   *)
(* alone (AloneInv), on the channels of the calls' own being empty before  *)
(* they are used (OwnChannelInv), and on register_module running by itself *)
(* (RegisterInv).                                                          *)
(***************************************************************************)
EXTENDS Registration, SequenceTheorems, TLAPS

\* All requests are of t, all answers are for t.
OnlyFrom(rs, t) == \A i \in DOMAIN rs : rs[i].from = t
OnlyTo(ms, t) == \A i \in DOMAIN ms : ms[i].to = t

AloneInv ==
    \A t \in Tasks : Awaiting(t) /\ alone[t] =>
        /\ OnlyFrom(requests[chan[t]], t) /\ OnlyTo(answers[chan[t]], t)

\* A channel of its own has nothing on it before a call sends, and while the
\* call uses the shared one.  A call that awaits its answer there is alone.
OwnChannelInv ==
    \A t \in Tasks :
        /\ pc[t] \in {"idle", "connect", "send", "writing", "blocked"} \/ chan[t] = Shared
            => requests[t] = <<>> /\ answers[t] = <<>>
        /\ Awaiting(t) /\ chan[t] = t => alone[t]

\* register_module runs by itself, on a channel of its own, before anything
\* else does.
RegisterInv ==
    /\ registry => known
    /\ \A t \in Tasks : pc[t] # "idle" /\ kind[t] = "register" =>
            /\ ~known /\ chan[t] = t
            /\ \A u \in Tasks \ {t} : pc[u] = "idle"

\* A call that had its channel to itself has taken its own answer.
OwnAnswer ==
    \A t \in Tasks :
        pc[t] = "idle" /\ result[t] \in {"Ok", "Rejected", "SerializationError"} /\ alone[t]
            => own[t]

IInv == TypeOK /\ AloneInv /\ OwnChannelInv /\ RegisterInv /\ OwnAnswer

-----------------------------------------------------------------------------
(* What is on a channel.                                                   *)

\* Taking the first message, and adding one.
LEMMA OnlyFromSteps ==
    ASSUME NEW S, NEW rs \in Seq(S), NEW t, OnlyFrom(rs, t)
    PROVE  /\ rs # <<>> => OnlyFrom(Tail(rs), t) /\ Head(rs).from = t
           /\ \A m \in S : m.from = t => OnlyFrom(Append(rs, m), t)
<1>1. DOMAIN rs = 1..Len(rs) /\ Len(rs) \in Nat
  BY LenProperties
<1>2. ASSUME rs # <<>> PROVE OnlyFrom(Tail(rs), t) /\ Head(rs).from = t
  <2>1. /\ Len(rs) \in Nat \ {0} /\ Tail(rs) \in Seq(S) /\ Len(Tail(rs)) = Len(rs) - 1
        /\ \A j \in 1..Len(Tail(rs)) : Tail(rs)[j] = rs[j + 1]
    BY <1>2, HeadTailProperties, EmptySeq
  <2>2. DOMAIN Tail(rs) = 1..Len(Tail(rs))
    BY <2>1, LenProperties
  <2>3. Head(rs) = rs[1] /\ 1 \in DOMAIN rs
    BY <1>1, <2>1
  <2>4. ASSUME NEW i \in DOMAIN Tail(rs) PROVE Tail(rs)[i].from = t
    <3>1. i + 1 \in DOMAIN rs /\ Tail(rs)[i] = rs[i + 1]
      BY <1>1, <2>1, <2>2
    <3> QED
      BY <3>1 DEF OnlyFrom
  <2> QED
    BY <2>3, <2>4 DEF OnlyFrom
<1>3. ASSUME NEW m \in S, m.from = t PROVE OnlyFrom(Append(rs, m), t)
  <2>1. /\ DOMAIN Append(rs, m) = 1..(Len(rs) + 1)
        /\ \A i \in 1..(Len(rs) + 1) : Append(rs, m)[i] = IF i <= Len(rs) THEN rs[i] ELSE m
    BY LenProperties
  <2>2. ASSUME NEW i \in 1..(Len(rs) + 1) PROVE Append(rs, m)[i].from = t
    <3>1. CASE i <= Len(rs)
      <4>1. i \in DOMAIN rs /\ Append(rs, m)[i] = rs[i]
        BY <1>1, <2>1, <3>1
      <4> QED
        BY <4>1 DEF OnlyFrom
    <3>2. CASE ~(i <= Len(rs))
      <4>1. Append(rs, m)[i] = m
        BY <2>1, <3>2
      <4> QED
        BY <1>3, <4>1
    <3> QED
      BY <3>1, <3>2
  <2> QED
    BY <2>1, <2>2 DEF OnlyFrom
<1> QED
  BY <1>2, <1>3

LEMMA OnlyToSteps ==
    ASSUME NEW S, NEW ms \in Seq(S), NEW t, OnlyTo(ms, t)
    PROVE  /\ ms # <<>> => OnlyTo(Tail(ms), t) /\ Head(ms).to = t
           /\ \A m \in S : m.to = t => OnlyTo(Append(ms, m), t)
<1>1. DOMAIN ms = 1..Len(ms) /\ Len(ms) \in Nat
  BY LenProperties
<1>2. ASSUME ms # <<>> PROVE OnlyTo(Tail(ms), t) /\ Head(ms).to = t
  <2>1. /\ Len(ms) \in Nat \ {0} /\ Tail(ms) \in Seq(S) /\ Len(Tail(ms)) = Len(ms) - 1
        /\ \A j \in 1..Len(Tail(ms)) : Tail(ms)[j] = ms[j + 1]
    BY <1>2, HeadTailProperties, EmptySeq
  <2>2. DOMAIN Tail(ms) = 1..Len(Tail(ms))
    BY <2>1, LenProperties
  <2>3. Head(ms) = ms[1] /\ 1 \in DOMAIN ms
    BY <1>1, <2>1
  <2>4. ASSUME NEW i \in DOMAIN Tail(ms) PROVE Tail(ms)[i].to = t
    <3>1. i + 1 \in DOMAIN ms /\ Tail(ms)[i] = ms[i + 1]
      BY <1>1, <2>1, <2>2
    <3> QED
      BY <3>1 DEF OnlyTo
  <2> QED
    BY <2>3, <2>4 DEF OnlyTo
<1>3. ASSUME NEW m \in S, m.to = t PROVE OnlyTo(Append(ms, m), t)
  <2>1. /\ DOMAIN Append(ms, m) = 1..(Len(ms) + 1)
        /\ \A i \in 1..(Len(ms) + 1) : Append(ms, m)[i] = IF i <= Len(ms) THEN ms[i] ELSE m
    BY LenProperties
  <2>2. ASSUME NEW i \in 1..(Len(ms) + 1) PROVE Append(ms, m)[i].to = t
    <3>1. CASE i <= Len(ms)
      <4>1. i \in DOMAIN ms /\ Append(ms, m)[i] = ms[i]
        BY <1>1, <2>1, <3>1
      <4> QED
        BY <4>1 DEF OnlyTo
    <3>2. CASE ~(i <= Len(ms))
      <4>1. Append(ms, m)[i] = m
        BY <2>1, <3>2
      <4> QED
        BY <1>3, <4>1
    <3> QED
      BY <3>1, <3>2
  <2> QED
    BY <2>1, <2>2 DEF OnlyTo
<1> QED
  BY <1>2, <1>3

\* An empty channel.
LEMMA OnlyEmpty == \A t : OnlyFrom(<<>>, t) /\ OnlyTo(<<>>, t)
BY DEF OnlyFrom, OnlyTo

\* The messages of another call may lose it.
LEMMA OnlyOrphaned ==
    ASSUME NEW u, NEW t, u # t
    PROVE  /\ \A rs : OnlyFrom(rs, t) => OnlyFrom(Orphan(u, rs), t)
           /\ \A ms : OnlyTo(ms, t) => OnlyTo(OrphanAnswers(u, ms), t)
BY DEF OnlyFrom, OnlyTo, Orphan, OrphanAnswers

\* Orphaned messages are messages.
LEMMA OrphanType ==
    ASSUME NEW t
    PROVE  /\ \A rs \in Seq(Requests) : Orphan(t, rs) \in Seq(Requests)
           /\ \A ms \in Seq(Answers) : OrphanAnswers(t, ms) \in Seq(Answers)
<1>1. ASSUME NEW rs \in Seq(Requests) PROVE Orphan(t, rs) \in Seq(Requests)
  <2>1. rs \in [1..Len(rs) -> Requests] /\ Len(rs) \in Nat /\ DOMAIN rs = 1..Len(rs)
    BY LenProperties
  <2>2. Orphan(t, rs) \in [1..Len(rs) -> Requests]
    BY <2>1 DEF Orphan, Requests
  <2> QED
    BY <2>1, <2>2
<1>2. ASSUME NEW ms \in Seq(Answers) PROVE OrphanAnswers(t, ms) \in Seq(Answers)
  <2>1. ms \in [1..Len(ms) -> Answers] /\ Len(ms) \in Nat /\ DOMAIN ms = 1..Len(ms)
    BY LenProperties
  <2>2. OrphanAnswers(t, ms) \in [1..Len(ms) -> Answers]
    BY <2>1 DEF OrphanAnswers, Answers
  <2> QED
    BY <2>1, <2>2
<1> QED
  BY <1>1, <1>2

-----------------------------------------------------------------------------
(* Type correctness.                                                       *)

LEMMA InitOK == Init => IInv
<1> SUFFICES ASSUME Init PROVE IInv
  OBVIOUS
<1>1. TypeOK
  <2>1. requests \in [Chans -> Seq(Requests)] /\ answers \in [Chans -> Seq(Answers)]
    BY EmptySeq DEF Init
  <2> QED
    BY <2>1, TasksAssumption DEF Init, TypeOK, Chans, Kinds, Sending
<1>2. AloneInv /\ OwnChannelInv /\ RegisterInv /\ OwnAnswer
  BY DEF Init, AloneInv, OwnChannelInv, RegisterInv, OwnAnswer, Awaiting, Chans
<1> QED
  BY <1>1, <1>2 DEF IInv

\* Every step keeps every variable in its type.
LEMMA TypeStep == TypeOK /\ [Next]_vars => TypeOK'
<1> SUFFICES ASSUME TypeOK, [Next]_vars PROVE TypeOK'
  OBVIOUS
<1>0. Shared \in Chans /\ Tasks \subseteq Chans
  BY DEF Chans
<1> USE <1>0, TasksAssumption DEF TypeOK, Goto, Return, chanVars, Sending
<1>1. ASSUME NEW t \in Tasks, NEW k \in Kinds, Begin(t, k) PROVE TypeOK'
  BY <1>1 DEF Begin
<1>2. ASSUME NEW t \in Tasks, \/ Connect(t) \/ ConnectFails(t) \/ StartSend(t)
                             \/ SendFails(t) \/ PeerStalls(t)
      PROVE  TypeOK'
  <2>1. CASE Connect(t)
    BY <2>1 DEF Connect
  <2>2. CASE ConnectFails(t)
    BY <2>2 DEF ConnectFails, Errors
  <2>3. CASE StartSend(t)
    BY <2>3 DEF StartSend
  <2>4. CASE SendFails(t)
    BY <2>4 DEF SendFails, Errors
  <2>5. CASE PeerStalls(t)
    BY <2>5 DEF PeerStalls
  <2> QED
    BY <1>2, <2>1, <2>2, <2>3, <2>4, <2>5
<1>3. ASSUME NEW t \in Tasks, Send(t) PROVE TypeOK'
  <2>1. [from |-> t, kind |-> kind[t]] \in Requests
    BY DEF Requests
  <2>2. requests' \in [Chans -> Seq(Requests)]
    BY <1>3, <2>1 DEF Send
  <2>3. alone' \in [Tasks -> BOOLEAN]
    BY <1>3 DEF Send, Sole, Awaiting
  <2> QED
    BY <1>3, <2>2, <2>3 DEF Send
<1>4. ASSUME NEW t \in Tasks, StartReceive(t) PROVE TypeOK'
  BY <1>4 DEF StartReceive
<1>5. ASSUME NEW t \in Tasks, Receive(t) PROVE TypeOK'
  <2> DEFINE c == chan[t]
             r == Decode(kind[t], Head(answers[c]))
             stored == r = "Ok" /\ kind[t] = "register"
  <2>1. /\ pc[t] = "reading" /\ answers[c] # <<>>
        /\ pc' = [pc EXCEPT ![t] = "idle"] /\ result' = [result EXCEPT ![t] = r]
        /\ own' = [own EXCEPT ![t] = Head(answers[c]).to = t]
        /\ holder' = [holder EXCEPT ![c] = NoTask]
        /\ UNCHANGED <<enrolled, kind, chan, alone>>
    BY <1>5 DEF Receive
  <2>2. Tail(answers[c]) \in Seq(Answers) /\ <<>> \in Seq(Answers) /\ <<>> \in Seq(Requests)
    BY <2>1, HeadTailProperties, EmptySeq
  <2>3. answers' \in [Chans -> Seq(Answers)] /\ requests' \in [Chans -> Seq(Requests)]
    BY <1>5, <2>2 DEF Receive
  <2>4. r \in Errors \union {"none", "Ok"}
    BY DEF Decode, Errors
  <2>5. registry' \in BOOLEAN /\ known' \in BOOLEAN
    BY <1>5 DEF Receive
  <2> HIDE DEF r
  <2>6. \A d \in Chans, u \in Tasks :
            holder'[d] = u
              <=> (pc'[u] \in {"writing", "blocked"} \/ pc'[u] = "reading") /\ chan'[u] = d
    BY <2>1
  <2>7. /\ holder' \in [Chans -> Tasks \union {NoTask}]
        /\ result' \in [Tasks -> Errors \union {"none", "Ok"}]
        /\ own' \in [Tasks -> BOOLEAN]
    BY <2>1, <2>4
  <2> QED
    BY <2>1, <2>3, <2>5, <2>6, <2>7
<1>6. ASSUME NEW t \in Tasks, Abandon(t) PROVE requests' \in [Chans -> Seq(Requests)]
                                            /\ answers' \in [Chans -> Seq(Answers)]
  BY <1>6, OrphanType, EmptySeq DEF Abandon
<1>7. ASSUME NEW t \in Tasks, ReceiveFails(t) PROVE TypeOK'
  <2>1. /\ requests' \in [Chans -> Seq(Requests)] /\ answers' \in [Chans -> Seq(Answers)]
    BY <1>6, <1>7 DEF ReceiveFails
  <2>2. \A d \in Chans, u \in Tasks :
            holder'[d] = u
              <=> (pc'[u] \in {"writing", "blocked"} \/ pc'[u] = "reading") /\ chan'[u] = d
    BY <1>7 DEF ReceiveFails
  <2>3. /\ holder' \in [Chans -> Tasks \union {NoTask}]
        /\ result' \in [Tasks -> Errors \union {"none", "Ok"}]
    BY <1>7 DEF ReceiveFails, Errors
  <2> QED
    BY <1>7, <2>1, <2>2, <2>3 DEF ReceiveFails
<1>8. ASSUME NEW t \in Tasks, TimeoutElapses(t) PROVE TypeOK'
  <2>1. /\ requests' \in [Chans -> Seq(Requests)] /\ answers' \in [Chans -> Seq(Answers)]
    BY <1>6, <1>8 DEF TimeoutElapses
  <2>2. \A d \in Chans, u \in Tasks :
            holder'[d] = u
              <=> (pc'[u] \in {"writing", "blocked"} \/ pc'[u] = "reading") /\ chan'[u] = d
    BY <1>8 DEF TimeoutElapses, TimesOut, Awaiting
  <2>3. /\ holder' \in [Chans -> Tasks \union {NoTask}]
        /\ result' \in [Tasks -> Errors \union {"none", "Ok"}]
    BY <1>8 DEF TimeoutElapses, TimesOut, Awaiting, Errors
  <2> QED
    BY <1>8, <2>1, <2>2, <2>3 DEF TimeoutElapses
<1>9. ASSUME NEW c \in Chans, Answer(c) PROVE TypeOK'
  <2>1. PICK ok \in BOOLEAN :
            /\ answers' = [answers EXCEPT ![c] = Append(@,
                    [to |-> Head(requests[c]).from, kind |-> Head(requests[c]).kind,
                     success |-> ok])]
            /\ enrolled' \in BOOLEAN
    BY <1>9 DEF Answer
  <2>2. Head(requests[c]) \in Requests /\ Tail(requests[c]) \in Seq(Requests)
    BY <1>9, HeadTailProperties DEF Answer
  <2>3. [to |-> Head(requests[c]).from, kind |-> Head(requests[c]).kind, success |-> ok]
            \in Answers
    BY <2>2 DEF Requests, Answers
  <2>4. answers' \in [Chans -> Seq(Answers)] /\ requests' \in [Chans -> Seq(Requests)]
    BY <1>9, <2>1, <2>2, <2>3 DEF Answer
  <2> QED
    BY <1>9, <2>1, <2>4 DEF Answer
<1>10. ASSUME NEW c \in Chans, ConnectionLost(c) PROVE TypeOK'
  <2>1. answers' \in [Chans -> Seq(Answers)] /\ requests' \in [Chans -> Seq(Requests)]
    BY <1>10, EmptySeq DEF ConnectionLost
  <2> QED
    BY <1>10, <2>1 DEF ConnectionLost
<1>11. CASE UNCHANGED vars
  BY <1>11 DEF vars
<1> QED
  BY <1>1, <1>2, <1>3, <1>4, <1>5, <1>7, <1>8, <1>9, <1>10, <1>11 DEF Next, Step

-----------------------------------------------------------------------------
(* What is on the channels.                                                *)

\* A register_module that succeeds was alone in the module, on a channel of
\* its own.
LEMMA Registering ==
    ASSUME TypeOK, RegisterInv, NEW t \in Tasks, pc[t] # "idle", kind[t] = "register"
    PROVE  chan[t] = t /\ ~registry /\ \A u \in Tasks \ {t} : pc[u] = "idle"
BY DEF RegisterInv

\* register_module begins when nothing else runs, and nothing else begins
\* before it is through.
LEMMA RegisterStep == TypeOK /\ RegisterInv /\ [Next]_vars => RegisterInv'
<1> SUFFICES ASSUME TypeOK, RegisterInv, [Next]_vars PROVE RegisterInv'
  OBVIOUS
<1> USE DEF TypeOK, Goto, Return
<1>1. ASSUME NEW t \in Tasks, NEW k \in Kinds, Begin(t, k) PROVE RegisterInv'
  <2>1. /\ pc[t] = "idle" /\ UNCHANGED <<known, registry>>
        /\ pc' = [pc EXCEPT ![t] = IF registry THEN "send" ELSE "connect"]
        /\ kind' = [kind EXCEPT ![t] = k]
        /\ chan' = [chan EXCEPT ![t] = IF registry THEN Shared ELSE t]
    BY <1>1 DEF Begin
  <2>2. CASE k = "register"
    <3>1. ~known /\ \A u \in Tasks : pc[u] = "idle"
      BY <1>1, <2>2 DEF Begin, Allowed
    <3> QED
      BY <2>1, <3>1 DEF RegisterInv
  <2>3. CASE k # "register"
    <3>1. known
      BY <1>1, <2>3 DEF Begin, Allowed
    <3> QED
      BY <2>1, <2>3, <3>1 DEF RegisterInv
  <2> QED
    BY <2>2, <2>3
<1>2. ASSUME UNCHANGED <<known, registry, kind, chan>>,
             \A u \in Tasks : pc'[u] # "idle" => pc[u] # "idle"
      PROVE  RegisterInv'
  BY <1>2 DEF RegisterInv
<1>3. ASSUME NEW t \in Tasks,
             \/ Connect(t) \/ ConnectFails(t) \/ StartSend(t) \/ Send(t) \/ SendFails(t)
             \/ PeerStalls(t) \/ StartReceive(t) \/ ReceiveFails(t) \/ TimeoutElapses(t)
      PROVE  RegisterInv'
  <2>1. UNCHANGED <<known, registry, kind, chan>>
    BY <1>3 DEF Connect, ConnectFails, StartSend, Send, SendFails, PeerStalls, StartReceive,
                ReceiveFails, TimeoutElapses
  <2>2. pc[t] # "idle" /\ \A u \in Tasks \ {t} : pc'[u] = pc[u]
    BY <1>3 DEF Connect, ConnectFails, StartSend, Send, SendFails, PeerStalls, Sending,
                StartReceive, ReceiveFails, TimeoutElapses, TimesOut, Awaiting
  <2> QED
    BY <1>2, <2>1, <2>2
<1>4. ASSUME NEW t \in Tasks, Receive(t) PROVE RegisterInv'
  <2>1. /\ pc[t] # "idle" /\ pc' = [pc EXCEPT ![t] = "idle"] /\ UNCHANGED <<kind, chan>>
        /\ registry' => known' \/ registry
        /\ known' => known \/ kind[t] = "register"
        /\ known => known'
    BY <1>4 DEF Receive
  <2>2. ASSUME NEW v \in Tasks, pc'[v] # "idle", kind'[v] = "register" PROVE ~known' /\ v # t
    BY <2>1, <2>2 DEF RegisterInv
  <2> QED
    BY <2>1, <2>2 DEF RegisterInv
<1>5. CASE (\E c \in Chans : Answer(c) \/ ConnectionLost(c)) \/ UNCHANGED vars
  <2>1. UNCHANGED <<known, registry, kind, chan, pc>>
    BY <1>5 DEF Answer, ConnectionLost, vars
  <2> QED
    BY <1>2, <2>1
<1> QED
  BY <1>1, <1>3, <1>4, <1>5 DEF Next, Step

\* A call's own channel carries nothing before its send and nothing after its
\* end, and nobody else sends on it.
LEMMA OwnChannelStep == TypeOK /\ OwnChannelInv /\ RegisterInv /\ [Next]_vars => OwnChannelInv'
<1> SUFFICES ASSUME TypeOK, OwnChannelInv, RegisterInv, [Next]_vars, NEW v \in Tasks
             PROVE  /\ pc'[v] \in {"idle", "connect", "send", "writing", "blocked"} \/ chan'[v] = Shared
                       => requests'[v] = <<>> /\ answers'[v] = <<>>
                    /\ pc'[v] \in {"lock", "reading"} /\ chan'[v] = v => alone'[v]
  BY DEF OwnChannelInv, Awaiting
<1> DEFINE Own == /\ pc[v] \in {"idle", "connect", "send", "writing", "blocked"} \/ chan[v] = Shared
                     => requests[v] = <<>> /\ answers[v] = <<>>
                  /\ pc[v] \in {"lock", "reading"} /\ chan[v] = v => alone[v]
<1>0. /\ Own /\ v # Shared /\ v \in Chans /\ Shared \in Chans
      /\ \A u \in Tasks : chan[u] = v => u = v
  BY TasksAssumption DEF OwnChannelInv, Awaiting, TypeOK, Chans
<1> USE <1>0 DEF TypeOK, Goto, Return, chanVars
<1>1. ASSUME NEW t \in Tasks, NEW k \in Kinds, Begin(t, k) PROVE Own'
  BY <1>1 DEF Begin
<1>2. ASSUME NEW t \in Tasks, \/ Connect(t) \/ ConnectFails(t) \/ StartSend(t)
                             \/ SendFails(t) \/ PeerStalls(t)
      PROVE  Own'
  BY <1>2 DEF Connect, ConnectFails, StartSend, SendFails, PeerStalls, Sending
<1>3. ASSUME NEW t \in Tasks, Send(t) PROVE Own'
  <2>1. /\ pc[t] = "writing" /\ pc' = [pc EXCEPT ![t] = "lock"] /\ UNCHANGED <<answers, chan>>
        /\ requests' = [requests EXCEPT ![chan[t]] = Append(@, [from |-> t, kind |-> kind[t]])]
        /\ alone' = [u \in Tasks |->
            IF u = t THEN Sole(t) ELSE alone[u] /\ ~(Awaiting(u) /\ chan[u] = chan[t])]
    BY <1>3 DEF Send
  <2>2. CASE v = t
    <3>1. chan[v] = v => Sole(t)
      BY <2>1, <2>2 DEF Sole
    <3>2. chan[v] = Shared => requests'[v] = requests[v]
      BY <2>1, <2>2
    <3> QED
      BY <2>1, <2>2, <3>1, <3>2
  <2>3. CASE v # t
    <3>1. requests'[v] = requests[v]
      BY <2>1, <2>3
    <3>2. pc[v] \in {"lock", "reading"} /\ chan[v] = v => alone'[v]
      BY <2>1, <2>3
    <3> QED
      BY <2>1, <2>3, <3>1, <3>2
  <2> QED
    BY <2>2, <2>3
<1>4. ASSUME NEW t \in Tasks, StartReceive(t) PROVE Own'
  BY <1>4 DEF StartReceive
<1>5. ASSUME NEW t \in Tasks, Receive(t) PROVE Own'
  <2> DEFINE c == chan[t]
             stored == Decode(kind[t], Head(answers[c])) = "Ok" /\ kind[t] = "register"
  <2>1. /\ pc[t] = "reading" /\ pc' = [pc EXCEPT ![t] = "idle"] /\ UNCHANGED <<chan, alone>>
        /\ answers' = IF stored
                      THEN [answers EXCEPT ![Shared] = Tail(answers[c]), ![c] = <<>>]
                      ELSE [answers EXCEPT ![c] = IF c = t THEN <<>> ELSE Tail(@)]
        /\ requests' = IF stored THEN [requests EXCEPT ![Shared] = requests[c], ![c] = <<>>]
                                 ELSE [requests EXCEPT ![t] = <<>>]
    BY <1>5 DEF Receive
  <2>2. stored => c = t
    BY <2>1, Registering
  <2> HIDE DEF stored
  <2>3. CASE v = t
    BY <2>1, <2>2, <2>3
  <2>4. CASE v # t
    BY <2>1, <2>2, <2>4
  <2> QED
    BY <2>3, <2>4
<1>6. ASSUME NEW t \in Tasks, ReceiveFails(t) \/ TimeoutElapses(t) PROVE Own'
  <2>1. /\ pc' = [pc EXCEPT ![t] = "idle"] /\ UNCHANGED <<chan, alone>>
        /\ requests' = [requests EXCEPT ![t] = <<>>, ![Shared] = Orphan(t, @)]
        /\ answers' = [answers EXCEPT ![t] = <<>>, ![Shared] = OrphanAnswers(t, @)]
    BY <1>6 DEF ReceiveFails, TimeoutElapses, Abandon
  <2> QED
    BY <2>1
<1>7. ASSUME NEW c \in Chans, Answer(c) \/ ConnectionLost(c) PROVE Own'
  <2>1. UNCHANGED <<pc, chan, alone>>
    BY <1>7 DEF Answer, ConnectionLost
  <2>2. ASSUME requests[v] = <<>>, answers[v] = <<>>
        PROVE  requests'[v] = <<>> /\ answers'[v] = <<>>
    <3>1. CASE Answer(c)
      <4>1. c # v
        BY <2>2, <3>1 DEF Answer
      <4> QED
        BY <2>2, <3>1, <4>1 DEF Answer
    <3>2. CASE ConnectionLost(c)
      BY <2>2, <3>2 DEF ConnectionLost
    <3> QED
      BY <1>7, <3>1, <3>2
  <2> QED
    BY <2>1, <2>2
<1>8. CASE UNCHANGED vars
  BY <1>8 DEF vars
<1> QED
  BY <1>1, <1>2, <1>3, <1>4, <1>5, <1>6, <1>7, <1>8 DEF Next, Step

\* On the channel of a call that is alone there is nothing of anybody else.
LEMMA AloneStep == TypeOK /\ AloneInv /\ RegisterInv /\ [Next]_vars => AloneInv'
<1> DEFINE With(v) == OnlyFrom(requests[chan[v]], v) /\ OnlyTo(answers[chan[v]], v)
<1> SUFFICES ASSUME TypeOK, AloneInv, RegisterInv, [Next]_vars,
                    NEW v \in Tasks, Awaiting(v)', alone'[v]
             PROVE  With(v)'
  BY DEF AloneInv
<1>0. /\ chan[v] \in Chans /\ Shared \in Chans /\ Tasks \subseteq Chans /\ Shared \notin Tasks
      /\ \A c \in Chans : requests[c] \in Seq(Requests) /\ answers[c] \in Seq(Answers)
  BY TasksAssumption DEF TypeOK, Chans
<1> USE <1>0 DEF TypeOK, Goto, Return, chanVars, Awaiting
<1>1. ASSUME UNCHANGED <<chan, alone>>, Awaiting(v),
             With(v) => /\ OnlyFrom(requests'[chan[v]], v) /\ OnlyTo(answers'[chan[v]], v)
      PROVE  With(v)'
  BY <1>1 DEF AloneInv
<1>2. ASSUME NEW t \in Tasks, NEW k \in Kinds, Begin(t, k) PROVE With(v)'
  <2>1. v # t /\ Awaiting(v) /\ chan'[v] = chan[v] /\ alone[v] /\ UNCHANGED <<requests, answers>>
    BY <1>2 DEF Begin
  <2> QED
    BY <2>1 DEF AloneInv
<1>3. ASSUME NEW t \in Tasks,
             \/ Connect(t) \/ ConnectFails(t) \/ StartSend(t) \/ SendFails(t)
             \/ PeerStalls(t) \/ StartReceive(t)
      PROVE  With(v)'
  <2>1. Awaiting(v) /\ UNCHANGED <<chan, alone, requests, answers>>
    BY <1>3 DEF Connect, ConnectFails, StartSend, SendFails, PeerStalls, Sending, StartReceive
  <2> QED
    BY <1>1, <2>1
<1>4. ASSUME NEW t \in Tasks, Send(t) PROVE With(v)'
  <2> DEFINE m == [from |-> t, kind |-> kind[t]]
  <2>1. /\ pc' = [pc EXCEPT ![t] = "lock"] /\ UNCHANGED <<answers, chan>>
        /\ requests' = [requests EXCEPT ![chan[t]] = Append(@, m)]
        /\ alone' = [u \in Tasks |->
            IF u = t THEN Sole(t) ELSE alone[u] /\ ~(Awaiting(u) /\ chan[u] = chan[t])]
    BY <1>4 DEF Send
  <2>2. CASE v = t
    <3>1. requests[chan[v]] = <<>> /\ answers[chan[v]] = <<>>
      BY <2>1, <2>2 DEF Sole
    <3>2. m \in Requests /\ m.from = t
      BY DEF Requests
    <3>3. OnlyFrom(Append(<<>>, m), t)
      BY <3>2, OnlyEmpty, OnlyFromSteps, EmptySeq
    <3>4. requests'[chan'[v]] = Append(<<>>, m) /\ answers'[chan'[v]] = <<>>
      BY <2>1, <2>2, <3>1
    <3> QED
      BY <2>2, <3>3, <3>4, OnlyEmpty
  <2>3. CASE v # t
    <3>1. pc'[v] = pc[v] /\ Awaiting(v)
      BY <2>1, <2>3
    <3>2. alone[v] /\ chan[v] # chan[t]
      <4> HIDE DEF TypeOK, Awaiting
      <4> QED
        BY <2>1, <2>3, <3>1
    <3> QED
      BY <2>1, <3>1, <3>2 DEF AloneInv
  <2> QED
    BY <2>2, <2>3
<1>5. ASSUME NEW t \in Tasks, Receive(t) PROVE With(v)'
  <2> DEFINE c == chan[t]
             stored == Decode(kind[t], Head(answers[c])) = "Ok" /\ kind[t] = "register"
  <2>1. /\ pc[t] = "reading" /\ pc' = [pc EXCEPT ![t] = "idle"] /\ UNCHANGED <<chan, alone>>
        /\ answers[c] # <<>>
        /\ answers' = IF stored
                      THEN [answers EXCEPT ![Shared] = Tail(answers[c]), ![c] = <<>>]
                      ELSE [answers EXCEPT ![c] = IF c = t THEN <<>> ELSE Tail(@)]
        /\ requests' = IF stored THEN [requests EXCEPT ![Shared] = requests[c], ![c] = <<>>]
                                 ELSE [requests EXCEPT ![t] = <<>>]
    BY <1>5 DEF Receive
  <2>2. v # t /\ Awaiting(v)
    BY <2>1
  <2>3. ~stored
    BY <2>1, <2>2, Registering
  <2> HIDE DEF stored
  <2>4. ASSUME With(v)
        PROVE  OnlyFrom(requests'[chan[v]], v) /\ OnlyTo(answers'[chan[v]], v)
    <3>1. chan[v] # t
      BY <2>2
    <3>2. requests'[chan[v]] = requests[chan[v]]
      BY <2>1, <2>3, <3>1
    <3>3. CASE chan[v] = c
      <4>1. answers'[chan[v]] = Tail(answers[chan[v]]) /\ answers[chan[v]] # <<>>
        BY <2>1, <2>3, <3>1, <3>3
      <4> QED
        BY <2>4, <3>2, <4>1, OnlyToSteps
    <3>4. CASE chan[v] # c
      BY <2>1, <2>3, <2>4, <3>2, <3>4
    <3> QED
      BY <3>3, <3>4
  <2> QED
    BY <1>1, <2>1, <2>2, <2>4
<1>6. ASSUME NEW t \in Tasks, ReceiveFails(t) \/ TimeoutElapses(t) PROVE With(v)'
  <2>1. /\ pc' = [pc EXCEPT ![t] = "idle"] /\ UNCHANGED <<chan, alone>>
        /\ requests' = [requests EXCEPT ![t] = <<>>, ![Shared] = Orphan(t, @)]
        /\ answers' = [answers EXCEPT ![t] = <<>>, ![Shared] = OrphanAnswers(t, @)]
    BY <1>6 DEF ReceiveFails, TimeoutElapses, Abandon
  <2>2. v # t /\ Awaiting(v) /\ chan[v] # t
    BY <2>1
  <2>3. ASSUME With(v)
        PROVE  OnlyFrom(requests'[chan[v]], v) /\ OnlyTo(answers'[chan[v]], v)
    <3>1. CASE chan[v] = Shared
      <4>1. /\ requests'[chan[v]] = Orphan(t, requests[chan[v]])
            /\ answers'[chan[v]] = OrphanAnswers(t, answers[chan[v]])
        BY <2>1, <2>2, <3>1
      <4>2. OnlyFrom(Orphan(t, requests[chan[v]]), v)
        BY <2>2, <2>3, OnlyOrphaned
      <4>3. OnlyTo(OrphanAnswers(t, answers[chan[v]]), v)
        BY <2>2, <2>3, OnlyOrphaned
      <4> QED
        BY <4>1, <4>2, <4>3
    <3>2. CASE chan[v] # Shared
      <4>1. UNCHANGED <<requests[chan[v]], answers[chan[v]]>>
        BY <2>1, <2>2, <3>2
      <4> QED
        BY <2>1, <2>3, <4>1
    <3> QED
      BY <3>1, <3>2
  <2> QED
    BY <1>1, <2>1, <2>2, <2>3
<1>7. ASSUME NEW c \in Chans, Answer(c) PROVE With(v)'
  <2>1. PICK ok \in BOOLEAN :
            /\ answers' = [answers EXCEPT ![c] = Append(@,
                    [to |-> Head(requests[c]).from, kind |-> Head(requests[c]).kind,
                     success |-> ok])]
    BY <1>7 DEF Answer
  <2> DEFINE m == [to |-> Head(requests[c]).from, kind |-> Head(requests[c]).kind,
                   success |-> ok]
  <2>2. /\ requests[c] # <<>> /\ requests' = [requests EXCEPT ![c] = Tail(@)]
        /\ UNCHANGED <<pc, chan, alone>>
    BY <1>7 DEF Answer
  <2>3. Head(requests[c]) \in Requests
    BY <2>2, HeadTailProperties
  <2>4. m \in Answers /\ m.to = Head(requests[c]).from
    BY <2>3 DEF Requests, Answers
  <2>5. answers' = [answers EXCEPT ![c] = Append(@, m)]
    BY <2>1
  <2> HIDE DEF m
  <2>6. ASSUME With(v), chan[v] = c
        PROVE  OnlyFrom(Tail(requests[c]), v) /\ OnlyTo(Append(answers[c], m), v)
    <3>1. OnlyFrom(Tail(requests[c]), v) /\ Head(requests[c]).from = v
      BY <2>2, <2>6, OnlyFromSteps
    <3> QED
      BY <2>4, <2>6, <3>1, OnlyToSteps
  <2>7. With(v) => OnlyFrom(requests'[chan[v]], v) /\ OnlyTo(answers'[chan[v]], v)
    BY <2>2, <2>5, <2>6
  <2> QED
    BY <1>1, <2>2, <2>7
<1>8. ASSUME NEW c \in Chans, ConnectionLost(c) PROVE With(v)'
  <2>1. /\ UNCHANGED <<pc, chan, alone>>
        /\ requests' = [requests EXCEPT ![c] = <<>>] /\ answers' = [answers EXCEPT ![c] = <<>>]
    BY <1>8 DEF ConnectionLost
  <2> QED
    BY <1>1, <2>1, OnlyEmpty
<1>9. CASE UNCHANGED vars
  BY <1>1, <1>9 DEF vars
<1> QED
  BY <1>2, <1>3, <1>4, <1>5, <1>6, <1>7, <1>8, <1>9 DEF Next, Step

\* What a call that is alone takes from its channel is its own answer.
LEMMA OwnAnswerStep == TypeOK /\ AloneInv /\ OwnAnswer /\ [Next]_vars => OwnAnswer'
<1> DEFINE Answered == {"Ok", "Rejected", "SerializationError"}
<1> SUFFICES ASSUME TypeOK, AloneInv, OwnAnswer, [Next]_vars,
                    NEW v \in Tasks, pc'[v] = "idle", result'[v] \in Answered, alone'[v]
             PROVE  own'[v]
  BY DEF OwnAnswer
<1> USE DEF TypeOK, Goto, Return, chanVars
<1>1. ASSUME pc[v] = "idle", UNCHANGED <<result[v], alone[v], own[v]>> PROVE own'[v]
  BY <1>1 DEF OwnAnswer
<1>2. ASSUME NEW t \in Tasks, NEW k \in Kinds, Begin(t, k) PROVE own'[v]
  <2>1. pc'[t] # "idle"
    BY <1>2 DEF Begin
  <2>2. v # t
    BY <2>1
  <2> QED
    BY <1>1, <1>2, <2>2 DEF Begin
<1>3. ASSUME NEW t \in Tasks, \/ Connect(t) \/ ConnectFails(t) \/ StartSend(t)
                             \/ SendFails(t) \/ PeerStalls(t)
      PROVE  own'[v]
  <2>1. /\ UNCHANGED <<alone, own>>
        /\ \A u \in Tasks \ {t} : pc'[u] = pc[u] /\ result'[u] = result[u]
        /\ pc'[t] # "idle" \/ result'[t] \notin Answered
    <3>1. CASE Connect(t)
      BY <3>1 DEF Connect
    <3>2. CASE ConnectFails(t)
      BY <3>2 DEF ConnectFails
    <3>3. CASE StartSend(t)
      BY <3>3 DEF StartSend
    <3>4. CASE SendFails(t)
      BY <3>4 DEF SendFails
    <3>5. CASE PeerStalls(t)
      BY <3>5 DEF PeerStalls
    <3> QED
      BY <1>3, <3>1, <3>2, <3>3, <3>4, <3>5
  <2> QED
    BY <1>1, <2>1
<1>4. ASSUME NEW t \in Tasks, Send(t) PROVE own'[v]
  <2>1. /\ pc' = [pc EXCEPT ![t] = "lock"] /\ UNCHANGED <<result, own>>
        /\ alone' = [u \in Tasks |->
            IF u = t THEN Sole(t) ELSE alone[u] /\ ~(Awaiting(u) /\ chan[u] = chan[t])]
    BY <1>4 DEF Send
  <2>2. v # t /\ pc[v] = "idle"
    BY <2>1
  <2>3. alone[v]
    <3> HIDE DEF TypeOK
    <3> QED
      BY <2>1, <2>2
  <2> QED
    BY <2>1, <2>2, <2>3 DEF OwnAnswer
<1>5. ASSUME NEW t \in Tasks, StartReceive(t) PROVE own'[v]
  BY <1>1, <1>5 DEF StartReceive
<1>6. ASSUME NEW t \in Tasks, Receive(t) PROVE own'[v]
  <2>1. /\ pc[t] = "reading" /\ pc' = [pc EXCEPT ![t] = "idle"] /\ UNCHANGED alone
        /\ result' = [result EXCEPT ![t] = Decode(kind[t], Head(answers[chan[t]]))]
        /\ own' = [own EXCEPT ![t] = Head(answers[chan[t]]).to = t]
        /\ answers[chan[t]] # <<>>
    BY <1>6 DEF Receive
  <2>2. CASE v = t
    <3>1. OnlyTo(answers[chan[t]], t)
      BY <2>1, <2>2 DEF AloneInv, Awaiting
    <3>2. Head(answers[chan[t]]).to = t
      BY <2>1, <3>1, OnlyToSteps
    <3> QED
      BY <2>1, <2>2, <3>2
  <2>3. CASE v # t
    BY <1>1, <2>1, <2>3
  <2> QED
    BY <2>2, <2>3
<1>7. ASSUME NEW t \in Tasks, ReceiveFails(t) \/ TimeoutElapses(t) PROVE own'[v]
  <2>1. /\ pc' = [pc EXCEPT ![t] = "idle"] /\ UNCHANGED <<alone, own>>
        /\ result' \in {[result EXCEPT ![t] = "ChannelError"], [result EXCEPT ![t] = "Timeout"]}
    BY <1>7 DEF ReceiveFails, TimeoutElapses
  <2> QED
    BY <1>1, <2>1
<1>8. CASE (\E c \in Chans : Answer(c) \/ ConnectionLost(c)) \/ UNCHANGED vars
  <2>1. UNCHANGED <<pc, result, alone, own>>
    BY <1>8 DEF Answer, ConnectionLost, vars
  <2> QED
    BY <1>1, <2>1
<1> QED
  BY <1>2, <1>3, <1>4, <1>5, <1>6, <1>7, <1>8 DEF Next, Step

-----------------------------------------------------------------------------
(* The theorems.                                                           *)

LEMMA Invariance == Spec => []IInv
<1>1. IInv /\ [Next]_vars => IInv'
  BY TypeStep, RegisterStep, OwnChannelStep, AloneStep, OwnAnswerStep DEF IInv
<1> QED
  BY InitOK, <1>1, PTL DEF Spec

\* Every reachable state of registration/mod.rs's calls is well typed, for any
\* tasks and loops; a channel's mutex is held exactly by the call that writes or reads.
THEOREM TypeCorrect == Spec => []TypeOK
<1>1. IInv => TypeOK
  BY DEF IInv
<1> QED
  BY Invariance, <1>1, PTL

\* A call that takes the next message on its channel as its answer is right to
\* do so when it has had the channel to itself, and a call on a channel of its
\* own always has, for any tasks and loops.
THEOREM SoleCallerGetsItsAnswerCorrect == Spec => []SoleCallerGetsItsAnswer
<1>1. IInv => SoleCallerGetsItsAnswer
  BY DEF IInv, OwnAnswer, OwnChannelInv, SoleCallerGetsItsAnswer
<1> QED
  BY Invariance, <1>1, PTL
=============================================================================
