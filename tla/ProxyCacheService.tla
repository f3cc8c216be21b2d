------------------------- MODULE ProxyCacheService --------------------------
(***************************************************************************)
(* ProxyCacheService (src/cache/proxy_service.rs): operations that the     *)
(* orchestrator executes.  The orchestrator is not part of the repository: *)
(* it is taken to do each operation atomically and in the order they were  *)
(* sent, as its name says, and to remove what has expired.  Its answer may *)
(* be an error, be lost, or not be understood (Return), after the          *)
(* operation has had its effect.                                           *)
(*                                                                         *)
(* The answers to all calls of one object, on whatever key, have the same  *)
(* identifier, that of the connection (src/ipc.rs).  A call that meets no  *)
(* other is one step, ProxyStep.  One that does is sent, done by the       *)
(* orchestrator some time, and given the answer to any of them, or an      *)
(* error because another took its place in the map of pending calls.  The  *)
(* calls on other keys are not followed: they may be there at any time.    *)
(***************************************************************************)
EXTENDS CacheCalls

\* Nothing is under way on the connection.
Quiet == orders = <<>> /\ \A t \in Callers : call[t].pc # "sent"

Proxied(t, o) ==
    At(t, "called", {o}) /\ (shared => Quiet) /\ UNCHANGED <<mutex, handles, flock>>

ProxyGet(t) == Proxied(t, "get") /\ Keep /\ Return(t, "Ok", Reading(entry))
ProxyGetMany(t) == Proxied(t, "get_many") /\ Keep /\ Return(t, "Ok", Reading(entry))
ProxyExists(t) == Proxied(t, "exists") /\ Keep /\ Return(t, "Ok", Reading(entry))

\* Without ttl_seconds the orchestrator decides whether there is a limit.
ProxyStores(t, v) == \E ttl \in BOOLEAN : Put(v, ttl, t)
ProxySet(t) == Proxied(t, "set") /\ ProxyStores(t, call[t].arg) /\ Return(t, "Ok", NoEntry)
ProxySetMany(t) ==
    Proxied(t, "set_many") /\ ProxyStores(t, call[t].arg) /\ Return(t, "Ok", NoEntry)
ProxyGetSet(t) ==
    Proxied(t, "get_set") /\ ProxyStores(t, call[t].arg) /\ Return(t, "Ok", Reading(entry))
ProxySetNx(t) ==
    /\ Proxied(t, "set_nx")
    /\ IF entry = NoEntry THEN ProxyStores(t, call[t].arg) /\ Return(t, "Yes", NoEntry)
                          ELSE Keep /\ Return(t, "No", NoEntry)

ProxyIncrement(t) ==
    /\ Proxied(t, "increment")
    /\ ProxyStores(t, Number(entry) + 1) /\ Return(t, "Ok", Number(entry) + 1)

ProxyDelete(t) ==
    Proxied(t, "delete") /\ Drop /\ Return(t, Answer(entry # NoEntry), NoEntry)
ProxyDeleteMany(t) ==
    Proxied(t, "delete_many") /\ Drop /\ Return(t, Answer(entry # NoEntry), NoEntry)
ProxyClear(t) ==
    \/ Proxied(t, "clear") /\ Drop /\ Return(t, "Ok", NoEntry)
    \/ Proxied(t, "clear") /\ Keep /\ Return(t, "No", NoEntry)
ProxyFlush(t) == Proxied(t, "flush") /\ Drop /\ Return(t, "Ok", NoEntry)

ProxyLock(t) ==
    /\ Proxied(t, "lock")
    /\ IF entry = NoEntry THEN Put(t, TRUE, t) /\ Return(t, "Yes", NoEntry)
                          ELSE Keep /\ Return(t, "No", NoEntry)
\* The token of a lease is known to its holder alone; any other that came
\* as an answer to some call may be the one in the entry.
Fits == entry # NoEntry /\ (entry # NoEntry => entry.val \notin leased)
ProxyUnlock(t) ==
    \/ /\ Proxied(t, "unlock") /\ Drop /\ Return(t, "Yes", NoEntry)
       /\ (Holds(entry, t) /\ token[t] = "valid") \/ (token[t] = "other" /\ Fits)
    \/ /\ Proxied(t, "unlock") /\ Keep /\ Return(t, "No", NoEntry)
       /\ ~(Holds(entry, t) /\ token[t] = "valid")

ProxyStep(t) ==
    \/ ProxyGet(t) \/ ProxyGetMany(t) \/ ProxyExists(t) \/ ProxySet(t) \/ ProxySetMany(t)
    \/ ProxyGetSet(t) \/ ProxySetNx(t) \/ ProxyIncrement(t) \/ ProxyDelete(t)
    \/ ProxyDeleteMany(t) \/ ProxyClear(t) \/ ProxyFlush(t) \/ ProxyLock(t) \/ ProxyUnlock(t)

-----------------------------------------------------------------------------
(* Calls that meet others on their connection.                             *)

\* send_request: the sender is put in the pending map under the identifier
\* of the connection, instead of the one that was there.
ProxySend(t) ==
    /\ backend = "proxy" /\ shared /\ call[t].pc = "called" /\ Len(orders) < MaxOrders
    /\ orders' = Append(orders, [op |-> call[t].op, arg |-> call[t].arg, by |-> t])
    /\ Goto(t, "sent", NoEntry)
    /\ UNCHANGED <<fixed, entry, mutex, handles, flock, token, history>>

\* What a method can make of the result of any operation.  Contents that
\* may be those of another key are Foreign.
Readable(o) ==
    CASE o \in DataReads \union {"get_set"} -> {"Ok"} \X {Foreign, NoEntry}
      [] o \in {"set", "set_many", "clear", "flush"} -> {<<"Ok", NoEntry>>}
      [] o \in {"set_nx", "delete", "delete_many", "unlock"} -> {"Yes", "No"} \X {NoEntry}
      [] o = "increment" -> {"Ok"} \X (1..MaxCount)
      [] o = "lock" -> {<<"Yes", Foreign>>, <<"No", NoEntry>>}

\* The answer to this call or another is forwarded and read, or cannot be
\* read, or the receiver finds that its sender has been replaced.
ProxyAnswered(t) ==
    /\ call[t].pc = "sent"
    /\ \E a \in Readable(call[t].op) \union {<<"Err", NoEntry>>} :
           call' = [call EXCEPT ![t] = Ended(a[1], a[2])]
    /\ crossed' = crossed \ {t}
    /\ UNCHANGED <<fixed, store, token, current, allowed, leased>>

\* An operation is done, whatever has become of its call, or it fails.
Does(d) ==
    \/ Keep
    \/ d.op \in {"set", "set_many", "get_set"} /\ \E ttl \in BOOLEAN : PutBy(d.op, d.arg, ttl)
    \/ d.op = "set_nx" /\ entry = NoEntry /\ \E ttl \in BOOLEAN : PutBy(d.op, d.arg, ttl)
    \/ d.op = "increment" /\ \E ttl \in BOOLEAN : PutBy(d.op, Number(entry) + 1, ttl)
    \/ d.op \in Removals /\ Drop
    \/ d.op = "lock" /\ entry = NoEntry /\ PutBy(d.op, d.by, TRUE)
    \/ d.op = "unlock" /\ Fits /\ Drop
OrchestratorDoes ==
    /\ orders # <<>> /\ Does(Head(orders)) /\ orders' = Tail(orders)
    /\ LET d == Head(orders)
           relocks == d.op = "lock" /\ entry' # entry /\ token[d.by] = "valid" IN
       /\ token' = IF relocks THEN [token EXCEPT ![d.by] = "stale"] ELSE token
       /\ leased' = IF d.op \in Removals /\ entry' # entry THEN {} ELSE leased
    /\ UNCHANGED <<fixed, mutex, handles, flock, call, current, allowed, crossed>>
=============================================================================
