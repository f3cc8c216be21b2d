--------------------------- MODULE InMemoryCache ----------------------------
(***************************************************************************)
(* InMemoryCache (src/cache/in_memory.rs): a concurrent map.  One          *)
(* operation on the map is one step, so that a method that looks and then  *)
(* stores or removes does so in two.  Expired entries stay in the map      *)
(* until a read or the background task removes them.                       *)
(***************************************************************************)
EXTENDS CacheCalls

\* What a stored entry holds: the value, a counter's next number, the token.
MemoryValue(t) == CASE call[t].op = "lock" -> t
                    [] call[t].op = "increment" -> call[t].seen + 1
                    [] OTHER -> call[t].arg

\* A read finds the entry, or leaves an expired one to its next step.
MemoryRead(t, o) ==
    /\ At(t, "called", {o}) /\ Keep
    /\ IF Expired(entry) THEN Goto(t, "purge", NoEntry) ELSE Return(t, "Ok", Reading(entry))
MemoryGet(t) == MemoryRead(t, "get")
MemoryGetMany(t) == MemoryRead(t, "get_many")

\* The read guard was dropped: what is removed is whatever is there now.
MemoryPurge(t) == At(t, "purge", {"get", "get_many"}) /\ Drop /\ Return(t, "Ok", NoEntry)

MemoryExists(t) == At(t, "called", {"exists"}) /\ Keep /\ Return(t, "Ok", Reading(entry))

MemorySet(t) == At(t, "called", {"set"}) /\ Keep /\ Goto(t, "evict", NoEntry)

MemorySetNx(t) ==
    \/ /\ At(t, "called", {"set_nx"}) /\ Keep
       /\ IF Live(entry) THEN Return(t, "No", NoEntry)
          ELSE Goto(t, IF Expired(entry) THEN "purge" ELSE "evict", NoEntry)
    \/ At(t, "purge", {"set_nx"}) /\ Drop /\ Goto(t, "evict", NoEntry)

MemoryGetSet(t) == At(t, "called", {"get_set"}) /\ Keep /\ Goto(t, "evict", Reading(entry))

MemoryIncrement(t) == At(t, "called", {"increment"}) /\ Keep /\ Goto(t, "evict", Number(entry))

\* maybe_evict: any entries may be chosen, a lock that is held among them.
MaybeEvict(t) ==
    /\ At(t, "evict", Ops) /\ Goto(t, "insert", call[t].seen)
    /\ Keep \/ Drop

\* The batch makes room by an eviction of its own.
MemorySetMany(t) ==
    /\ At(t, "called", {"set_many"}) /\ Goto(t, "insert", NoEntry)
    /\ Keep \/ Drop

MemoryInsert_KeepsOld(t) ==
    /\ At(t, "insert", Ops)
    /\ IF Live(entry) /\ call[t].op = "set" THEN Keep ELSE Put(MemoryValue(t), TRUE, t)
    /\ Return(t, IF call[t].op \in {"set_nx", "lock"} THEN "Yes" ELSE "Ok",
              IF call[t].op = "get_set" THEN call[t].seen ELSE NoEntry)

\* DashMap::insert replaces what is there.
MemoryInsert(t) ==
    /\ At(t, "insert", Ops)
    /\ Put(MemoryValue(t), TRUE, t)
    /\ Return(t, IF call[t].op \in {"set_nx", "lock"} THEN "Yes" ELSE "Ok",
              IF call[t].op = "get_set" THEN call[t].seen ELSE NoEntry)

MemoryDelete(t) ==
    /\ At(t, "called", {"delete"}) /\ Drop
    /\ Return(t, Answer(entry # NoEntry), NoEntry)
MemoryDeleteMany(t) ==
    /\ At(t, "called", {"delete_many"}) /\ Drop
    /\ Return(t, Answer(entry # NoEntry), NoEntry)

\* Everything is cleared, or the keys with the prefix are listed and then
\* removed; "No": the prefix is not that of this key.
MemoryClear(t) ==
    \/ At(t, "called", {"clear"}) /\ Drop /\ Return(t, "Ok", NoEntry)
    \/ At(t, "called", {"clear"}) /\ Keep /\ Return(t, "No", NoEntry)
    \/ At(t, "called", {"clear"}) /\ Keep /\ entry # NoEntry /\ Goto(t, "remove", NoEntry)
    \/ At(t, "remove", {"clear"}) /\ Drop /\ Return(t, "Ok", NoEntry)
MemoryFlush(t) == At(t, "called", {"flush"}) /\ Drop /\ Return(t, "Ok", NoEntry)

MemoryLock(t) ==
    /\ At(t, "called", {"lock"}) /\ Keep
    /\ IF Live(entry) THEN Return(t, "No", NoEntry) ELSE Goto(t, "evict", NoEntry)

\* The token is compared, the guard dropped, and the entry removed.
MemoryUnlock(t) ==
    \/ /\ At(t, "called", {"unlock"}) /\ Keep
       /\ IF Holds(entry, t) /\ token[t] = "valid" THEN Goto(t, "remove", t)
                                                   ELSE Return(t, "No", NoEntry)
    \/ At(t, "remove", {"unlock"}) /\ Drop /\ Return(t, "Yes", NoEntry)

MemoryStep(t) ==
    /\ \/ MemoryGet(t) \/ MemoryGetMany(t) \/ MemoryPurge(t) \/ MemoryExists(t)
       \/ MemorySet(t) \/ MemorySetNx(t) \/ MemoryGetSet(t) \/ MemorySetMany(t)
       \/ MemoryIncrement(t) \/ MaybeEvict(t) \/ MemoryInsert(t)
       \/ MemoryDelete(t) \/ MemoryDeleteMany(t) \/ MemoryClear(t) \/ MemoryFlush(t)
       \/ MemoryLock(t) \/ MemoryUnlock(t)
    /\ UNCHANGED <<mutex, handles, flock>>

\* The background task and the evictions of other keys' operations.
MemoryCleanup ==
    /\ entry # NoEntry /\ Drop
    /\ UNCHANGED <<fixed, mutex, handles, flock, orders, call, token, history>>
=============================================================================
