--------------------------- MODULE MemcachedCache ---------------------------
(***************************************************************************)
(* MemcachedCache (src/cache/memcached.rs): commands to a server that      *)
(* executes each one atomically, sent through one client behind a mutex.   *)
(* A method that keeps the mutex over two commands excludes the other      *)
(* callers of the same object, not those of other objects.                 *)
(***************************************************************************)
EXTENDS CacheCalls

\* The mutex of the client that t uses is free.
ClientFree == shared => mutex = NoOne

\* One command under the mutex.
Command(t, o) == At(t, "called", {o}) /\ ClientFree /\ UNCHANGED mutex

MemcachedRead(t, o) == Command(t, o) /\ Keep /\ Return(t, "Ok", Reading(entry))
MemcachedGet(t) == MemcachedRead(t, "get")
MemcachedGetMany(t) == MemcachedRead(t, "get_many")
MemcachedExists(t) == MemcachedRead(t, "exists")

MemcachedSet(t) == Command(t, "set") /\ Put(call[t].arg, TRUE, t) /\ Return(t, "Ok", NoEntry)
MemcachedSetMany(t) ==
    Command(t, "set_many") /\ Put(call[t].arg, TRUE, t) /\ Return(t, "Ok", NoEntry)

\* ADD stores only under a key that has nothing.
AddCommand(t, v) ==
    IF entry = NoEntry THEN Put(v, TRUE, t) /\ Return(t, "Yes", NoEntry)
                       ELSE Keep /\ Return(t, "No", NoEntry)
MemcachedSetNx(t) == Command(t, "set_nx") /\ AddCommand(t, call[t].arg)

\* The mutex is held from the first command to the second.
TakesClient(t) == ClientFree /\ mutex' = IF shared THEN t ELSE mutex
LeavesClient(t) == mutex' = IF mutex = t THEN NoOne ELSE mutex

MemcachedGetSet(t) ==
    \/ /\ At(t, "called", {"get_set"}) /\ TakesClient(t) /\ Keep
       /\ Goto(t, "store", Reading(entry))
    \/ /\ At(t, "store", {"get_set"}) /\ LeavesClient(t)
       /\ Put(call[t].arg, TRUE, t) /\ Return(t, "Ok", call[t].seen)

MemcachedIncrement_Unlocked(t) ==
    \/ /\ Command(t, "increment") /\ entry # NoEntry
       /\ Put(Number(entry) + 1, entry.ttl, t) /\ Return(t, "Ok", Number(entry) + 1)
    \/ Command(t, "increment") /\ entry = NoEntry /\ Keep /\ Goto(t, "store", NoEntry)
    \/ /\ At(t, "store", {"increment"}) /\ LeavesClient(t)
       /\ Put(1, TRUE, t) /\ Return(t, "Ok", 1)

\* INCR, or SET where there is nothing to count.
MemcachedIncrement(t) ==
    \/ /\ Command(t, "increment") /\ entry # NoEntry
       /\ Put(Number(entry) + 1, entry.ttl, t) /\ Return(t, "Ok", Number(entry) + 1)
    \/ /\ At(t, "called", {"increment"}) /\ entry = NoEntry
       /\ TakesClient(t) /\ Keep /\ Goto(t, "store", NoEntry)
    \/ /\ At(t, "store", {"increment"}) /\ LeavesClient(t)
       /\ Put(1, TRUE, t) /\ Return(t, "Ok", 1)

\* The client reports a missing key as Ok(false), which is taken for success.
MemcachedDelete(t) == Command(t, "delete") /\ Drop /\ Return(t, "Yes", NoEntry)
MemcachedDeleteMany(t) == Command(t, "delete_many") /\ Drop /\ Return(t, "Yes", NoEntry)

\* Only the configured namespace can be cleared, and everything with it.
MemcachedClear(t) ==
    \/ Command(t, "clear") /\ Drop /\ Return(t, "Ok", NoEntry)
    \/ Command(t, "clear") /\ Keep /\ Return(t, "Err", NoEntry)
MemcachedFlush(t) == Command(t, "flush") /\ Drop /\ Return(t, "Ok", NoEntry)

MemcachedLock(t) == Command(t, "lock") /\ AddCommand(t, t)

\* GET and DELETE, each under the mutex.
MemcachedUnlock(t) ==
    \/ /\ Command(t, "unlock") /\ Keep
       /\ IF Holds(entry, t) /\ token[t] = "valid" THEN Goto(t, "remove", t)
                                                   ELSE Return(t, "No", NoEntry)
    \/ /\ At(t, "remove", {"unlock"}) /\ ClientFree /\ UNCHANGED mutex
       /\ Drop /\ Return(t, "Yes", NoEntry)

MemcachedStep(t) ==
    /\ \/ MemcachedGet(t) \/ MemcachedGetMany(t) \/ MemcachedExists(t) \/ MemcachedSet(t)
       \/ MemcachedSetMany(t) \/ MemcachedSetNx(t) \/ MemcachedGetSet(t)
       \/ MemcachedIncrement(t) \/ MemcachedDelete(t) \/ MemcachedDeleteMany(t)
       \/ MemcachedClear(t) \/ MemcachedFlush(t) \/ MemcachedLock(t) \/ MemcachedUnlock(t)
    /\ UNCHANGED <<handles, flock>>
=============================================================================
