----------------------------- MODULE RedisCache -----------------------------
(***************************************************************************)
(* RedisCache (src/cache/redis.rs): commands to a server that executes     *)
(* each one atomically and removes what has expired.  A command is one     *)
(* step; a method that sends two has two.                                  *)
(***************************************************************************)
EXTENDS CacheCalls

RedisRead(t, o) == At(t, "called", {o}) /\ Keep /\ Return(t, "Ok", Reading(entry))
RedisGet(t) == RedisRead(t, "get")
RedisGetMany(t) == RedisRead(t, "get_many")
RedisExists(t) == RedisRead(t, "exists")

RedisSet(t) == At(t, "called", {"set"}) /\ Put(call[t].arg, TRUE, t) /\ Return(t, "Ok", NoEntry)

\* Without a time to live the entries of a batch stay for ever.
RedisSetMany(t) ==
    /\ At(t, "called", {"set_many"}) /\ Return(t, "Ok", NoEntry)
    /\ \E ttl \in BOOLEAN : Put(call[t].arg, ttl, t)

\* GETSET takes the time to live away.
RedisGetSet(t) ==
    /\ At(t, "called", {"get_set"})
    /\ Put(call[t].arg, FALSE, t) /\ Return(t, "Ok", Reading(entry))

\* INCR keeps the time to live of a counter and gives a new one none.
RedisIncrement(t) ==
    /\ At(t, "called", {"increment"})
    /\ Put(Number(entry) + 1, IF Live(entry) THEN entry.ttl ELSE FALSE, t)
    /\ Return(t, "Ok", Number(entry) + 1)

RedisDelete(t) ==
    /\ At(t, "called", {"delete"}) /\ Drop
    /\ Return(t, Answer(entry # NoEntry), NoEntry)
RedisDeleteMany(t) ==
    /\ At(t, "called", {"delete_many"}) /\ Drop
    /\ Return(t, Answer(entry # NoEntry), NoEntry)

\* KEYS and then DEL of what was listed; "No": the pattern does not fit.
RedisClear(t) ==
    \/ At(t, "called", {"clear"}) /\ Keep /\ Return(t, "No", NoEntry)
    \/ /\ At(t, "called", {"clear"}) /\ Keep
       /\ IF entry = NoEntry THEN Return(t, "Ok", NoEntry) ELSE Goto(t, "remove", NoEntry)
    \/ At(t, "remove", {"clear"}) /\ Drop /\ Return(t, "Ok", NoEntry)
RedisFlush(t) == At(t, "called", {"flush"}) /\ Drop /\ Return(t, "Ok", NoEntry)

SetIfNone_Anyway(t, v) == Put(v, FALSE, t)

\* SETNX without a time to live.
SetIfNone(t, v) == entry = NoEntry /\ Put(v, FALSE, t)

RedisSetNx(t) ==
    \/ /\ At(t, "called", {"set_nx"}) /\ SetIfNone(t, call[t].arg)
       /\ Goto(t, "expire", NoEntry) \/ Return(t, "Yes", NoEntry)
    \/ At(t, "called", {"set_nx"}) /\ entry # NoEntry /\ Keep /\ Return(t, "No", NoEntry)

RedisLock_NoExpire(t) ==
    \/ At(t, "called", {"lock"}) /\ SetIfNone(t, t) /\ Return(t, "Yes", NoEntry)
    \/ At(t, "called", {"lock"}) /\ entry # NoEntry /\ Keep /\ Return(t, "No", NoEntry)

RedisLock(t) ==
    \/ At(t, "called", {"lock"}) /\ SetIfNone(t, t) /\ Goto(t, "expire", NoEntry)
    \/ At(t, "called", {"lock"}) /\ entry # NoEntry /\ Keep /\ Return(t, "No", NoEntry)

\* EXPIRE of whatever is under the key, whether or not there is anything.
RedisExpire(t) ==
    /\ At(t, "expire", {"set_nx", "lock"})
    /\ IF entry = NoEntry THEN Keep ELSE entry' = [entry EXCEPT !.ttl = TRUE]
    /\ Return(t, "Yes", NoEntry)

\* One script compares the token and deletes the key.
RedisUnlock(t) ==
    /\ At(t, "called", {"unlock"})
    /\ IF Holds(entry, t) /\ token[t] = "valid" THEN Drop /\ Return(t, "Yes", NoEntry)
                                                ELSE Keep /\ Return(t, "No", NoEntry)

RedisStep(t) ==
    /\ \/ RedisGet(t) \/ RedisGetMany(t) \/ RedisExists(t) \/ RedisSet(t) \/ RedisSetMany(t)
       \/ RedisGetSet(t) \/ RedisSetNx(t) \/ RedisIncrement(t) \/ RedisDelete(t)
       \/ RedisDeleteMany(t) \/ RedisClear(t) \/ RedisFlush(t)
       \/ RedisLock(t) \/ RedisExpire(t) \/ RedisUnlock(t)
    /\ UNCHANGED <<mutex, handles, flock>>

\* Without the feature redis_cache every method is an error.
RedisDisabled(t) ==
    /\ At(t, "called", Ops)
    /\ Keep /\ UNCHANGED <<mutex, handles, flock>>
    /\ Return(t, "Err", NoEntry)
=============================================================================
