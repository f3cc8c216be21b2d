------------------------------- MODULE Caches -------------------------------
(***************************************************************************)
(* The cache implementations behind the CacheService trait                 *)
(* (src/cache/mod.rs): users call them, their calls take steps, entries    *)
(* expire, calls fail and processes crash.                                 *)
(***************************************************************************)
EXTENDS InMemoryCache, FileCache, RedisCache, MemcachedCache, ProxyCacheService

\* Bound: no increment begins at MaxCount, or while one is on its way there.
CountBounded ==
    /\ Number(entry) < MaxCount
    /\ entry # NoEntry => entry.n < MaxCount
    /\ \A t \in Callers : call[t].seen \in Nat => call[t].seen < MaxCount

\* A user calls a method of the trait.
Use(t) ==
    \E o \in OpsOf(role), v \in Values :
        /\ o \in DataWrites \/ v = NoValue
        /\ o = "increment" => CountBounded
        /\ Begin(t, o, v)

\* The command or system call fails before it has any effect.
CallFails(t) ==
    /\ MayFail /\ Active(t) /\ call[t].pc # "sent"
    /\ call' = [call EXCEPT ![t] = Ended("Err", NoEntry)]
    /\ mutex' = IF mutex = t THEN NoOne ELSE mutex
    /\ flock' = IF flock = t THEN NoOne ELSE flock
    /\ handles' = handles \ {t} /\ Keep

Step(t) ==
    /\ \/ backend = "memory" /\ MemoryStep(t)
       \/ backend = "file" /\ FileStep(t)
       \/ backend = "redis" /\ RedisStep(t)
       \/ backend = "memcached" /\ MemcachedStep(t)
       \/ backend = "proxy" /\ ProxyStep(t)
       \/ backend = "disabled" /\ RedisDisabled(t)
       \/ CallFails(t)
    /\ UNCHANGED orders /\ Record(t)

\* The time of the entry is over.  The remote stores remove it; a lease
\* ends with its entry, except that of a lock file, whose time to live is
\* not the one the caller asked for.
Expire ==
    /\ Live(entry) /\ (Live(entry) => entry.ttl)
    /\ entry' = IF backend \in {"memory", "file"} THEN [entry EXCEPT !.exp = TRUE] ELSE NoEntry
    /\ leased' = IF backend = "file" THEN leased ELSE leased \ {entry.val}
    /\ UNCHANGED <<fixed, mutex, handles, flock, orders, call, token, current, allowed, crossed>>

LeaseEnds(t) ==
    /\ backend = "file" /\ t \in leased /\ leased' = leased \ {t}
    /\ UNCHANGED <<fixed, store, call, token, current, allowed, crossed>>

\* A process ends in the middle of a call, or while it holds the lock.
Crash(t) ==
    /\ <<backend, role>> \in Crashes /\ ~shared
    /\ Active(t) \/ t \in leased
    /\ call' = [call EXCEPT ![t].pc = "crashed", ![t].seen = NoEntry]
    /\ handles' = handles \ {t} /\ flock' = IF flock = t THEN NoOne ELSE flock
    /\ leased' = leased \ {t}
    /\ UNCHANGED <<fixed, entry, mutex, orders, token, current, allowed, crossed>>

Interference ==
    \/ backend = "memory" /\ MemoryCleanup
    \/ backend = "file" /\ FileOtherKey

-----------------------------------------------------------------------------
(* Properties.                                                             *)

ReadIsFresh(t) ==
    /\ role = "data" /\ Active(t) /\ call[t].op \in DataReads /\ call[t].pc # "sent"
    /\ call'[t].pc = "idle" /\ call'[t].got # NoEntry
    => \/ call'[t].got \in allowed[t]
       \/ backend = "file" /\ call'[t].got \in {Empty, Mixed, Foreign}

\* A read gives nothing, or a value that was stored by a write that is still
\* the last one or that overlaps with the read or with another write.  Files
\* may also give no contents yet, two values in one, and what was written
\* for another key (set truncates before it locks, key_to_path adds up bytes);
\* and a call of ProxyCacheService that met another on its connection (sent)
\* may be given the answer to that one.  Whoever met none reads what is there,
\* also what such a call has left behind.
FreshReads == [][\A t \in Callers : ReadIsFresh(t)]_cacheVars

\* In the remote stores every increment that was executed since the counter
\* was last stored anew is in its value (increment; for Memcached as long as
\* the callers share one object).
CountsKept ==
    /\ role = "counter" /\ entry # NoEntry
    /\ backend \in {"redis", "proxy"} \/ (backend = "memcached" /\ shared)
    => entry.val = entry.n

Racing(ls) == \E u \in Callers, l \in ls : At(u, l, {"lock"}) /\ call'[u] # call[u]
StaleUnlock ==
    \E u \in Callers : At(u, "remove", {"unlock"}) /\ call[u].seen = u /\ call'[u] # call[u]
LossHasCause ==
    \/ backend = "memory" /\ (call' = call \/ Racing({"evict", "insert"}) \/ StaleUnlock)
    \/ backend = "file" /\ (call' = call \/ Racing({"purge"}) \/ StaleUnlock)
    \/ backend = "memcached" /\ StaleUnlock
LeaseStep ==
    /\ \A t \in leased' \ leased : entry'.ttl
    /\ \A t \in leased \intersect leased' :
         Holds(entry, t) /\ ~Holds(entry', t) => LossHasCause

\* A caller that has the lock and whose lease runs loses its entry only by a
\* flush, or: in memory, to an eviction, to a lock that looked before the
\* entry was there or an unlock that did while another's was; as a file, to
\* the default time to live, another key, or a removal decided earlier; in
\* Memcached to an unlock that compared the token earlier.  Redis and the
\* orchestrator do not lose it.
\* And whoever is given a lock has one that ends by itself if he does not
\* (lock, in whose Redis form the time to live is a second command).
LockLossHasCause == [][LeaseStep]_cacheVars

\* What a lock promises, for the stores that keep it: one lease at a time.
\* Redis: whatever becomes of the calls.  The orchestrator: a lease is what an
\* answer of its own has given; a call that met another on the connection may
\* be given any string as its token, and leads to none.
Lock == INSTANCE ExclusiveLock WITH
            holders <- IF backend \in {"redis", "proxy"} THEN leased ELSE {}
Exclusive == Lock!Spec
=============================================================================
