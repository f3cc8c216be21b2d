----------------------------- MODULE CacheCalls -----------------------------
(***************************************************************************)
(* The calls of the CacheService trait (src/cache/mod.rs) as seen from one *)
(* key: the state that all implementations share, how a call begins, goes  *)
(* on and ends, and the history that the properties are about.  Modules    *)
(* InMemoryCache, FileCache, RedisCache, MemcachedCache and                *)
(* ProxyCacheService give the steps of a call, Caches puts them together.  *)
(*                                                                         *)
(* Time is left out: an entry with a time to live may expire at any time   *)
(* after it has been stored.  Other keys only matter where they can touch  *)
(* this one (eviction, files of the same name, and calls on the same       *)
(* connection).  The counters of hits and misses are write-only and left   *)
(* out.                                                                    *)
(***************************************************************************)
EXTENDS Naturals, FiniteSets, Sequences

CONSTANTS
    Callers,
    Uses,      \* pairs of an implementation and what the key is used for
    Strings,   \* implementations under which an entity may be a String
    Values,    \* data values; a value is also its length
    MaxCount,  \* bound: no increment begins at this count
    MaxOrders, \* bound: operations on their way to the orchestrator
    Fails,     \* uses in which I/O and remote commands may fail
    Crashes,   \* uses in which a caller's process may crash
    NoEntry, NoOne,
    Empty,     \* contents of a file that was created or truncated
    Mixed,     \* contents that nobody wrote: two writes, or padding
    Foreign    \* contents of another key, also a file truncated for it

ASSUME CallersAssumption == Callers # {} /\ NoOne \notin Callers
Backends == {"memory", "file", "redis", "memcached", "proxy", "disabled"}
\* The key holds data, a counter, a lock, or an entity of a source.
Roles == {"data", "counter", "lock", "entity"}

ASSUME UsesAssumption == Uses \subseteq Backends \X Roles /\ Strings \subseteq Backends
ASSUME ValuesAssumption == Values \subseteq Nat \ {0} /\ Values # {} /\ {MaxCount, MaxOrders} \subseteq Nat \ {0}
ASSUME FaultsAssumption == Fails \subseteq Uses /\ Crashes \subseteq Uses

DataReads == {"get", "get_many", "exists"}
DataWrites == {"set", "set_many", "set_nx", "get_set"}
Removals == {"delete", "delete_many", "clear", "flush"}
Ops == DataReads \union DataWrites \union Removals \union {"increment", "lock", "unlock"}

OpsOf(r) == CASE r = "data" -> DataReads \union DataWrites \union Removals
              [] r = "counter" -> {"increment", "delete", "flush"}
              [] r = "lock" -> {"flush"}
              [] r = "entity" -> {}
Contents == Nat \union Callers \union {Empty, Mixed, Foreign}

\* n counts the increments that have been stored in this entry.
Entries == [val : Contents, ttl : BOOLEAN, exp : BOOLEAN, n : Nat]

\* Values, numbers, tokens and what else a file may contain are told apart.
ASSUME ContentsAssumption ==
    /\ NoEntry \notin Contents /\ NoEntry \notin Entries
    /\ \A c \in Callers \union {Empty, Mixed, Foreign} : c \notin Nat
    /\ \A c \in {Empty, Mixed, Foreign} : c \notin Callers
    /\ Empty \notin {Mixed, Foreign}

PCs == {"idle", "called", "purge", "evict", "insert", "remove", "open", "opened",
        "flocked", "look", "named", "expire", "truncated", "store", "sent", "crashed"}
Call == [pc : PCs, op : Ops, arg : Nat, seen : Contents \union {NoEntry},
         res : {"none", "Ok", "Yes", "No", "Err"}, got : Contents \union {NoEntry}]
Tokens == {"none", "valid", "stale", "other"}

\* An operation on its way to the orchestrator.
Orders == [op : Ops, arg : Nat, by : Callers]

VARIABLES
    backend,  \* which implementation
    role,
    shared,   \* the callers use one object (of one process), or one each
    text,     \* the entity is a String, for which some patterns have a form of its own
    entry,    \* what is stored under the key
    call,     \* the call of each caller: where it is, what it has found, how it ended
    token,    \* DistributedLock::token: none, that of the caller's last entry, an older
              \* one, or one that was perhaps meant for another call
    mutex,    \* MemcachedCache::client
    handles,  \* callers with an open handle on the present file
    flock,    \* who has locked the present file
    orders,   \* what was sent over a shared connection and is still to be done
    current,  \* history: the values a read that starts now may return
    allowed,  \* history: the ones a read that has started may return
    crossed,  \* history: writes that have overlapped with another write
    leased    \* history: callers that were given the lock and whose lease runs

store == <<entry, mutex, handles, flock, orders>>
history == <<current, allowed, crossed, leased>>
fixed == <<backend, role, shared, text>>
cacheVars == <<fixed, store, call, token, history>>

CallsTypeOK ==
    /\ <<backend, role>> \in Uses /\ shared \in BOOLEAN /\ text \in BOOLEAN
    /\ entry \in Entries \union {NoEntry}
    /\ call \in [Callers -> Call]
    /\ token \in [Callers -> Tokens]
    /\ mutex \in Callers \union {NoOne} /\ flock \in Callers \union {NoOne}
    /\ handles \subseteq Callers
    /\ orders \in Seq(Orders)
    /\ current \subseteq Values /\ allowed \in [Callers -> SUBSET Values]
    /\ crossed \subseteq Callers /\ leased \subseteq Callers

NoValue == CHOOSE v \in Values : TRUE
Ended(r, g) == [pc |-> "idle", op |-> "get", arg |-> NoValue, seen |-> NoEntry,
                res |-> r, got |-> g]

\* create_cache_service and the constructors of the implementations.
CallsInit ==
    /\ \E u \in Uses : backend = u[1] /\ role = u[2]
    /\ shared \in CASE backend = "memory" -> {TRUE}
                    [] backend \in {"memcached", "proxy"} -> BOOLEAN
                    [] OTHER -> {FALSE}
    /\ entry = NoEntry /\ mutex = NoOne /\ handles = {} /\ flock = NoOne
    /\ orders = <<>> /\ text \in BOOLEAN /\ (text => role = "entity" /\ backend \in Strings)
    /\ call = [t \in Callers |-> Ended("none", NoEntry)]
    /\ token = [t \in Callers |-> "none"]
    /\ current = {} /\ allowed = [t \in Callers |-> {}] /\ crossed = {} /\ leased = {}

Live(e) == IF e = NoEntry THEN FALSE ELSE ~e.exp
Expired(e) == IF e = NoEntry THEN FALSE ELSE e.exp
Holds(e, v) == IF Live(e) THEN e.val = v ELSE FALSE
Reading(e) == IF Live(e) THEN e.val ELSE NoEntry
Number(e) == IF Reading(e) \in Nat THEN Reading(e) ELSE 0

At(t, l, ops) == call[t].pc = l /\ call[t].op \in ops
Active(t) == call[t].pc \notin {"idle", "crashed"}
Writers == {t \in Callers : Active(t) /\ call[t].op \in DataWrites \union Removals}

-----------------------------------------------------------------------------
(* How a call begins, goes on and ends.                                    *)

\* The call of t begins; v is the value it stores, if it does.
Begin(t, o, v) ==
    LET others == Writers \ {t}
        writes == o \in DataWrites \union Removals IN
    /\ call[t].pc = "idle"
    /\ call' = [call EXCEPT ![t] = [pc |-> "called", op |-> o, arg |-> v, seen |-> NoEntry,
                                    res |-> "none", got |-> NoEntry]]
    /\ current' = IF o \in DataWrites /\ role = "data" THEN current \union {v} ELSE current
    /\ allowed' = [u \in Callers |->
            IF u = t THEN (IF o \in DataReads THEN current' ELSE {})
            ELSE IF At(u, call[u].pc, DataReads) /\ Active(u) THEN allowed[u] \union current'
            ELSE {}]
    /\ crossed' = IF role = "data" /\ writes /\ others # {}
                  THEN crossed \union others \union {t} ELSE crossed
    /\ leased' = IF o = "unlock" THEN leased \ {t} ELSE leased
    /\ UNCHANGED <<fixed, store, token>>

\* The call goes on at l, having found f.
Goto(t, l, f) == call' = [call EXCEPT ![t].pc = l, ![t].seen = f]

MayFail == backend # "memory" /\ <<backend, role>> \in Fails

\* The call ends with result r and value g; I/O and remote commands may have
\* failed after they had their effect.
Return(t, r, g) ==
    \/ call' = [call EXCEPT ![t] = Ended(r, g)]
    \/ MayFail /\ call' = [call EXCEPT ![t] = Ended("Err", NoEntry)]

\* Operation o stores v.
PutBy(o, v, withTtl) ==
    entry' = [val |-> v, ttl |-> withTtl, exp |-> FALSE,
              n |-> IF o # "increment" THEN 0
                    ELSE IF Live(entry) THEN entry.n + 1 ELSE 1]
Put(v, withTtl, t) == PutBy(call[t].op, v, withTtl)
Drop == entry' = NoEntry
Keep == UNCHANGED entry

\* An entry is not found in the remote store once its time is over.
Answer(b) == IF b THEN "Yes" ELSE "No"

\* The history after a step of t: a successful write that was alone decides
\* what is stored, removing a lock on purpose ends its lease (also before it
\* has been returned), and a new token makes the one that t has an old one.
Record(t) ==
    LET ended == call'[t].pc = "idle"
        decides == ended /\ t \in Writers \ crossed /\ call'[t].res \in {"Ok", "Yes"} IN
    /\ current' = IF ~decides THEN current
                  ELSE IF call[t].op \in Removals THEN {} ELSE current \intersect {call[t].arg}
    /\ crossed' = IF ended THEN crossed \ {t} ELSE crossed
    /\ leased' = CASE call[t].op = "lock" /\ ended /\ call'[t].res = "Yes" /\ Holds(entry', t)
                         -> leased \union {t}
                   [] call[t].op \in Removals /\ entry' # entry -> {}
                   [] OTHER -> leased
    /\ token' = IF call[t].op = "lock" /\ token[t] = "valid" /\ entry' # entry /\ Holds(entry', t)
                THEN [token EXCEPT ![t] = "stale"] ELSE token
    /\ UNCHANGED <<fixed, allowed>>
=============================================================================
