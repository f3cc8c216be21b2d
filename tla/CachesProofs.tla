---------------------------- MODULE CachesProofs -----------------------------
(***************************************************************************)
(* Theorems about CachePatterns, for any callers, values and bounds and    *)
(* every implementation of the cache.                                      *)
(***************************************************************************)
EXTENDS CachePatterns, FiniteSetTheorems, TLAPS

EntityOps == {"get", "set", "delete"}
OpsIn(r) == CASE r = "data" -> DataReads \union DataWrites \union Removals
              [] r = "counter" -> {"increment", "delete", "flush"}
              [] r = "lock" -> {"flush", "lock", "unlock"}
              [] r = "entity" -> EntityOps

EntityKinds == {"aside", "through", "behind", "event"}
LockKinds == {"try", "acquire", "with", "release"}

\* The calls and patterns that run are those of the key's role, and so is
\* what is on its way to an orchestrator.
OpsInv == \A t \in Callers : Active(t) => call[t].op \in OpsIn(role)
RangeOf(s) == {s[i] : i \in DOMAIN s}
OrdersInv ==
    /\ \A d \in RangeOf(orders) : d.op \in OpsIn(role)
    /\ orders # <<>> => backend = "proxy" /\ shared
    /\ \A t \in Callers : call[t].pc = "sent" => backend = "proxy" /\ shared

\* What a call may store.
Storable == IF role = "data" THEN Values ELSE Nat
TaskOK(t) ==
    /\ task[t].kind = "none" => task[t] = NoTask
    /\ task[t].kind \in EntityKinds =>
        role = "entity" /\ task[t].pc \in {"reading", "fetch", "source", "storing", "invalidate", "invalidating"}
    /\ task[t].kind \in LockKinds =>
        role = "lock" /\ task[t].pc \in {"locking", "sleep", "inside", "unlocking"}
    /\ task[t].kind \in {"through", "behind"} => task[t].val \in Values
    /\ task[t].pc = "locking" =>
        \/ Active(t) /\ call[t].op = "lock"
        \/ call[t].pc = "crashed"
        \/ call[t].pc = "idle" /\ call[t].res \in {"Yes", "No", "Err"}
TaskInv == \A t \in Callers : TaskOK(t)

\* What a call remembers, and what an entry and its handles are like.
Inserters == DataWrites \union {"increment", "lock"}
SeenOK(t) ==
    /\ call[t].op = "increment" /\ call[t].pc \in {"evict", "insert"} => call[t].seen \in Nat
    /\ At(t, "remove", {"unlock"}) => call[t].seen = t
    /\ call[t].pc \in {"evict", "insert"} => call[t].op \in Inserters
SeenInv == \A t \in Callers : SeenOK(t)
EntryInv ==
    /\ entry # NoEntry /\ backend \in {"memory", "file"} => entry.ttl
    /\ entry # NoEntry /\ backend \notin {"memory", "file"} => ~entry.exp
    /\ backend # "file" \/ entry = NoEntry => handles = {}

\* In the stores that keep a lock, whoever has a lease has the entry.
LeaseInv ==
    /\ role # "lock" => leased = {}
    /\ \A t \in Callers : Active(t) /\ call[t].op = "unlock" => t \notin leased
    /\ backend \in {"redis", "proxy"} => \A t \in leased : Holds(entry, t)
    /\ backend = "file" /\ role = "lock" =>
        /\ \A t \in handles : At(t, "named", {"lock"}) /\ entry.val \in {Empty, Foreign, Mixed}
        /\ \A t, u \in handles : t = u

\* A caller about to store the first number of a counter keeps the others out.
CountInv ==
    role = "counter" /\ backend = "memcached" /\ shared =>
        \A t \in Callers : At(t, "store", {"increment"}) => mutex = t /\ entry = NoEntry

\* What only a file may hold.
Special == IF backend = "file" THEN {Empty, Mixed, Foreign} ELSE {}
HoldsIfAny(v) == entry = NoEntry \/ entry.val = v

\* What is stored is what the last write, or one of those that overlap, has
\* stored; a read that runs may return it.
FreshInv ==
    role = "data" =>
        /\ entry # NoEntry => entry.val \in current \union Special
        /\ \A t \in Callers : Active(t) /\ call[t].op \in DataReads => current \subseteq allowed[t]
        /\ \A t \in Callers : Active(t) /\ call[t].op \in DataWrites => call[t].arg \in current
        /\ \A d \in RangeOf(orders) : d.op \in DataWrites => d.arg \in current
        /\ \A t, u \in Writers : t # u => t \in crossed
        /\ \A t \in Writers \ crossed :
            /\ backend = "redis" /\ At(t, "expire", {"set_nx"}) => HoldsIfAny(call[t].arg)
            /\ backend = "file" /\ call[t].pc \in {"opened", "flocked"} /\ t \notin handles =>
                entry = NoEntry \/ entry.val \in Special

IInv == TypeOK /\ OpsInv /\ OrdersInv /\ TaskInv /\ SeenInv /\ EntryInv /\ LeaseInv /\ CountInv /\ CountsKept /\ FreshInv

\* An entry is the version x, or there is none; files may hold more.
Good(x) == entry = NoEntry \/ entry.val \in Forms(x) \/ entry.val \in Special

\* The call of a pattern is the one it makes where it is.
PatternCall(t) ==
    /\ Active(t) =>
        \/ task[t].pc = "reading" /\ call[t].op = "get"
        \/ task[t].pc = "storing" /\ call[t].op = "set" /\ call[t].arg \in Forms(task[t].val)
        \/ task[t].pc = "invalidating" /\ call[t].op = "delete"
    /\ task[t].kind = "aside" => task[t].pc \in {"reading", "fetch", "storing"}
    /\ task[t].kind = "through" => task[t].pc \in {"source", "storing"}
    /\ task[t].kind = "behind" => task[t].pc = "storing"
    /\ task[t].kind = "event" => task[t].pc \in {"invalidate", "invalidating"}

\* What a pattern that runs alone, or beside others that read, has reached.
Opened(t) == call[t].pc \in {"opened", "flocked"}
Succeeded(t) == call[t].pc = "idle" /\ call[t].res # "Err"
Storing(t) ==
    /\ Succeeded(t) => Good(task[t].val)
    /\ backend = "file" /\ Opened(t) => entry = NoEntry \/ entry.val \in Special
PatternOK(t) ==
    /\ task[t].kind = "aside" => Good(source) /\ (task[t].pc = "storing" => task[t].val = source)
    /\ task[t].kind = "through" /\ task[t].pc = "source" => Good(source)
    /\ task[t].kind = "through" /\ task[t].pc = "storing" => task[t].val = source /\ Storing(t)
    /\ task[t].kind = "behind" => Storing(t)
    /\ task[t].pc = "invalidating" /\ Succeeded(t) => Good(source)

\* Whoever has truncated the file, and not written it, has not finished.
Owner(t) ==
    /\ task[t].kind # "none"
    /\ \/ call[t].pc = "crashed"
       \/ task[t].pc = "storing" /\ t \in handles /\ Opened(t)
       \/ task[t].pc = "storing" /\ call[t].pc = "idle" /\ call[t].res = "Err"

\* While nothing has gone wrong, patterns that write run alone, and between
\* the patterns the entry is the version of the source.
Followed ==
    /\ \A t, u \in Busy : t # u => task[t].kind = "aside"
    /\ behind # {} => Busy = {}
    /\ \A v, w \in behind : v = w
    /\ Busy = {} /\ behind = {} => Good(source)
    /\ \A v \in behind : Good(v)
    /\ \A t \in Busy : PatternOK(t)
    /\ backend = "file" /\ entry # NoEntry /\ entry.val = Empty => \E t \in Callers : Owner(t)
SourceInv ==
    role = "entity" =>
        /\ \A t \in Callers : PatternCall(t)
        /\ tainted = {} => Followed /\ Quiet

-----------------------------------------------------------------------------
(* Entries and calls.                                                      *)

NoneOr(S) == S \union {NoEntry}
EntryTypeOK == entry \in NoneOr(Entries)

LEMMA EntryFacts ==
    ASSUME EntryTypeOK
    PROVE  /\ Reading(entry) \in NoneOr(Contents) /\ Number(entry) \in Nat
           /\ entry # NoEntry => /\ entry \in Entries /\ entry.val \in Contents /\ entry.ttl \in BOOLEAN
                                 /\ entry.exp \in BOOLEAN /\ entry.n \in Nat
           /\ Live(entry) <=> entry # NoEntry /\ ~entry.exp
           /\ Expired(entry) <=> entry # NoEntry /\ entry.exp
           /\ Live(entry) => Reading(entry) = entry.val
           /\ ~Live(entry) => Reading(entry) = NoEntry
<1>1. entry # NoEntry => /\ entry \in Entries /\ entry.val \in Contents /\ entry.ttl \in BOOLEAN
                         /\ entry.exp \in BOOLEAN /\ entry.n \in Nat
  BY DEF EntryTypeOK, NoneOr, Entries
<1>2. /\ Live(entry) <=> entry # NoEntry /\ ~entry.exp
      /\ Expired(entry) <=> entry # NoEntry /\ entry.exp
  BY <1>1 DEF Live, Expired
<1>3. /\ Live(entry) => Reading(entry) = entry.val
      /\ ~Live(entry) => Reading(entry) = NoEntry
  BY DEF Reading
<1>4. Reading(entry) \in NoneOr(Contents) /\ Number(entry) \in Nat
  BY <1>1, <1>2, <1>3 DEF Number, NoneOr
<1> QED
  BY <1>1, <1>2, <1>3, <1>4

LEMMA PutFacts ==
    ASSUME EntryTypeOK, NEW v \in Contents, NEW ttl \in BOOLEAN, NEW t, Put(v, ttl, t)
    PROVE  /\ entry' \in Entries /\ entry' # NoEntry /\ entry' \in NoneOr(Entries)
           /\ entry'.val = v /\ entry'.ttl = ttl /\ ~entry'.exp
           /\ call[t].op = "increment" => entry'.n = IF Live(entry) THEN entry.n + 1 ELSE 1
<1>1. /\ entry'.val = v /\ entry'.ttl = ttl /\ ~entry'.exp
      /\ call[t].op = "increment" => entry'.n = IF Live(entry) THEN entry.n + 1 ELSE 1
  BY DEF Put, PutBy
<1>2. entry' \in Entries
  BY EntryFacts DEF Put, PutBy, Entries
<1> QED
  BY <1>1, <1>2, ContentsAssumption DEF NoneOr

\* A new entry with value v.
Stored0(v) == entry' \in Entries /\ entry' # NoEntry /\ ~entry'.exp /\ entry'.val = v

LEMMA Putting ==
    ASSUME EntryTypeOK, NEW v \in Contents, NEW t
    PROVE  /\ Put(v, TRUE, t) => Stored0(v) /\ entry'.ttl
           /\ Put(v, FALSE, t) => Stored0(v)
           /\ ProxyStores(t, v) => Stored0(v)
           /\ Put(v, entry.ttl, t) /\ entry # NoEntry => Stored0(v)
           /\ Put(v, IF Live(entry) THEN entry.ttl ELSE FALSE, t) => Stored0(v)
<1>1. ASSUME NEW ttl, ttl \in BOOLEAN, Put(v, ttl, t) PROVE Stored0(v) /\ entry'.ttl = ttl
  BY <1>1, PutFacts DEF Stored0
<1>2. Put(v, TRUE, t) => Stored0(v) /\ entry'.ttl
  BY <1>1
<1>3. Put(v, FALSE, t) => Stored0(v)
  BY <1>1
<1>4. ProxyStores(t, v) => Stored0(v)
  BY <1>1 DEF ProxyStores
<1>5. Put(v, entry.ttl, t) /\ entry # NoEntry => Stored0(v)
  <2>1. entry # NoEntry => entry.ttl \in BOOLEAN
    BY EntryFacts
  <2> QED
    BY <1>1, <2>1, Zenon
<1>6. Put(v, IF Live(entry) THEN entry.ttl ELSE FALSE, t) => Stored0(v)
  <2>1. (IF Live(entry) THEN entry.ttl ELSE FALSE) \in BOOLEAN
    BY EntryFacts
  <2> QED
    BY <1>1, <2>1, Zenon
<1> QED
  BY <1>2, <1>3, <1>4, <1>5, <1>6

LEMMA WrittenFacts ==
    ASSUME NEW v \in Contents
    PROVE  /\ Written(v) \in Entries /\ Written(v) # NoEntry /\ Written(v) \in NoneOr(Entries)
           /\ Written(v).val = v /\ Written(v).ttl /\ ~Written(v).exp
<1>1. Written(v).val = v /\ Written(v).ttl = TRUE /\ Written(v).exp = FALSE
  BY DEF Written
<1>2. Written(v) \in Entries
  BY DEF Written, Entries
<1> QED
  BY <1>1, <1>2, ContentsAssumption DEF NoneOr

CallTypeOK == call \in [Callers -> Call]

LEMMA NoValueType == NoValue \in Values /\ NoValue \in Storable /\ Values \subseteq Storable
BY ValuesAssumption DEF NoValue, Storable

LEMMA EndedFacts ==
    ASSUME NEW r \in {"none", "Ok", "Yes", "No", "Err"}, NEW g \in NoneOr(Contents)
    PROVE  /\ Ended(r, g) \in Call /\ Ended(r, g).pc = "idle"
           /\ Ended(r, g).res = r /\ Ended(r, g).got = g
BY NoValueType, ValuesAssumption DEF Ended, Call, PCs, Ops, DataReads, NoneOr

\* What a step of t does to the calls: its own goes on or has ended.
CallGoes(t) ==
    /\ CallTypeOK' /\ Active(t) /\ \A u \in Callers \ {t} : call'[u] = call[u]
    /\ call'[t].pc # call[t].pc /\ (call'[t].pc = "sent" => backend = "proxy" /\ shared)
    /\ \/ /\ call'[t].pc = "idle" /\ call'[t].res \in {"Ok", "Yes", "No", "Err"}
          /\ call[t].op = "lock" => call'[t].res # "Ok"
       \/ Active(t)' /\ call'[t].op = call[t].op /\ call'[t].arg = call[t].arg /\ SeenOK(t)'

LEMMA Going ==
    ASSUME CallTypeOK, NEW t \in Callers, Active(t), NEW l \in PCs \ {"idle", "crashed"},
           NEW f \in NoneOr(Contents), Goto(t, l, f), l # call[t].pc,
           call[t].op = "increment" /\ l \in {"evict", "insert"} => f \in Nat,
           l \in {"evict", "insert"} => call[t].op \in Inserters,
           call[t].op = "unlock" /\ l = "remove" => f = t,
           l = "sent" => backend = "proxy" /\ shared
    PROVE  /\ CallGoes(t) /\ call'[t].pc = l /\ call'[t].seen = f
           /\ call'[t].op = call[t].op /\ call'[t].arg = call[t].arg
<1>1. call[t] \in Call /\ call'[t] = [call[t] EXCEPT !.pc = l, !.seen = f]
  BY DEF CallTypeOK, Goto
<1>2. /\ call'[t] \in Call /\ call'[t].pc = l /\ call'[t].seen = f
      /\ call'[t].op = call[t].op /\ call'[t].arg = call[t].arg
  BY <1>1 DEF Call, NoneOr
<1>3. CallTypeOK' /\ \A u \in Callers \ {t} : call'[u] = call[u]
  BY <1>2 DEF CallTypeOK, Goto
<1>4. Active(t)'
  BY <1>2 DEF Active
<1>5. SeenOK(t)'
  BY <1>2 DEF SeenOK, At
<1> QED
  BY <1>2, <1>3, <1>4, <1>5 DEF CallGoes

LEMMA Returning ==
    ASSUME CallTypeOK, NEW t \in Callers, Active(t), NEW r \in {"Ok", "Yes", "No", "Err"},
           NEW g \in NoneOr(Contents), Return(t, r, g), call[t].op = "lock" => r # "Ok"
    PROVE  /\ CallGoes(t) /\ call'[t].pc = "idle"
           /\ \/ call'[t].res = r /\ call'[t].got = g
              \/ call'[t].res = "Err" /\ call'[t].got = NoEntry
<1>1. PICK q \in {r, "Err"}, h \in {g, NoEntry} :
        /\ call' = [call EXCEPT ![t] = Ended(q, h)]
        /\ (q = r /\ h = g) \/ (q = "Err" /\ h = NoEntry)
  BY DEF Return
<1>2. Ended(q, h) \in Call /\ Ended(q, h).pc = "idle" /\ Ended(q, h).res = q /\ Ended(q, h).got = h
  BY EndedFacts DEF NoneOr
<1>3. CallTypeOK' /\ call'[t] = Ended(q, h) /\ \A u \in Callers \ {t} : call'[u] = call[u]
  BY <1>1, <1>2 DEF CallTypeOK
<1> QED
  BY <1>1, <1>2, <1>3 DEF CallGoes, Active

-----------------------------------------------------------------------------
(* The steps of the implementations: what they leave is typed.             *)

CallGroup == CallsTypeOK /\ OpsInv /\ OrdersInv /\ SeenInv /\ EntryInv

StepGoes(t) ==
    /\ CallGoes(t) /\ EntryTypeOK' /\ EntryInv'
    /\ mutex' \in Callers \union {NoOne} /\ flock' \in Callers \union {NoOne} /\ handles' \subseteq Callers

\* Without a file only the call and the entry are looked at.
LEMMA Plainly ==
    ASSUME CallGroup, NEW t \in Callers, CallGoes(t), backend' = backend, backend # "file",
           mutex' \in Callers \union {NoOne}, UNCHANGED <<handles, flock>>,
           \/ entry' = entry \/ entry' = NoEntry
           \/ entry' \in Entries /\ entry' # NoEntry /\ ~entry'.exp /\ (backend = "memory" => entry'.ttl)
    PROVE  StepGoes(t)
BY DEF CallGroup, CallsTypeOK, EntryInv, StepGoes, EntryTypeOK, NoneOr

LEMMA CallTypes ==
    ASSUME CallGroup, NEW t \in Callers
    PROVE  /\ CallTypeOK /\ EntryTypeOK /\ call[t].pc \in PCs /\ call[t].op \in Ops
           /\ call[t].arg \in Nat /\ call[t].seen \in NoneOr(Contents)
           /\ call[t].arg \in Contents /\ t \in Contents /\ NoEntry \in NoneOr(Contents)
           /\ Reading(entry) \in NoneOr(Contents) /\ Number(entry) \in Nat /\ Number(entry) + 1 \in Contents
           /\ Number(entry) \in NoneOr(Contents) /\ Number(entry) + 1 \in NoneOr(Contents) /\ t \in NoneOr(Contents)
           /\ \A b : Answer(b) \in {"Yes", "No"}
           /\ \A l, ops : At(t, l, ops) /\ l \notin {"idle", "crashed"} => Active(t)
<1>1. CallTypeOK /\ EntryTypeOK /\ call[t] \in Call
  BY DEF CallGroup, CallsTypeOK, CallTypeOK, EntryTypeOK, NoneOr
<1>2. call[t].pc \in PCs /\ call[t].op \in Ops /\ call[t].arg \in Nat /\ call[t].seen \in NoneOr(Contents)
  BY <1>1 DEF Call, NoneOr
<1>3. /\ call[t].arg \in Contents /\ t \in Contents /\ NoEntry \in NoneOr(Contents) /\ t \in NoneOr(Contents)
  BY <1>2, ValuesAssumption DEF Contents, NoneOr
<1>4. /\ Reading(entry) \in NoneOr(Contents) /\ Number(entry) \in Nat /\ Number(entry) + 1 \in Contents
      /\ Number(entry) \in NoneOr(Contents) /\ Number(entry) + 1 \in NoneOr(Contents)
  BY <1>1, EntryFacts DEF Contents, NoneOr
<1>5. \A b : Answer(b) \in {"Yes", "No"}
  BY DEF Answer
<1>6. \A l, ops : At(t, l, ops) /\ l \notin {"idle", "crashed"} => Active(t)
  BY DEF At, Active
<1> QED
  BY <1>1, <1>2, <1>3, <1>4, <1>5, <1>6

LEMMA MemorySteps ==
    ASSUME CallGroup, NEW t \in Callers, backend = "memory", backend' = backend, MemoryStep(t)
    PROVE  StepGoes(t)
<1> USE CallTypes, Going, Returning DEF PCs
<1>0. mutex' \in Callers \union {NoOne} /\ UNCHANGED <<handles, flock>>
  BY DEF MemoryStep, CallGroup, CallsTypeOK
<1>1. CASE MemoryGet(t) \/ MemoryGetMany(t) \/ MemoryExists(t) \/ MemorySet(t) \/ MemoryGetSet(t) \/ MemoryIncrement(t)
  <2>1. CallGoes(t) /\ entry' = entry
    BY <1>1 DEF MemoryGet, MemoryGetMany, MemoryRead, MemoryExists, MemorySet, MemoryGetSet, MemoryIncrement, At, Keep,
       Inserters, DataWrites
  <2> QED
    BY <1>0, <2>1, Plainly
<1>2. CASE MemorySetNx(t) \/ MemoryPurge(t) \/ MemorySetMany(t) \/ MemoryLock(t) \/ MemoryUnlock(t)
  <2>1. CallGoes(t) /\ (entry' = entry \/ entry' = NoEntry)
    BY <1>2 DEF MemorySetNx, MemoryPurge, MemorySetMany, MemoryLock, MemoryUnlock, At, Keep, Drop,
       Inserters, DataWrites
  <2> QED
    BY <1>0, <2>1, Plainly
<1>3. CASE MaybeEvict(t)
  <2>1. /\ call[t].op = "increment" => call[t].seen \in Nat
        /\ call[t].op \in Inserters
    BY <1>3 DEF MaybeEvict, At, CallGroup, SeenInv, SeenOK
  <2>2. CallGoes(t) /\ (entry' = entry \/ entry' = NoEntry)
    BY <1>3, <2>1 DEF MaybeEvict, At, Keep, Drop
  <2> QED
    BY <1>0, <2>2, Plainly
<1>4. CASE MemoryInsert(t)
  <2>1. MemoryValue(t) \in Contents
    BY <1>4 DEF MemoryInsert, MemoryValue, At, CallGroup, SeenInv, SeenOK, Contents
  <2>2. CallGoes(t)
    BY <1>4 DEF MemoryInsert, At
  <2>3. entry' \in Entries /\ entry' # NoEntry /\ ~entry'.exp /\ entry'.ttl
    BY <1>4, <2>1, PutFacts DEF MemoryInsert
  <2> QED
    BY <1>0, <2>2, <2>3, Plainly
<1>5. CASE MemoryDelete(t) \/ MemoryDeleteMany(t) \/ MemoryClear(t) \/ MemoryFlush(t)
  <2>1. CallGoes(t) /\ (entry' = entry \/ entry' = NoEntry)
    BY <1>5 DEF MemoryDelete, MemoryDeleteMany, MemoryClear, MemoryFlush, At, Keep, Drop
  <2> QED
    BY <1>0, <2>1, Plainly
<1> QED
  BY <1>1, <1>2, <1>3, <1>4, <1>5 DEF MemoryStep

LEMMA RedisSteps ==
    ASSUME CallGroup, NEW t \in Callers, backend \in {"redis", "disabled"}, backend' = backend,
           RedisStep(t) \/ RedisDisabled(t)
    PROVE  StepGoes(t)
<1> USE CallTypes, Going, Returning DEF PCs
<1>0. mutex' \in Callers \union {NoOne} /\ UNCHANGED <<handles, flock>>
  BY DEF RedisStep, RedisDisabled, CallGroup, CallsTypeOK
<1>1. CASE RedisGet(t) \/ RedisGetMany(t) \/ RedisExists(t) \/ RedisUnlock(t) \/ RedisDisabled(t)
           \/ RedisDelete(t) \/ RedisDeleteMany(t) \/ RedisClear(t) \/ RedisFlush(t)
  <2>1. CallGoes(t) /\ (entry' = entry \/ entry' = NoEntry)
    BY <1>1 DEF RedisGet, RedisGetMany, RedisExists, RedisRead, RedisUnlock, RedisDisabled,
       RedisDelete, RedisDeleteMany, RedisClear, RedisFlush, At, Keep, Drop
  <2> QED
    BY <1>0, <2>1, Plainly
<1>2. CASE RedisSet(t) \/ RedisSetMany(t) \/ RedisGetSet(t) \/ RedisIncrement(t)
  <2>1. CallGoes(t)
    BY <1>2, ValuesAssumption DEF RedisSet, RedisSetMany, RedisGetSet, RedisIncrement, At, NoneOr
  <2>2. entry' \in Entries /\ entry' # NoEntry /\ ~entry'.exp
    <3>1. \E v \in Contents : Stored0(v)
      <4>1. RedisSet(t) => Stored0(call[t].arg)
        BY Putting DEF RedisSet
      <4>2. RedisSetMany(t) => ProxyStores(t, call[t].arg)
        BY DEF RedisSetMany, ProxyStores
      <4>3. RedisGetSet(t) => Stored0(call[t].arg)
        BY Putting DEF RedisGetSet
      <4>4. RedisIncrement(t) => Stored0(Number(entry) + 1)
        BY Putting DEF RedisIncrement
      <4> QED
        BY <1>2, <4>1, <4>2, <4>3, <4>4, Putting
    <3> QED
      BY <3>1 DEF Stored0
  <2> QED
    BY <1>0, <2>1, <2>2, Plainly
<1>3. CASE RedisSetNx(t) \/ RedisLock(t)
  <2>1. CallGoes(t)
    BY <1>3 DEF RedisSetNx, RedisLock, At
  <2>2. entry' = entry \/ (entry' \in Entries /\ entry' # NoEntry /\ ~entry'.exp)
    BY <1>3, PutFacts DEF RedisSetNx, RedisLock, SetIfNone, Keep
  <2> QED
    BY <1>0, <2>1, <2>2, Plainly
<1>4. CASE RedisExpire(t)
  <2>1. CallGoes(t)
    BY <1>4 DEF RedisExpire, At
  <2>2. entry' = entry \/ (entry' \in Entries /\ entry' # NoEntry /\ ~entry'.exp)
    <3>1. ASSUME entry # NoEntry, entry' = [entry EXCEPT !.ttl = TRUE]
          PROVE  entry' \in Entries /\ entry'.exp = entry.exp
      BY <3>1, EntryFacts DEF Entries
    <3> QED
      BY <1>4, <3>1, ContentsAssumption DEF RedisExpire, Keep, CallGroup, EntryInv
  <2> QED
    BY <1>0, <2>1, <2>2, Plainly
<1> QED
  BY <1>1, <1>2, <1>3, <1>4 DEF RedisStep

LEMMA MemcachedSteps ==
    ASSUME CallGroup, NEW t \in Callers, backend = "memcached", backend' = backend, MemcachedStep(t)
    PROVE  StepGoes(t)
<1> USE CallTypes, Going, Returning DEF PCs
<1>0. UNCHANGED <<handles, flock>> /\ mutex' \in Callers \union {NoOne}
  <2>1. mutex' \in {mutex, t, NoOne}
    BY DEF MemcachedStep, MemcachedGet, MemcachedGetMany, MemcachedExists, MemcachedRead, MemcachedSet,
       MemcachedSetMany, MemcachedSetNx, MemcachedGetSet, MemcachedIncrement, MemcachedDelete,
       MemcachedDeleteMany, MemcachedClear, MemcachedFlush, MemcachedLock, MemcachedUnlock,
       Command, TakesClient, LeavesClient
  <2> QED
    BY <2>1 DEF MemcachedStep, CallGroup, CallsTypeOK
<1>1. CASE MemcachedGet(t) \/ MemcachedGetMany(t) \/ MemcachedExists(t) \/ MemcachedUnlock(t)
           \/ MemcachedDelete(t) \/ MemcachedDeleteMany(t) \/ MemcachedClear(t) \/ MemcachedFlush(t)
  <2>1. CallGoes(t) /\ (entry' = entry \/ entry' = NoEntry)
    BY <1>1 DEF MemcachedGet, MemcachedGetMany, MemcachedExists, MemcachedRead, MemcachedUnlock,
       MemcachedDelete, MemcachedDeleteMany, MemcachedClear, MemcachedFlush, Command, At, Keep, Drop
  <2> QED
    BY <1>0, <2>1, Plainly
<1>2. CASE MemcachedSet(t) \/ MemcachedSetMany(t)
  <2>1. CallGoes(t) /\ entry' \in Entries /\ entry' # NoEntry /\ ~entry'.exp
    BY <1>2, PutFacts DEF MemcachedSet, MemcachedSetMany, Command, At
  <2> QED
    BY <1>0, <2>1, Plainly
<1>3. CASE MemcachedSetNx(t) \/ MemcachedLock(t)
  <2>1. PICK v \in Contents : AddCommand(t, v) /\ At(t, "called", {"set_nx", "lock"})
    BY <1>3 DEF MemcachedSetNx, MemcachedLock, Command, At
  <2>2. CallGoes(t)
    BY <2>1 DEF AddCommand, At
  <2>3. entry' = entry \/ (entry' \in Entries /\ entry' # NoEntry /\ ~entry'.exp)
    BY <2>1, PutFacts DEF AddCommand, Keep
  <2> QED
    BY <1>0, <2>2, <2>3, Plainly
<1>4. CASE MemcachedGetSet(t) \/ MemcachedIncrement(t)
  <2>1. CallGoes(t)
    BY <1>4 DEF MemcachedGetSet, MemcachedIncrement, Command, At, Contents, NoneOr
  <2>2. entry' = entry \/ (entry' \in Entries /\ entry' # NoEntry /\ ~entry'.exp)
    <3>1. entry' = entry \/ \E v \in Contents : Stored0(v)
      <4>1. 1 \in Contents
        BY DEF Contents
      <4> QED
        BY <1>4, <4>1, Putting DEF MemcachedGetSet, MemcachedIncrement, Keep
    <3> QED
      BY <3>1 DEF Stored0
  <2> QED
    BY <1>0, <2>1, <2>2, Plainly
<1> QED
  BY <1>1, <1>2, <1>3, <1>4 DEF MemcachedStep

LEMMA ProxySteps ==
    ASSUME CallGroup, NEW t \in Callers, backend = "proxy", backend' = backend, ProxyStep(t)
    PROVE  StepGoes(t)
<1> USE CallTypes, Going, Returning DEF PCs
<1>0. mutex' \in Callers \union {NoOne} /\ UNCHANGED <<handles, flock>>
  BY DEF ProxyStep, ProxyGet, ProxyGetMany, ProxyExists, ProxySet, ProxySetMany, ProxyGetSet, ProxySetNx,
     ProxyIncrement, ProxyDelete, ProxyDeleteMany, ProxyClear, ProxyFlush, ProxyLock, ProxyUnlock,
     Proxied, CallGroup, CallsTypeOK
<1>1. CASE ProxyGet(t) \/ ProxyGetMany(t) \/ ProxyExists(t) \/ ProxyUnlock(t)
           \/ ProxyDelete(t) \/ ProxyDeleteMany(t) \/ ProxyClear(t) \/ ProxyFlush(t)
  <2>1. CallGoes(t) /\ (entry' = entry \/ entry' = NoEntry)
    BY <1>1 DEF ProxyGet, ProxyGetMany, ProxyExists, ProxyUnlock, ProxyDelete, ProxyDeleteMany,
       ProxyClear, ProxyFlush, Proxied, At, Keep, Drop
  <2> QED
    BY <1>0, <2>1, Plainly
<1>2. CASE ProxySet(t) \/ ProxySetMany(t) \/ ProxyGetSet(t) \/ ProxySetNx(t) \/ ProxyIncrement(t) \/ ProxyLock(t)
  <2>1. CallGoes(t)
    BY <1>2 DEF ProxySet, ProxySetMany, ProxyGetSet, ProxySetNx, ProxyIncrement, ProxyLock, Proxied, At
  <2>2. entry' = entry \/ (entry' \in Entries /\ entry' # NoEntry /\ ~entry'.exp)
    <3>1. entry' = entry \/ \E v \in Contents : Stored0(v)
      BY <1>2, Putting DEF ProxySet, ProxySetMany, ProxyGetSet, ProxySetNx, ProxyIncrement, ProxyLock, Keep
    <3> QED
      BY <3>1 DEF Stored0
  <2> QED
    BY <1>0, <2>1, <2>2, Plainly
<1> QED
  BY <1>1, <1>2 DEF ProxyStep

LEMMA FileSteps ==
    ASSUME CallGroup, NEW t \in Callers, backend = "file", backend' = backend, FileStep(t)
    PROVE  StepGoes(t)
<1> USE CallTypes, Going, Returning DEF PCs
<1> DEFINE Rest == /\ entry' \in NoneOr(Entries) /\ (entry' # NoEntry => entry'.ttl)
                   /\ (entry' = NoEntry => handles' = {})
                   /\ flock' \in Callers \union {NoOne} /\ handles' \subseteq Callers
<1>0. /\ mutex' \in Callers \union {NoOne} /\ flock \in Callers \union {NoOne} /\ handles \subseteq Callers
      /\ entry \in NoneOr(Entries) /\ (entry # NoEntry => entry.ttl) /\ (entry = NoEntry => handles = {})
  BY DEF FileStep, CallGroup, CallsTypeOK, EntryInv, NoneOr
<1>w. \A v \in Contents : Written(v) \in NoneOr(Entries) /\ Written(v) # NoEntry /\ Written(v).ttl
  BY WrittenFacts
<1>e. Empty \in Contents /\ Mixed \in Contents /\ \A n \in Nat : n \in Contents
  BY DEF Contents
<1>c. Rest /\ CallGoes(t) => StepGoes(t)
  BY <1>0 DEF StepGoes, EntryTypeOK, EntryInv
<1> HIDE DEF Rest
<1>1. CASE FileSet(t) \/ FileGetSet(t)
  <2>1. CallGoes(t)
    BY <1>1 DEF FileSet, FileGetSet, At
  <2>2. Rest
    BY <1>0, <1>1, <1>w, <1>e DEF FileSet, FileGetSet, OpenTruncated, Keep, Rest
  <2> QED
    BY <1>c, <2>1, <2>2
<1>2. CASE FileSetNx(t)
  <2>1. CallGoes(t)
    BY <1>2 DEF FileSetNx, At
  <2>2. Rest
    BY <1>0, <1>2, <1>w, <1>e DEF FileSetNx, CreateNew, Keep, Rest
  <2> QED
    BY <1>c, <2>1, <2>2
<1>3. CASE FileLocked(t)
  <2>1. CallGoes(t)
    BY <1>3 DEF FileLocked, At
  <2>2. Rest
    BY <1>0, <1>3 DEF FileLocked, Keep, Rest
  <2> QED
    BY <1>c, <2>1, <2>2
<1>4. CASE FileWritten(t)
  <2>1. CallGoes(t)
    BY <1>4 DEF FileWritten, At, DataWrites
  <2>2. Overlay(entry.val, call[t].arg) \subseteq Contents
    BY <1>e DEF Overlay
  <2>3. Rest
    BY <1>0, <1>4, <1>w, <2>2 DEF FileWritten, Unlocked, Keep, Rest
  <2> QED
    BY <1>c, <2>1, <2>3
<1>5. CASE FileIncrement(t)
  <2>1. CallGoes(t)
    <3>1. \A n \in 1..MaxCount : n \in NoneOr(Contents)
      BY DEF NoneOr, Contents
    <3>2. NumberIn(call[t].seen) + 1 \in NoneOr(Contents)
      BY DEF NoneOr, Contents, NumberIn
    <3>3. CASE At(t, "called", {"increment"}) \/ At(t, "flocked", {"increment"})
      BY <1>5, <3>3 DEF FileIncrement, At
    <3>4. CASE At(t, "truncated", {"increment"})
      BY <1>5, <3>1, <3>2, <3>4 DEF FileIncrement, At
    <3> QED
      BY <1>5, <3>3, <3>4 DEF FileIncrement
  <2>2. Rest
    <3>1. CASE At(t, "called", {"increment"})
      BY <1>0, <1>5, <1>w, <1>e, <3>1 DEF FileIncrement, Keep, Rest, At
    <3>2. CASE At(t, "flocked", {"increment"}) \/ At(t, "truncated", {"increment"})
      <4>1. /\ \/ entry' = entry /\ (t \notin handles \/ UNCHANGED <<handles, flock>>)
               \/ /\ t \in handles
                  /\ \E v \in {1, Empty, Mixed}, m \in {entry.n, entry.n + 1} :
                        entry' = [Written(v) EXCEPT !.n = m]
            /\ handles' \subseteq handles /\ flock' \in {flock, NoOne}
        <5>1. CASE At(t, "flocked", {"increment"})
          BY <1>5, <5>1 DEF FileIncrement, At, Keep
        <5>2. CASE At(t, "truncated", {"increment"})
          BY <1>5, <5>2 DEF FileIncrement, At, Unlocked, Keep
        <5> QED
          BY <3>2, <5>1, <5>2
      <4>2. ASSUME t \in handles, NEW v \in {1, Empty, Mixed}, NEW m \in {entry.n, entry.n + 1},
                   entry' = [Written(v) EXCEPT !.n = m]
            PROVE  entry' \in Entries /\ entry'.ttl
        <5>1. Written(v) \in Entries /\ Written(v).ttl
          BY <1>e, WrittenFacts
        <5>2. m \in Nat
          BY <1>0, <4>2, EntryFacts
        <5> QED
          BY <4>2, <5>1, <5>2 DEF Entries
      <4> QED
        BY <1>0, <4>1, <4>2, ContentsAssumption DEF Rest, NoneOr
    <3> QED
      BY <1>5, <3>1, <3>2 DEF FileIncrement
  <2> QED
    BY <1>c, <2>1, <2>2
<1>6. CASE FileLock(t)
  <2>1. CallGoes(t)
    BY <1>6 DEF FileLock, At
  <2>2. Rest
    BY <1>0, <1>6, <1>w, <1>e DEF FileLock, CreateNew, Keep, Rest
  <2> QED
    BY <1>c, <2>1, <2>2
<1>7. CASE /\ FileGet(t) \/ FileExists(t) \/ FileDelete(t) \/ FileClear(t) \/ FileFlush(t)
              \/ FileUnlock(t) \/ FilePurgeLock(t)
           /\ Orphans
  <2>1. CallGoes(t)
    <3>1. entry # NoEntry => entry.val \in NoneOr(Contents)
      BY EntryFacts DEF NoneOr
    <3> QED
      BY <1>7, <3>1 DEF FileGet, FileExists, FileDelete, FileClear, FileFlush, FileUnlock, FilePurgeLock, At
  <2>2. entry' = entry \/ entry' = NoEntry
    BY <1>7 DEF FileGet, FileExists, FileDelete, FileClear, FileFlush, FileUnlock, FilePurgeLock, Keep, Drop
  <2>3. Rest
    BY <1>0, <1>7, <2>2 DEF Orphans, Rest, NoneOr
  <2> QED
    BY <1>c, <2>1, <2>3
<1> QED
  BY <1>1, <1>2, <1>3, <1>4, <1>5, <1>6, <1>7 DEF FileStep

LEMMA StepTyped ==
    ASSUME CallGroup, NEW t \in Callers, Step(t) PROVE StepGoes(t) /\ UNCHANGED fixed
<1>0. UNCHANGED fixed /\ backend' = backend
  BY DEF Step, Record, fixed
<1>1. CASE CallFails(t)
  <2>1. CallTypeOK /\ EntryTypeOK
    BY CallTypes
  <2>2. Ended("Err", NoEntry) \in Call /\ Ended("Err", NoEntry).pc = "idle" /\ Ended("Err", NoEntry).res = "Err"
    BY EndedFacts DEF NoneOr
  <2>3. CallGoes(t)
    BY <1>1, <2>1, <2>2 DEF CallFails, CallGoes, CallTypeOK, Active
  <2>4. /\ mutex' \in Callers \union {NoOne} /\ flock' \in Callers \union {NoOne} /\ handles' \subseteq handles
        /\ handles \subseteq Callers /\ entry' = entry
    BY <1>1 DEF CallFails, CallGroup, CallsTypeOK, Keep
  <2> QED
    BY <1>0, <2>1, <2>3, <2>4 DEF StepGoes, CallGroup, EntryInv, EntryTypeOK
<1> QED
  BY <1>0, <1>1, MemorySteps, FileSteps, RedisSteps, MemcachedSteps, ProxySteps DEF Step

-----------------------------------------------------------------------------
(* What the steps of the patterns are for the cache.                       *)

CacheNext ==
    \/ \E t \in Callers : \/ \E o \in OpsIn(role), v \in Storable : Begin(t, o, v)
                          \/ Step(t) \/ Crash(t) \/ LeaseEnds(t)
                          \/ ProxySend(t) \/ ProxyAnswered(t)
    \/ Expire \/ Interference \/ OrchestratorDoes
    \/ /\ role = "entity" /\ backend = "proxy" /\ entry' \in {entry, NoEntry}
       /\ UNCHANGED <<fixed, mutex, handles, flock, orders, call, token, history>>
    \/ /\ token' \in [Callers -> Tokens]
       /\ UNCHANGED <<fixed, store, call, history>>

LEMMA OpsInRole ==
    /\ role \in {"data", "counter", "lock"} => OpsOf(role) \subseteq OpsIn(role)
    /\ role = "entity" => OpsOf(role) = {} /\ OpsIn(role) = EntityOps
    /\ role = "lock" => OpsIn(role) = {"flush", "lock", "unlock"}
    /\ role = "counter" => OpsIn(role) = {"increment", "delete", "flush"}
    /\ role = "data" => OpsIn(role) = DataReads \union DataWrites \union Removals
    /\ role \in Roles => OpsIn(role) \subseteq Ops
BY DEF OpsOf, OpsIn, Roles, EntityOps, Ops, DataReads, DataWrites, Removals

LEMMA TaskTypes ==
    ASSUME TypeOK, TaskInv, NEW t \in Callers
    PROVE  /\ role \in Roles /\ NoValue \in Storable /\ Values \subseteq Storable
           /\ task[t].kind \in Kinds /\ task[t].pc \in TaskPCs /\ task[t].val \in 0..MaxVersion
           /\ MaxVersion \in Nat /\ Values = 1..MaxVersion
           /\ task[t].pc \in {"reading", "fetch", "source", "storing", "invalidate", "invalidating"} =>
                role = "entity" /\ task[t].kind \in EntityKinds
           /\ task[t].pc \in {"locking", "sleep", "inside", "unlocking"} =>
                role = "lock" /\ task[t].kind \in LockKinds
<1>1. role \in Roles
  BY UsesAssumption DEF TypeOK, CallsTypeOK
<1>2. task[t].kind \in Kinds /\ task[t].pc \in TaskPCs /\ task[t].val \in 0..MaxVersion
  BY DEF TypeOK
<1>3. MaxVersion \in Nat /\ Values = 1..MaxVersion
  BY VersionsAssumption, FS_CardinalityType DEF MaxVersion
<1>4. task[t].kind = "none" => task[t].pc = "none"
  BY DEF TaskInv, TaskOK, NoTask
<1> QED
  BY <1>1, <1>2, <1>3, <1>4, NoValueType DEF TaskInv, TaskOK, Kinds, EntityKinds, LockKinds, Storable

LEMMA CacheUse ==
    ASSUME TypeOK, TaskInv, NEW t \in Callers, Use(t)
    PROVE  \E o \in OpsIn(role), v \in Storable : Begin(t, o, v)
BY OpsInRole, TaskTypes DEF Use, Roles

LEMMA CacheSteps == ASSUME TypeOK, TaskInv, Next PROVE CacheNext
<1> USE OpsInRole, TaskTypes
<1>1. ASSUME NEW t \in Callers, UseDirectly(t) PROVE CacheNext
  BY <1>1 DEF UseDirectly, Use, CacheNext, Roles
<1>2. ASSUME NEW t \in Callers, CallGoesOn(t) \/ ProcessCrashes(t) \/ LeaseIsOver(t) PROVE CacheNext
  BY <1>2 DEF CallGoesOn, ProcessCrashes, LeaseIsOver, CacheNext
<1>3. CASE TimePasses \/ OthersInterfere \/ OrderIsDone
  BY <1>3 DEF TimePasses, OthersInterfere, OrderIsDone, CacheNext
<1>6. ASSUME NEW t \in Callers, CallCrosses(t) \/ AnswerComes(t) PROVE CacheNext
  BY <1>6 DEF CallCrosses, AnswerComes, CacheNext
<1>n. ASSUME UNCHANGED cacheVars PROVE CacheNext
  BY <1>n DEF cacheVars, CacheNext, TypeOK, CallsTypeOK
<1>4. CASE EntityNext
  <2>1. ASSUME NEW t \in Callers, AsideRead(t) \/ Behind(t) PROVE CacheNext
    <3>1. role = "entity" => Storable = Nat
      BY DEF Storable
    <3>2. last \in Nat /\ last + 1 \in Nat /\ MaxVersion + (last + 1) \in Nat
      BY DEF TypeOK
    <3>3. \E v \in Storable : Begin(t, "get", v) \/ Begin(t, "set", v)
      BY <2>1, <3>1, <3>2 DEF AsideRead, Behind, Start, Quoted
    <3> QED
      BY <2>1, <3>3 DEF AsideRead, Behind, EntityOps, CacheNext
  <2>2. ASSUME NEW t \in Callers, Through(t) \/ SourceChanges(t) \/ AsideAnswered(t) \/ Stored(t)
                                  \/ InvalidateVersion(t) \/ Invalidated(t)
        PROVE  CacheNext
    BY <1>n, <2>2 DEF Through, SourceChanges, AsideAnswered, Stored, InvalidateVersion, Invalidated
  <2>3. ASSUME NEW t \in Callers, AsideFetch(t) \/ ThroughSource(t) PROVE CacheNext
    <3>1. CASE UNCHANGED cacheVars
      BY <1>n, <3>1
    <3>2. CASE \E v \in Values : Begin(t, "set", v)
      BY <2>3, <3>2 DEF AsideFetch, ThroughSource, EntityOps, CacheNext
    <3>3. source # 0 => source \in Values
      BY DEF TypeOK
    <3>4. task[t].kind = "through" => task[t].val \in Values
      BY DEF TaskInv, TaskOK
    <3> QED
      BY <2>3, <3>1, <3>2, <3>3, <3>4 DEF AsideFetch, ThroughSource, StoreInCache
  <2>4. ASSUME NEW t \in Callers, InvalidateKey(t) PROVE CacheNext
    BY <2>4 DEF InvalidateKey, EntityOps, CacheNext
  <2>5. ASSUME NEW t \in Callers, InvalidateType(t) PROVE CacheNext
    <3>1. /\ role = "entity" /\ UNCHANGED <<fixed, mutex, handles, flock, orders, call, token, history>>
          /\ \/ backend = "proxy" /\ entry' \in {entry, NoEntry}
             \/ entry' = entry
      BY <2>5 DEF InvalidateType, Keep
    <3>2. CASE entry' = entry
      BY <1>n, <3>1, <3>2 DEF cacheVars, store
    <3> QED
      BY <3>1, <3>2 DEF CacheNext
  <2>6. ASSUME NEW v \in Values, BehindWrites(v) PROVE CacheNext
    BY <1>n, <2>6 DEF BehindWrites
  <2> QED
    BY <1>4, <2>1, <2>2, <2>3, <2>4, <2>5, <2>6 DEF EntityNext, EntityStep
<1>5. CASE LockNext
  <2>1. ASSUME NEW t \in Callers, ReleaseLock(t) \/ LockRetry(t) \/ WithLockDone(t)
                                  \/ \E k \in {"try", "acquire", "with"} : AcquireLock(t, k)
        PROVE  CacheNext
    <3>1. role = "lock" /\ (Begin(t, "lock", NoValue) \/ Begin(t, "unlock", NoValue))
      BY <2>1 DEF ReleaseLock, LockRetry, WithLockDone, AcquireLock, TryAcquire, BeginRelease
    <3> QED
      BY <3>1 DEF CacheNext
  <2>2. ASSUME NEW t \in Callers, LockAnswered(t) \/ ReleaseAnswered(t) PROVE CacheNext
    <3>0. token \in [Callers -> Tokens]
      BY DEF TypeOK, CallsTypeOK
    <3>1. token' \in [Callers -> Tokens]
      <4>1. CASE LockAnswered(t)
        <5>1. call[t].res \in {"Yes", "No", "Err"}
          BY <4>1 DEF LockAnswered, Returned, TaskInv, TaskOK, Active
        <5> QED
          BY <3>0, <4>1, <5>1 DEF LockAnswered, Tokens
      <4>2. CASE ReleaseAnswered(t)
        BY <3>0, <4>2 DEF ReleaseAnswered, Tokens
      <4> QED
        BY <2>2, <4>1, <4>2
    <3> QED
      BY <2>2, <3>1 DEF LockAnswered, ReleaseAnswered, CacheNext
  <2> QED
    BY <1>5, <2>1, <2>2 DEF LockNext, LockStep
<1> QED
  BY <1>1, <1>2, <1>3, <1>4, <1>5, <1>6 DEF Next

-----------------------------------------------------------------------------
(* Types.                                                                  *)

LEMMA Beginning ==
    ASSUME CallGroup, NEW t \in Callers, NEW o \in OpsIn(role), NEW v \in Storable, Begin(t, o, v)
    PROVE  /\ call[t].pc = "idle" /\ CallTypeOK' /\ \A u \in Callers \ {t} : call'[u] = call[u]
           /\ call'[t].pc = "called" /\ call'[t].op = o /\ call'[t].arg = v
           /\ UNCHANGED <<fixed, store, token>>
<1>1. role \in Roles
  BY UsesAssumption DEF CallGroup, CallsTypeOK
<1> DEFINE c == [pc |-> "called", op |-> o, arg |-> v, seen |-> NoEntry, res |-> "none", got |-> NoEntry]
<1>2. c \in Call
  BY <1>1, OpsInRole, ValuesAssumption DEF Call, PCs, Storable
<1>3. call' = [call EXCEPT ![t] = c] /\ call[t].pc = "idle" /\ UNCHANGED <<fixed, store, token>>
  BY DEF Begin
<1>4. c.pc = "called" /\ c.op = o /\ c.arg = v
  OBVIOUS
<1> HIDE DEF c
<1> QED
  BY <1>2, <1>3, <1>4 DEF CallTypeOK, CallGroup, CallsTypeOK

\* A caller that has crashed takes no further step.
LEMMA Crashing ==
    ASSUME CallGroup, NEW t \in Callers, Crash(t)
    PROVE  /\ CallTypeOK' /\ call'[t].pc = "crashed" /\ ~Active(t)'
           /\ \A u \in Callers \ {t} : call'[u] = call[u]
<1>1. call[t] \in Call /\ call'[t] = [call[t] EXCEPT !.pc = "crashed", !.seen = NoEntry]
  BY DEF Crash, CallGroup, CallsTypeOK
<1>2. call'[t] \in Call /\ call'[t].pc = "crashed"
  BY <1>1 DEF Call, PCs
<1> QED
  BY <1>2 DEF Crash, CallGroup, CallsTypeOK, CallTypeOK, Active

\* A sequence that grows at its end or is taken from at its beginning.
LEMMA SequenceGrows ==
    ASSUME NEW S, NEW s \in Seq(S), NEW x \in S
    PROVE  /\ Append(s, x) \in Seq(S) /\ Append(s, x) # <<>>
           /\ RangeOf(Append(s, x)) \subseteq RangeOf(s) \union {x}
<1>1. /\ Append(s, x) \in Seq(S) /\ Len(Append(s, x)) = Len(s) + 1 /\ Len(s) \in Nat
      /\ DOMAIN Append(s, x) = 1..(Len(s) + 1) /\ DOMAIN s = 1..Len(s)
      /\ \A i \in 1..(Len(s) + 1) : Append(s, x)[i] = IF i = Len(s) + 1 THEN x ELSE s[i]
  OBVIOUS
<1>2. Append(s, x) # <<>>
  <2>1. Len(<<>>) = 0
    OBVIOUS
  <2> QED
    BY <1>1, <2>1
<1>3. ASSUME NEW i \in DOMAIN Append(s, x) PROVE Append(s, x)[i] \in RangeOf(s) \union {x}
  <2>1. i = Len(s) + 1 \/ i \in DOMAIN s
    BY <1>1
  <2> QED
    BY <1>1, <2>1 DEF RangeOf
<1> QED
  BY <1>1, <1>2, <1>3 DEF RangeOf

LEMMA SequenceShrinks ==
    ASSUME NEW S, NEW s \in Seq(S), s # <<>>
    PROVE  /\ Head(s) \in S /\ Head(s) \in RangeOf(s)
           /\ Tail(s) \in Seq(S) /\ RangeOf(Tail(s)) \subseteq RangeOf(s)
<1>1. /\ Head(s) = s[1] /\ 1 \in DOMAIN s /\ s[1] \in S
      /\ Tail(s) \in Seq(S) /\ Len(s) \in Nat /\ Len(s) > 0
      /\ DOMAIN Tail(s) = 1..(Len(s) - 1) /\ DOMAIN s = 1..Len(s)
      /\ \A i \in 1..(Len(s) - 1) : Tail(s)[i] = s[i + 1]
  OBVIOUS
<1>2. ASSUME NEW i \in DOMAIN Tail(s) PROVE Tail(s)[i] \in RangeOf(s)
  BY <1>1 DEF RangeOf
<1> QED
  BY <1>1, <1>2 DEF RangeOf

\* A call is sent: its order is the last one.
OrderOf(t) == [op |-> call[t].op, arg |-> call[t].arg, by |-> t]

LEMMA Sending ==
    ASSUME CallGroup, NEW t \in Callers, ProxySend(t)
    PROVE  /\ CallGoes(t) /\ call'[t].pc = "sent" /\ call[t].pc = "called" /\ Active(t)
           /\ call'[t].op = call[t].op /\ call'[t].arg = call[t].arg
           /\ backend = "proxy" /\ shared
           /\ OrderOf(t) \in Orders /\ OrderOf(t).op = call[t].op /\ OrderOf(t).arg = call[t].arg
           /\ orders' \in Seq(Orders) /\ orders' # <<>> /\ RangeOf(orders)' \subseteq RangeOf(orders) \union {OrderOf(t)}
           /\ UNCHANGED <<fixed, entry, mutex, handles, flock, token, history>>
<1> USE CallTypes
<1>1. /\ orders' = Append(orders, OrderOf(t)) /\ Goto(t, "sent", NoEntry) /\ call[t].pc = "called"
      /\ backend = "proxy" /\ shared /\ UNCHANGED <<fixed, entry, mutex, handles, flock, token, history>>
  BY DEF ProxySend, OrderOf
<1>2. Active(t)
  BY <1>1 DEF Active
<1>3. /\ CallGoes(t) /\ call'[t].pc = "sent"
      /\ call'[t].op = call[t].op /\ call'[t].arg = call[t].arg
  BY <1>1, <1>2, Going DEF PCs
<1>4. OrderOf(t) \in Orders /\ OrderOf(t).op = call[t].op /\ OrderOf(t).arg = call[t].arg
  BY DEF OrderOf, Orders
<1>5. orders \in Seq(Orders)
  BY DEF CallGroup, CallsTypeOK
<1>6. /\ orders' \in Seq(Orders) /\ orders' # <<>> /\ RangeOf(orders') \subseteq RangeOf(orders) \union {OrderOf(t)}
  <2> HIDE DEF Orders, OrderOf
  <2> QED
    BY <1>1, <1>4, <1>5, SequenceGrows
<1>7. RangeOf(orders)' = RangeOf(orders')
  BY DEF RangeOf
<1> QED
  BY <1>1, <1>2, <1>3, <1>4, <1>6, <1>7

\* A call that was sent ends with the answer to any.
LEMMA Answering ==
    ASSUME CallGroup, NEW t \in Callers, ProxyAnswered(t)
    PROVE  /\ CallGoes(t) /\ call'[t].pc = "idle" /\ call[t].pc = "sent" /\ Active(t)
           /\ call'[t].res \in {"Ok", "Yes", "No", "Err"}
           /\ call[t].op = "lock" /\ call'[t].res = "Yes" => call'[t].got # NoEntry
           /\ crossed' = crossed \ {t}
           /\ UNCHANGED <<fixed, store, token, current, allowed, leased>>
<1>1. PICK a \in Readable(call[t].op) \union {<<"Err", NoEntry>>} : call' = [call EXCEPT ![t] = Ended(a[1], a[2])]
  BY DEF ProxyAnswered
<1>2. Foreign \in NoneOr(Contents) /\ NoEntry \in NoneOr(Contents) /\ Foreign # NoEntry /\ \A n \in 1..MaxCount : n \in NoneOr(Contents)
  BY ContentsAssumption, ValuesAssumption DEF NoneOr, Contents
<1>3. call[t].op \in Ops
  BY CallTypes
<1>4. /\ a[1] \in {"Ok", "Yes", "No", "Err"} /\ a[2] \in NoneOr(Contents)
      /\ call[t].op = "lock" => a[1] # "Ok" /\ (a[1] = "Yes" => a[2] # NoEntry)
  <2>1. CASE a = <<"Err", NoEntry>>
    BY <1>2, <2>1
  <2>2. CASE a \in Readable(call[t].op)
    <3>1. CASE call[t].op \in DataReads \union {"get_set"}
      BY <1>2, <2>2, <3>1 DEF Readable, DataReads
    <3>2. CASE call[t].op \in {"set", "set_many", "clear", "flush"}
      BY <1>2, <2>2, <3>2 DEF Readable, DataReads
    <3>3. CASE call[t].op \in {"set_nx", "delete", "delete_many", "unlock"}
      BY <1>2, <2>2, <3>3 DEF Readable, DataReads
    <3>4. CASE call[t].op = "increment"
      BY <1>2, <2>2, <3>4 DEF Readable, DataReads
    <3>5. CASE call[t].op = "lock"
      BY <1>2, <2>2, <3>5 DEF Readable, DataReads
    <3> QED
      BY <1>3, <3>1, <3>2, <3>3, <3>4, <3>5 DEF Ops, DataReads, DataWrites, Removals
  <2> QED
    BY <1>1, <2>1, <2>2
<1>5. Ended(a[1], a[2]) \in Call /\ Ended(a[1], a[2]).pc = "idle" /\ Ended(a[1], a[2]).res = a[1] /\ Ended(a[1], a[2]).got = a[2]
  BY <1>4, EndedFacts
<1>6. call \in [Callers -> Call] /\ call[t].pc = "sent"
  BY DEF CallGroup, CallsTypeOK, ProxyAnswered
<1>7. call' \in [Callers -> Call] /\ call'[t] = Ended(a[1], a[2]) /\ \A u \in Callers \ {t} : call'[u] = call[u]
  BY <1>1, <1>5, <1>6
<1>8. CallGoes(t) /\ Active(t)
  BY <1>4, <1>5, <1>6, <1>7 DEF CallGoes, CallTypeOK, Active
<1> QED
  BY <1>4, <1>5, <1>6, <1>7, <1>8 DEF ProxyAnswered

\* An order is done.  What it leaves under the key.
Leaves(d) ==
    \/ entry' = entry
    \/ entry' = NoEntry /\ (d.op \in Removals \/ (d.op = "unlock" /\ Fits))
    \/ /\ d.op \in DataWrites /\ Stored0(d.arg)
    \/ d.op = "lock" /\ entry = NoEntry /\ Stored0(d.by) /\ entry'.ttl
    \/ /\ d.op = "increment" /\ Stored0(Number(entry) + 1)
       /\ entry'.n = IF Live(entry) THEN entry.n + 1 ELSE 1

LEMMA Doing ==
    ASSUME CallGroup, OrchestratorDoes
    PROVE  /\ Head(orders) \in Orders /\ Head(orders) \in RangeOf(orders) /\ Head(orders).op \in OpsIn(role)
           /\ backend = "proxy" /\ shared /\ orders # <<>>
           /\ orders' \in Seq(Orders) /\ RangeOf(orders)' \subseteq RangeOf(orders)
           /\ Leaves(Head(orders)) /\ EntryTypeOK'
           /\ UNCHANGED <<fixed, mutex, handles, flock, call, current, allowed, crossed>>
           /\ leased' = IF Head(orders).op \in Removals /\ entry' # entry THEN {} ELSE leased
           /\ token' \in [Callers -> Tokens]
<1>1. /\ orders # <<>> /\ orders \in Seq(Orders) /\ orders' = Tail(orders) /\ Does(Head(orders))
      /\ UNCHANGED <<fixed, mutex, handles, flock, call, current, allowed, crossed>>
      /\ leased' = IF Head(orders).op \in Removals /\ entry' # entry THEN {} ELSE leased
      /\ token \in [Callers -> Tokens] /\ EntryTypeOK
  BY CallTypes DEF OrchestratorDoes, CallGroup, CallsTypeOK, EntryTypeOK, NoneOr
<1>2. /\ Head(orders) \in Orders /\ Head(orders) \in RangeOf(orders)
      /\ Tail(orders) \in Seq(Orders) /\ RangeOf(Tail(orders)) \subseteq RangeOf(orders)
  <2> HIDE DEF Orders
  <2> QED
    BY <1>1, SequenceShrinks
<1>3. RangeOf(orders)' = RangeOf(orders')
  BY DEF RangeOf
<1>4. backend = "proxy" /\ shared /\ Head(orders).op \in OpsIn(role)
  BY <1>1, <1>2 DEF CallGroup, OrdersInv
<1>5. token' \in [Callers -> Tokens]
  <2>1. token' = token \/ token' = [token EXCEPT ![Head(orders).by] = "stale"]
    BY DEF OrchestratorDoes
  <2> QED
    BY <1>1, <2>1 DEF Tokens
<1>6. Leaves(Head(orders)) /\ EntryTypeOK'
  <2> DEFINE d == Head(orders)
  <2>1. d.op \in Ops /\ d.arg \in Contents /\ d.by \in Contents /\ Number(entry) + 1 \in Contents
    <3>1. d.op \in Ops /\ d.arg \in Nat /\ d.by \in Callers
      BY <1>2 DEF Orders
    <3> QED
      BY <1>1, <3>1, EntryFacts DEF Contents
  <2> HIDE DEF d
  <2>2. ASSUME NEW v \in Contents, NEW ttl \in BOOLEAN, NEW o, PutBy(o, v, ttl)
        PROVE  /\ Stored0(v) /\ entry'.ttl = ttl
               /\ o = "increment" => entry'.n = IF Live(entry) THEN entry.n + 1 ELSE 1
    <3>1. /\ entry'.val = v /\ entry'.ttl = ttl /\ ~entry'.exp
          /\ o = "increment" => entry'.n = IF Live(entry) THEN entry.n + 1 ELSE 1
      BY <2>2 DEF PutBy
    <3>2. entry' \in Entries
      BY <1>1, <2>2, EntryFacts DEF PutBy, Entries
    <3> QED
      BY <3>1, <3>2, ContentsAssumption DEF Stored0
  <2>3. Does(d)
    BY <1>1 DEF d
  <2>4. Leaves(d)
    <3>1. CASE entry' = entry
      BY <3>1 DEF Leaves
    <3>2. CASE d.op \in {"set", "set_many", "get_set", "set_nx"} /\ \E ttl \in BOOLEAN : PutBy(d.op, d.arg, ttl)
      BY <2>1, <2>2, <3>2 DEF Leaves, DataWrites
    <3>3. CASE d.op = "increment" /\ \E ttl \in BOOLEAN : PutBy(d.op, Number(entry) + 1, ttl)
      BY <2>1, <2>2, <3>3 DEF Leaves
    <3>4. CASE entry' = NoEntry /\ (d.op \in Removals \/ (d.op = "unlock" /\ Fits))
      BY <3>4 DEF Leaves
    <3>5. CASE d.op = "lock" /\ entry = NoEntry /\ PutBy(d.op, d.by, TRUE)
      BY <2>1, <2>2, <3>5 DEF Leaves
    <3> QED
      BY <2>3, <3>1, <3>2, <3>3, <3>4, <3>5 DEF Does, Keep, Drop
  <2>5. EntryTypeOK'
    BY <1>1, <2>4 DEF Leaves, EntryTypeOK, NoneOr, Stored0
  <2> QED
    BY <2>4, <2>5 DEF d
<1> QED
  BY <1>1, <1>2, <1>3, <1>4, <1>5, <1>6

LEMMA CallsTyped == ASSUME CallGroup, [CacheNext]_cacheVars PROVE CallGroup'
<1> USE DEF CallGroup, CallsTypeOK
<1>t. CallTypeOK /\ EntryTypeOK
  BY DEF CallTypeOK, EntryTypeOK, NoneOr
<1>g. ASSUME CallTypeOK', EntryTypeOK', UNCHANGED fixed,
             OpsInv', SeenInv', EntryInv',
             token' \in [Callers -> Tokens], orders' \in Seq(Orders), OrdersInv',
             mutex' \in Callers \union {NoOne}, flock' \in Callers \union {NoOne}, handles' \subseteq Callers,
             current' \subseteq Values, allowed' \in [Callers -> SUBSET Values],
             crossed' \subseteq Callers, leased' \subseteq Callers
      PROVE  CallGroup'
  BY <1>g DEF CallTypeOK, EntryTypeOK, NoneOr, fixed
<1>o. orders \in Seq(Orders) /\ RangeOf(orders)' = RangeOf(orders')
  BY DEF RangeOf
<1>1. ASSUME NEW t \in Callers, NEW o \in OpsIn(role), NEW v \in Storable, Begin(t, o, v) PROVE CallGroup'
  <2>1. /\ CallTypeOK' /\ \A u \in Callers \ {t} : call'[u] = call[u]
        /\ call'[t].pc = "called" /\ call'[t].op = o /\ UNCHANGED <<fixed, store, token>>
    BY <1>1, Beginning
  <2>2. OpsInv' /\ SeenInv'
    BY <2>1 DEF OpsInv, SeenInv, SeenOK, At, Active, fixed, OpsIn
  <2>o. OrdersInv' /\ orders' \in Seq(Orders)
    BY <1>o, <2>1 DEF OrdersInv, OpsIn, fixed, store, RangeOf
  <2>3. current' \subseteq Values
    BY <1>1 DEF Begin, Storable
  <2>4. /\ \A u \in Callers : allowed'[u] \subseteq Values
        /\ allowed' \in [Callers -> SUBSET Values]
    BY <1>1, <2>3 DEF Begin
  <2>5. crossed' \subseteq Callers /\ leased' \subseteq Callers
    BY <1>1 DEF Begin, Writers
  <2> QED
    <3>1. EntryTypeOK' /\ EntryInv'
      BY <1>t, <2>1 DEF store, EntryTypeOK, EntryInv, fixed
    <3> QED
      BY <1>g, <2>1, <2>2, <2>o, <2>3, <2>4, <2>5, <3>1 DEF store
<1>2. ASSUME NEW t \in Callers, Step(t) PROVE CallGroup'
  <2>1. StepGoes(t) /\ UNCHANGED fixed
    BY <1>2, StepTyped
  <2>2. OpsInv' /\ SeenInv'
    BY <2>1 DEF StepGoes, CallGoes, OpsInv, SeenInv, SeenOK, At, Active, fixed, OpsIn
  <2>o. OrdersInv' /\ orders' \in Seq(Orders)
    <3>1. orders' = orders
      BY <1>2 DEF Step
    <3> QED
      BY <1>o, <2>1, <3>1 DEF StepGoes, CallGoes, OrdersInv, OpsIn, fixed
  <2>3. current' \subseteq Values /\ crossed' \subseteq Callers /\ leased' \subseteq Callers /\ allowed' = allowed
    BY <1>2 DEF Step, Record
  <2>4. token' \in [Callers -> Tokens]
    BY <1>2 DEF Step, Record, Tokens
  <2> QED
    BY <1>g, <2>1, <2>2, <2>o, <2>3, <2>4 DEF StepGoes, CallGoes
<1>3. ASSUME NEW t \in Callers, Crash(t) PROVE CallGroup'
  <2>1. CallTypeOK' /\ (\A u \in Callers \ {t} : call'[u] = call[u]) /\ call'[t].pc = "crashed"
    BY <1>3, Crashing
  <2>2. OpsInv' /\ SeenInv'
    BY <1>3, <2>1, Crashing DEF Crash, OpsInv, SeenInv, SeenOK, At, Active, fixed, OpsIn
  <2> QED
    <3>o. orders' = orders /\ UNCHANGED fixed
      BY <1>3 DEF Crash
    <3>1. OrdersInv' /\ orders' \in Seq(Orders)
      <4>1. /\ UNCHANGED <<backend, role, shared>> /\ RangeOf(orders)' = RangeOf(orders)
            /\ OpsIn(role)' = OpsIn(role)
        BY <3>o DEF fixed, RangeOf, OpsIn
      <4>2. (\A d \in RangeOf(orders) : d.op \in OpsIn(role))'
        BY <4>1 DEF OrdersInv
      <4>3. orders' # <<>> => (backend = "proxy" /\ shared)'
        BY <3>o, <4>1 DEF OrdersInv
      <4>4. \A u \in Callers : call'[u].pc = "sent" => (backend = "proxy" /\ shared)'
        BY <2>1, <4>1 DEF OrdersInv
      <4> QED
        BY <1>o, <3>o, <4>2, <4>3, <4>4 DEF OrdersInv
    <3> QED
      BY <1>g, <1>t, <1>3, <2>1, <2>2, <3>1 DEF Crash, EntryTypeOK, EntryInv, fixed
<1>4. ASSUME UNCHANGED <<fixed, call>> PROVE OpsInv' /\ SeenInv' /\ (orders' = orders => OrdersInv')
  BY <1>4 DEF OpsInv, OrdersInv, SeenInv, SeenOK, At, Active, fixed, OpsIn, RangeOf
<1>5. ASSUME NEW t \in Callers, LeaseEnds(t) PROVE CallGroup'
  BY <1>g, <1>t, <1>4, <1>5 DEF LeaseEnds, store, EntryTypeOK, EntryInv, fixed, CallTypeOK
<1>6. CASE Expire
  <2>1. UNCHANGED <<fixed, mutex, handles, flock, orders, call, token, current, allowed, crossed>> /\ leased' \subseteq leased
    BY <1>6 DEF Expire
  <2>2. EntryTypeOK' /\ EntryInv'
    <3>1. CASE backend \in {"memory", "file"}
      <4>1. entry # NoEntry /\ entry' = [entry EXCEPT !.exp = TRUE]
        BY <1>6, <3>1, EntryFacts, <1>t DEF Expire
      <4>2. entry' \in Entries /\ entry'.ttl = entry.ttl
        BY <4>1, <1>t, EntryFacts DEF Entries
      <4> QED
        BY <2>1, <3>1, <4>1, <4>2, ContentsAssumption DEF EntryTypeOK, EntryInv, NoneOr, fixed
    <3>2. CASE backend \notin {"memory", "file"}
      BY <1>6, <2>1, <3>2 DEF Expire, EntryTypeOK, EntryInv, NoneOr, fixed
    <3> QED
      BY <3>1, <3>2
  <2> QED
    BY <1>g, <1>t, <1>4, <2>1, <2>2 DEF CallTypeOK
<1>7. CASE Interference
  <2>1. /\ UNCHANGED <<fixed, mutex, orders, call, token, history>>
        /\ UNCHANGED <<handles, flock>> \/ (entry' = NoEntry /\ handles' = {} /\ flock' = NoOne)
    BY <1>7 DEF Interference, MemoryCleanup, FileOtherKey, Orphans
  <2>2. Foreign \in Contents /\ Mixed \in Contents
    BY DEF Contents
  <2>3. EntryTypeOK' /\ EntryInv'
    BY <1>7, <2>1, <2>2, WrittenFacts DEF Interference, MemoryCleanup, FileOtherKey, Orphans, Drop, EntryTypeOK, NoneOr, EntryInv, fixed
  <2> QED
    BY <1>g, <1>t, <1>4, <2>1, <2>3 DEF CallTypeOK, history
<1>8. CASE /\ backend = "proxy" /\ entry' \in {entry, NoEntry}
           /\ UNCHANGED <<fixed, mutex, handles, flock, orders, call, token, history>>
  BY <1>g, <1>t, <1>4, <1>8 DEF CallTypeOK, history, EntryTypeOK, EntryInv, NoneOr, fixed
<1>11. ASSUME NEW t \in Callers, ProxySend(t) PROVE CallGroup'
  <2>1. OpsInv' /\ SeenInv'
    BY <1>11, Sending DEF CallGoes, OpsInv, SeenInv, SeenOK, At, Active, fixed, OpsIn
  <2>2. OrdersInv'
    BY <1>11, Sending DEF CallGoes, OpsInv, OrdersInv, fixed, OpsIn
  <2>3. EntryTypeOK' /\ EntryInv'
    BY <1>t, <1>11, Sending DEF EntryTypeOK, EntryInv, fixed
  <2> QED
    BY <1>g, <1>11, <2>1, <2>2, <2>3, Sending DEF CallGoes, history
<1>12. ASSUME NEW t \in Callers, ProxyAnswered(t) PROVE CallGroup'
  <2>1. OpsInv' /\ SeenInv'
    BY <1>12, Answering DEF CallGoes, OpsInv, SeenInv, SeenOK, At, Active, fixed, OpsIn
  <2>2. OrdersInv' /\ orders' \in Seq(Orders)
    BY <1>o, <1>12, Answering DEF CallGoes, OrdersInv, store, fixed, OpsIn
  <2>3. EntryTypeOK' /\ EntryInv'
    BY <1>t, <1>12, Answering DEF store, EntryTypeOK, EntryInv, fixed
  <2> QED
    BY <1>g, <1>12, <2>1, <2>2, <2>3, Answering DEF CallGoes, store
<1>13. CASE OrchestratorDoes
  <2>1. OrdersInv'
    BY <1>13, Doing DEF OrdersInv, fixed, OpsIn
  <2>2. EntryInv'
    BY <1>13, Doing DEF EntryInv, Leaves, Stored0, fixed
  <2> QED
    BY <1>g, <1>t, <1>4, <1>13, <2>1, <2>2, Doing DEF CallTypeOK
<1>9. CASE /\ token' \in [Callers -> Tokens]
           /\ UNCHANGED <<fixed, store, call, history>>
  BY <1>g, <1>t, <1>4, <1>9 DEF CallTypeOK, history, store, EntryTypeOK, EntryInv, fixed
<1>10. CASE UNCHANGED cacheVars
  BY <1>9, <1>10 DEF cacheVars
<1> QED
  BY <1>1, <1>2, <1>3, <1>5, <1>6, <1>7, <1>8, <1>9, <1>10, <1>11, <1>12, <1>13 DEF CacheNext

\* Neither the implementation nor what the key is for changes.
LEMMA FixedStays == ASSUME CallGroup, [CacheNext]_cacheVars PROVE UNCHANGED fixed
BY StepTyped, Sending, Answering, Doing
   DEF CacheNext, Begin, Crash, LeaseEnds, Expire, Interference, MemoryCleanup, FileOtherKey, cacheVars

TaskTypeOK == task \in [Callers -> [kind : Kinds, pc : TaskPCs, val : 0..MaxVersion]]

\* What a step of t does to the tasks, in general and in particular.
TaskMoves(t) == TaskTypeOK' /\ \A u \in Callers \ {t} : task'[u] = task[u]

LEMMA TaskGoes ==
    ASSUME TaskTypeOK, NEW t \in Callers, NEW l \in TaskPCs, Go(t, l)
    PROVE  TaskMoves(t) /\ task'[t].kind = task[t].kind /\ task'[t].pc = l /\ task'[t].val = task[t].val
<1>1. task'[t] = [task[t] EXCEPT !.pc = l]
  BY DEF TaskTypeOK, Go
<1> QED
  BY <1>1 DEF TaskTypeOK, Go, TaskMoves

LEMMA TaskEnds ==
    ASSUME TaskTypeOK, NEW t \in Callers, Finish(t) PROVE TaskMoves(t) /\ task'[t] = NoTask
<1>1. MaxVersion \in Nat
  BY VersionsAssumption, FS_CardinalityType DEF MaxVersion
<1> QED
  BY <1>1 DEF TaskTypeOK, Finish, TaskMoves, NoTask, Kinds, TaskPCs

LEMMA TaskBegins ==
    ASSUME TaskTypeOK, NEW t \in Callers, NEW k \in Kinds, NEW l \in TaskPCs, NEW v \in 0..MaxVersion,
           task' = [task EXCEPT ![t] = [kind |-> k, pc |-> l, val |-> v]]
    PROVE  TaskMoves(t) /\ task'[t].kind = k /\ task'[t].pc = l /\ task'[t].val = v
BY DEF TaskTypeOK, TaskMoves

LEMMA TaskStarts ==
    ASSUME TypeOK, NEW t \in Callers, NEW k \in Kinds, NEW l \in TaskPCs, Start(t, k, l)
    PROVE  /\ TaskMoves(t) /\ task'[t].kind = k /\ task'[t].pc = l
           /\ k # "aside" => task'[t].val \in Values /\ task'[t].val = last' /\ last' \in Values /\ last' = last + 1
           /\ last' \in 0..MaxVersion /\ tainted' \subseteq Reasons
           /\ Free(t)
<1>0. TaskTypeOK /\ MaxVersion \in Nat /\ Values = 1..MaxVersion /\ last \in 0..MaxVersion /\ tainted \subseteq Reasons
  BY VersionsAssumption, FS_CardinalityType DEF MaxVersion, TypeOK, TaskTypeOK
<1>t. tainted' \subseteq Reasons
  <2>1. tainted' = tainted \union {"overlap"} \/ tainted' = tainted
    BY DEF Start
  <2> QED
    BY <1>0, <2>1 DEF Reasons
<1>f. Free(t)
  BY DEF Start
<1>1. CASE k = "aside"
  <2>1. task' = [task EXCEPT ![t] = [kind |-> k, pc |-> l, val |-> 0]]
    BY <1>1 DEF Start
  <2>2. last' = last
    BY <1>1 DEF Start
  <2>3. 0 \in 0..MaxVersion
    BY <1>0
  <2>4. TaskMoves(t) /\ task'[t].kind = k /\ task'[t].pc = l
    BY <1>0, <2>1, <2>3, TaskBegins
  <2> QED
    BY <1>0, <1>1, <1>t, <1>f, <2>2, <2>4
<1>2. CASE k # "aside"
  <2>1. task' = [task EXCEPT ![t] = [kind |-> k, pc |-> l, val |-> last']]
    BY <1>2 DEF Start
  <2>2. last < MaxVersion /\ last' = last + 1
    BY <1>2 DEF Start
  <2>3. last' \in Values /\ last' \in 0..MaxVersion
    BY <1>0, <2>2
  <2>4. TaskMoves(t) /\ task'[t].kind = k /\ task'[t].pc = l /\ task'[t].val = last'
    BY <1>0, <2>1, <2>3, TaskBegins
  <2> QED
    BY <1>2, <1>t, <1>f, <2>2, <2>3, <2>4
<1> QED
  BY <1>1, <1>2

\* A step of t leaves the tasks of others alone.
LEMMA TasksKept ==
    ASSUME TypeOK, TaskInv, role' = role, NEW t \in Callers, TaskMoves(t), TaskOK(t)',
           \A u \in Callers \ {t} : call'[u] = call[u]
    PROVE  TaskInv'
BY DEF TaskInv, TaskOK, TaskMoves, Active

\* The patterns are typed, and those of the key's role.
LEMMA TasksTyped ==
    ASSUME TypeOK, OpsInv, TaskInv, CallGroup, [Next]_vars
    PROVE  /\ TaskTypeOK'
           /\ tries' \in [Callers -> 0..(MaxAttempts[backend] - 1)]
           /\ source' \in 0..MaxVersion /\ last' \in 0..MaxVersion
           /\ behind' \subseteq 1..MaxVersion /\ tainted' \subseteq Reasons
           /\ TaskInv'
<1> USE DEF TypeOK
<1> DEFINE Rest == /\ tries' \in [Callers -> 0..(MaxAttempts[backend] - 1)]
                   /\ source' \in 0..MaxVersion /\ last' \in 0..MaxVersion
                   /\ behind' \subseteq 1..MaxVersion /\ tainted' \subseteq Reasons
<1> DEFINE Goal == TaskTypeOK' /\ TaskInv' /\ Rest
<1>0. /\ TaskTypeOK /\ MaxVersion \in Nat /\ Values = 1..MaxVersion
      /\ \A s \in {"overlap", "failed", "unmatched"} : s \in Reasons
  BY VersionsAssumption, FS_CardinalityType DEF MaxVersion, TaskTypeOK, Reasons
<1>n. backend \in Backends /\ MaxAttempts[backend] \in Nat \ {0}
  BY UsesAssumption, AttemptsAssumption DEF CallsTypeOK
<1>a. MaxAttempts[backend] - 1 \in Nat /\ 0 \in 0..(MaxAttempts[backend] - 1)
  BY <1>n
<1>f. \A t \in Callers : Failed(t) \subseteq Reasons
  BY <1>0 DEF Failed
<1>m. ASSUME NEW t \in Callers, TaskMoves(t), TaskOK(t)', Rest, role' = role,
             \A u \in Callers \ {t} : call'[u] = call[u]
      PROVE  Goal
  BY <1>m, TasksKept DEF TaskMoves
<1>e. ASSUME NEW t \in Callers, Finish(t), Rest, role' = role, \A u \in Callers \ {t} : call'[u] = call[u]
      PROVE  Goal
  <2>1. TaskMoves(t) /\ task'[t] = NoTask
    BY <1>0, <1>e, TaskEnds
  <2>2. TaskOK(t)'
    BY <2>1 DEF TaskOK, NoTask, EntityKinds, LockKinds
  <2> QED
    BY <1>e, <1>m, <2>1, <2>2
<1>u. ASSUME UNCHANGED <<task, tries, source, last, behind>>, tainted' \subseteq Reasons, role' = role,
             NEW t \in Callers, \A u \in Callers \ {t} : call'[u] = call[u],
             Active(t) /\ call[t].op = "lock" =>
                 \/ Active(t)' /\ call'[t].op = "lock"
                 \/ call'[t].pc = "crashed"
                 \/ call'[t].pc = "idle" /\ call'[t].res \in {"Yes", "No", "Err"},
             call[t].pc = "crashed" => call'[t].pc = "crashed",
             task[t].pc = "locking" /\ call[t].pc = "idle" => call'[t] = call[t] \/ call'[t].pc = "crashed"
      PROVE  Goal
  <2>1. TaskMoves(t)
    BY <1>0, <1>u DEF TaskMoves, TaskTypeOK
  <2>2. TaskOK(t)'
    BY <1>u DEF TaskInv, TaskOK, Active
  <2> QED
    BY <1>m, <1>u, <2>1, <2>2
<1>p. Unpatterned => UNCHANGED <<task, tries, source, last, behind>> /\ tainted' \subseteq Reasons
  <2>1. Unpatterned => tainted' = {} \/ tainted' = tainted
    BY DEF Unpatterned
  <2> QED
    BY <2>1 DEF Unpatterned
<1>1. ASSUME NEW t \in Callers, UseDirectly(t) \/ CallGoesOn(t) \/ ProcessCrashes(t) \/ LeaseIsOver(t) PROVE Goal
  <2>1. UNCHANGED <<task, tries, source, last, behind>> /\ tainted' \subseteq Reasons
    BY <1>1, <1>p DEF UseDirectly, CallGoesOn, ProcessCrashes, LeaseIsOver
  <2>2. CASE UseDirectly(t)
    <3>1. PICK o \in OpsIn(role), v \in Storable : Begin(t, o, v)
      BY <2>2, CacheUse DEF UseDirectly
    <3>2. /\ call[t].pc = "idle" /\ \A u \in Callers \ {t} : call'[u] = call[u]
          /\ role' = role
      BY <3>1, Beginning DEF fixed
    <3>3. task[t].pc # "locking"
      BY <2>2 DEF UseDirectly, Free, NoTask
    <3> QED
      BY <1>u, <2>1, <3>2, <3>3 DEF Active
  <2>3. CASE CallGoesOn(t)
    <3>1. CallGoes(t) /\ role' = role
      BY <2>3, StepTyped DEF CallGoesOn, StepGoes, fixed
    <3> QED
      BY <1>u, <2>1, <3>1 DEF CallGoes, Active
  <2>4. CASE ProcessCrashes(t)
    <3>1. /\ call'[t].pc = "crashed" /\ \A u \in Callers \ {t} : call'[u] = call[u]
          /\ role' = role
      BY <2>4, Crashing DEF ProcessCrashes, Crash, fixed
    <3> QED
      BY <1>u, <2>1, <3>1
  <2>5. CASE LeaseIsOver(t)
    <3>1. call' = call /\ role' = role
      BY <2>5 DEF LeaseIsOver, LeaseEnds, fixed
    <3> QED
      BY <1>u, <2>1, <3>1 DEF Active
  <2> QED
    BY <1>1, <2>2, <2>3, <2>4, <2>5
<1>2. CASE TimePasses \/ OthersInterfere \/ UNCHANGED vars
  <2>1. /\ UNCHANGED <<task, tries, source, last, behind>> /\ tainted' \subseteq Reasons
        /\ call' = call /\ role' = role
    BY <1>2, <1>p DEF TimePasses, OthersInterfere, Expire, Interference, MemoryCleanup, FileOtherKey,
       fixed, vars, patternVars, cacheVars
  <2>2. PICK t \in Callers : TRUE
    BY CallersAssumption
  <2> QED
    BY <1>u, <2>1, <2>2 DEF Active
<1>3. ASSUME NEW t \in Callers, AsideRead(t) \/ Behind(t) \/ Through(t) \/ SourceChanges(t) PROVE Goal
  <2>1. PICK k \in EntityKinds, l \in {"reading", "source", "storing", "invalidate"} :
            Start(t, k, l) /\ (SourceChanges(t) => k # "aside")
    BY <1>3 DEF AsideRead, Behind, Through, SourceChanges, EntityKinds
  <2>2. k \in Kinds /\ l \in TaskPCs
    BY DEF EntityKinds, Kinds, TaskPCs
  <2>3. /\ TaskMoves(t) /\ task'[t].kind = k /\ task'[t].pc = l
        /\ k # "aside" => task'[t].val \in Values /\ last' \in Values
        /\ last' \in 0..MaxVersion /\ tainted' \subseteq Reasons
    BY <2>1, <2>2, TaskStarts
  <2>4. role = "entity" /\ role' = role /\ \A u \in Callers \ {t} : call'[u] = call[u]
    BY <1>3 DEF AsideRead, Behind, Through, SourceChanges, Begin, fixed, cacheVars, CallGroup, CallsTypeOK
  <2>5. TaskOK(t)'
    BY <2>3, <2>4 DEF TaskOK, EntityKinds, LockKinds
  <2>6. source' \in 0..MaxVersion /\ tries' = tries /\ behind' = behind
    <3>1. SourceChanges(t) => source' \in Values
      BY <2>1, <2>3 DEF SourceChanges
    <3> QED
      BY <1>0, <1>3, <3>1 DEF AsideRead, Behind, Through, SourceChanges
  <2>7. Rest
    BY <2>3, <2>6
  <2> QED
    BY <1>m, <2>3, <2>4, <2>5, <2>7
<1>4. ASSUME NEW t \in Callers, AsideFetch(t) \/ ThroughSource(t) PROVE Goal
  <2>1. role = "entity" /\ task[t].kind \in EntityKinds /\ task[t].kind # "none"
    BY <1>4, TaskTypes DEF AsideFetch, ThroughSource, EntityKinds
  <2>2. Rest
    <3>1. source' \in {source, task[t].val} /\ UNCHANGED <<tries, last, behind, tainted>>
      BY <1>4 DEF AsideFetch, ThroughSource
    <3> QED
      BY <1>0, <3>1, TaskTypes
  <2>3. CASE Finish(t) /\ UNCHANGED cacheVars
    BY <1>e, <2>2, <2>3 DEF cacheVars, fixed
  <2>4. ASSUME NEW v \in Values, StoreInCache(t, v) PROVE Goal
    <3>1. Begin(t, "set", v) /\ "set" \in OpsIn(role)
      BY <2>1, <2>4 DEF StoreInCache, OpsIn, EntityOps
    <3>2. role' = role /\ \A u \in Callers \ {t} : call'[u] = call[u]
      BY <3>1, NoValueType, Beginning DEF fixed
    <3>3. task' = [task EXCEPT ![t].pc = "storing", ![t].val = v]
      BY <2>4 DEF StoreInCache
    <3>4. /\ task[t] \in [kind : Kinds, pc : TaskPCs, val : 0..MaxVersion]
          /\ task'[t] = [task[t] EXCEPT !.pc = "storing", !.val = v]
      BY <1>0, <3>3 DEF TaskTypeOK
    <3>5. v \in 0..MaxVersion /\ "storing" \in TaskPCs
      BY <1>0 DEF TaskPCs
    <3>6. /\ task'[t].kind = task[t].kind /\ task'[t].pc = "storing" /\ task'[t].val = v
          /\ task'[t] \in [kind : Kinds, pc : TaskPCs, val : 0..MaxVersion]
      BY <3>4, <3>5
    <3>7. TaskMoves(t)
      BY <1>0, <3>3, <3>6 DEF TaskMoves, TaskTypeOK
    <3>8. TaskOK(t)'
      BY <2>1, <3>2, <3>6 DEF TaskOK, EntityKinds, LockKinds
    <3> QED
      BY <1>m, <2>2, <3>2, <3>7, <3>8
  <2>5. source # 0 => source \in Values
    BY <1>0
  <2>6. task[t].kind = "through" => task[t].val \in Values
    BY DEF TaskInv, TaskOK
  <2> QED
    BY <1>4, <2>3, <2>4, <2>5, <2>6 DEF AsideFetch, ThroughSource
<1>5. ASSUME NEW t \in Callers,
             AsideAnswered(t) \/ Stored(t) \/ InvalidateKey(t) \/ InvalidateVersion(t) \/ InvalidateType(t) \/ Invalidated(t)
      PROVE  Goal
  <2>1. role = "entity" /\ task[t].kind \in EntityKinds
    BY <1>5, TaskTypes DEF AsideAnswered, Stored, InvalidateKey, InvalidateVersion, InvalidateType, Invalidated, Returned
  <2>2. /\ behind' = behind \/ (behind' = behind \union {task[t].val} /\ task[t].kind = "behind")
        /\ UNCHANGED <<tries, source, last>>
        /\ tainted' \in {tainted, Failed(t), tainted \union {"unmatched"}}
    BY <1>5 DEF AsideAnswered, Stored, InvalidateKey, InvalidateVersion, InvalidateType, Invalidated
  <2>3. Rest
    <3>1. behind' \subseteq 1..MaxVersion
      BY <1>0, <2>2 DEF TaskInv, TaskOK
    <3> QED
      BY <1>0, <1>f, <2>2, <3>1
  <2>4. role' = role /\ \A u \in Callers \ {t} : call'[u] = call[u]
    <3>1. Begin(t, "delete", NoValue) => role' = role /\ \A u \in Callers \ {t} : call'[u] = call[u]
      BY <2>1, NoValueType, Beginning DEF OpsIn, EntityOps, fixed
    <3> QED
      BY <1>5, <3>1 DEF AsideAnswered, Stored, InvalidateKey, InvalidateVersion, InvalidateType, Invalidated,
         cacheVars, fixed
  <2>5. CASE Finish(t)
    BY <1>e, <2>3, <2>4, <2>5
  <2>6. ASSUME NEW l \in {"fetch", "invalidating"}, Go(t, l) PROVE Goal
    <3>1. TaskMoves(t) /\ task'[t].kind = task[t].kind /\ task'[t].pc = l /\ task'[t].val = task[t].val
      BY <1>0, <2>6, TaskGoes DEF TaskPCs
    <3>2. TaskOK(t)'
      BY <2>1, <2>4, <3>1 DEF TaskInv, TaskOK, EntityKinds, LockKinds
    <3> QED
      BY <1>m, <2>3, <2>4, <3>1, <3>2
  <2> QED
    BY <1>5, <2>5, <2>6 DEF AsideAnswered, Stored, InvalidateKey, InvalidateVersion, InvalidateType, Invalidated
<1>6. ASSUME NEW v \in Values, BehindWrites(v) PROVE Goal
  <2>1. /\ UNCHANGED <<task, tries, last>> /\ UNCHANGED cacheVars /\ behind' \subseteq behind
        /\ source' \in {source, v}
        /\ tainted' \in {tainted, tainted \union {"overlap"}, tainted \union {"failed"}}
    BY <1>6 DEF BehindWrites
  <2>2. Rest
    BY <1>0, <2>1
  <2>3. PICK t \in Callers : TRUE
    BY CallersAssumption
  <2>4. TaskMoves(t) /\ TaskOK(t)'
    BY <1>0, <2>1 DEF TaskMoves, TaskTypeOK, TaskInv, TaskOK, cacheVars, fixed, Active
  <2> QED
    BY <1>m, <2>1, <2>2, <2>4 DEF cacheVars, fixed
<1>10. ASSUME NEW t \in Callers, CallCrosses(t) \/ AnswerComes(t) PROVE Goal
  <2>1. UNCHANGED <<task, tries, source, last, behind>> /\ tainted' \subseteq Reasons
    <3>1. CallCrosses(t) => UNCHANGED <<task, tries, source, last, behind>> /\ tainted' \in {tainted, tainted \union {"crossed"}}
      BY DEF CallCrosses
    <3> QED
      BY <1>10, <1>p, <3>1 DEF AnswerComes, Reasons
  <2>2. CallGoes(t) /\ role' = role
    BY <1>10, Sending, Answering DEF CallCrosses, AnswerComes, fixed
  <2> QED
    BY <1>u, <2>1, <2>2 DEF CallGoes, Active
<1>11. CASE OrderIsDone
  <2>1. UNCHANGED <<task, tries, source, last, behind>> /\ tainted' \subseteq Reasons
    BY <1>11, <1>p DEF OrderIsDone
  <2>2. call' = call /\ role' = role
    BY <1>11, Doing DEF OrderIsDone, fixed
  <2>3. PICK t \in Callers : TRUE
    BY CallersAssumption
  <2> QED
    BY <1>u, <2>1, <2>2, <2>3 DEF TaskInv, TaskOK, Active
<1>7. ASSUME NEW t \in Callers, NEW k \in {"try", "acquire", "with"}, AcquireLock(t, k) PROVE Goal
  <2>1. role = "lock" /\ Begin(t, "lock", NoValue)
    BY <1>7 DEF AcquireLock, TryAcquire
  <2>2. /\ role' = role /\ \A u \in Callers \ {t} : call'[u] = call[u]
        /\ call'[t].pc = "called" /\ call'[t].op = "lock"
    BY <2>1, OpsInRole, NoValueType, Beginning DEF fixed
  <2>3. k \in Kinds /\ "locking" \in TaskPCs /\ 0 \in 0..MaxVersion
    BY <1>0 DEF Kinds, TaskPCs
  <2>4. TaskMoves(t) /\ task'[t].kind = k /\ task'[t].pc = "locking"
    BY <1>0, <1>7, <2>3, TaskBegins DEF AcquireLock
  <2>5. TaskOK(t)'
    BY <2>1, <2>2, <2>4 DEF TaskOK, EntityKinds, LockKinds, Active
  <2>6. Rest
    BY <1>7, <1>a DEF AcquireLock, TryAcquire, LockVars
  <2> QED
    BY <1>m, <2>2, <2>4, <2>5, <2>6
<1>8. ASSUME NEW t \in Callers, ReleaseLock(t) \/ LockRetry(t) \/ WithLockDone(t) PROVE Goal
  <2>1. role = "lock" /\ (task[t].kind \in LockKinds \/ ReleaseLock(t))
    BY <1>8, TaskTypes DEF ReleaseLock, LockRetry, WithLockDone
  <2>2. PICK o \in {"lock", "unlock"} : Begin(t, o, NoValue) /\ (o = "lock" <=> LockRetry(t))
    <3>1. LockRetry(t) => task[t].pc = "sleep" /\ Begin(t, "lock", NoValue)
      BY DEF LockRetry, TryAcquire
    <3>2. WithLockDone(t) => task[t].pc = "inside" /\ Begin(t, "unlock", NoValue)
      BY DEF WithLockDone, BeginRelease
    <3>3. ReleaseLock(t) => task[t].pc = "none" /\ Begin(t, "unlock", NoValue)
      BY DEF ReleaseLock, BeginRelease, Free, NoTask
    <3> QED
      BY <1>8, <3>1, <3>2, <3>3
  <2>3. /\ role' = role /\ \A u \in Callers \ {t} : call'[u] = call[u]
        /\ call'[t].pc = "called" /\ call'[t].op = o
    BY <2>1, <2>2, OpsInRole, NoValueType, Beginning DEF fixed
  <2>4. Rest
    BY <1>8 DEF ReleaseLock, LockRetry, WithLockDone, TryAcquire, BeginRelease, LockVars
  <2>5. /\ TaskMoves(t) /\ task'[t].kind \in LockKinds
        /\ task'[t].pc \in {"locking", "unlocking"} /\ (task'[t].pc = "locking" => o = "lock")
    <3>1. CASE LockRetry(t)
      BY <1>0, <2>1, <2>2, <3>1, TaskGoes DEF LockRetry, TaskPCs, ReleaseLock, Free, NoTask
    <3>2. CASE WithLockDone(t)
      BY <1>0, <2>1, <3>2, TaskGoes DEF WithLockDone, TaskPCs, ReleaseLock, Free, NoTask
    <3>3. CASE ReleaseLock(t)
      <4>1. "release" \in Kinds /\ "unlocking" \in TaskPCs /\ 0 \in 0..MaxVersion
        BY <1>0 DEF Kinds, TaskPCs
      <4> QED
        BY <1>0, <3>3, <4>1, TaskBegins DEF ReleaseLock, LockKinds
    <3> QED
      BY <1>8, <3>1, <3>2, <3>3
  <2>6. TaskOK(t)'
    BY <2>1, <2>3, <2>5 DEF TaskOK, EntityKinds, LockKinds, Active
  <2> QED
    BY <1>m, <2>3, <2>4, <2>5, <2>6
<1>9. ASSUME NEW t \in Callers, LockAnswered(t) \/ ReleaseAnswered(t) PROVE Goal
  <2>1. role = "lock" /\ task[t].kind \in LockKinds
    BY <1>9, TaskTypes DEF LockAnswered, ReleaseAnswered, Returned
  <2>2. role' = role /\ call' = call /\ UNCHANGED LockVars
    BY <1>9 DEF LockAnswered, ReleaseAnswered, fixed
  <2>3. ReleaseAnswered(t) => Finish(t) /\ tries' = tries
    BY DEF ReleaseAnswered
  <2>4. LockAnswered(t) => \/ Finish(t) /\ tries' = [tries EXCEPT ![t] = 0]
                           \/ Go(t, "inside") /\ tries' = [tries EXCEPT ![t] = 0]
                           \/ /\ Go(t, "sleep") /\ tries[t] + 1 < MaxAttempts[backend]
                              /\ tries' = [tries EXCEPT ![t] = @ + 1]
    <3>1. LockAnswered(t) => call[t].res \in {"Yes", "No", "Err"}
      BY DEF LockAnswered, Returned, TaskInv, TaskOK, Active
    <3>2. tries[t] \in Nat
      BY <1>a
    <3>3. ~(tries[t] + 1 >= MaxAttempts[backend]) => tries[t] + 1 < MaxAttempts[backend]
      BY <3>2, <1>n
    <3>4. AttemptRefused(t) => \/ Finish(t) /\ tries' = [tries EXCEPT ![t] = 0]
                               \/ /\ Go(t, "sleep") /\ tries[t] + 1 < MaxAttempts[backend]
                                  /\ tries' = [tries EXCEPT ![t] = @ + 1]
      BY <3>3 DEF AttemptRefused
    <3>5. call[t].res = "Yes" /\ LockAnswered(t) =>
            (Finish(t) \/ Go(t, "inside")) /\ tries' = [tries EXCEPT ![t] = 0]
      BY DEF LockAnswered
    <3>6. call[t].res = "No" /\ LockAnswered(t) => AttemptRefused(t)
      BY DEF LockAnswered
    <3>7. call[t].res = "Err" /\ LockAnswered(t) => Finish(t) /\ tries' = [tries EXCEPT ![t] = 0]
      BY DEF LockAnswered
    <3> QED
      BY <3>1, <3>4, <3>5, <3>6, <3>7
  <2>5. Rest
    <3>1. tries' \in [Callers -> 0..(MaxAttempts[backend] - 1)]
      <4>1. tries[t] + 1 < MaxAttempts[backend] => tries[t] + 1 \in 0..(MaxAttempts[backend] - 1)
        BY <1>a, <1>n
      <4> QED
        BY <1>9, <1>a, <2>3, <2>4, <4>1
    <3> QED
      BY <2>2, <3>1 DEF LockVars
  <2>6. CASE Finish(t)
    BY <1>e, <2>2, <2>5, <2>6
  <2>7. ASSUME NEW l \in {"inside", "sleep"}, Go(t, l) PROVE Goal
    <3>1. TaskMoves(t) /\ task'[t].kind = task[t].kind /\ task'[t].pc = l /\ task'[t].val = task[t].val
      BY <1>0, <2>7, TaskGoes DEF TaskPCs
    <3>2. TaskOK(t)'
      BY <2>1, <2>2, <3>1 DEF TaskInv, TaskOK, EntityKinds, LockKinds
    <3> QED
      BY <1>m, <2>2, <2>5, <3>1, <3>2
  <2> QED
    BY <1>9, <2>3, <2>4, <2>6, <2>7
<1> QED
  BY <1>1, <1>2, <1>3, <1>4, <1>5, <1>6, <1>7, <1>8, <1>9, <1>10, <1>11
  DEF Next, EntityNext, EntityStep, LockNext, LockStep

-----------------------------------------------------------------------------
(* Locks.                                                                  *)

Keeping == {"redis", "proxy"}

\* What the methods of a lock do to the entry.
EntryChange(t) ==
    \/ entry' = entry
    \/ entry = NoEntry /\ entry' # NoEntry
    \/ call[t].op = "flush"
    \/ backend = "redis" /\ entry # NoEntry /\ entry' = [entry EXCEPT !.ttl = TRUE]
    \/ backend \in Keeping /\ call[t].op = "unlock" /\ Holds(entry, t)
    \/ backend = "proxy" /\ call[t].op = "unlock" /\ Fits
    \/ /\ backend \notin Keeping /\ entry' = NoEntry /\ At(t, "remove", {"unlock"})
    \/ backend = "memory" /\ At(t, "evict", {"lock"})
    \/ backend = "memory" /\ At(t, "insert", {"lock"})
    \/ backend = "file" /\ At(t, "purge", {"lock"}) /\ entry' = NoEntry
    \/ backend = "file" /\ At(t, "named", {"lock"}) /\ t \in handles
Given(t) == call[t].op = "lock" /\ call'[t].pc = "idle" /\ call'[t].res = "Yes" /\ Holds(entry', t)
LockEffect(t) ==
    /\ EntryChange(t)
    /\ Given(t) => entry'.ttl /\ (backend \in Keeping => entry = NoEntry \/ Holds(entry, t))

LEMMA HeldFacts ==
    ASSUME EntryTypeOK, NEW v
    PROVE  Holds(entry, v) <=> entry # NoEntry /\ ~entry.exp /\ entry.val = v
BY EntryFacts DEF Holds

LEMMA LockSteps ==
    ASSUME CallGroup, LeaseInv, NEW t \in Callers, role = "lock", Step(t)
    PROVE  LockEffect(t)
<1> USE CallTypes
<1>0. StepGoes(t) /\ UNCHANGED fixed /\ EntryTypeOK /\ EntryTypeOK' /\ EntryInv' /\ EntryInv
  BY StepTyped DEF StepGoes, CallGroup
<1>1. Active(t) /\ call[t].op \in {"flush", "lock", "unlock"}
  BY <1>0, OpsInRole DEF StepGoes, CallGoes, CallGroup, OpsInv
<1>2. Given(t) => entry' # NoEntry
  BY <1>0 DEF Given, Holds, Live
<1>3. CASE CallFails(t)
  <2>1. entry' = entry /\ call'[t] = Ended("Err", NoEntry)
    BY <1>3 DEF CallFails, Keep, CallTypeOK
  <2> QED
    BY <2>1 DEF LockEffect, EntryChange, Given, Ended
<1>4. CASE backend = "memory" /\ MemoryStep(t)
  <2>1. MemoryLock(t) \/ MemoryUnlock(t) \/ MemoryFlush(t) \/ MaybeEvict(t) \/ MemoryInsert(t)
    BY <1>1, <1>4 DEF MemoryStep, MemoryGet, MemoryGetMany, MemoryRead, MemoryPurge, MemoryExists, MemorySet,
       MemorySetNx, MemoryGetSet, MemorySetMany, MemoryIncrement, MemoryDelete, MemoryDeleteMany, MemoryClear, At
  <2>2. ASSUME MemoryLock(t) \/ MemoryUnlock(t) \/ MemoryFlush(t) PROVE EntryChange(t)
    BY <1>4, <2>2 DEF EntryChange, MemoryFlush, MemoryLock, MemoryUnlock, At, Keep, Drop, Keeping
  <2>3. ASSUME MaybeEvict(t) \/ MemoryInsert(t) PROVE EntryChange(t)
    <3>1. call[t].op \in {"flush", "lock"} => EntryChange(t)
      BY <1>4, <2>3 DEF EntryChange, MaybeEvict, MemoryInsert, At
    <3>2. call[t].op # "unlock"
      BY <2>3 DEF MaybeEvict, MemoryInsert, At, CallGroup, SeenInv, SeenOK, Inserters, DataWrites
    <3> QED
      BY <1>1, <3>1, <3>2
  <2>4. EntryChange(t)
    BY <2>1, <2>2, <2>3
  <2> QED
    BY <1>0, <1>2, <1>4, <2>4 DEF LockEffect, EntryInv, Keeping, fixed
<1>5. CASE backend = "file" /\ FileStep(t)
  <2>0. Written(Empty) # NoEntry
    BY WrittenFacts DEF Contents
  <2>1. EntryChange(t)
    BY <1>1, <1>5, <2>0 DEF FileStep, EntryChange, FileSet, FileGetSet, FileSetNx, FileLocked, FileWritten,
       FileIncrement, FileLock, FileGet, FileExists, FileDelete, FileClear, FileFlush, FileUnlock, FilePurgeLock,
       CreateNew, At, Keep, Drop, Keeping, DataWrites
  <2> QED
    BY <1>0, <1>2, <1>5, <2>1 DEF LockEffect, EntryInv, Keeping, fixed
<1>6. CASE backend = "redis" /\ RedisStep(t)
  <2>1. RedisLock(t) \/ RedisExpire(t) \/ RedisUnlock(t) \/ RedisFlush(t)
    BY <1>1, <1>6 DEF RedisStep, RedisGet, RedisGetMany, RedisRead, RedisExists, RedisSet, RedisSetNx, RedisGetSet,
       RedisSetMany, RedisIncrement, RedisDelete, RedisDeleteMany, RedisClear, At
  <2>2. CASE RedisLock(t)
    <3>1. At(t, "called", {"lock"})
      BY <2>2 DEF RedisLock
    <3>2. CASE SetIfNone(t, t) /\ Goto(t, "expire", NoEntry)
      <4>1. entry = NoEntry /\ entry' # NoEntry /\ call'[t].pc = "expire"
        BY <1>1, <3>1, <3>2, PutFacts DEF SetIfNone, Goto, CallTypeOK, Call, PCs, At
      <4> QED
        BY <4>1 DEF LockEffect, EntryChange, Given
    <3>3. CASE entry' = entry /\ Return(t, "No", NoEntry)
      <4>1. call'[t].res # "Yes"
        BY <1>1, <3>3, Returning
      <4> QED
        BY <3>3, <4>1 DEF LockEffect, EntryChange, Given
    <3> QED
      BY <2>2, <3>2, <3>3 DEF RedisLock, Keep
  <2>3. CASE RedisExpire(t)
    <3>1. CASE entry = NoEntry /\ entry' = entry
      BY <1>2, <3>1 DEF LockEffect, EntryChange
    <3>2. CASE entry # NoEntry /\ entry' = [entry EXCEPT !.ttl = TRUE]
      <4>1. entry'.val = entry.val /\ entry'.ttl /\ entry'.exp = entry.exp
        BY <1>0, <3>2, EntryFacts DEF Entries
      <4>2. Given(t) => Holds(entry, t)
        BY <1>0, <1>6, <3>2, <4>1, HeldFacts DEF Given, Holds, Live, EntryInv
      <4> QED
        BY <1>6, <3>2, <4>1, <4>2 DEF LockEffect, EntryChange
    <3> QED
      BY <2>3, <3>1, <3>2 DEF RedisExpire, Keep
  <2>4. CASE RedisUnlock(t) \/ RedisFlush(t)
    <3>1. call[t].op # "lock"
      BY <2>4 DEF RedisUnlock, RedisFlush, At
    <3> QED
      BY <1>6, <2>4, <3>1 DEF RedisUnlock, RedisFlush, At, LockEffect, EntryChange, Given, Keep, Keeping
  <2> QED
    BY <2>1, <2>2, <2>3, <2>4
<1>7. CASE backend = "memcached" /\ MemcachedStep(t)
  <2>1. MemcachedLock(t) \/ MemcachedUnlock(t) \/ MemcachedFlush(t)
    BY <1>1, <1>7 DEF MemcachedStep, MemcachedGet, MemcachedGetMany, MemcachedRead, MemcachedExists, MemcachedSet,
       MemcachedSetMany, MemcachedSetNx, MemcachedGetSet, MemcachedIncrement, MemcachedDelete,
       MemcachedDeleteMany, MemcachedClear, Command, At
  <2>2. CASE MemcachedLock(t)
    <3>1. entry = NoEntry => entry' # NoEntry /\ entry'.ttl
      BY <2>2, PutFacts DEF MemcachedLock, AddCommand
    <3>2. entry # NoEntry => entry' = entry /\ call'[t].res # "Yes"
      BY <1>1, <2>2, Returning DEF MemcachedLock, AddCommand, Keep
    <3> QED
      BY <1>7, <3>1, <3>2 DEF LockEffect, EntryChange, Given, Keeping
  <2>3. CASE MemcachedUnlock(t) \/ MemcachedFlush(t)
    <3>1. call[t].op # "lock"
      BY <2>3 DEF MemcachedUnlock, MemcachedFlush, Command, At
    <3> QED
      BY <1>7, <2>3, <3>1 DEF MemcachedUnlock, MemcachedFlush, Command, At, LockEffect, EntryChange, Given,
         Keep, Keeping, Drop
  <2> QED
    BY <2>1, <2>2, <2>3
<1>8. CASE backend = "proxy" /\ ProxyStep(t)
  <2>1. ProxyLock(t) \/ ProxyUnlock(t) \/ ProxyFlush(t)
    BY <1>1, <1>8 DEF ProxyStep, ProxyGet, ProxyGetMany, ProxyExists, ProxySet, ProxySetMany, ProxyGetSet, ProxySetNx,
       ProxyIncrement, ProxyDelete, ProxyDeleteMany, ProxyClear, Proxied, At
  <2>2. CASE ProxyLock(t)
    <3>1. entry = NoEntry => entry' # NoEntry /\ entry'.ttl
      BY <2>2, PutFacts DEF ProxyLock
    <3>2. entry # NoEntry => entry' = entry /\ call'[t].res # "Yes"
      BY <1>1, <2>2, Returning DEF ProxyLock, Keep
    <3> QED
      BY <3>1, <3>2 DEF LockEffect, EntryChange, Given
  <2>3. CASE ProxyUnlock(t) \/ ProxyFlush(t)
    <3>1. call[t].op # "lock"
      BY <2>3 DEF ProxyUnlock, ProxyFlush, Proxied, At
    <3> QED
      BY <1>8, <2>3, <3>1 DEF ProxyUnlock, ProxyFlush, Proxied, At, LockEffect, EntryChange, Given,
         Keep, Keeping, Drop
  <2> QED
    BY <2>1, <2>2, <2>3
<1>9. CASE backend = "disabled" /\ RedisDisabled(t)
  <2>1. entry' = entry /\ call'[t].res # "Yes"
    BY <1>1, <1>9, Returning DEF RedisDisabled, Keep
  <2> QED
    BY <2>1 DEF LockEffect, EntryChange, Given
<1> QED
  BY <1>3, <1>4, <1>5, <1>6, <1>7, <1>8, <1>9 DEF Step

\* How the history of the leases goes on.
LEMMA LeaseSteps ==
    ASSUME CallGroup, LeaseInv, NEW t \in Callers, role = "lock", Step(t)
    PROVE  \/ leased' = leased \union {t} /\ Given(t) /\ (backend \in Keeping => leased \subseteq {t})
           \/ leased' = {} /\ leased' \subseteq leased
           \/ leased' = leased /\ ~Given(t) /\ (entry' = entry \/ call[t].op # "flush")
<1>0. LockEffect(t) /\ EntryTypeOK /\ CallTypeOK'
  BY LockSteps, CallTypes, StepTyped DEF StepGoes, CallGoes
<1>1. call[t].op \in {"flush", "lock", "unlock"}
  BY StepTyped, OpsInRole DEF StepGoes, CallGoes, CallGroup, OpsInv
<1>2. /\ Given(t) => leased' = leased \union {t}
      /\ ~Given(t) /\ call[t].op = "flush" /\ entry' # entry => leased' = {}
      /\ ~Given(t) /\ (call[t].op # "flush" \/ entry' = entry) => leased' = leased
  BY <1>1 DEF Step, Record, Given, Removals
<1>3. Given(t) /\ backend \in Keeping => leased \subseteq {t}
  <2>1. ASSUME NEW u \in leased, Given(t), backend \in Keeping PROVE u = t
    <3>1. Holds(entry, u)
      BY <2>1 DEF LeaseInv, Keeping, CallGroup, CallsTypeOK
    <3>2. Holds(entry, t)
      BY <1>0, <2>1, <3>1, HeldFacts DEF LockEffect
    <3> QED
      BY <1>0, <3>1, <3>2, HeldFacts
  <2> QED
    BY <2>1
<1> QED
  BY <1>2, <1>3

LEMMA LeasesKept ==
    ASSUME CallGroup, LeaseInv, [CacheNext]_cacheVars PROVE LeaseInv'
<1>t. EntryTypeOK /\ leased \subseteq Callers /\ handles \subseteq Callers
  BY DEF CallGroup, CallsTypeOK, EntryTypeOK, NoneOr
<1>s. ASSUME UNCHANGED <<fixed, call>>, handles' \subseteq handles, leased' \subseteq leased,
             \/ entry' = entry
             \/ /\ backend \in {"memory", "file"}
                /\ entry'.val = entry.val \/ entry'.val \in {Foreign, Mixed} \/ handles' = {}
             \/ leased' = {} /\ backend # "file"
      PROVE  LeaseInv'
  BY <1>s, <1>t DEF LeaseInv, fixed, Active, At, Keeping
<1>1. ASSUME NEW t \in Callers, NEW o \in OpsIn(role), NEW v \in Storable, Begin(t, o, v) PROVE LeaseInv'
  <2>1. /\ call[t].pc = "idle" /\ \A u \in Callers \ {t} : call'[u] = call[u]
        /\ call'[t].op = o /\ UNCHANGED <<fixed, store, token>>
    BY <1>1, Beginning
  <2>2. leased' \subseteq leased /\ (o = "unlock" => t \notin leased')
    BY <1>1 DEF Begin
  <2>3. backend = "file" /\ role = "lock" => t \notin handles
    BY <2>1 DEF LeaseInv, At
  <2> QED
    BY <1>t, <2>1, <2>2, <2>3 DEF LeaseInv, fixed, store, Active, At, OpsIn
<1>2. ASSUME NEW t \in Callers, Step(t), role # "lock" PROVE LeaseInv'
  <2>1. CallGoes(t) /\ UNCHANGED fixed /\ call[t].op \notin {"lock", "unlock"}
    <3>1. call[t].op \in OpsIn(role) /\ role \in Roles
      BY <1>2, StepTyped, UsesAssumption DEF StepGoes, CallGoes, CallGroup, OpsInv, CallsTypeOK
    <3> QED
      BY <1>2, <3>1, OpsInRole, StepTyped DEF StepGoes, DataReads, DataWrites, Removals, EntityOps, Roles
  <2>2. leased' = {}
    BY <1>2, <2>1 DEF Step, Record, LeaseInv
  <2> QED
    BY <1>2, <2>1, <2>2 DEF LeaseInv, fixed
<1>3. ASSUME NEW t \in Callers, Step(t), role = "lock" PROVE LeaseInv'
  <2>1. /\ CallGoes(t) /\ UNCHANGED fixed /\ EntryTypeOK' /\ LockEffect(t)
        /\ \A u \in Callers \ {t} : call'[u] = call[u]
    BY <1>3, StepTyped, LockSteps DEF StepGoes, CallGoes
  <2>2. \A u \in Callers : Active(u)' /\ call'[u].op = "unlock" => u \notin leased'
    <3>1. Given(t) => ~Active(t)'
      BY DEF Given, Active
    <3>2. Active(t)' => call'[t].op = call[t].op /\ Active(t)
      BY <2>1 DEF CallGoes, Active
    <3>3. leased' \subseteq leased \union {t} /\ (t \in leased' => t \in leased \/ Given(t))
      BY <1>3, LeaseSteps
    <3> QED
      BY <2>1, <3>1, <3>2, <3>3 DEF LeaseInv, Active
  <2>3. ASSUME backend \in Keeping PROVE \A u \in leased' : Holds(entry', u)
    <3>1. CASE Given(t)
      BY <1>3, <2>3, <3>1, LeaseSteps DEF Given
    <3>2. CASE leased' = {}
      BY <3>2
    <3>3. CASE leased' = leased /\ ~Given(t) /\ (entry' = entry \/ call[t].op # "flush")
      <4>1. ASSUME NEW u \in leased PROVE Holds(entry', u)
        <5>1. Holds(entry, u) /\ entry # NoEntry /\ ~entry.exp /\ entry.val = u
          BY <1>t, <2>3, HeldFacts DEF LeaseInv, Keeping
        <5>2. CASE entry' = entry
          BY <5>1, <5>2
        <5>3. CASE backend = "redis" /\ entry' = [entry EXCEPT !.ttl = TRUE]
          <6>1. entry' # NoEntry /\ entry'.val = entry.val /\ entry'.exp = entry.exp
            <7>1. entry' \in Entries /\ entry'.val = entry.val /\ entry'.exp = entry.exp
              BY <1>t, <5>1, <5>3, EntryFacts DEF Entries
            <7> QED
              BY <7>1, ContentsAssumption
          <6> QED
            BY <2>1, <5>1, <6>1 DEF Holds, Live
        <5>4. CASE call[t].op = "unlock" /\ Holds(entry, t)
          <6>1. u = t
            BY <1>t, <5>1, <5>4, HeldFacts
          <6> QED
            BY <2>1, <5>4, <6>1 DEF LeaseInv, CallGoes
        <5>5. ~Fits
          BY <5>1 DEF Fits
        <5> QED
          BY <2>1, <2>3, <3>3, <5>1, <5>2, <5>3, <5>4, <5>5 DEF LockEffect, EntryChange, Keeping
      <4> QED
        BY <3>3, <4>1
    <3> QED
      BY <1>3, <3>1, <3>2, <3>3, LeaseSteps
  <2>4. ASSUME backend = "file"
        PROVE  /\ \A u \in handles' : At(u, "named", {"lock"})' /\ entry'.val \in {Empty, Foreign, Mixed}
               /\ \A u, w \in handles' : u = w
    <3>0. /\ \A u \in handles : At(u, "named", {"lock"}) /\ entry.val \in {Empty, Foreign, Mixed}
          /\ \A u, w \in handles : u = w
      BY <1>3, <2>4 DEF LeaseInv
    <3>1. CASE CallFails(t)
      BY <2>1, <3>0, <3>1, <1>t DEF CallFails, Keep, At
    <3>2. CASE FileStep(t)
      <4>1. call[t].op \in {"flush", "lock", "unlock"}
        BY <1>3, <2>1, OpsInRole DEF CallGoes, CallGroup, OpsInv
      <4>2. CASE FileLock(t)
        <5>1. CASE At(t, "called", {"lock"}) /\ CreateNew(t) /\ Goto(t, "named", NoEntry)
          <6>1. handles' = {t} /\ entry'.val = Empty
            BY <5>1, WrittenFacts DEF CreateNew, Contents
          <6>2. At(t, "named", {"lock"})'
            BY <5>1, CallTypes, Going DEF At, PCs
          <6> QED
            BY <6>1, <6>2
        <5>2. CASE entry' = entry /\ handles' = handles /\ (At(t, "called", {"lock"}) \/ At(t, "look", {"lock"}))
          BY <1>t, <2>1, <3>0, <5>2 DEF At
        <5>3. CASE At(t, "named", {"lock"}) /\ handles' = handles \ {t} /\ (t \notin handles => entry' = entry)
          BY <1>t, <2>1, <3>0, <5>3 DEF At
        <5> QED
          BY <4>2, <5>1, <5>2, <5>3 DEF FileLock, Keep
      <4>3. CASE FileFlush(t) \/ FileUnlock(t) \/ FilePurgeLock(t)
        <5>1. /\ entry' = entry \/ entry' = NoEntry
              /\ ~At(t, "named", {"lock"})
          BY <4>3 DEF FileFlush, FileUnlock, FilePurgeLock, Keep, Drop, At
        <5>2. (handles' = handles /\ entry' # NoEntry) \/ handles' = {}
          <6>1. /\ call[t].pc \in {"called", "open", "remove", "purge"}
                /\ call[t].op = "lock" => call[t].pc = "purge"
            BY <4>3 DEF FileFlush, FileUnlock, FilePurgeLock, At
          <6>2. ~FileSet(t) /\ ~FileGetSet(t) /\ ~FileSetNx(t) /\ ~FileLocked(t) /\ ~FileWritten(t)
                /\ ~FileIncrement(t)
            BY <4>1, <6>1 DEF FileSet, FileGetSet, FileSetNx, FileLocked, FileWritten, FileIncrement, At
          <6>3. ~FileLock(t)
            BY <6>1 DEF FileLock, At
          <6>4. Orphans
            BY <3>2, <6>2, <6>3 DEF FileStep
          <6> QED
            BY <6>4 DEF Orphans
        <5> QED
          BY <1>t, <2>1, <3>0, <5>1, <5>2 DEF At
      <4>4. CASE FileLocked(t)
        <5>1. handles' = handles /\ entry' = entry /\ ~At(t, "named", {"lock"})
          BY <4>4 DEF FileLocked, Keep, At
        <5> QED
          BY <1>t, <2>1, <3>0, <5>1 DEF At
      <4> QED
        BY <3>2, <4>1, <4>2, <4>3, <4>4 DEF FileStep, FileSet, FileGetSet, FileSetNx, FileWritten,
           FileIncrement, FileGet, FileExists, FileDelete, FileClear, At, DataWrites
    <3> QED
      BY <1>3, <2>4, <3>1, <3>2 DEF Step
  <2> QED
    BY <1>3, <2>1, <2>2, <2>3, <2>4 DEF LeaseInv, fixed, Keeping
<1>4. ASSUME NEW t \in Callers, Crash(t) PROVE LeaseInv'
  <2>1. /\ ~Active(t)' /\ \A u \in Callers \ {t} : call'[u] = call[u]
    BY <1>4, Crashing
  <2>2. /\ leased' = leased \ {t} /\ handles' = handles \ {t} /\ entry' = entry /\ UNCHANGED fixed
    BY <1>4 DEF Crash
  <2> QED
    BY <1>t, <2>1, <2>2 DEF LeaseInv, fixed, Active, At
<1>5. ASSUME NEW t \in Callers, LeaseEnds(t) PROVE LeaseInv'
  BY <1>s, <1>5 DEF LeaseEnds, store
<1>6. CASE Expire
  <2>1. UNCHANGED <<fixed, handles, call>> /\ entry # NoEntry /\ ~entry.exp
    BY <1>6, <1>t, EntryFacts DEF Expire
  <2>2. CASE backend \in {"memory", "file"}
    <3>1. entry' = [entry EXCEPT !.exp = TRUE] /\ leased' \subseteq leased
      BY <1>6, <2>2 DEF Expire
    <3>2. entry'.val = entry.val
      BY <1>t, <2>1, <3>1, EntryFacts DEF Entries
    <3> QED
      BY <1>s, <2>1, <2>2, <3>1, <3>2
  <2>3. CASE backend \notin {"memory", "file"}
    <3>1. leased' = leased \ {entry.val}
      BY <1>6, <2>3 DEF Expire
    <3>2. backend \in Keeping => leased' = {}
      <4>1. backend \in Keeping => \A u \in leased : u = entry.val
        BY <1>t, HeldFacts DEF LeaseInv, Keeping
      <4> QED
        BY <3>1, <4>1
    <3> QED
      BY <1>t, <2>1, <2>3, <3>1, <3>2 DEF LeaseInv, fixed, Active, At, Keeping
  <2> QED
    BY <2>2, <2>3
<1>7. CASE Interference
  <2>1. /\ UNCHANGED <<fixed, call, leased>> /\ backend \in {"memory", "file"}
        /\ backend = "file" => entry' \in {Written(Foreign), Written(Mixed), NoEntry}
        /\ (entry' = NoEntry /\ handles' = {}) \/ handles' = handles
    BY <1>7 DEF Interference, MemoryCleanup, FileOtherKey, Orphans, history
  <2>2. backend = "file" => handles' = {} \/ entry'.val \in {Foreign, Mixed}
    BY <1>7, <2>1, WrittenFacts DEF Interference, FileOtherKey, Orphans, Contents
  <2>3. CASE backend = "file"
    BY <1>s, <2>1, <2>2, <2>3
  <2>4. CASE backend = "memory"
    BY <2>1, <2>4 DEF LeaseInv, fixed, Active, At
  <2> QED
    BY <2>1, <2>3, <2>4
<1>8. CASE /\ role = "entity" /\ backend = "proxy"
           /\ UNCHANGED <<fixed, mutex, handles, flock, call, token, history>>
  BY <1>8 DEF LeaseInv, fixed, history
<1>9. CASE UNCHANGED <<fixed, store, call, history>>
  BY <1>s, <1>9 DEF store, history
<1>10. CASE UNCHANGED cacheVars
  BY <1>9, <1>10 DEF cacheVars
<1>11. ASSUME NEW t \in Callers, ProxySend(t) \/ ProxyAnswered(t) PROVE LeaseInv'
  <2>1. /\ CallGoes(t) /\ \A u \in Callers \ {t} : call'[u] = call[u]
        /\ UNCHANGED <<fixed, entry, handles, leased>> /\ backend = "proxy"
    BY <1>11, Sending, Answering DEF CallGoes, store, history, CallGroup, OrdersInv
  <2>2. Active(t)' => call'[t].op = call[t].op /\ Active(t)
    BY <2>1 DEF CallGoes, Active
  <2> QED
    BY <1>t, <2>1, <2>2 DEF LeaseInv, fixed, Active
<1>12. CASE OrchestratorDoes
  <2> DEFINE d == Head(orders)
  <2>1. /\ UNCHANGED <<fixed, call>> /\ Leaves(d) /\ d.op \in OpsIn(role) /\ backend = "proxy"
        /\ leased' = IF d.op \in Removals /\ entry' # entry THEN {} ELSE leased
    BY <1>12, Doing
  <2> HIDE DEF d
  <2>2. leased' \subseteq leased
    BY <2>1
  <2>3. ASSUME role = "lock", entry' # entry PROVE leased' = {}
    <3>1. \A u \in leased : entry # NoEntry /\ entry.val = u
      BY <1>t, <2>1, HeldFacts DEF LeaseInv
    <3>2. Fits => leased = {}
      BY <3>1 DEF Fits
    <3>3. d.op \in {"flush", "lock", "unlock"}
      BY <2>1, <2>3, OpsInRole
    <3> QED
      BY <2>1, <2>2, <2>3, <3>1, <3>2, <3>3 DEF Leaves, DataWrites, Removals
  <2>4. role # "lock" => leased = {}
    BY DEF LeaseInv
  <2> QED
    BY <1>t, <2>1, <2>2, <2>3, <2>4 DEF LeaseInv, fixed, Active
<1> QED
  BY <1>1, <1>2, <1>3, <1>4, <1>5, <1>6, <1>7, <1>8, <1>9, <1>10, <1>11, <1>12 DEF CacheNext

\* Whoever is given the lock has an entry that ends by itself, and whoever
\* loses it while his lease runs loses it to one of the known causes.
LEMMA LeaseStepHolds ==
    ASSUME CallGroup, LeaseInv, [CacheNext]_cacheVars PROVE LeaseStep
<1>t. EntryTypeOK /\ EntryTypeOK' /\ CallGroup' /\ LeaseInv' /\ leased \subseteq Callers
  BY CallsTyped, LeasesKept DEF CallGroup, CallsTypeOK, EntryTypeOK, NoneOr
<1>0. ASSUME leased' \subseteq leased, entry' = entry \/ leased \intersect leased' = {} PROVE LeaseStep
  BY <1>0 DEF LeaseStep
<1>1. ASSUME NEW t \in Callers, NEW o \in OpsIn(role), NEW v \in Storable, Begin(t, o, v) PROVE LeaseStep
  BY <1>0, <1>1 DEF Begin, store
<1>2. ASSUME NEW t \in Callers, Step(t), role # "lock" PROVE LeaseStep
  <2>1. role' # "lock"
    BY <1>2, StepTyped DEF fixed
  <2> QED
    BY <1>0, <1>t, <1>2, <2>1 DEF LeaseInv
<1>3. ASSUME NEW t \in Callers, Step(t), role = "lock" PROVE LeaseStep
  <2>1. LockEffect(t) /\ CallGoes(t) /\ backend' = backend
    BY <1>3, LockSteps, StepTyped DEF StepGoes, fixed
  <2>2. \A u \in leased' \ leased : entry'.ttl
    BY <1>3, <2>1, LeaseSteps DEF LockEffect
  <2>3. ASSUME NEW u \in leased \intersect leased', Holds(entry, u), ~Holds(entry', u) PROVE LossHasCause
    <3>1. u \in Callers /\ entry # NoEntry /\ entry.val = u
      BY <1>t, <2>3, HeldFacts
    <3>2. backend \notin Keeping
      BY <1>t, <2>1, <2>3 DEF LeaseInv, Keeping
    <3>3. call'[t] # call[t]
      BY <2>1 DEF CallGoes
    <3>4. CASE call[t].op = "flush"
      BY <1>3, <2>3, <3>4, LeaseSteps DEF Given
    <3>5. CASE backend = "memory" /\ (At(t, "evict", {"lock"}) \/ At(t, "insert", {"lock"}))
      BY <3>3, <3>5 DEF LossHasCause, Racing
    <3>6. CASE backend = "file" /\ At(t, "purge", {"lock"})
      BY <3>3, <3>6 DEF LossHasCause, Racing
    <3>7. CASE backend = "file" /\ t \in handles
      <4>1. entry.val \in {Empty, Foreign, Mixed}
        BY <1>3, <3>7 DEF LeaseInv
      <4> QED
        BY <3>1, <4>1, ContentsAssumption
    <3>8. CASE At(t, "remove", {"unlock"})
      <4>1. call[t].seen = t
        BY <3>8 DEF CallGroup, SeenInv, SeenOK
      <4>2. StaleUnlock
        BY <3>3, <3>8, <4>1 DEF StaleUnlock
      <4>3. backend \in {"memory", "file", "memcached"}
        <5>1. backend \in Backends
          BY UsesAssumption DEF CallGroup, CallsTypeOK
        <5>2. backend # "disabled"
          <6>1. backend = "disabled" => entry' = entry
            BY <1>3, <3>8 DEF Step, RedisDisabled, CallFails, Keep
          <6> QED
            BY <2>3, <6>1
        <5> QED
          BY <3>2, <5>1, <5>2 DEF Backends, Keeping
      <4> QED
        BY <4>2, <4>3 DEF LossHasCause
    <3> QED
      BY <2>1, <2>3, <3>1, <3>2, <3>4, <3>5, <3>6, <3>7, <3>8 DEF LockEffect, EntryChange, Keeping
  <2> QED
    BY <2>2, <2>3 DEF LeaseStep
<1>4. ASSUME NEW t \in Callers, Crash(t) \/ LeaseEnds(t) PROVE LeaseStep
  BY <1>0, <1>4 DEF Crash, LeaseEnds, store
<1>5. CASE Expire
  <2>1. CASE backend \in {"memory", "file"}
    BY <1>5, <2>1 DEF Expire, LeaseStep, LossHasCause
  <2>2. CASE backend \notin {"memory", "file"}
    <3>1. leased' = leased \ {entry.val}
      BY <1>5, <2>2 DEF Expire
    <3> QED
      BY <1>t, <3>1, HeldFacts DEF LeaseStep
  <2> QED
    BY <2>1, <2>2
<1>6. CASE Interference
  BY <1>6 DEF Interference, MemoryCleanup, FileOtherKey, LeaseStep, LossHasCause, history
<1>9. ASSUME NEW t \in Callers, ProxySend(t) \/ ProxyAnswered(t) PROVE LeaseStep
  BY <1>0, <1>9, Sending, Answering DEF store, history
<1>10. CASE OrchestratorDoes
  <2>1. leased' \subseteq leased /\ backend' = "proxy" /\ leased' \subseteq Callers
    BY <1>t, <1>10, Doing DEF fixed
  <2>2. \A u \in leased' : Holds(entry', u)
    BY <1>t, <2>1 DEF LeaseInv
  <2> QED
    BY <2>1, <2>2 DEF LeaseStep
<1>7. CASE /\ role = "entity" /\ UNCHANGED history
  BY <1>0, <1>7 DEF LeaseInv, history
<1>8. CASE UNCHANGED <<store, history>> \/ UNCHANGED cacheVars
  BY <1>0, <1>8 DEF store, history, cacheVars
<1> QED
  BY <1>1, <1>2, <1>3, <1>4, <1>5, <1>6, <1>7, <1>8, <1>9, <1>10 DEF CacheNext, history

\* The leases of the stores that keep a lock are those of an exclusive lock.
Holders == IF backend \in Keeping THEN leased ELSE {}

LEMMA LeasesExclude ==
    ASSUME CallGroup, LeaseInv, [CacheNext]_cacheVars
    PROVE  [\E t \in Callers : \/ Holders = {} /\ Holders' = {t}
                               \/ t \in Holders /\ Holders' = Holders \ {t}]_Holders
<1>t. EntryTypeOK /\ leased \subseteq Callers
  BY DEF CallGroup, CallsTypeOK, EntryTypeOK, NoneOr
<1>b. backend' = backend
  BY FixedStays DEF fixed
<1> SUFFICES ASSUME backend \in Keeping
             PROVE  \/ \E t \in Callers : \/ leased = {} /\ leased' = {t}
                                          \/ t \in leased /\ leased' = leased \ {t}
                    \/ leased' = leased
  BY <1>b DEF Holders
<1>1. \A t, u \in leased : t = u
  BY <1>t, HeldFacts DEF LeaseInv, Keeping
<1>2. leased' \subseteq leased \/ \E t \in Callers : leased' = leased \union {t} /\ leased \subseteq {t}
  <2>1. ASSUME NEW t \in Callers, Step(t), role # "lock" PROVE leased' \subseteq leased
    <3>1. LeaseInv' /\ role' # "lock"
      BY <2>1, LeasesKept, StepTyped DEF fixed
    <3> QED
      BY <3>1 DEF LeaseInv
  <2>2. ASSUME NEW t \in Callers, Step(t), role = "lock"
        PROVE  leased' \subseteq leased \/ (leased' = leased \union {t} /\ leased \subseteq {t})
    BY <2>2, LeaseSteps
  <2>3. ASSUME NEW t \in Callers, ProxySend(t) \/ ProxyAnswered(t) PROVE leased' \subseteq leased
    BY <2>3, Sending, Answering DEF history
  <2>4. OrchestratorDoes => leased' \subseteq leased
    BY Doing
  <2> QED
    BY <2>1, <2>2, <2>3, <2>4 DEF CacheNext, Begin, Crash, LeaseEnds, Expire, Interference, MemoryCleanup, FileOtherKey,
       history, cacheVars, Keeping
<1>3. CASE leased' \subseteq leased
  <2>1. CASE leased = {}
    BY <1>3, <2>1
  <2>2. ASSUME NEW t \in leased PROVE leased = {t} /\ t \in Callers
    BY <1>t, <1>1
  <2>3. ASSUME NEW t \in leased, leased' # leased PROVE leased' = leased \ {t}
    BY <1>3, <2>2, <2>3
  <2> QED
    BY <2>1, <2>2, <2>3
<1>4. ASSUME NEW t \in Callers, leased' = leased \union {t}, leased \subseteq {t}
      PROVE  leased' = leased \/ (leased = {} /\ leased' = {t})
  BY <1>4
<1> QED
  BY <1>2, <1>3, <1>4

-----------------------------------------------------------------------------
(* Counters.                                                               *)

\* The stores that count every increment.
Counting == backend \in Keeping \/ (backend = "memcached" /\ shared)

\* What a step does to an entry that counts.
CountEffect ==
    \/ entry' = entry \/ entry' = NoEntry
    \/ entry' # NoEntry /\ entry'.val = Number(entry) + 1 /\ entry'.n = IF Live(entry) THEN entry.n + 1 ELSE 1

LEMMA CountEffectKeeps ==
    ASSUME CallGroup, CountsKept, role = "counter", Counting, CountEffect, UNCHANGED fixed
    PROVE  CountsKept'
<1>1. EntryTypeOK /\ (entry # NoEntry => ~entry.exp)
  BY DEF CallGroup, CallsTypeOK, EntryTypeOK, NoneOr, EntryInv, Counting, Keeping
<1>2. entry # NoEntry => entry.val = entry.n
  BY DEF CountsKept, Counting, Keeping
<1>3. CASE entry' = entry \/ entry' = NoEntry
  BY <1>3 DEF CountsKept, fixed
<1>4. CASE entry' # NoEntry /\ entry'.val = Number(entry) + 1 /\ entry'.n = IF Live(entry) THEN entry.n + 1 ELSE 1
  <2>1. CASE entry = NoEntry
    <3>1. ~Live(entry) /\ NoEntry \notin Nat
      BY <1>1, <2>1, EntryFacts, ContentsAssumption DEF Contents
    <3>2. Number(entry) = 0
      BY <1>1, <3>1, EntryFacts DEF Number
    <3> QED
      BY <1>4, <3>1, <3>2 DEF CountsKept
  <2>2. CASE entry # NoEntry
    <3>1. Live(entry) /\ Reading(entry) = entry.val /\ entry.n \in Nat
      BY <1>1, <2>2, EntryFacts
    <3>2. Number(entry) = entry.val
      BY <1>2, <2>2, <3>1 DEF Number
    <3> QED
      BY <1>2, <1>4, <2>2, <3>1, <3>2 DEF CountsKept
  <2> QED
    BY <2>1, <2>2
<1> QED
  BY <1>3, <1>4 DEF CountEffect

LEMMA CountPut ==
    ASSUME CallGroup, NEW t \in Callers, call[t].op = "increment", NEW ttl \in BOOLEAN,
           Put(Number(entry) + 1, ttl, t)
    PROVE  CountEffect
BY CallTypes, PutFacts DEF CountEffect

LEMMA CountSteps ==
    ASSUME CallGroup, CountInv, NEW t \in Callers, role = "counter", Counting, Step(t)
    PROVE  CountEffect
<1> USE CallTypes
<1>1. Active(t) /\ call[t].op \in {"increment", "delete", "flush"}
  BY StepTyped, OpsInRole DEF StepGoes, CallGoes, CallGroup, OpsInv
<1>2. CASE CallFails(t)
  BY <1>2 DEF CallFails, Keep, CountEffect
<1>3. CASE backend = "redis" /\ RedisStep(t)
  <2>1. RedisIncrement(t) \/ RedisDelete(t) \/ RedisFlush(t)
    BY <1>1, <1>3 DEF RedisStep, RedisGet, RedisGetMany, RedisRead, RedisExists, RedisSet, RedisSetNx, RedisGetSet,
       RedisSetMany, RedisDeleteMany, RedisClear, RedisLock, RedisUnlock, RedisExpire, At
  <2>2. CASE RedisIncrement(t)
    <3>1. (IF Live(entry) THEN entry.ttl ELSE FALSE) \in BOOLEAN
      BY EntryFacts
    <3>2. Put(Number(entry) + 1, IF Live(entry) THEN entry.ttl ELSE FALSE, t) /\ call[t].op = "increment"
      BY <2>2 DEF RedisIncrement, At
    <3> QED
      BY <3>1, <3>2, CountPut, Zenon
  <2>3. CASE RedisDelete(t) \/ RedisFlush(t)
    BY <2>3 DEF RedisDelete, RedisFlush, Drop, CountEffect
  <2> QED
    BY <2>1, <2>2, <2>3
<1>4. CASE backend = "proxy" /\ ProxyStep(t)
  <2>1. ProxyIncrement(t) \/ ProxyDelete(t) \/ ProxyFlush(t)
    BY <1>1, <1>4 DEF ProxyStep, ProxyGet, ProxyGetMany, ProxyExists, ProxySet, ProxySetMany, ProxyGetSet, ProxySetNx,
       ProxyDeleteMany, ProxyClear, ProxyLock, ProxyUnlock, Proxied, At
  <2>2. CASE ProxyIncrement(t)
    <3>1. PICK ttl \in BOOLEAN : Put(Number(entry) + 1, ttl, t)
      BY <2>2 DEF ProxyIncrement, ProxyStores
    <3> QED
      BY <2>2, <3>1, CountPut DEF ProxyIncrement, Proxied, At
  <2>3. CASE ProxyDelete(t) \/ ProxyFlush(t)
    BY <2>3 DEF ProxyDelete, ProxyFlush, Drop, CountEffect
  <2> QED
    BY <2>1, <2>2, <2>3
<1>5. CASE backend = "memcached" /\ shared /\ MemcachedStep(t)
  <2>1. MemcachedIncrement(t) \/ MemcachedDelete(t) \/ MemcachedFlush(t)
    BY <1>1, <1>5 DEF MemcachedStep, MemcachedGet, MemcachedGetMany, MemcachedRead, MemcachedExists, MemcachedSet,
       MemcachedSetMany, MemcachedSetNx, MemcachedGetSet, MemcachedDeleteMany, MemcachedClear,
       MemcachedLock, MemcachedUnlock, Command, At
  <2>2. CASE MemcachedIncrement(t)
    <3>1. CASE Put(Number(entry) + 1, entry.ttl, t) /\ entry # NoEntry /\ call[t].op = "increment"
      <4>1. entry.ttl \in BOOLEAN
        BY <3>1, EntryFacts
      <4> QED
        BY <3>1, <4>1, CountPut, Zenon
    <3>2. CASE entry' = entry
      BY <3>2 DEF CountEffect
    <3>3. CASE At(t, "store", {"increment"}) /\ Put(1, TRUE, t)
      <4>1. entry = NoEntry
        BY <1>5, <3>3 DEF CountInv
      <4>2. Number(entry) = 0
        BY <4>1, EntryFacts, ContentsAssumption DEF Number, Contents
      <4>3. Number(entry) + 1 = 1
        BY <4>2
      <4>4. Put(Number(entry) + 1, TRUE, t)
        BY <3>3, <4>3, Zenon
      <4> QED
        BY <3>3, <4>4, CountPut DEF At
    <3> QED
      BY <2>2, <3>1, <3>2, <3>3 DEF MemcachedIncrement, Command, At, Keep
  <2>3. CASE MemcachedDelete(t) \/ MemcachedFlush(t)
    BY <2>3 DEF MemcachedDelete, MemcachedFlush, Drop, CountEffect
  <2> QED
    BY <2>1, <2>2, <2>3
<1> QED
  BY <1>2, <1>3, <1>4, <1>5 DEF Step, Counting, Keeping

\* The client is not given to others while the first number is stored.
LEMMA ClientKept ==
    ASSUME CallGroup, CountInv, NEW t \in Callers, Step(t), role = "counter", backend = "memcached", shared
    PROVE  CountInv'
<1>1. /\ CallGoes(t) /\ UNCHANGED fixed /\ call[t].op \in {"increment", "delete", "flush"}
      /\ \A u \in Callers \ {t} : call'[u] = call[u]
  BY StepTyped, OpsInRole DEF StepGoes, CallGoes, CallGroup, OpsInv
<1>2. \A u \in Callers : At(u, "store", {"increment"}) => mutex = u /\ entry = NoEntry
  BY DEF CountInv
<1>3. SUFFICES ASSUME NEW u \in Callers, At(u, "store", {"increment"})'
               PROVE  mutex' = u /\ entry' = NoEntry
  BY <1>1 DEF CountInv
<1>4. NoOne \notin Callers /\ NoOne # t /\ NoOne # u
  BY CallersAssumption
<1>5. CASE CallFails(t)
  <2>1. call'[t].pc = "idle"
    BY <1>5, CallTypes DEF CallFails, Ended, CallTypeOK
  <2>2. u # t
    BY <1>3, <2>1 DEF At
  <2> QED
    BY <1>1, <1>2, <1>3, <1>5, <2>2 DEF CallFails, Keep, At
<1>6. CASE MemcachedStep(t)
  <2>1. CASE u = t
    <3>1. call'[t].pc = "store" /\ call'[t].op = "increment" /\ call[t].op = "increment" /\ call[t].pc # "store"
      BY <1>1, <1>3, <2>1 DEF CallGoes, At
    <3>2. MemcachedIncrement(t)
      BY <1>6, <3>1 DEF MemcachedStep, MemcachedGet, MemcachedGetMany, MemcachedRead, MemcachedExists, MemcachedSet,
         MemcachedSetMany, MemcachedSetNx, MemcachedGetSet, MemcachedDelete, MemcachedDeleteMany, MemcachedClear,
         MemcachedFlush, MemcachedLock, MemcachedUnlock, Command, At
    <3>3. ~Return(t, "Ok", Number(entry) + 1)
      BY <1>1, <3>1, CallTypes, Returning DEF CallGoes
    <3> QED
      BY <2>1, <3>1, <3>2, <3>3 DEF MemcachedIncrement, TakesClient, Keep, At
  <2>2. CASE u # t
    <3>1. mutex = u /\ entry = NoEntry /\ mutex # NoOne /\ mutex # t
      BY <1>1, <1>2, <1>3, <1>4, <2>2 DEF At
    <3>2. ~ClientFree
      BY <3>1 DEF ClientFree
    <3>3. At(t, "store", {"increment"}) => mutex = t
      BY <1>2
    <3> QED
      BY <1>1, <1>6, <3>1, <3>2, <3>3 DEF MemcachedStep, MemcachedGet, MemcachedGetMany, MemcachedRead, MemcachedExists,
         MemcachedSet, MemcachedSetMany, MemcachedSetNx, MemcachedGetSet, MemcachedIncrement, MemcachedDelete,
         MemcachedDeleteMany, MemcachedClear, MemcachedFlush, MemcachedLock, MemcachedUnlock, Command,
         TakesClient, At
  <2> QED
    BY <2>1, <2>2
<1> QED
  BY <1>5, <1>6 DEF Step

LEMMA CountsGo ==
    ASSUME CallGroup, CountInv, CountsKept, [CacheNext]_cacheVars PROVE CountInv' /\ CountsKept'
<1>f. UNCHANGED fixed
  BY FixedStays
<1>0. CASE role # "counter" \/ ~Counting
  BY <1>0, <1>f DEF CountInv, CountsKept, Counting, Keeping, fixed
<1>1. CASE role = "counter" /\ Counting
  <2>0. backend \notin {"memory", "file"} /\ role # "entity"
    BY <1>1 DEF Counting, Keeping
  <2>1. CountsKept'
    <3>1. CountEffect
      <4>1. \A t \in Callers : ProxySend(t) \/ ProxyAnswered(t) => entry' = entry
        BY Sending, Answering DEF store
      <4>2. CASE OrchestratorDoes
        <5>1. Head(orders).op \in {"increment", "delete", "flush"} /\ Leaves(Head(orders))
          BY <1>1, <4>2, Doing, OpsInRole
        <5> QED
          BY <5>1 DEF Leaves, Stored0, CountEffect, DataWrites
      <4> QED
        BY <1>1, <2>0, <4>1, <4>2, CountSteps
           DEF CacheNext, Begin, Crash, LeaseEnds, Expire, Interference, store, cacheVars, CountEffect
    <3> QED
      BY <1>1, <1>f, <3>1, CountEffectKeeps
  <2>2. CountInv'
    <3>1. CASE backend # "memcached"
      BY <1>f, <3>1 DEF CountInv, fixed
    <3>2. CASE backend = "memcached"
      <4>0. shared /\ \A u \in Callers : At(u, "store", {"increment"}) => mutex = u /\ entry = NoEntry
        BY <1>1, <3>2 DEF Counting, Keeping, CountInv
      <4>1. ASSUME NEW t \in Callers, NEW o \in OpsIn(role), NEW v \in Storable, Begin(t, o, v) PROVE CountInv'
        <5>1. /\ call'[t].pc = "called" /\ \A u \in Callers \ {t} : call'[u] = call[u]
              /\ UNCHANGED store
          BY <4>1, Beginning
        <5> QED
          BY <4>0, <5>1 DEF CountInv, At, store
      <4>2. ASSUME NEW t \in Callers, Step(t) PROVE CountInv'
        BY <1>1, <3>2, <4>0, <4>2, ClientKept
      <4>3. ASSUME NEW t \in Callers, Crash(t) PROVE FALSE
        BY <4>0, <4>3 DEF Crash
      <4>4. CASE entry' \in {entry, NoEntry} /\ UNCHANGED <<call, mutex>>
        BY <4>0, <4>4 DEF CountInv, At
      <4>5. /\ \A t \in Callers : ~ProxySend(t) /\ ~ProxyAnswered(t)
            /\ ~OrchestratorDoes
        BY <3>2, Sending, Doing DEF CallGroup, OrdersInv, ProxyAnswered
      <4> QED
        BY <2>0, <3>2, <4>1, <4>2, <4>3, <4>4, <4>5 DEF CacheNext, LeaseEnds, Expire, Interference, store, cacheVars
    <3> QED
      BY <3>1, <3>2
  <2> QED
    BY <2>1, <2>2
<1> QED
  BY <1>0, <1>1

-----------------------------------------------------------------------------
(* Reads and writes of data.                                               *)

Succeeds(t) == call'[t].pc = "idle" /\ call'[t].res \in {"Ok", "Yes"}
Gives(t) == call'[t].pc = "idle" /\ call'[t].got # NoEntry
SameValue == entry # NoEntry /\ entry' # NoEntry /\ entry'.val = entry.val

\* What a call does to the entry, and what it gives.
DataEffect(t) ==
    /\ \/ entry' \in {entry, NoEntry}
       \/ call[t].op \in DataWrites /\ (entry'.val \in {call[t].arg} \union Special \/ SameValue)
    /\ Succeeds(t) /\ call[t].op \in Removals => entry' = NoEntry
    /\ Succeeds(t) /\ call[t].op \in DataWrites =>
        \/ entry'.val \in {call[t].arg} \union Special
        \/ backend = "redis" /\ At(t, "expire", {"set_nx"}) /\ (entry' = NoEntry \/ SameValue)
        \/ backend = "file" /\ call[t].pc = "flocked" /\ t \notin handles /\ entry' = entry
    /\ Gives(t) /\ call[t].op \in DataReads => entry # NoEntry /\ call'[t].got = entry.val
    /\ backend = "redis" /\ At(t, "expire", {"set_nx"})' => entry'.val = call[t].arg

LEMMA OpKinds ==
    /\ \A o \in DataReads : o \notin DataWrites /\ o \notin Removals /\ o # "set_nx"
    /\ \A o \in DataWrites : o \notin Removals
    /\ "set_nx" \in DataWrites
BY DEF DataReads, DataWrites, Removals

LEMMA KeepsData ==
    ASSUME NEW t \in Callers, CallGoes(t), entry' \in {entry, NoEntry},
           Succeeds(t) => call[t].op \in DataReads,
           Gives(t) /\ call[t].op \in DataReads => entry # NoEntry /\ call'[t].got = entry.val,
           backend = "redis" => call'[t].pc # "expire"
    PROVE  DataEffect(t)
BY OpKinds DEF DataEffect, At

LEMMA WritesData ==
    ASSUME NEW t \in Callers, CallGoes(t), call[t].op \in DataWrites,
           entry'.val \in {call[t].arg} \union Special
    PROVE  DataEffect(t)
BY OpKinds DEF DataEffect, Special

LEMMA RemovesData ==
    ASSUME NEW t \in Callers, CallGoes(t), call[t].op \in Removals, entry' = NoEntry,
           backend = "redis" => call'[t].pc # "expire"
    PROVE  DataEffect(t)
BY OpKinds DEF DataEffect, At

\* What a call that returns r and g has given.
LEMMA Results ==
    ASSUME CallGroup, NEW t \in Callers, Active(t), NEW r \in {"Ok", "Yes", "No", "Err"},
           NEW g \in NoneOr(Contents), Return(t, r, g), call[t].op # "lock"
    PROVE  /\ CallGoes(t) /\ call'[t].pc = "idle"
           /\ Succeeds(t) => r \in {"Ok", "Yes"}
           /\ Gives(t) => call'[t].got = g
BY CallTypes, Returning DEF Succeeds, Gives

LEMMA Proceeds ==
    ASSUME CallGroup, NEW t \in Callers, CallGoes(t), NEW l \in PCs \ {"idle", "crashed"}, NEW f, Goto(t, l, f)
    PROVE  call'[t].pc = l /\ ~Succeeds(t) /\ ~Gives(t)
<1>1. call[t] \in Call /\ call'[t] = [call[t] EXCEPT !.pc = l, !.seen = f]
  BY CallTypes DEF CallTypeOK, Goto
<1>2. call'[t].pc = l
  BY <1>1 DEF Call
<1> QED
  BY <1>2 DEF Succeeds, Gives

\* A call for data, or for an entity, that has taken a step.
DataCall(t) ==
    /\ CallGroup /\ CallGoes(t) /\ role \in {"data", "entity"}
    /\ call[t].op \in DataReads \union DataWrites \union Removals

LEMMA DataCalls ==
    ASSUME CallGroup, NEW t \in Callers, Step(t), role \in {"data", "entity"}
    PROVE  DataCall(t)
<1>1. CallGoes(t)
  BY StepTyped DEF StepGoes
<1>2. call[t].op \in OpsIn(role)
  BY <1>1 DEF CallGoes, CallGroup, OpsInv
<1>3. OpsIn(role) \subseteq DataReads \union DataWrites \union Removals
  BY OpsInRole DEF EntityOps, DataReads, DataWrites, Removals
<1> QED
  BY <1>1, <1>2, <1>3 DEF DataCall

\* A call that keeps or drops the entry, and gives what it holds or nothing.
LEMMA Returns ==
    ASSUME NEW t \in Callers, DataCall(t), NEW r \in {"Ok", "Yes", "No", "Err"}, NEW g \in NoneOr(Contents),
           Return(t, r, g), entry' \in {entry, NoEntry},
           r \in {"Ok", "Yes"} => call[t].op \in DataReads,
           g = NoEntry \/ (entry # NoEntry /\ g = entry.val)
    PROVE  DataEffect(t)
<1>1. call[t].op # "lock" /\ Active(t)
  BY DEF DataCall, DataReads, DataWrites, Removals, CallGoes
<1>2. /\ call'[t].pc = "idle"
      /\ Succeeds(t) => r \in {"Ok", "Yes"}
      /\ Gives(t) => call'[t].got = g
  BY <1>1, Results DEF DataCall
<1> QED
  BY <1>2, KeepsData DEF DataCall, Gives

\* One that goes on without storing anything.
LEMMA GoesOn ==
    ASSUME NEW t \in Callers, DataCall(t), NEW l \in PCs \ {"idle", "crashed"}, NEW f, Goto(t, l, f),
           entry' \in {entry, NoEntry}, backend = "redis" => l # "expire"
    PROVE  DataEffect(t)
BY Proceeds, KeepsData DEF DataCall

\* One that stores its value, and one that removes the entry.
LEMMA Puts ==
    ASSUME NEW t \in Callers, DataCall(t), call[t].op \in DataWrites, NEW ttl \in BOOLEAN, Put(call[t].arg, ttl, t)
    PROVE  DataEffect(t)
<1>1. entry'.val = call[t].arg
  BY DEF Put, PutBy
<1> QED
  BY <1>1, WritesData DEF DataCall

LEMMA Removes ==
    ASSUME NEW t \in Callers, DataCall(t), call[t].op \in Removals, entry' = NoEntry,
           NEW r \in {"Ok", "Yes", "No", "Err"}, NEW g \in NoneOr(Contents), Return(t, r, g)
    PROVE  DataEffect(t)
<1>1. call[t].op # "lock" /\ Active(t)
  BY DEF DataCall, Removals, CallGoes
<1>2. call'[t].pc = "idle"
  BY <1>1, Results DEF DataCall
<1> QED
  BY <1>2, RemovesData DEF DataCall

LEMMA DataTypes ==
    ASSUME NEW t \in Callers, DataCall(t)
    PROVE  /\ NoEntry \in NoneOr(Contents) /\ Reading(entry) \in NoneOr(Contents)
           /\ call[t].seen \in NoneOr(Contents)
           /\ Reading(entry) = NoEntry \/ (entry # NoEntry /\ Reading(entry) = entry.val)
           /\ \A b : Answer(b) \in {"Yes", "No"}
           /\ entry # NoEntry => entry.val \in NoneOr(Contents)
BY CallTypes, EntryFacts DEF DataCall, NoneOr

LEMMA MemoryData ==
    ASSUME NEW t \in Callers, DataCall(t), backend = "memory", MemoryStep(t)
    PROVE  DataEffect(t)
<1> USE DataTypes DEF PCs
<1>1. CASE MemoryGet(t) \/ MemoryGetMany(t) \/ MemoryExists(t) \/ MemoryPurge(t)
  <2>1. call[t].op \in DataReads /\ entry' \in {entry, NoEntry}
    BY <1>1 DEF MemoryGet, MemoryGetMany, MemoryRead, MemoryExists, MemoryPurge, At, DataReads, Keep, Drop
  <2>2. \/ Goto(t, "purge", NoEntry)
        \/ \E g \in {NoEntry, Reading(entry)} : Return(t, "Ok", g)
    BY <1>1 DEF MemoryGet, MemoryGetMany, MemoryRead, MemoryExists, MemoryPurge
  <2> QED
    BY <1>1, <2>1, <2>2, GoesOn, Returns
<1>2. CASE MemorySet(t) \/ MemorySetNx(t) \/ MemoryGetSet(t) \/ MemorySetMany(t) \/ MaybeEvict(t)
  <2>1. entry' \in {entry, NoEntry}
    BY <1>2 DEF MemorySet, MemorySetNx, MemoryGetSet, MemorySetMany, MaybeEvict, Keep, Drop
  <2>2. \/ \E l \in {"purge", "evict", "insert"}, f \in NoneOr(Contents) : Goto(t, l, f)
        \/ Return(t, "No", NoEntry)
    BY <1>2 DEF MemorySet, MemorySetNx, MemoryGetSet, MemorySetMany, MaybeEvict
  <2> QED
    BY <1>2, <2>1, <2>2, GoesOn, Returns
<1>3. CASE MemoryInsert(t)
  <2>1. call[t].op \in DataWrites
    BY <1>3 DEF DataCall, CallGroup, SeenInv, SeenOK, Inserters, MemoryInsert, At, DataReads, DataWrites, Removals
  <2>2. MemoryValue(t) = call[t].arg
    BY <2>1 DEF MemoryValue, DataWrites
  <2> QED
    BY <1>3, <2>1, <2>2, Puts DEF MemoryInsert
<1>4. CASE MemoryDelete(t) \/ MemoryDeleteMany(t) \/ MemoryClear(t) \/ MemoryFlush(t)
  <2>1. call[t].op \in Removals
    BY <1>4 DEF MemoryDelete, MemoryDeleteMany, MemoryClear, MemoryFlush, At, Removals
  <2>2. \/ entry' = NoEntry /\ \E r \in {"Ok", "Yes", "No"} : Return(t, r, NoEntry)
        \/ entry' = entry /\ (Return(t, "No", NoEntry) \/ Goto(t, "remove", NoEntry))
    BY <1>4 DEF MemoryDelete, MemoryDeleteMany, MemoryClear, MemoryFlush, Keep, Drop
  <2> QED
    BY <1>4, <2>1, <2>2, GoesOn, Returns, Removes
<1>5. CASE MemoryIncrement(t) \/ MemoryLock(t) \/ MemoryUnlock(t)
  BY <1>5 DEF MemoryIncrement, MemoryLock, MemoryUnlock, At, DataCall, DataReads, DataWrites, Removals
<1> QED
  BY <1>1, <1>2, <1>3, <1>4, <1>5 DEF MemoryStep

LEMMA RedisData ==
    ASSUME NEW t \in Callers, DataCall(t), backend = "redis", RedisStep(t)
    PROVE  DataEffect(t)
<1> USE DataTypes DEF PCs
<1>1. CASE RedisGet(t) \/ RedisGetMany(t) \/ RedisExists(t)
  <2>1. call[t].op \in DataReads /\ entry' = entry /\ Return(t, "Ok", Reading(entry))
    BY <1>1 DEF RedisGet, RedisGetMany, RedisExists, RedisRead, At, DataReads, Keep
  <2> QED
    BY <2>1, Returns
<1>2. CASE RedisSet(t) \/ RedisSetMany(t) \/ RedisGetSet(t)
  <2>1. call[t].op \in DataWrites /\ \E ttl \in BOOLEAN : Put(call[t].arg, ttl, t)
    BY <1>2 DEF RedisSet, RedisSetMany, RedisGetSet, At, DataWrites
  <2> QED
    BY <2>1, Puts
<1>3. CASE RedisSetNx(t)
  <2>1. call[t].op \in DataWrites
    BY <1>3 DEF RedisSetNx, At, DataWrites
  <2>2. Put(call[t].arg, FALSE, t) \/ (entry' = entry /\ Return(t, "No", NoEntry))
    BY <1>3 DEF RedisSetNx, SetIfNone, Keep
  <2> QED
    BY <2>1, <2>2, Puts, Returns
<1>4. CASE RedisExpire(t)
  <2>1. At(t, "expire", {"set_nx"})
    BY <1>4 DEF RedisExpire, At, DataCall, DataReads, DataWrites, Removals
  <2>2. call[t].op = "set_nx" /\ Active(t) /\ Return(t, "Yes", NoEntry)
    BY <1>4, <2>1 DEF RedisExpire, At, Active
  <2>3. call'[t].pc = "idle"
    BY <2>2, Results DEF DataCall, NoneOr
  <2>4. (entry = NoEntry /\ entry' = NoEntry) \/ SameValue
    <3>1. entry # NoEntry /\ entry' = [entry EXCEPT !.ttl = TRUE] => SameValue
      <4>1. entry # NoEntry /\ entry' = [entry EXCEPT !.ttl = TRUE] => entry' \in Entries /\ entry'.val = entry.val
        BY CallTypes, EntryFacts DEF DataCall, Entries
      <4> QED
        BY <4>1, ContentsAssumption DEF SameValue
    <3> QED
      BY <1>4, <3>1 DEF RedisExpire, Keep
  <2> QED
    BY <1>4, <2>1, <2>2, <2>3, <2>4, OpKinds DEF DataEffect, At
<1>5. CASE RedisDelete(t) \/ RedisDeleteMany(t) \/ RedisClear(t) \/ RedisFlush(t)
  <2>1. call[t].op \in Removals
    BY <1>5 DEF RedisDelete, RedisDeleteMany, RedisClear, RedisFlush, At, Removals
  <2>2. \/ entry' = NoEntry /\ \E r \in {"Ok", "Yes", "No"} : Return(t, r, NoEntry)
        \/ entry' = entry /\ (Return(t, "No", NoEntry) \/ Goto(t, "remove", NoEntry))
    BY <1>5 DEF RedisDelete, RedisDeleteMany, RedisClear, RedisFlush, Keep, Drop
  <2> QED
    BY <1>5, <2>1, <2>2, GoesOn, Returns, Removes
<1>6. CASE RedisIncrement(t) \/ RedisLock(t) \/ RedisUnlock(t)
  BY <1>6 DEF RedisIncrement, RedisLock, RedisUnlock, At, DataCall, DataReads, DataWrites, Removals
<1> QED
  BY <1>1, <1>2, <1>3, <1>4, <1>5, <1>6 DEF RedisStep

LEMMA MemcachedData ==
    ASSUME NEW t \in Callers, DataCall(t), backend = "memcached", MemcachedStep(t)
    PROVE  DataEffect(t)
<1> USE DataTypes DEF PCs
<1>1. CASE MemcachedGet(t) \/ MemcachedGetMany(t) \/ MemcachedExists(t)
  <2>1. call[t].op \in DataReads /\ entry' = entry /\ Return(t, "Ok", Reading(entry))
    BY <1>1 DEF MemcachedGet, MemcachedGetMany, MemcachedExists, MemcachedRead, Command, At, DataReads, Keep
  <2> QED
    BY <2>1, Returns
<1>2. CASE MemcachedSet(t) \/ MemcachedSetMany(t) \/ MemcachedSetNx(t) \/ MemcachedGetSet(t)
  <2>1. call[t].op \in DataWrites
    BY <1>2 DEF MemcachedSet, MemcachedSetMany, MemcachedSetNx, MemcachedGetSet, Command, At, DataWrites
  <2>2. \/ Put(call[t].arg, TRUE, t)
        \/ entry' = entry /\ (Return(t, "No", NoEntry) \/ Goto(t, "store", Reading(entry)))
    BY <1>2 DEF MemcachedSet, MemcachedSetMany, MemcachedSetNx, MemcachedGetSet, AddCommand, Keep
  <2> QED
    BY <1>2, <2>1, <2>2, Puts, Returns, GoesOn
<1>3. CASE MemcachedDelete(t) \/ MemcachedDeleteMany(t) \/ MemcachedClear(t) \/ MemcachedFlush(t)
  <2>1. call[t].op \in Removals
    BY <1>3 DEF MemcachedDelete, MemcachedDeleteMany, MemcachedClear, MemcachedFlush, Command, At, Removals
  <2>2. \/ entry' = NoEntry /\ \E r \in {"Ok", "Yes"} : Return(t, r, NoEntry)
        \/ entry' = entry /\ Return(t, "Err", NoEntry)
    BY <1>3 DEF MemcachedDelete, MemcachedDeleteMany, MemcachedClear, MemcachedFlush, Keep, Drop
  <2> QED
    BY <2>1, <2>2, Returns, Removes
<1>4. CASE MemcachedIncrement(t) \/ MemcachedLock(t) \/ MemcachedUnlock(t)
  BY <1>4 DEF MemcachedIncrement, MemcachedLock, MemcachedUnlock, Command, At, DataCall, DataReads, DataWrites, Removals
<1> QED
  BY <1>1, <1>2, <1>3, <1>4 DEF MemcachedStep

LEMMA ProxyData ==
    ASSUME NEW t \in Callers, DataCall(t), backend = "proxy", ProxyStep(t)
    PROVE  DataEffect(t)
<1> USE DataTypes DEF PCs
<1>1. CASE ProxyGet(t) \/ ProxyGetMany(t) \/ ProxyExists(t)
  <2>1. call[t].op \in DataReads /\ entry' = entry /\ Return(t, "Ok", Reading(entry))
    BY <1>1 DEF ProxyGet, ProxyGetMany, ProxyExists, Proxied, At, DataReads, Keep
  <2> QED
    BY <2>1, Returns
<1>2. CASE ProxySet(t) \/ ProxySetMany(t) \/ ProxySetNx(t) \/ ProxyGetSet(t)
  <2>1. call[t].op \in DataWrites
    BY <1>2 DEF ProxySet, ProxySetMany, ProxySetNx, ProxyGetSet, Proxied, At, DataWrites
  <2>2. \/ \E ttl \in BOOLEAN : Put(call[t].arg, ttl, t)
        \/ entry' = entry /\ Return(t, "No", NoEntry)
    BY <1>2 DEF ProxySet, ProxySetMany, ProxySetNx, ProxyGetSet, ProxyStores, Keep
  <2> QED
    BY <2>1, <2>2, Puts, Returns
<1>3. CASE ProxyDelete(t) \/ ProxyDeleteMany(t) \/ ProxyClear(t) \/ ProxyFlush(t)
  <2>1. call[t].op \in Removals
    BY <1>3 DEF ProxyDelete, ProxyDeleteMany, ProxyClear, ProxyFlush, Proxied, At, Removals
  <2>2. \/ entry' = NoEntry /\ \E r \in {"Ok", "Yes", "No"} : Return(t, r, NoEntry)
        \/ entry' = entry /\ Return(t, "No", NoEntry)
    BY <1>3 DEF ProxyDelete, ProxyDeleteMany, ProxyClear, ProxyFlush, Keep, Drop
  <2> QED
    BY <2>1, <2>2, Returns, Removes
<1>4. CASE ProxyIncrement(t) \/ ProxyLock(t) \/ ProxyUnlock(t)
  BY <1>4 DEF ProxyIncrement, ProxyLock, ProxyUnlock, Proxied, At, DataCall, DataReads, DataWrites, Removals
<1> QED
  BY <1>1, <1>2, <1>3, <1>4 DEF ProxyStep

\* A call that is to write a file has its handle, unless it is gone.
FileEffect(t) ==
    /\ call'[t].pc \in {"opened", "flocked"} =>
        t \in handles' \/ (call[t].pc = "opened" /\ entry' = entry /\ handles' = handles)
    /\ entry' = NoEntry \/ handles \ {t} \subseteq handles' \/ entry' # entry

LEMMA FileData ==
    ASSUME NEW t \in Callers, DataCall(t), backend = "file", FileStep(t)
    PROVE  DataEffect(t) /\ FileEffect(t)
<1> USE DataTypes DEF PCs
<1>s. Special = {Empty, Mixed, Foreign} /\ Written(Empty).val = Empty /\ Written(Empty) # NoEntry
  BY WrittenFacts DEF Special, Contents
<1>g. ASSUME NEW l \in PCs \ {"idle", "crashed"}, NEW f, Goto(t, l, f) PROVE call'[t].pc = l
  BY <1>g, Proceeds DEF DataCall
<1>r. ASSUME NEW r \in {"Ok", "Yes", "No", "Err"}, NEW g \in NoneOr(Contents), Return(t, r, g)
      PROVE  call'[t].pc = "idle"
  <2>1. call[t].op # "lock" /\ Active(t)
    BY DEF DataCall, DataReads, DataWrites, Removals, CallGoes
  <2> QED
    BY <1>r, <2>1, Results DEF DataCall
<1>o. handles' = handles \/ entry' = NoEntry \/ handles' = handles \union {t} \/ entry' # entry
      => entry' = NoEntry \/ handles \ {t} \subseteq handles' \/ entry' # entry
  OBVIOUS
<1>1. CASE FileSet(t) \/ FileGetSet(t) \/ FileSetNx(t)
  <2>1. call[t].op \in DataWrites
    BY <1>1 DEF FileSet, FileGetSet, FileSetNx, At, DataWrites
  <2>2. \/ entry' = Written(Empty) /\ t \in handles' /\ \E f : Goto(t, "opened", f)
        \/ entry' = entry /\ handles' = handles /\ \E f : Goto(t, "open", f)
        \/ entry' = entry /\ handles' = handles /\ Return(t, "No", NoEntry)
    BY <1>1 DEF FileSet, FileGetSet, FileSetNx, OpenTruncated, CreateNew, Keep
  <2>3. CASE entry' = Written(Empty) /\ t \in handles'
    <3>1. DataEffect(t)
      BY <1>s, <2>1, <2>3, WritesData DEF DataCall
    <3>2. entry = Written(Empty) => handles \ {t} \subseteq handles'
      BY <1>1, <1>s DEF FileSet, FileGetSet, FileSetNx, OpenTruncated, CreateNew, Keep
    <3> QED
      BY <2>3, <3>1, <3>2 DEF FileEffect
  <2>4. CASE entry' = entry /\ handles' = handles /\ \E f : Goto(t, "open", f)
    BY <1>g, <2>4, GoesOn DEF FileEffect
  <2>5. CASE entry' = entry /\ handles' = handles /\ Return(t, "No", NoEntry)
    BY <1>r, <2>5, Returns DEF FileEffect
  <2> QED
    BY <2>2, <2>3, <2>4, <2>5
<1>2. CASE FileLocked(t)
  <2>1. entry' = entry /\ handles' = handles /\ Goto(t, "flocked", call[t].seen) /\ call[t].pc = "opened"
    BY <1>2 DEF FileLocked, At, Keep
  <2> QED
    BY <2>1, GoesOn DEF FileEffect
<1>3. CASE FileWritten(t)
  <2>1. /\ call[t].op \in DataWrites /\ call[t].pc = "flocked" /\ handles' = handles \ {t}
        /\ \E r \in {"Ok", "Yes"}, g \in NoneOr(Contents) : Return(t, r, g)
    BY <1>3 DEF FileWritten, At, Unlocked
  <2>2. call'[t].pc = "idle"
    BY <1>r, <2>1
  <2>3. FileEffect(t)
    BY <2>1, <2>2 DEF FileEffect
  <2>4. CASE t \in handles
    <3>1. PICK v \in Overlay(entry.val, call[t].arg) : entry' = Written(v)
      BY <1>3, <2>4 DEF FileWritten
    <3>2. v \in {call[t].arg} \union Special
      BY <1>s DEF Overlay
    <3>3. entry'.val = v
      BY <3>1 DEF Written
    <3> QED
      BY <2>1, <2>3, <3>2, <3>3, WritesData DEF DataCall
  <2>5. CASE t \notin handles
    <3>1. entry' = entry
      BY <1>3, <2>5 DEF FileWritten, Keep
    <3> QED
      BY <2>1, <2>2, <2>3, <2>5, <3>1, OpKinds DEF DataEffect, At
  <2> QED
    BY <2>4, <2>5
<1>4. CASE (FileGet(t) \/ FileExists(t) \/ FileDelete(t) \/ FileClear(t) \/ FileFlush(t)) /\ Orphans
  <2>1. call'[t].pc \notin {"opened", "flocked"} => FileEffect(t)
    BY <1>4 DEF FileEffect, Orphans
  <2>2. CASE FileGet(t) \/ FileExists(t)
    <3>1. call[t].op \in DataReads /\ entry' \in {entry, NoEntry}
      BY <2>2 DEF FileGet, FileExists, At, DataReads, Keep, Drop
    <3>2. \/ \E l \in {"open", "look", "purge"} : Goto(t, l, NoEntry)
          \/ \E r \in {"Ok", "Err"} : Return(t, r, NoEntry)
          \/ Return(t, "Ok", Reading(entry))
          \/ entry # NoEntry /\ Return(t, "Ok", entry.val)
      BY <2>2 DEF FileGet, FileExists
    <3>3. call'[t].pc \notin {"opened", "flocked"}
      BY <1>g, <1>r, <3>2
    <3> QED
      BY <2>1, <3>1, <3>2, <3>3, GoesOn, Returns
  <2>3. CASE FileDelete(t) \/ FileClear(t) \/ FileFlush(t)
    <3>1. call[t].op \in Removals
      BY <2>3 DEF FileDelete, FileClear, FileFlush, At, Removals
    <3>2. \/ entry' = NoEntry /\ \E r \in {"Ok", "Yes", "Err"} : Return(t, r, NoEntry)
          \/ entry' = entry /\ (Return(t, "No", NoEntry) \/ Goto(t, "remove", NoEntry))
      BY <2>3 DEF FileDelete, FileClear, FileFlush, Keep, Drop
    <3>3. call'[t].pc \notin {"opened", "flocked"}
      BY <1>g, <1>r, <3>2
    <3> QED
      BY <2>1, <3>1, <3>2, <3>3, GoesOn, Returns, Removes
  <2> QED
    BY <1>4, <2>2, <2>3
<1>5. CASE FileIncrement(t) \/ FileLock(t) \/ FileUnlock(t) \/ FilePurgeLock(t)
  BY <1>5 DEF FileIncrement, FileLock, FileUnlock, FilePurgeLock, At, DataCall, DataReads, DataWrites, Removals
<1> QED
  BY <1>1, <1>2, <1>3, <1>4, <1>5 DEF FileStep

LEMMA DataSteps ==
    ASSUME CallGroup, NEW t \in Callers, Step(t), role \in {"data", "entity"}
    PROVE  DataEffect(t) /\ (backend = "file" => FileEffect(t))
<1>1. DataCall(t)
  BY DataCalls
<1>2. CASE CallFails(t)
  <2>1. entry' = entry /\ handles' = handles \ {t} /\ call'[t] = Ended("Err", NoEntry)
    BY <1>2, CallTypes DEF CallFails, Keep, CallTypeOK
  <2>2. call'[t].pc = "idle" /\ ~Succeeds(t) /\ ~Gives(t)
    BY <2>1 DEF Ended, Succeeds, Gives
  <2> QED
    BY <1>1, <2>1, <2>2, KeepsData DEF DataCall, FileEffect
<1>3. CASE backend = "disabled" /\ RedisDisabled(t)
  BY <1>1, <1>3, Returns DEF RedisDisabled, Keep, NoneOr
<1> QED
  BY <1>1, <1>2, <1>3, MemoryData, FileData, RedisData, MemcachedData, ProxyData DEF Step

LEMMA ReadsAreFresh ==
    ASSUME CallGroup, FreshInv, NEW t \in Callers, NEW u \in Callers, Step(u), t = u \/ call'[t] = call[t]
    PROVE  ReadIsFresh(t)
<1>1. CASE role = "data" /\ Active(t) /\ call[t].op \in DataReads /\ Gives(t)
  <2>1. t = u
    BY <1>1 DEF Gives, Active
  <2>2. entry # NoEntry /\ call'[t].got = entry.val
    BY <1>1, <2>1, DataSteps DEF DataEffect
  <2>3. entry.val \in allowed[t] \/ entry.val \in Special
    BY <1>1, <2>2 DEF FreshInv
  <2> QED
    BY <2>2, <2>3 DEF ReadIsFresh, Special
<1> QED
  BY <1>1 DEF ReadIsFresh, Gives

\* A write that was alone decides what may be read; the others leave it.
LEMMA Deciding ==
    ASSUME CallGroup, NEW t \in Callers, Step(t), role = "data"
    PROVE  LET decides == Succeeds(t) /\ t \in Writers \ crossed IN
           /\ current' = IF ~decides THEN current
                         ELSE IF call[t].op \in Removals THEN {} ELSE current \intersect {call[t].arg}
           /\ crossed' = IF call'[t].pc = "idle" THEN crossed \ {t} ELSE crossed
           /\ allowed' = allowed
BY DEF Step, Record, Succeeds

\* Nothing is on its way to the orchestrator then.
LEMMA DecidesAlone == ASSUME CallGroup, NEW t \in Callers, Step(t), Succeeds(t) PROVE orders = <<>>
<1>1. SUFFICES ASSUME orders # <<>> PROVE FALSE
  OBVIOUS
<1>2. backend = "proxy" /\ shared
  BY <1>1 DEF CallGroup, OrdersInv
<1>3. CASE CallFails(t)
  <2>1. call'[t] = Ended("Err", NoEntry)
    BY <1>3, CallTypes DEF CallFails, CallTypeOK
  <2> QED
    BY <2>1 DEF Succeeds, Ended
<1>4. CASE ProxyStep(t)
  BY <1>1, <1>2, <1>4 DEF ProxyStep, ProxyGet, ProxyGetMany, ProxyExists, ProxySet, ProxySetMany, ProxyGetSet, ProxySetNx,
     ProxyIncrement, ProxyDelete, ProxyDeleteMany, ProxyClear, ProxyFlush, ProxyLock, ProxyUnlock, Proxied, Quiet
<1> QED
  BY <1>2, <1>3, <1>4 DEF Step

LEMMA FreshSteps ==
    ASSUME CallGroup, FreshInv, NEW t \in Callers, Step(t), role = "data" PROVE FreshInv'
<1> DEFINE decides == Succeeds(t) /\ t \in Writers \ crossed
<1>0. /\ DataEffect(t) /\ DataCall(t) /\ (backend = "file" => FileEffect(t)) /\ UNCHANGED fixed
      /\ \A u \in Callers \ {t} : call'[u] = call[u]
  BY DataSteps, DataCalls, StepTyped DEF DataCall, CallGoes
<1>g. /\ Active(t)
      /\ call'[t].pc = "idle" \/ (Active(t)' /\ call'[t].op = call[t].op /\ call'[t].arg = call[t].arg)
      /\ call[t].op \in DataReads \union DataWrites \union Removals
  BY <1>0 DEF DataCall, CallGoes
<1>d. /\ current' = IF ~decides THEN current
                    ELSE IF call[t].op \in Removals THEN {} ELSE current \intersect {call[t].arg}
      /\ crossed' = IF call'[t].pc = "idle" THEN crossed \ {t} ELSE crossed
      /\ allowed' = allowed
  BY Deciding
<1> HIDE DEF decides
<1>w. /\ \A u \in Callers : u \in Writers <=> Active(u) /\ call[u].op \in DataWrites \union Removals
      /\ \A u \in Callers : u \in Writers' <=> Active(u)' /\ call'[u].op \in DataWrites \union Removals
      /\ \A u \in Writers \union Writers' : u \in Callers
  BY DEF Writers
<1>v. /\ \A u \in Writers' : u \in Writers
      /\ \A u \in Callers \ {t} : u \in Writers' <=> u \in Writers
      /\ Active(t)' \/ t \notin Writers'
      /\ \A u \in Callers \ {t} : Active(u)' <=> Active(u)
  BY <1>0, <1>g, <1>w DEF Active
<1>s. Special' = Special
  BY <1>0 DEF Special, fixed
<1>f. /\ entry # NoEntry => entry.val \in current \union Special
      /\ \A u \in Callers : Active(u) /\ call[u].op \in DataReads => current \subseteq allowed[u]
      /\ \A u \in Callers : Active(u) /\ call[u].op \in DataWrites => call[u].arg \in current
      /\ \A u, w \in Writers : u # w => u \in crossed
  BY DEF FreshInv
<1>u. \A u \in Writers \ crossed :
        /\ backend = "redis" /\ At(u, "expire", {"set_nx"}) => HoldsIfAny(call[u].arg)
        /\ backend = "file" /\ call[u].pc \in {"opened", "flocked"} /\ u \notin handles =>
                entry = NoEntry \/ entry.val \in Special
  BY DEF FreshInv
<1>1. entry' # NoEntry => entry'.val \in current' \union Special
  <2>1. CASE ~decides
    <3>1. call[t].op \in DataWrites => call[t].arg \in current
      BY <1>f, <1>g
    <3> QED
      BY <1>0, <1>d, <1>f, <2>1, <3>1 DEF DataEffect, SameValue
  <2>2. CASE decides /\ call[t].op \in Removals
    BY <1>0, <2>2 DEF DataEffect, decides
  <2>3. CASE decides /\ call[t].op \in DataWrites
    <3>1. call[t].arg \in current' /\ Succeeds(t) /\ t \in Writers \ crossed
      BY <1>d, <1>f, <1>g, <2>3, OpKinds DEF decides
    <3>2. CASE entry'.val \in {call[t].arg} \union Special
      BY <3>1, <3>2
    <3>3. CASE backend = "redis" /\ At(t, "expire", {"set_nx"}) /\ (entry' = NoEntry \/ SameValue)
      BY <1>u, <3>1, <3>3 DEF HoldsIfAny, SameValue
    <3>4. CASE backend = "file" /\ call[t].pc = "flocked" /\ t \notin handles /\ entry' = entry
      BY <1>u, <3>1, <3>4
    <3> QED
      BY <1>0, <2>3, <3>1, <3>2, <3>3, <3>4 DEF DataEffect
  <2>4. decides => call[t].op \in DataWrites \union Removals
    BY <1>w DEF decides
  <2> QED
    BY <2>1, <2>2, <2>3, <2>4
<1>2. ASSUME NEW u \in Callers, Active(u)', call'[u].op \in DataReads PROVE current' \subseteq allowed'[u]
  <2>1. Active(u) /\ call[u].op \in DataReads
    BY <1>0, <1>g, <1>2 DEF Active
  <2> QED
    BY <1>d, <1>f, <2>1
<1>3. ASSUME NEW u \in Callers, Active(u)', call'[u].op \in DataWrites PROVE call'[u].arg \in current'
  <2>1. Active(u) /\ call[u].op \in DataWrites /\ call'[u].arg = call[u].arg
    BY <1>0, <1>g, <1>3 DEF Active
  <2>2. ~decides
    <3>1. CASE u = t
      BY <1>3, <3>1 DEF decides, Succeeds, Active
    <3>2. CASE u # t
      BY <1>f, <1>w, <2>1, <3>2 DEF decides
    <3> QED
      BY <3>1, <3>2
  <2> QED
    BY <1>d, <1>f, <2>1, <2>2
<1>q. ASSUME NEW d \in RangeOf(orders)', d.op \in DataWrites PROVE d.arg \in current'
  <2>1. orders' = orders /\ RangeOf(orders)' = RangeOf(orders)
    BY DEF Step, RangeOf
  <2>2. d.arg \in current
    BY <1>q, <2>1 DEF FreshInv
  <2>3. CASE decides
    BY <1>q, <2>1, <2>3, DecidesAlone DEF decides, RangeOf
  <2> QED
    BY <1>d, <2>2, <2>3
<1>4. \A u, w \in Writers' : u # w => u \in crossed'
  <2>1. call'[t].pc = "idle" => t \notin Writers'
    BY <1>w DEF Active
  <2> QED
    BY <1>d, <1>f, <1>v, <2>1
<1>5. ASSUME NEW u \in Writers' \ crossed'
      PROVE  /\ backend = "redis" /\ At(u, "expire", {"set_nx"})' => HoldsIfAny(call[u].arg)' 
             /\ backend = "file" /\ call'[u].pc \in {"opened", "flocked"} /\ u \notin handles' =>
                    entry' = NoEntry \/ entry'.val \in Special
  <2>0. u \in Callers /\ u \in Writers \ crossed
    BY <1>d, <1>v, <1>w, <1>5 DEF Active
  <2>1. CASE u = t
    <3>1. call'[t].pc # "idle" /\ call'[t].arg = call[t].arg /\ call'[t].op = call[t].op
      BY <1>g, <1>w, <1>5, <2>1 DEF Active
    <3>2. backend = "redis" /\ At(t, "expire", {"set_nx"})' => entry'.val = call'[t].arg
      BY <1>0, <3>1 DEF DataEffect
    <3>3. ASSUME backend = "file", call'[t].pc \in {"opened", "flocked"}, t \notin handles'
          PROVE  entry' = NoEntry \/ entry'.val \in Special
      <4>1. call[t].pc = "opened" /\ entry' = entry /\ handles' = handles
        BY <1>0, <3>3 DEF FileEffect
      <4> QED
        BY <1>u, <2>0, <2>1, <3>3, <4>1
    <3> QED
      BY <2>1, <3>2, <3>3 DEF HoldsIfAny
  <2>2. CASE u # t
    <3>1. t \notin Writers /\ call[t].op \in DataReads
      BY <1>f, <1>g, <1>w, <2>0, <2>2
    <3>2. entry' \in {entry, NoEntry}
      BY <1>0, <3>1, OpKinds DEF DataEffect
    <3>3. call'[u] = call[u]
      BY <1>0, <2>0, <2>2
    <3>4. backend = "file" /\ entry' = entry /\ entry # NoEntry /\ u \in handles => u \in handles'
      BY <1>0, <2>2 DEF FileEffect
    <3> QED
      BY <1>u, <2>0, <3>2, <3>3, <3>4 DEF HoldsIfAny, At
  <2> QED
    BY <2>1, <2>2
<1> QED
  BY <1>0, <1>1, <1>2, <1>3, <1>4, <1>5, <1>q, <1>s DEF FreshInv, fixed

LEMMA FreshKept == ASSUME CallGroup, FreshInv, [CacheNext]_cacheVars PROVE FreshInv'
<1>t. EntryTypeOK
  BY DEF CallGroup, CallsTypeOK, EntryTypeOK, NoneOr
<1>f. UNCHANGED fixed
  BY FixedStays
<1>0. CASE role # "data"
  BY <1>0, <1>f DEF FreshInv, fixed
<1>d. ASSUME role = "data"
      PROVE  /\ entry # NoEntry => entry.val \in current \union Special
             /\ \A u \in Callers : Active(u) /\ call[u].op \in DataReads => current \subseteq allowed[u]
             /\ \A u \in Callers : Active(u) /\ call[u].op \in DataWrites => call[u].arg \in current
             /\ \A d \in RangeOf(orders) : d.op \in DataWrites => d.arg \in current
             /\ \A u, w \in Writers : u # w => u \in crossed
             /\ \A u \in Writers \ crossed :
                 /\ backend = "redis" /\ At(u, "expire", {"set_nx"}) => HoldsIfAny(call[u].arg)
                 /\ backend = "file" /\ call[u].pc \in {"opened", "flocked"} /\ u \notin handles =>
                         entry = NoEntry \/ entry.val \in Special
  BY <1>d DEF FreshInv
<1>w. /\ \A u \in Callers : u \in Writers <=> Active(u) /\ call[u].op \in DataWrites \union Removals
      /\ \A u \in Callers : u \in Writers' <=> Active(u)' /\ call'[u].op \in DataWrites \union Removals
      /\ \A u \in Writers \union Writers' : u \in Callers
  BY DEF Writers
<1>1. ASSUME role = "data", NEW t \in Callers, NEW o \in OpsIn(role), NEW v \in Storable, Begin(t, o, v) PROVE FreshInv'
  <2>0. /\ call[t].pc = "idle" /\ \A u \in Callers \ {t} : call'[u] = call[u]
        /\ call'[t].pc = "called" /\ call'[t].op = o /\ call'[t].arg = v /\ UNCHANGED store
    BY <1>1, Beginning
  <2>1. /\ current' = IF o \in DataWrites THEN current \union {v} ELSE current
        /\ allowed' = [u \in Callers |->
            IF u = t THEN (IF o \in DataReads THEN current' ELSE {})
            ELSE IF At(u, call[u].pc, DataReads) /\ Active(u) THEN allowed[u] \union current'
            ELSE {}]
        /\ crossed' = IF o \in DataWrites \union Removals /\ Writers \ {t} # {}
                      THEN crossed \union (Writers \ {t}) \union {t} ELSE crossed
    BY <1>1 DEF Begin
  <2>2. /\ ~Active(t) /\ t \notin Writers /\ Active(t)'
        /\ \A u \in Callers \ {t} : Active(u)' <=> Active(u)
        /\ \A u \in Callers \ {t} : u \in Writers' <=> u \in Writers
        /\ t \in Writers' <=> o \in DataWrites \union Removals
    BY <1>w, <2>0 DEF Active
  <2>3. entry' # NoEntry => entry'.val \in current' \union Special'
    BY <1>d, <1>1, <1>f, <2>0, <2>1 DEF store, Special, fixed
  <2>4. ASSUME NEW u \in Callers, Active(u)', call'[u].op \in DataReads PROVE current' \subseteq allowed'[u]
    <3>1. CASE u = t
      BY <2>0, <2>1, <2>4, <3>1
    <3>2. CASE u # t
      <4>1. At(u, call[u].pc, DataReads) /\ Active(u)
        BY <2>0, <2>2, <2>4, <3>2 DEF At
      <4> QED
        BY <2>1, <3>2, <4>1
    <3> QED
      BY <3>1, <3>2
  <2>5. ASSUME NEW u \in Callers, Active(u)', call'[u].op \in DataWrites PROVE call'[u].arg \in current'
    BY <1>d, <1>1, <2>0, <2>1, <2>2, <2>5
  <2>6. \A u, x \in Writers' : u # x => u \in crossed'
    <3>1. CASE o \in DataWrites \union Removals
      BY <1>w, <2>1, <2>2, <3>1
    <3>2. CASE o \notin DataWrites \union Removals
      BY <1>d, <1>1, <1>w, <2>1, <2>2, <3>2
    <3> QED
      BY <3>1, <3>2
  <2>7. ASSUME NEW u \in Writers' \ crossed'
        PROVE  /\ backend' = "redis" /\ At(u, "expire", {"set_nx"})' => HoldsIfAny(call[u].arg)'
               /\ backend' = "file" /\ call'[u].pc \in {"opened", "flocked"} /\ u \notin handles' =>
                         entry' = NoEntry \/ entry'.val \in Special'
    <3>1. CASE u = t
      BY <2>0, <3>1 DEF At
    <3>2. CASE u # t
      <4>1. u \in Callers /\ u \in Writers \ crossed /\ call'[u] = call[u]
        BY <1>w, <2>0, <2>1, <2>2, <2>7, <3>2
      <4> QED
        BY <1>d, <1>1, <1>f, <2>0, <4>1 DEF store, fixed, Special, HoldsIfAny, At
    <3> QED
      BY <3>1, <3>2
  <2>8. \A d \in RangeOf(orders)' : d.op \in DataWrites => d.arg \in current'
    <3>1. RangeOf(orders)' = RangeOf(orders) /\ current \subseteq current'
      BY <2>0, <2>1 DEF store, RangeOf
    <3> QED
      BY <1>d, <1>1, <3>1
  <2> QED
    BY <2>3, <2>4, <2>5, <2>6, <2>7, <2>8 DEF FreshInv
<1>2. ASSUME role = "data", NEW t \in Callers, Step(t) PROVE FreshInv'
  BY <1>2, FreshSteps
<1>s. ASSUME role = "data", UNCHANGED <<current, allowed>>,
             \A u \in Callers :
                 \/ ~Active(u)'
                 \/ call'[u] = call[u] /\ (u \in crossed => u \in crossed')
                 \/ /\ backend = "proxy" /\ Active(u) /\ (u \in crossed => u \in crossed')
                    /\ call'[u].op = call[u].op /\ call'[u].arg = call[u].arg,
             \/ entry' = NoEntry
             \/ entry # NoEntry /\ entry'.val = entry.val
             \/ backend = "file" /\ entry'.val \in {Foreign, Mixed}
             \/ backend = "proxy" /\ entry'.val \in current,
             entry' = NoEntry \/ \A u \in handles : u \in handles' \/ ~Active(u)',
             \A d \in RangeOf(orders)' : d.op \in DataWrites => d.arg \in current
      PROVE  FreshInv'
  <2>0. Special' = Special /\ backend' = backend /\ (backend = "file" => {Foreign, Mixed} \subseteq Special)
    BY <1>f DEF Special, fixed
  <2>1. \A u \in Callers : Active(u)' =>
            /\ Active(u) /\ call'[u].op = call[u].op /\ call'[u].arg = call[u].arg
            /\ backend = "proxy" \/ call'[u] = call[u]
            /\ u \in crossed => u \in crossed'
    BY <1>s DEF Active
  <2>2. \A u \in Writers' : u \in Callers /\ u \in Writers /\ Active(u)'
    BY <1>w, <2>1
  <2>3. entry' # NoEntry => entry'.val \in current' \union Special'
    BY <1>d, <1>s, <2>0
  <2>4. /\ \A u \in Callers : Active(u)' /\ call'[u].op \in DataReads => current' \subseteq allowed'[u]
        /\ \A u \in Callers : Active(u)' /\ call'[u].op \in DataWrites => call'[u].arg \in current'
        /\ \A u, x \in Writers' : u # x => u \in crossed'
    BY <1>d, <1>s, <2>1, <2>2
  <2>5. ASSUME NEW u \in Writers' \ crossed'
        PROVE  /\ backend' = "redis" /\ At(u, "expire", {"set_nx"})' => HoldsIfAny(call[u].arg)'
               /\ backend' = "file" /\ call'[u].pc \in {"opened", "flocked"} /\ u \notin handles' =>
                         entry' = NoEntry \/ entry'.val \in Special'
    <3>1. u \in Writers \ crossed /\ Active(u)'
      BY <2>1, <2>2, <2>5
    <3>2. CASE backend # "proxy"
      <4>1. call'[u] = call[u] /\ (entry' = NoEntry \/ (u \in handles => u \in handles'))
        BY <1>s, <2>1, <2>2, <2>5, <3>1, <3>2
      <4> QED
        BY <1>d, <1>s, <2>0, <3>1, <3>2, <4>1 DEF HoldsIfAny, At
    <3> QED
      BY <2>0, <3>2
  <2>6. \A d \in RangeOf(orders)' : d.op \in DataWrites => d.arg \in current'
    BY <1>s
  <2> QED
    BY <2>3, <2>4, <2>5, <2>6 DEF FreshInv
<1>o. orders' = orders => RangeOf(orders)' = RangeOf(orders)
  BY DEF RangeOf
<1>3. ASSUME role = "data", NEW t \in Callers, Crash(t) PROVE FreshInv'
  <2>1. ~Active(t)' /\ \A u \in Callers \ {t} : call'[u] = call[u]
    BY <1>3, Crashing
  <2>2. UNCHANGED <<current, allowed, crossed, entry, orders>> /\ handles' = handles \ {t}
    BY <1>3 DEF Crash
  <2> QED
    BY <1>d, <1>o, <1>s, <1>3, <2>1, <2>2
<1>4. ASSUME role = "data", NEW t \in Callers, LeaseEnds(t) PROVE FreshInv'
  BY <1>d, <1>o, <1>s, <1>4 DEF LeaseEnds, store
<1>5. CASE role = "data" /\ Expire
  <2>1. backend \in {"memory", "file"} => entry # NoEntry /\ entry'.val = entry.val
    <3>1. entry # NoEntry /\ (backend \in {"memory", "file"} => entry' = [entry EXCEPT !.exp = TRUE])
      BY <1>t, <1>5, EntryFacts DEF Expire
    <3> QED
      BY <1>t, <3>1, EntryFacts DEF Entries
  <2>2. /\ UNCHANGED <<call, handles, orders, current, allowed, crossed>>
        /\ backend \notin {"memory", "file"} => entry' = NoEntry
    BY <1>5 DEF Expire
  <2> QED
    BY <1>d, <1>o, <1>s, <1>5, <2>1, <2>2
<1>6. CASE role = "data" /\ Interference
  <2>1. /\ UNCHANGED <<call, orders, current, allowed, crossed>>
        /\ entry' = NoEntry \/ UNCHANGED handles
        /\ entry' = NoEntry \/ (backend = "file" /\ entry' \in {Written(Foreign), Written(Mixed)})
    BY <1>6 DEF Interference, MemoryCleanup, FileOtherKey, Orphans, Drop, history
  <2>2. Written(Foreign).val = Foreign /\ Written(Mixed).val = Mixed
    BY DEF Written
  <2> QED
    BY <1>d, <1>o, <1>s, <1>6, <2>1, <2>2
<1>7. CASE role = "data" /\ (UNCHANGED <<store, call, history>> \/ UNCHANGED cacheVars)
  BY <1>d, <1>o, <1>s, <1>7 DEF store, history, cacheVars
<1>8. ASSUME role = "data", NEW t \in Callers, ProxySend(t) PROVE FreshInv'
  <2>1. /\ Active(t) /\ call'[t].op = call[t].op /\ call'[t].arg = call[t].arg /\ backend = "proxy"
        /\ OrderOf(t).op = call[t].op /\ OrderOf(t).arg = call[t].arg
        /\ RangeOf(orders)' \subseteq RangeOf(orders) \union {OrderOf(t)}
        /\ UNCHANGED <<entry, handles, history>>
    BY <1>8, Sending
  <2>2. \A u \in Callers \ {t} : call'[u] = call[u]
    BY <1>8, Sending DEF CallGoes
  <2>3. \A d \in RangeOf(orders)' : d.op \in DataWrites => d.arg \in current
    BY <1>d, <1>8, <2>1
  <2> QED
    BY <1>d, <1>s, <1>8, <2>1, <2>2, <2>3 DEF history
<1>9. ASSUME role = "data", NEW t \in Callers, ProxyAnswered(t) PROVE FreshInv'
  <2>1. call'[t].pc = "idle" /\ crossed' = crossed \ {t} /\ UNCHANGED <<store, current, allowed>>
    BY <1>9, Answering
  <2>2. \A u \in Callers \ {t} : call'[u] = call[u]
    BY <1>9, Answering DEF CallGoes
  <2>3. ~Active(t)'
    BY <2>1 DEF Active
  <2> QED
    <3>1. \A d \in RangeOf(orders)' : d.op \in DataWrites => d.arg \in current
      BY <1>d, <1>o, <1>9, <2>1 DEF store
    <3>2. \A u \in Callers : ~Active(u)' \/ (call'[u] = call[u] /\ (u \in crossed => u \in crossed'))
      BY <2>1, <2>2, <2>3
    <3>3. entry' = entry /\ handles' = handles
      BY <2>1 DEF store
    <3> QED
      BY <1>s, <1>9, <2>1, <3>1, <3>2, <3>3
<1>10. CASE role = "data" /\ OrchestratorDoes
  <2>1. /\ backend = "proxy" /\ RangeOf(orders)' \subseteq RangeOf(orders) /\ Leaves(Head(orders))
        /\ Head(orders) \in RangeOf(orders) /\ Head(orders).op \in OpsIn(role)
        /\ UNCHANGED <<handles, call, current, allowed, crossed>>
    BY <1>10, Doing
  <2>2. /\ Head(orders).op \in DataReads \union DataWrites \union Removals
        /\ Head(orders).op \in DataWrites => Head(orders).arg \in current
    BY <1>d, <1>10, <2>1, OpsInRole
  <2>3. \/ entry' = NoEntry
        \/ entry # NoEntry /\ entry'.val = entry.val
        \/ entry'.val \in current
    BY <2>1, <2>2 DEF Leaves, Stored0, DataReads, DataWrites, Removals
  <2> QED
    BY <1>d, <1>s, <1>10, <2>1, <2>3
<1> QED
  BY <1>0, <1>1, <1>2, <1>3, <1>4, <1>5, <1>6, <1>7, <1>8, <1>9, <1>10 DEF CacheNext

LEMMA AllReadsFresh ==
    ASSUME CallGroup, FreshInv, [CacheNext]_cacheVars PROVE \A t \in Callers : ReadIsFresh(t)
<1>0. ASSUME NEW t \in Callers, call'[t] = call[t] \/ ~Active(t) \/ call'[t].pc # "idle" PROVE ReadIsFresh(t)
  BY <1>0 DEF ReadIsFresh, Active
<1>1. ASSUME NEW u \in Callers, Step(u) PROVE \A t \in Callers : ReadIsFresh(t)
  <2>1. \A t \in Callers \ {u} : call'[t] = call[t]
    BY <1>1, StepTyped DEF StepGoes, CallGoes
  <2> QED
    BY <1>1, <2>1, ReadsAreFresh
<1>2. ASSUME NEW u \in Callers, NEW o \in OpsIn(role), NEW v \in Storable, Begin(u, o, v)
      PROVE  \A t \in Callers : ReadIsFresh(t)
  <2>1. call'[u].pc = "called" /\ \A t \in Callers \ {u} : call'[t] = call[t]
    BY <1>2, Beginning
  <2> QED
    BY <1>0, <2>1
<1>3. ASSUME NEW u \in Callers, Crash(u) PROVE \A t \in Callers : ReadIsFresh(t)
  <2>1. call'[u].pc = "crashed" /\ \A t \in Callers \ {u} : call'[t] = call[t]
    BY <1>3, Crashing
  <2> QED
    BY <1>0, <2>1
<1>5. ASSUME NEW u \in Callers, ProxySend(u) \/ ProxyAnswered(u) PROVE \A t \in Callers : ReadIsFresh(t)
  <2>1. \A t \in Callers \ {u} : call'[t] = call[t]
    BY <1>5, Sending, Answering DEF CallGoes
  <2>2. call'[u].pc = "sent" \/ call[u].pc = "sent"
    BY <1>5, Sending, Answering
  <2> QED
    BY <1>0, <2>1, <2>2 DEF ReadIsFresh
<1>6. OrchestratorDoes => call' = call
  BY DEF OrchestratorDoes
<1>4. CASE call' = call
  BY <1>0, <1>4
<1> QED
  BY <1>1, <1>2, <1>3, <1>4, <1>5, <1>6 DEF CacheNext, LeaseEnds, Expire, Interference, MemoryCleanup, FileOtherKey, cacheVars

-----------------------------------------------------------------------------
(* Entities and their source.                                              *)

\* What the calls of a pattern do to the entry, and how they end.
EntityEffect(t) ==
    /\ DataEffect(t)
    /\ call[t].op = "set" /\ call'[t].pc = "idle" => call'[t].res \in {"Ok", "Err"}
    /\ call[t].op = "delete" /\ call'[t].pc = "idle" /\ call'[t].res # "Err" => entry' = NoEntry

LEMMA EntitySteps ==
    ASSUME CallGroup, NEW t \in Callers, Step(t), role = "entity"
    PROVE  EntityEffect(t)
<1>1. DataEffect(t) /\ CallGoes(t) /\ DataCall(t)
  BY DataSteps, DataCalls DEF DataCall
<1> USE <1>1, DataTypes DEF PCs
<1>r. ASSUME NEW r \in {"Ok", "Yes", "No", "Err"}, NEW g \in NoneOr(Contents), Return(t, r, g)
      PROVE  call'[t].res \in {r, "Err"}
  <2>1. call[t].op # "lock" /\ Active(t)
    BY DEF DataCall, DataReads, DataWrites, Removals, CallGoes
  <2> QED
    BY <1>r, <2>1, CallTypes, Returning DEF DataCall
<1>g. ASSUME NEW l \in PCs \ {"idle", "crashed"}, NEW f, Goto(t, l, f) PROVE call'[t].pc # "idle"
  BY <1>g, Proceeds DEF DataCall
<1>2. ASSUME call[t].op = "set", call'[t].pc = "idle" PROVE call'[t].res \in {"Ok", "Err"}
  <2>1. CASE CallFails(t)
    BY <2>1, CallTypes DEF CallFails, Ended, CallTypeOK
  <2>2. CASE backend = "disabled" /\ RedisDisabled(t)
    BY <1>r, <2>2 DEF RedisDisabled
  <2>3. CASE MemoryStep(t)
    <3>1. MemorySet(t) \/ MaybeEvict(t) \/ MemoryInsert(t)
      BY <1>2, <2>3 DEF MemoryStep, MemoryGet, MemoryGetMany, MemoryRead, MemoryPurge, MemoryExists, MemorySetNx,
         MemoryGetSet, MemorySetMany, MemoryIncrement, MemoryDelete, MemoryDeleteMany, MemoryClear, MemoryFlush,
         MemoryLock, MemoryUnlock, At
    <3>2. \/ \E l \in {"evict", "insert"} : \E f : Goto(t, l, f)
          \/ Return(t, "Ok", NoEntry)
      BY <1>2, <3>1 DEF MemorySet, MaybeEvict, MemoryInsert
    <3> QED
      BY <1>2, <1>r, <1>g, <3>2
  <2>4. CASE RedisStep(t)
    <3>1. RedisSet(t)
      BY <1>2, <2>4 DEF RedisStep, RedisGet, RedisGetMany, RedisRead, RedisExists, RedisSetNx, RedisGetSet,
         RedisSetMany, RedisIncrement, RedisDelete, RedisDeleteMany, RedisClear, RedisFlush, RedisLock, RedisUnlock,
         RedisExpire, At
    <3> QED
      BY <1>r, <3>1 DEF RedisSet
  <2>5. CASE MemcachedStep(t)
    <3>1. MemcachedSet(t)
      BY <1>2, <2>5 DEF MemcachedStep, MemcachedGet, MemcachedGetMany, MemcachedRead, MemcachedExists,
         MemcachedSetMany, MemcachedSetNx, MemcachedGetSet, MemcachedIncrement, MemcachedDelete,
         MemcachedDeleteMany, MemcachedClear, MemcachedFlush, MemcachedLock, MemcachedUnlock, Command, At
    <3> QED
      BY <1>r, <3>1 DEF MemcachedSet
  <2>6. CASE ProxyStep(t)
    <3>1. ProxySet(t)
      BY <1>2, <2>6 DEF ProxyStep, ProxyGet, ProxyGetMany, ProxyExists, ProxySetMany, ProxyGetSet, ProxySetNx,
         ProxyIncrement, ProxyDelete, ProxyDeleteMany, ProxyClear, ProxyFlush, ProxyLock, ProxyUnlock, Proxied, At
    <3> QED
      BY <1>r, <3>1 DEF ProxySet
  <2>7. CASE FileStep(t)
    <3>1. FileSet(t) \/ FileLocked(t) \/ FileWritten(t)
      BY <1>2, <2>7 DEF FileStep, FileGetSet, FileSetNx, FileIncrement, FileLock, FileGet, FileExists, FileDelete,
         FileClear, FileFlush, FileUnlock, FilePurgeLock, At
    <3>2. \/ \E l \in {"opened", "flocked"} : \E f : Goto(t, l, f)
          \/ Return(t, "Ok", NoEntry)
      BY <1>2, <3>1 DEF FileSet, FileLocked, FileWritten
    <3> QED
      BY <1>2, <1>r, <1>g, <3>2
  <2> QED
    BY <2>1, <2>2, <2>3, <2>4, <2>5, <2>6, <2>7 DEF Step
<1>3. ASSUME call[t].op = "delete", call'[t].pc = "idle", call'[t].res # "Err" PROVE entry' = NoEntry
  <2>1. CASE CallFails(t)
    BY <1>3, <2>1, CallTypes DEF CallFails, Ended, CallTypeOK
  <2>2. CASE backend = "disabled" /\ RedisDisabled(t)
    BY <1>3, <1>r, <2>2 DEF RedisDisabled
  <2>3. CASE MemoryStep(t)
    <3>1. ~MaybeEvict(t) /\ ~MemoryInsert(t)
      BY <1>3 DEF MaybeEvict, MemoryInsert, At, DataCall, CallGroup, SeenInv, SeenOK, Inserters, DataWrites
    <3>2. MemoryDelete(t)
      BY <1>3, <2>3, <3>1 DEF MemoryStep, MemoryGet, MemoryGetMany, MemoryRead, MemoryPurge, MemoryExists, MemorySet,
         MemorySetNx, MemoryGetSet, MemorySetMany, MemoryIncrement, MemoryDeleteMany, MemoryClear, MemoryFlush,
         MemoryLock, MemoryUnlock, At
    <3> QED
      BY <3>2 DEF MemoryDelete, Drop
  <2>4. CASE RedisStep(t)
    <3>1. RedisDelete(t)
      BY <1>3, <2>4 DEF RedisStep, RedisGet, RedisGetMany, RedisRead, RedisExists, RedisSet, RedisSetNx, RedisGetSet,
         RedisSetMany, RedisIncrement, RedisDeleteMany, RedisClear, RedisFlush, RedisLock, RedisUnlock,
         RedisExpire, At
    <3> QED
      BY <3>1 DEF RedisDelete, Drop
  <2>5. CASE MemcachedStep(t)
    <3>1. MemcachedDelete(t)
      BY <1>3, <2>5 DEF MemcachedStep, MemcachedGet, MemcachedGetMany, MemcachedRead, MemcachedExists, MemcachedSet,
         MemcachedSetMany, MemcachedSetNx, MemcachedGetSet, MemcachedIncrement,
         MemcachedDeleteMany, MemcachedClear, MemcachedFlush, MemcachedLock, MemcachedUnlock, Command, At
    <3> QED
      BY <3>1 DEF MemcachedDelete, Drop
  <2>6. CASE ProxyStep(t)
    <3>1. ProxyDelete(t)
      BY <1>3, <2>6 DEF ProxyStep, ProxyGet, ProxyGetMany, ProxyExists, ProxySet, ProxySetMany, ProxyGetSet, ProxySetNx,
         ProxyIncrement, ProxyDeleteMany, ProxyClear, ProxyFlush, ProxyLock, ProxyUnlock, Proxied, At
    <3> QED
      BY <3>1 DEF ProxyDelete, Drop
  <2>7. CASE FileStep(t)
    <3>1. FileDelete(t) \/ FileLocked(t)
      BY <1>3, <2>7 DEF FileStep, FileSet, FileGetSet, FileSetNx, FileWritten, FileIncrement, FileLock, FileGet,
         FileExists, FileClear, FileFlush, FileUnlock, FilePurgeLock, At, DataWrites
    <3>2. ~FileLocked(t)
      BY <1>3, <1>g DEF FileLocked
    <3> QED
      BY <1>3, <1>g, <3>1, <3>2 DEF FileDelete, Keep, Drop
  <2> QED
    BY <2>1, <2>2, <2>3, <2>4, <2>5, <2>6, <2>7 DEF Step
<1> QED
  BY <1>2, <1>3 DEF EntityEffect

\* How a file is stored: it is truncated, locked, and written.
FileSetEffect(t) ==
    /\ call'[t].pc \in {"opened", "flocked", "idle"}
    /\ call'[t].pc = "opened" => entry'.val = Empty /\ t \in handles'
    /\ call'[t].pc = "flocked" => call[t].pc = "opened" /\ entry' = entry /\ handles' = handles
    /\ call'[t].pc = "idle" =>
        \/ entry'.val # Empty
        \/ entry' = entry /\ (t \in handles /\ Opened(t) => call'[t].res = "Err")
    /\ handles \ {t} \subseteq handles'

LEMMA FileSetSteps ==
    ASSUME CallGroup, NEW t \in Callers, Step(t), role = "entity", backend = "file", call[t].op = "set"
    PROVE  FileSetEffect(t)
<1>1. DataCall(t) /\ Active(t)
  BY DataCalls DEF DataCall, CallGoes
<1>g. ASSUME NEW l \in {"opened", "flocked"}, NEW f, Goto(t, l, f) PROVE call'[t].pc = l
  BY <1>1, <1>g, Proceeds DEF DataCall, PCs
<1>2. CASE CallFails(t)
  <2>1. call'[t].pc = "idle" /\ call'[t].res = "Err"
    BY <1>2, CallTypes DEF CallFails, Ended, CallTypeOK
  <2> QED
    BY <1>2, <2>1 DEF CallFails, Keep, FileSetEffect
<1>3. CASE FileStep(t)
  <2>1. FileSet(t) \/ FileLocked(t) \/ FileWritten(t)
    BY <1>3 DEF FileStep, FileGetSet, FileSetNx, FileIncrement, FileLock, FileGet, FileExists, FileDelete,
       FileClear, FileFlush, FileUnlock, FilePurgeLock, At
  <2>2. CASE FileSet(t)
    <3>1. call'[t].pc = "opened"
      BY <1>g, <2>2 DEF FileSet
    <3> QED
      BY <2>2, <3>1 DEF FileSet, OpenTruncated, Written, FileSetEffect
  <2>3. CASE FileLocked(t)
    <3>1. call'[t].pc = "flocked"
      BY <1>g, <2>3 DEF FileLocked
    <3> QED
      BY <2>3, <3>1 DEF FileLocked, Keep, At, FileSetEffect
  <2>4. CASE FileWritten(t)
    <3>1. call'[t].pc = "idle"
      <4>1. \E r \in {"Ok", "Yes"}, g \in NoneOr(Contents) : Return(t, r, g)
        BY <1>1, <2>4, DataTypes DEF FileWritten
      <4>2. call[t].op # "lock"
        OBVIOUS
      <4> QED
        BY <1>1, <4>1, <4>2, Results DEF DataCall
    <3>2. CASE t \in handles
      <4>1. PICK v \in Overlay(entry.val, call[t].arg) : entry' = Written(v)
        BY <2>4, <3>2 DEF FileWritten
      <4>2. v \in {call[t].arg, Mixed}
        BY <4>1 DEF Overlay
      <4>3. call[t].arg \in Nat
        BY <1>1, CallTypes, ValuesAssumption DEF DataCall
      <4>4. v # Empty
        BY <4>2, <4>3, ContentsAssumption
      <4>5. entry'.val # Empty
        BY <4>1, <4>4 DEF Written
      <4> QED
        BY <2>4, <3>1, <4>5 DEF FileWritten, Unlocked, FileSetEffect
    <3>3. CASE t \notin handles
      BY <2>4, <3>1, <3>3 DEF FileWritten, Unlocked, Keep, FileSetEffect
    <3> QED
      BY <3>2, <3>3
  <2> QED
    BY <2>1, <2>2, <2>3, <2>4
<1> QED
  BY <1>2, <1>3 DEF Step

\* What is where a pattern is.
LEMMA PatternFacts ==
    ASSUME TypeOK, TaskInv, NEW t \in Callers, PatternCall(t)
    PROVE  /\ t \in Busy <=> task[t].kind # "none"
           /\ t \in Busy <=> task[t].pc # "none"
           /\ task[t].pc = "reading" => task[t].kind = "aside"
           /\ task[t].pc = "fetch" => task[t].kind = "aside"
           /\ task[t].pc = "source" => task[t].kind = "through"
           /\ task[t].pc = "storing" => task[t].kind \in {"aside", "through", "behind"}
           /\ task[t].pc \in {"invalidate", "invalidating"} => task[t].kind = "event"
           /\ role = "entity" /\ Active(t) => t \in Busy
<1>1. task[t].pc = "none" <=> task[t].kind = "none"
  <2>1. task[t].kind = "none" => task[t].pc = "none"
    BY DEF TaskInv, TaskOK, NoTask
  <2>2. task[t].kind # "none" => task[t].pc # "none"
    BY TaskTypes DEF TaskInv, TaskOK, Kinds, EntityKinds, LockKinds
  <2> QED
    BY <2>1, <2>2
<1>2. task[t].pc \in {"reading", "fetch", "source", "storing", "invalidate", "invalidating"} => task[t].kind \in EntityKinds
  BY TaskTypes
<1> QED
  BY <1>1, <1>2 DEF PatternCall, EntityKinds, Busy

\* The entry is kept, or is gone, or was overwritten with what counts as none.
Weaker == entry' \in {entry, NoEntry} \/ entry'.val \in Special \/ SameValue

LEMMA WeakerIsGood ==
    ASSUME Weaker, backend' = backend, text' = text
    PROVE  /\ Good(source) /\ source' = source => Good(source)'
           /\ \A v : Good(v) => entry' = NoEntry \/ entry'.val \in Forms(v) \/ entry'.val \in Special'
           /\ entry = NoEntry \/ entry.val \in Special => entry' = NoEntry \/ entry'.val \in Special'
BY DEF Weaker, Good, Special, Forms, SameValue

\* Only t has taken a step, of its pattern: the entry is what it was.
LEMMA Following ==
    ASSUME TypeOK, TaskInv, Followed, NEW t \in Callers, UNCHANGED <<entry, handles, backend, text>>,
           \A u \in Callers \ {t} : call'[u] = call[u] /\ task'[u] = task[u],
           behind = {}, behind' = {},
           source' = source \/ Busy \subseteq {t},
           \/ Busy \subseteq {t}
           \/ task'[t].kind \in {"none", "aside"} /\ \A u \in Busy : task[u].kind = "aside",
           t \in Busy' => PatternOK(t)',
           Busy' = {} => Good(source)',
           Owner(t) => Owner(t)'
    PROVE  Followed'
<1>b. \A u \in Callers \ {t} : u \in Busy' <=> u \in Busy
  BY DEF Busy
<1>1. \A u, v \in Busy' : u # v => task'[u].kind = "aside"
  BY <1>b DEF Busy
<1>2. \A u \in Busy' : PatternOK(u)'
  <2>1. ASSUME NEW u \in Busy', u # t PROVE PatternOK(u)'
    <3>1. u \in Busy /\ u \in Callers /\ source' = source /\ task'[u] = task[u] /\ call'[u] = call[u]
      BY <1>b, <2>1 DEF Busy
    <3>2. PatternOK(u)
      BY <3>1 DEF Followed
    <3> QED
      BY <3>1, <3>2 DEF PatternOK, Storing, Good, Special, Forms, Opened, Succeeded
  <2> QED
    BY <2>1
<1>3. \A u \in Callers : Owner(u) => Owner(u)'
  BY DEF Owner, Opened
<1> QED
  BY <1>1, <1>2, <1>3 DEF Followed

\* A pattern begins while the others, if any, only read.
LEMMA StartsAlone ==
    ASSUME TypeOK, NEW t \in Callers, NEW k, NEW l, Start(t, k, l), tainted' = {}
    PROVE  /\ tainted = {} /\ behind = {} /\ t \notin Busy
           /\ \A u \in Busy : task[u].kind = "aside"
           /\ k # "aside" => Busy = {}
<1>1. Free(t)
  BY DEF Start
<1>2. ~(\/ \E u \in Busy : k # "aside" \/ task[u].kind # "aside"
        \/ behind # {})
  BY DEF Start
<1>3. tainted = {}
  BY <1>2 DEF Start
<1> QED
  BY <1>1, <1>2, <1>3 DEF Free, NoTask, Busy

\* What write_behind stores is a number like any other.
LEMMA BehindStores ==
    ASSUME TypeOK, role = "entity", NEW t \in Callers, Behind(t), last' \in Values
    PROVE  \E v \in Storable : v = (IF text THEN Quoted(last') ELSE last') /\ Begin(t, "set", v)
<1>1. MaxVersion \in Nat /\ Storable = Nat /\ last' \in Nat
  BY VersionsAssumption, ValuesAssumption, FS_CardinalityType DEF MaxVersion, Storable
<1>q. Quoted(last') = MaxVersion + last'
  BY DEF Quoted
<1>a. \A m, n \in Nat : m + n \in Nat
  OBVIOUS
<1>s. MaxVersion + last' \in Nat
  BY <1>1, <1>a
<1>2. (IF text THEN Quoted(last') ELSE last') \in Storable
  BY <1>1, <1>q, <1>s
<1> QED
  BY <1>2 DEF Behind

LEMMA Starts ==
    ASSUME TypeOK, TaskInv, CallGroup, SourceInv, role = "entity", UNCHANGED fixed, NEW t \in Callers,
           AsideRead(t) \/ Through(t) \/ Behind(t) \/ SourceChanges(t)
    PROVE  PatternCall(t)' /\ (tainted' = {} => Followed')
<1> USE DEF Kinds, TaskPCs
<1>k. NoValue \in Storable /\ {"get", "set"} \subseteq OpsIn(role)
  BY NoValueType, OpsInRole DEF EntityOps
<1>p. \A u \in Callers : PatternCall(u)
  BY DEF SourceInv
<1>f. UNCHANGED <<backend, role, text>>
  BY DEF fixed
<1>o. ASSUME tainted' = {}, NEW k, NEW l, Start(t, k, l) PROVE Followed /\ (Owner(t) => Owner(t)')
  BY <1>o, StartsAlone DEF SourceInv, Owner, Busy
<1>g. ASSUME tainted' = {}, NEW k, NEW l, Start(t, k, l) PROVE Good(source)
  <2>1. Followed /\ behind = {} /\ \A u \in Busy : task[u].kind = "aside"
    BY <1>g, <1>o, StartsAlone
  <2>2. CASE Busy = {}
    BY <2>1, <2>2 DEF Followed
  <2>3. ASSUME NEW u \in Busy PROVE Good(source)
    BY <2>1, <2>3 DEF Followed, PatternOK
  <2> QED
    BY <2>2, <2>3
<1>1. CASE AsideRead(t)
  <2>1. /\ TaskMoves(t) /\ task'[t].kind = "aside" /\ task'[t].pc = "reading"
        /\ Start(t, "aside", "reading") /\ UNCHANGED <<source, behind>>
    BY <1>1, TaskStarts DEF AsideRead
  <2>2. /\ call'[t].pc = "called" /\ call'[t].op = "get" /\ UNCHANGED <<entry, handles>>
        /\ \A u \in Callers \ {t} : call'[u] = call[u]
    BY <1>1, <1>k, Beginning DEF AsideRead, store
  <2>3. PatternCall(t)'
    BY <2>1, <2>2 DEF PatternCall, Forms, Active
  <2>4. ASSUME tainted' = {} PROVE Followed'
    <3>1. Followed /\ Good(source) /\ (Owner(t) => Owner(t)')
      BY <2>1, <2>4, <1>o, <1>g
    <3>2. Good(source)'
      BY <3>1, <2>1, <2>2, <1>f DEF Good, Special, Forms
    <3>3. PatternOK(t)'
      BY <3>2, <2>1, <2>2 DEF PatternOK
    <3>4. behind = {} /\ \A u \in Busy : task[u].kind = "aside"
      BY <2>1, <2>4, StartsAlone
    <3> QED
      BY <1>f, <2>1, <2>2, <3>1, <3>2, <3>3, <3>4, Following DEF TaskMoves
  <2> QED
    BY <2>3, <2>4
<1>2. CASE Through(t) \/ SourceChanges(t)
  <2>1. PICK k \in {"through", "event"}, l \in {"source", "invalidate"} :
          /\ Start(t, k, l) /\ (k = "through" <=> l = "source")
          /\ k = "through" => source' = source
          /\ UNCHANGED <<cacheVars, behind>>
    BY <1>2 DEF Through, SourceChanges
  <2>2. TaskMoves(t) /\ task'[t].kind = k /\ task'[t].pc = l /\ Free(t)
    BY <2>1, TaskStarts
  <2>3. UNCHANGED <<entry, handles, call>> /\ call[t].pc = "idle"
    BY <2>1, <2>2 DEF cacheVars, store, Free
  <2>4. PatternCall(t)'
    BY <2>1, <2>2, <2>3 DEF PatternCall, Forms, Active
  <2>5. ASSUME tainted' = {} PROVE Followed'
    <3>1. Followed /\ Good(source) /\ (Owner(t) => Owner(t)')
      BY <2>1, <2>5, <1>o, <1>g
    <3>2. k = "through" => Good(source)'
      BY <3>1, <2>1, <2>3, <1>f DEF Good, Special, Forms
    <3>3. PatternOK(t)'
      BY <3>2, <2>1, <2>2, <2>3 DEF PatternOK
    <3>4. behind = {} /\ Busy = {}
      BY <2>1, <2>5, StartsAlone
    <3>5. t \in Busy'
      BY <2>2 DEF Busy
    <3> QED
      BY <1>f, <2>1, <2>2, <2>3, <3>1, <3>2, <3>3, <3>4, <3>5, Following DEF TaskMoves
  <2> QED
    BY <2>4, <2>5
<1>3. CASE Behind(t)
  <2>1. /\ TaskMoves(t) /\ task'[t].kind = "behind" /\ task'[t].pc = "storing"
        /\ task'[t].val = last' /\ last' \in Values
        /\ Start(t, "behind", "storing") /\ UNCHANGED <<source, behind>>
    BY <1>3, TaskStarts DEF Behind
  <2>v. PICK v \in Storable : v = (IF text THEN Quoted(last') ELSE last') /\ Begin(t, "set", v)
    BY <1>3, <2>1, BehindStores
  <2>2. /\ call'[t].pc = "called" /\ call'[t].op = "set" /\ call'[t].arg \in Forms(task[t].val)'
        /\ UNCHANGED <<entry, handles>>
        /\ \A u \in Callers \ {t} : call'[u] = call[u]
    <3>1. /\ call'[t].pc = "called" /\ call'[t].op = "set" /\ call'[t].arg = v /\ UNCHANGED store
          /\ \A u \in Callers \ {t} : call'[u] = call[u]
      BY <1>k, <2>v, Beginning
    <3>2. v \in Forms(task[t].val)'
      BY <1>f, <2>1, <2>v DEF Forms
    <3> QED
      BY <3>1, <3>2 DEF store
  <2>3. PatternCall(t)'
    BY <2>1, <2>2 DEF PatternCall, Forms, Active
  <2>4. ASSUME tainted' = {} PROVE Followed'
    <3>1. Followed /\ (Owner(t) => Owner(t)')
      BY <2>1, <2>4, <1>o
    <3>3. PatternOK(t)'
      BY <2>1, <2>2 DEF PatternOK, Storing, Succeeded, Opened
    <3>4. behind = {} /\ Busy = {}
      BY <2>1, <2>4, StartsAlone
    <3>5. t \in Busy'
      BY <2>1 DEF Busy
    <3> QED
      BY <1>f, <2>1, <2>2, <3>1, <3>3, <3>4, <3>5, Following DEF TaskMoves
  <2> QED
    BY <2>3, <2>4
<1> QED
  BY <1>1, <1>2, <1>3

\* A pattern that runs is alone, or all of them read.
LEMMA Running ==
    ASSUME TypeOK, Followed, NEW t \in Busy
    PROVE  /\ behind = {} /\ PatternOK(t)
           /\ task[t].kind = "aside" => \A u \in Busy : task[u].kind = "aside"
           /\ task[t].kind # "aside" => Busy \subseteq {t}
BY DEF Followed

\* A pattern ends, and what it leaves is the version of the source.
LEMMA Ends ==
    ASSUME TypeOK, TaskInv, Followed, NEW t \in Busy, Finish(t), UNCHANGED <<entry, handles, backend, text, call, source>>,
           behind' = {}, Good(source), ~Owner(t)
    PROVE  Followed'
<1>1. TaskMoves(t) /\ task'[t] = NoTask /\ t \in Callers
  BY TaskEnds DEF TaskTypeOK, TypeOK, Busy
<1>2. task'[t].kind = "none" /\ t \notin Busy'
  BY <1>1 DEF NoTask, Busy
<1>3. Good(source)'
  BY DEF Good, Special, Forms
<1> QED
  BY <1>1, <1>2, <1>3, Running, Following DEF TaskMoves

\* What a step of a pattern leaves: its call, and the source.
PatternMoves(t) ==
    /\ PatternCall(t)' /\ \A u \in Callers \ {t} : call'[u] = call[u] /\ task'[u] = task[u]
    /\ tainted' = {} => Followed'

LEMMA Finishes ==
    ASSUME TypeOK, TaskInv, CallGroup, NEW t \in Callers, Finish(t), UNCHANGED call, call[t].pc = "idle"
    PROVE  /\ PatternCall(t)'
           /\ \A u \in Callers \ {t} : call'[u] = call[u] /\ task'[u] = task[u]
<1>1. TaskMoves(t) /\ task'[t] = NoTask
  BY TaskEnds DEF TaskTypeOK, TypeOK
<1> QED
  BY <1>1 DEF TaskMoves, PatternCall, Forms, NoTask, Active

\* A value is stored for the pattern of t.
LEMMA Stores ==
    ASSUME TypeOK, TaskInv, CallGroup, role = "entity", NEW t \in Callers, NEW v \in Values, StoreInCache(t, v)
    PROVE  /\ task'[t].pc = "storing" /\ task'[t].val = v /\ task'[t].kind = task[t].kind
           /\ call'[t].pc = "called" /\ call'[t].op = "set" /\ call'[t].arg = v
           /\ \A u \in Callers \ {t} : call'[u] = call[u] /\ task'[u] = task[u]
           /\ UNCHANGED <<fixed, entry, handles>> /\ call[t].pc = "idle"
<1>1. "set" \in OpsIn(role)
  BY OpsInRole DEF EntityOps
<1>2. Begin(t, "set", v) /\ task' = [task EXCEPT ![t].pc = "storing", ![t].val = v]
  BY DEF StoreInCache
<1>3. task \in [Callers -> [kind : Kinds, pc : TaskPCs, val : 0..MaxVersion]]
  BY DEF TypeOK
<1>4. /\ task'[t].pc = "storing" /\ task'[t].val = v /\ task'[t].kind = task[t].kind
      /\ \A u \in Callers \ {t} : task'[u] = task[u]
  BY <1>2, <1>3
<1>5. /\ call'[t].pc = "called" /\ call'[t].op = "set" /\ call'[t].arg = v /\ call[t].pc = "idle"
      /\ \A u \in Callers \ {t} : call'[u] = call[u]
      /\ UNCHANGED <<fixed, store, token>>
  BY <1>1, <1>2, Beginning, NoValueType
<1> QED
  BY <1>4, <1>5 DEF store

LEMMA Moves ==
    ASSUME TypeOK, TaskInv, CallGroup, SourceInv, role = "entity", UNCHANGED fixed, NEW t \in Callers, EntityStep(t)
    PROVE  PatternMoves(t)
<1>f. UNCHANGED <<backend, role, text>>
  BY DEF fixed
<1>p. PatternCall(t) /\ (tainted = {} => Followed)
  BY DEF SourceInv
<1>b. /\ t \in Busy <=> task[t].pc # "none"
      /\ task[t].pc = "reading" => task[t].kind = "aside"
      /\ task[t].pc = "fetch" => task[t].kind = "aside"
      /\ task[t].pc = "source" => task[t].kind = "through"
      /\ task[t].pc = "storing" => task[t].kind \in {"aside", "through", "behind"}
      /\ task[t].pc \in {"invalidate", "invalidating"} => task[t].kind = "event"
  BY <1>p, PatternFacts
<1>t. TaskTypeOK
  BY DEF TypeOK, TaskTypeOK
<1>1. CASE AsideAnswered(t)
  <2>1. /\ task[t].pc = "reading" /\ call[t].pc = "idle" /\ tainted' = tainted
        /\ UNCHANGED <<entry, handles, call, source, behind>>
    BY <1>1 DEF AsideAnswered, Returned, cacheVars, store
  <2>2. ~Owner(t) /\ t \in Busy /\ (tainted' = {} => Followed /\ Good(source) /\ behind = {})
    BY <1>p, <1>b, <2>1, Running DEF Owner, PatternOK
  <2>3. CASE Finish(t)
    BY <1>f, <2>1, <2>2, <2>3, Ends, Finishes DEF PatternMoves
  <2>4. CASE Go(t, "fetch")
    <3>1. TaskMoves(t) /\ task'[t].kind = "aside" /\ task'[t].pc = "fetch"
      BY <1>t, <1>b, <2>1, <2>4, TaskGoes DEF TaskPCs
    <3>2. PatternCall(t)'
      BY <2>1, <3>1 DEF PatternCall, Forms, Active
    <3>3. ASSUME tainted' = {} PROVE Followed'
      <4>1. Good(source)'
        BY <1>f, <2>1, <2>2, <3>3 DEF Good, Special, Forms
      <4>2. PatternOK(t)'
        BY <3>1, <4>1 DEF PatternOK
      <4> QED
        BY <1>b, <1>f, <2>1, <2>2, <3>1, <3>3, <4>1, <4>2, Running, Following DEF TaskMoves
    <3> QED
      BY <2>1, <3>1, <3>2, <3>3 DEF PatternMoves, TaskMoves
  <2> QED
    BY <1>1, <2>3, <2>4 DEF AsideAnswered
<1>2. CASE AsideFetch(t)
  <2>1. task[t].pc = "fetch" /\ call[t].pc = "idle" /\ tainted' = tainted /\ UNCHANGED <<source, behind>>
    BY <1>2 DEF AsideFetch
  <2>2. ~Owner(t) /\ t \in Busy /\ (tainted' = {} => Followed /\ Good(source) /\ behind = {})
    BY <1>p, <1>b, <2>1, Running DEF Owner, PatternOK
  <2>3. CASE Finish(t) /\ UNCHANGED cacheVars
    BY <1>f, <2>1, <2>2, <2>3, Ends, Finishes DEF PatternMoves, cacheVars, store
  <2>4. CASE source # 0 /\ StoreInCache(t, source)
    <3>1. source \in Values
      BY <2>4, VersionsAssumption, TaskTypes DEF TypeOK
    <3>2. /\ task'[t].pc = "storing" /\ task'[t].val = source /\ task'[t].kind = "aside"
          /\ call'[t].pc = "called" /\ call'[t].op = "set" /\ call'[t].arg = source
          /\ \A u \in Callers \ {t} : call'[u] = call[u] /\ task'[u] = task[u]
          /\ UNCHANGED <<entry, handles>>
      BY <1>b, <2>1, <2>4, <3>1, Stores
    <3>3. PatternCall(t)'
      BY <3>2 DEF PatternCall, Forms
    <3>4. ASSUME tainted' = {} PROVE Followed'
      <4>1. Good(source)'
        BY <1>f, <2>1, <2>2, <3>2, <3>4 DEF Good, Special, Forms
      <4>2. PatternOK(t)'
        BY <2>1, <3>2, <4>1 DEF PatternOK
      <4> QED
        BY <1>b, <1>f, <2>1, <2>2, <3>2, <3>4, <4>1, <4>2, Running, Following
    <3> QED
      BY <3>2, <3>3, <3>4 DEF PatternMoves
  <2> QED
    BY <1>2, <2>3, <2>4 DEF AsideFetch
<1>3. CASE ThroughSource(t)
  <2>1. task[t].pc = "source" /\ call[t].pc = "idle" /\ tainted' = tainted /\ UNCHANGED behind
    BY <1>3 DEF ThroughSource
  <2>2. ~Owner(t) /\ t \in Busy /\ (tainted' = {} => Followed /\ Good(source) /\ behind = {} /\ Busy \subseteq {t})
    BY <1>p, <1>b, <2>1, Running DEF Owner, PatternOK
  <2>3. CASE Finish(t) /\ UNCHANGED <<cacheVars, source>>
    BY <1>f, <2>1, <2>2, <2>3, Ends, Finishes DEF PatternMoves, cacheVars, store
  <2>4. CASE source' = task[t].val /\ StoreInCache(t, task[t].val)
    <3>1. task[t].val \in Values
      BY <1>b, <2>1 DEF TaskInv, TaskOK
    <3>2. /\ task'[t].pc = "storing" /\ task'[t].val = source' /\ task'[t].kind = "through"
          /\ call'[t].pc = "called" /\ call'[t].op = "set" /\ call'[t].arg = task[t].val
          /\ \A u \in Callers \ {t} : call'[u] = call[u] /\ task'[u] = task[u]
          /\ UNCHANGED <<entry, handles>>
      BY <1>b, <2>1, <2>4, <3>1, Stores
    <3>3. PatternCall(t)'
      BY <2>4, <3>2 DEF PatternCall, Forms
    <3>4. ASSUME tainted' = {} PROVE Followed'
      <4>1. PatternOK(t)'
        BY <3>2 DEF PatternOK, Storing, Succeeded, Opened
      <4>2. t \in Busy'
        BY <3>2 DEF Busy
      <4> QED
        BY <1>f, <2>1, <2>2, <3>2, <3>4, <4>1, <4>2, Following
    <3> QED
      BY <3>2, <3>3, <3>4 DEF PatternMoves
  <2> QED
    BY <1>3, <2>3, <2>4 DEF ThroughSource
<1>4. CASE Stored(t)
  <2>1. /\ task[t].pc = "storing" /\ call[t].pc = "idle" /\ Finish(t)
        /\ UNCHANGED <<entry, handles, call, source>>
        /\ tainted' = {} => call[t].res # "Err" /\ tainted = {}
        /\ behind' = IF task[t].kind = "behind" /\ call[t].res # "Err"
                     THEN behind \union {task[t].val} ELSE behind
    BY <1>4 DEF Stored, Returned, Failed, cacheVars, store
  <2>2. PatternCall(t)' /\ \A u \in Callers \ {t} : call'[u] = call[u] /\ task'[u] = task[u]
    BY <2>1, Finishes
  <2>3. ASSUME tainted' = {} PROVE Followed'
    <3>1. Followed /\ t \in Busy /\ ~Owner(t) /\ behind = {} /\ PatternOK(t) /\ Succeeded(t)
      BY <1>p, <1>b, <2>1, <2>3, Running DEF Owner, Opened, Succeeded
    <3>2. CASE task[t].kind \in {"aside", "through"}
      <4>1. Good(source) /\ behind' = {}
        BY <2>1, <3>1, <3>2 DEF PatternOK, Storing
      <4> QED
        BY <1>f, <2>1, <3>1, <4>1, Ends
    <3>3. CASE task[t].kind = "behind"
      <4>1. Good(task[t].val) /\ behind' = {task[t].val} /\ Busy \subseteq {t}
        BY <2>1, <2>3, <3>1, <3>3, Running DEF PatternOK, Storing
      <4>2. \A v \in behind' : Good(v)'
        BY <1>f, <2>1, <4>1 DEF Good, Special, Forms
      <4>3. Busy' = {}
        <5>1. task'[t] = NoTask
          BY <1>t, <2>1, TaskEnds
        <5> QED
          BY <2>2, <4>1, <5>1 DEF Busy, NoTask
      <4>4. backend = "file" /\ entry # NoEntry => entry.val # Empty
        BY <3>1, <4>1 DEF Followed, Owner, Busy
      <4> QED
        BY <1>f, <2>1, <4>1, <4>2, <4>3, <4>4 DEF Followed
    <3> QED
      BY <1>b, <2>1, <3>2, <3>3
  <2> QED
    BY <2>2, <2>3 DEF PatternMoves
<1>5. CASE InvalidateKey(t)
  <2>1. task[t].pc = "invalidate" /\ Begin(t, "delete", NoValue) /\ Go(t, "invalidating") /\ UNCHANGED <<source, behind, tainted>>
    BY <1>5 DEF InvalidateKey
  <2>2. TaskMoves(t) /\ task'[t].pc = "invalidating" /\ task'[t].kind = "event"
    BY <1>t, <1>b, <2>1, TaskGoes DEF TaskPCs
  <2>3. /\ call'[t].pc = "called" /\ call'[t].op = "delete" /\ UNCHANGED <<entry, handles>> /\ call[t].pc = "idle"
        /\ \A u \in Callers \ {t} : call'[u] = call[u]
    BY <2>1, Beginning, OpsInRole, NoValueType DEF EntityOps, store
  <2>4. PatternCall(t)'
    BY <2>2, <2>3 DEF PatternCall, Forms
  <2>5. ASSUME tainted' = {} PROVE Followed'
    <3>1. Followed /\ t \in Busy /\ ~Owner(t) /\ behind = {} /\ Busy \subseteq {t}
      BY <1>p, <1>b, <2>1, <2>3, <2>5, Running DEF Owner
    <3>2. PatternOK(t)'
      BY <2>2, <2>3 DEF PatternOK, Succeeded
    <3>3. t \in Busy'
      BY <2>2 DEF Busy
    <3> QED
      BY <1>f, <2>1, <2>2, <2>3, <3>1, <3>2, <3>3, Following DEF TaskMoves
  <2> QED
    BY <2>2, <2>3, <2>4, <2>5 DEF PatternMoves, TaskMoves
<1>6. CASE InvalidateVersion(t) \/ InvalidateType(t)
  <2>1. tainted' # {} /\ Finish(t) /\ call[t].pc = "idle" /\ UNCHANGED call
    BY <1>6 DEF InvalidateVersion, InvalidateType, cacheVars
  <2> QED
    BY <2>1, Finishes DEF PatternMoves
<1>7. CASE Invalidated(t)
  <2>1. /\ task[t].pc = "invalidating" /\ call[t].pc = "idle" /\ Finish(t)
        /\ UNCHANGED <<entry, handles, call, source, behind>>
        /\ tainted' = {} => call[t].res # "Err" /\ tainted = {}
    BY <1>7 DEF Invalidated, Returned, Failed, cacheVars, store
  <2>2. ASSUME tainted' = {} PROVE Followed'
    <3>1. Followed /\ t \in Busy /\ ~Owner(t) /\ behind = {} /\ Good(source)
      BY <1>p, <1>b, <2>1, <2>2, Running DEF Owner, PatternOK, Succeeded
    <3> QED
      BY <1>f, <2>1, <3>1, Ends
  <2> QED
    BY <2>1, <2>2, Finishes DEF PatternMoves
<1> QED
  BY <1>1, <1>2, <1>3, <1>4, <1>5, <1>6, <1>7 DEF EntityStep

\* The write of write_behind to the source, which no other is to overlap.
LEMMA Writes ==
    ASSUME TypeOK, SourceInv, role = "entity", UNCHANGED fixed, NEW v \in Values, BehindWrites(v), tainted' = {}
    PROVE  Followed'
<1>1. /\ v \in behind /\ behind' = behind \ {v} /\ behind' = {} /\ source' = v /\ tainted = {}
      /\ UNCHANGED <<entry, handles, call, task, backend, text>>
  BY DEF BehindWrites, cacheVars, store, fixed
<1>2. Followed /\ Busy = {} /\ Good(v)
  BY <1>1 DEF SourceInv, Followed
<1>3. Good(source)' /\ Busy' = {}
  BY <1>1, <1>2 DEF Good, Special, Forms, Busy
<1>4. backend = "file" /\ entry # NoEntry => entry.val # Empty
  BY <1>2 DEF Followed, Owner, Busy
<1> QED
  BY <1>1, <1>3, <1>4 DEF Followed

\* The cache by itself: the calls and the patterns are where they were.
LEMMA Unmoved ==
    ASSUME TypeOK, Followed, Weaker, UNCHANGED <<backend, text, call, task, source, behind>>,
           entry' # NoEntry /\ entry'.val = Empty => SameValue,
           entry' = NoEntry \/ UNCHANGED handles
    PROVE  Followed'
<1>1. Busy' = Busy
  BY DEF Busy
<1>2. \A t \in Busy : PatternOK(t)'
  BY WeakerIsGood DEF Followed, PatternOK, Storing, Good, Forms, Opened, Succeeded
<1>3. entry' # NoEntry => \A t \in Callers : Owner(t) => Owner(t)'
  BY DEF Owner, Opened
<1>4. \A x \in behind : Good(x)'
  BY WeakerIsGood DEF Followed, Good, Forms
<1> QED
  BY <1>1, <1>2, <1>3, <1>4, WeakerIsGood DEF Followed, SameValue

\* A caller crashes: nothing of what it stored is lost.
LEMMA CrashFollows ==
    ASSUME TypeOK, CallGroup, Followed, NEW t \in Callers, Crash(t), UNCHANGED <<backend, text, task, source, behind>>
    PROVE  Followed'
<1>1. /\ call'[t].pc = "crashed" /\ entry' = entry /\ handles' = handles \ {t}
      /\ \A u \in Callers \ {t} : call'[u] = call[u]
  BY Crashing DEF Crash
<1>2. Busy' = Busy
  BY DEF Busy
<1>3. \A u \in Busy : PatternOK(u)'
  <2>1. ASSUME NEW u \in Busy, u # t PROVE PatternOK(u)'
    BY <1>1, <2>1 DEF Busy, Followed, PatternOK, Storing, Good, Special, Forms, Opened, Succeeded
  <2>2. t \in Busy => PatternOK(t)'
    BY <1>1 DEF Followed, PatternOK, Storing, Good, Special, Forms, Opened, Succeeded
  <2> QED
    BY <2>1, <2>2
<1>4. \A u \in Callers : Owner(u) => Owner(u)'
  BY <1>1 DEF Owner, Opened
<1>5. \A x \in behind : Good(x)'
  BY <1>1 DEF Followed, Good, Special, Forms
<1>6. Good(source) => Good(source)'
  BY <1>1 DEF Good, Special, Forms
<1> QED
  BY <1>1, <1>2, <1>3, <1>4, <1>5, <1>6 DEF Followed

\* The call of a pattern takes a step.
LEMMA CallFollows ==
    ASSUME TypeOK, TaskInv, CallGroup, Followed, role = "entity", UNCHANGED fixed, NEW t \in Callers,
           \A u \in Callers : PatternCall(u), Step(t), UNCHANGED <<task, source, behind>>
    PROVE  Followed'
<1>f. UNCHANGED <<backend, role, text>>
  BY DEF fixed
<1>1. /\ EntityEffect(t) /\ CallGoes(t) /\ Active(t) /\ (backend = "file" => FileEffect(t))
      /\ \A u \in Callers \ {t} : call'[u] = call[u]
  BY EntitySteps, DataSteps, DataCalls DEF DataCall, CallGoes
<1>2. /\ task[t].pc = "reading" => task[t].kind = "aside"
      /\ task[t].pc = "storing" => task[t].kind \in {"aside", "through", "behind"}
      /\ task[t].pc = "invalidating" => task[t].kind = "event"
      /\ t \in Busy
  BY <1>1, PatternFacts
<1>3. /\ behind = {} /\ PatternOK(t)
      /\ task[t].kind = "aside" => \A u \in Busy : task[u].kind = "aside"
      /\ task[t].kind # "aside" => Busy \subseteq {t}
  BY <1>2, Running
<1>4. Busy' = Busy
  BY DEF Busy
<1>g. ASSUME PatternOK(t)', task[t].kind = "aside" => Good(source)',
             backend = "file" /\ entry' # NoEntry /\ entry'.val = Empty => \E u \in Callers : Owner(u)'
      PROVE  Followed'
  <2>1. ASSUME NEW u \in Busy, u # t PROVE PatternOK(u)'
    <3>1. u \in Callers /\ task[u].kind = "aside" /\ task[t].kind = "aside" /\ PatternOK(u)
      BY <1>3, <2>1 DEF Busy, Followed
    <3>2. task[u].pc # "invalidating"
      BY <3>1 DEF PatternCall, Forms
    <3> QED
      BY <1>g, <3>1, <3>2 DEF PatternOK
  <2> QED
    BY <1>f, <1>g, <1>2, <1>3, <1>4, <2>1 DEF Followed
<1>w. ASSUME NEW u \in Callers, u # t, Owner(u), handles \ {t} \subseteq handles' PROVE Owner(u)'
  BY <1>1, <1>w DEF Owner, Opened
<1>5. CASE task[t].pc = "reading"
  <2>1. call[t].op = "get" /\ task[t].kind = "aside"
    BY <1>1, <1>2, <1>5 DEF PatternCall, Forms
  <2>2. entry' \in {entry, NoEntry}
    BY <1>1, <2>1 DEF EntityEffect, DataEffect, DataWrites
  <2>3. Good(source)'
    BY <1>f, <1>3, <2>1, <2>2, WeakerIsGood DEF Weaker, PatternOK
  <2>4. PatternOK(t)'
    BY <1>5, <2>1, <2>3 DEF PatternOK
  <2>5. ASSUME backend = "file", entry' # NoEntry, entry'.val = Empty PROVE \E u \in Callers : Owner(u)'
    <3>1. entry' = entry /\ handles \ {t} \subseteq handles'
      BY <1>1, <2>2, <2>5 DEF FileEffect
    <3>2. PICK u \in Callers : Owner(u)
      BY <2>5, <3>1 DEF Followed
    <3>3. u # t
      BY <1>1, <1>5, <3>2 DEF Owner, Active
    <3> QED
      BY <1>w, <3>1, <3>2, <3>3
  <2> QED
    BY <1>g, <2>3, <2>4, <2>5
<1>6. CASE task[t].pc = "storing"
  <2>1. call[t].op = "set" /\ call[t].arg \in Forms(task[t].val)
    BY <1>1, <1>6 DEF PatternCall, Forms
  <2>2. entry' \in {entry, NoEntry} \/ entry'.val \in Forms(task[t].val) \union Special \/ SameValue
    BY <1>1, <2>1 DEF EntityEffect, DataEffect
  <2>3. task[t].kind = "aside" => Good(source)'
    <3>1. CASE Weaker
      BY <1>f, <1>3, <3>1, WeakerIsGood DEF PatternOK
    <3>2. CASE entry'.val \in Forms(task[t].val)
      BY <1>f, <1>3, <1>6, <3>2 DEF PatternOK, Good, Forms
    <3> QED
      BY <2>2, <3>1, <3>2 DEF Weaker
  <2>4. Storing(t) => Storing(t)'
    <3>1. ASSUME Storing(t), Succeeded(t)' PROVE Good(task[t].val)'
      <4>1. Succeeds(t)
        BY <1>1, <2>1, <3>1 DEF EntityEffect, Succeeded, Succeeds
      <4>2. CASE entry'.val \in Forms(task[t].val) \union Special
        BY <1>f, <4>2 DEF Good, Special, Forms
      <4>3. CASE backend = "file" /\ call[t].pc = "flocked" /\ entry' = entry
        BY <1>f, <3>1, <4>3 DEF Storing, Opened, Good, Special, Forms
      <4>4. DataEffect(t) /\ ~At(t, "expire", {"set_nx"}) /\ call[t].op \in DataWrites
        BY <1>1, <2>1 DEF EntityEffect, At, DataWrites
      <4> QED
        BY <2>1, <4>1, <4>2, <4>3, <4>4 DEF DataEffect
    <3>2. ASSUME Storing(t), backend = "file", Opened(t)' PROVE entry' = NoEntry \/ entry'.val \in Special'
      <4>1. FileSetEffect(t)
        BY <2>1, <3>2, FileSetSteps
      <4>2. CASE call'[t].pc = "opened"
        BY <1>f, <3>2, <4>1, <4>2 DEF FileSetEffect, Special
      <4>3. CASE call'[t].pc = "flocked"
        BY <1>f, <3>2, <4>1, <4>3 DEF FileSetEffect, Special, Storing, Opened
      <4> QED
        BY <3>2, <4>2, <4>3 DEF Opened
    <3> QED
      BY <1>f, <3>1, <3>2 DEF Storing
  <2>5. PatternOK(t)'
    BY <1>3, <1>6, <2>3, <2>4 DEF PatternOK
  <2>6. ASSUME backend = "file", entry' # NoEntry, entry'.val = Empty PROVE \E u \in Callers : Owner(u)'
    <3>1. FileSetEffect(t)
      BY <2>1, <2>6, FileSetSteps
    <3>2. CASE call'[t].pc = "opened"
      BY <1>2, <1>6, <3>1, <3>2 DEF FileSetEffect, Owner, Opened, Busy
    <3>3. CASE entry' = entry
      <4>1. PICK u \in Callers : Owner(u)
        BY <2>6, <3>3 DEF Followed
      <4>2. CASE u # t
        BY <1>w, <3>1, <4>1, <4>2 DEF FileSetEffect
      <4>3. CASE u = t
        <5>1. t \in handles /\ Opened(t) /\ task[t].kind # "none"
          BY <1>1, <4>1, <4>3 DEF Owner, Active
        <5>2. Owner(t)'
          BY <1>6, <2>6, <3>1, <3>2, <5>1 DEF FileSetEffect, Owner, Opened
        <5> QED
          BY <5>2
      <4> QED
        BY <4>2, <4>3
    <3> QED
      BY <2>6, <3>1, <3>2, <3>3 DEF FileSetEffect
  <2> QED
    BY <1>g, <2>3, <2>5, <2>6
<1>7. CASE task[t].pc = "invalidating"
  <2>1. call[t].op = "delete" /\ task[t].kind = "event"
    BY <1>1, <1>2, <1>7 DEF PatternCall, Forms
  <2>2. entry' \in {entry, NoEntry}
    BY <1>1, <2>1 DEF EntityEffect, DataEffect, DataWrites
  <2>3. PatternOK(t)'
    <3>1. Succeeded(t)' => Good(source)'
      BY <1>1, <2>1 DEF EntityEffect, Succeeded, Good, Forms
    <3> QED
      BY <2>1, <3>1 DEF PatternOK
  <2>4. ASSUME backend = "file", entry' # NoEntry, entry'.val = Empty PROVE \E u \in Callers : Owner(u)'
    <3>1. PICK u \in Callers : Owner(u)
      BY <2>2, <2>4 DEF Followed
    <3>2. u = t
      BY <1>3, <2>1, <3>1 DEF Owner, Busy
    <3> QED
      BY <1>1, <1>7, <3>1, <3>2 DEF Owner, Active
  <2> QED
    BY <1>g, <2>1, <2>3, <2>4
<1> QED
  BY <1>1, <1>5, <1>6, <1>7 DEF PatternCall, Forms

\* What the cache does by itself, and the calls that go on.
LEMMA UnpatternedFollows ==
    ASSUME TypeOK, TaskInv, CallGroup, SourceInv, role = "entity", UNCHANGED fixed, Unpatterned, tainted' = {},
           \/ \E t \in Callers : Step(t) \/ Crash(t) \/ LeaseEnds(t)
           \/ \E t \in Callers : ProxyAnswered(t)
           \/ Expire \/ Interference \/ OrchestratorDoes
    PROVE  Followed'
<1>0. UNCHANGED <<task, source, behind, backend, text>> /\ Busy' = Busy
  BY DEF Unpatterned, fixed, Busy
<1>1. CASE entry' = NoEntry /\ Busy = {} /\ behind = {}
  BY <1>0, <1>1 DEF Followed, Good, Forms
<1>2. CASE ~(entry' = NoEntry /\ Busy = {} /\ behind = {})
  <2>1. Followed /\ Quiet /\ \A t \in Callers : PatternCall(t)
    BY <1>2 DEF Unpatterned, SourceInv
  <2>2. ASSUME NEW t \in Callers, Step(t) PROVE Followed'
    BY <1>0, <2>1, <2>2, CallFollows
  <2>3. ASSUME NEW t \in Callers, Crash(t) PROVE Followed'
    BY <1>0, <2>1, <2>3, CrashFollows
  <2>4. ASSUME NEW t \in Callers, LeaseEnds(t) PROVE Followed'
    <3>1. UNCHANGED <<entry, handles, call>>
      BY <2>4 DEF LeaseEnds, store
    <3> QED
      BY <1>0, <2>1, <3>1, Unmoved DEF Weaker, SameValue
  <2>5. CASE Expire
    <3>1. UNCHANGED <<handles, call>> /\ entry # NoEntry /\ (entry' = NoEntry \/ entry' = [entry EXCEPT !.exp = TRUE])
      BY <2>5 DEF Expire, Live
    <3>2. entry' = [entry EXCEPT !.exp = TRUE] => entry' \in Entries /\ entry'.val = entry.val
      BY <3>1 DEF TypeOK, CallsTypeOK, Entries
    <3>3. entry' = NoEntry \/ SameValue
      BY <3>1, <3>2, ContentsAssumption DEF SameValue
    <3> QED
      BY <1>0, <2>1, <3>1, <3>3, Unmoved DEF Weaker
  <2>6. CASE Interference
    <3>1. /\ UNCHANGED call /\ (entry' = NoEntry \/ UNCHANGED handles)
          /\ entry' = NoEntry \/ (backend = "file" /\ entry'.val \in {Foreign, Mixed})
      BY <2>6 DEF Interference, MemoryCleanup, FileOtherKey, Orphans, Written, Drop
    <3> QED
      BY <1>0, <2>1, <3>1, Unmoved, ContentsAssumption DEF Weaker, Special
  <2>7. (\A t \in Callers : ~ProxyAnswered(t)) /\ ~OrchestratorDoes
    BY <2>1 DEF Quiet, ProxyAnswered, OrchestratorDoes
  <2> QED
    BY <2>2, <2>3, <2>4, <2>5, <2>6, <2>7
<1> QED
  BY <1>1, <1>2

\* The calls of the patterns stay theirs.
LEMMA CallsStay ==
    ASSUME TypeOK, TaskInv, CallGroup, role = "entity", \A u \in Callers : PatternCall(u), UNCHANGED task,
           UNCHANGED fixed,
           \/ \E t \in Callers : Step(t) \/ Crash(t) \/ ProxySend(t) \/ ProxyAnswered(t)
           \/ UNCHANGED call
    PROVE  \A u \in Callers : PatternCall(u)'
<1> USE DEF fixed
<1>1. ASSUME NEW t \in Callers, Step(t) \/ ProxySend(t) \/ ProxyAnswered(t)
      PROVE  \A u \in Callers : PatternCall(u)'
  <2>1. CallGoes(t)
    BY <1>1, StepTyped, Sending, Answering DEF StepGoes
  <2>2. PatternCall(t)'
    BY <2>1 DEF CallGoes, PatternCall, Forms, Active
  <2>3. ASSUME NEW u \in Callers, u # t PROVE PatternCall(u)'
    <3>1. call'[u] = call[u] /\ task'[u] = task[u] /\ text' = text
      BY <2>1, <2>3 DEF CallGoes
    <3> QED
      BY <3>1 DEF PatternCall, Forms, Active
  <2> QED
    BY <2>2, <2>3
<1>2. ASSUME NEW t \in Callers, Crash(t) PROVE \A u \in Callers : PatternCall(u)'
  <2>1. call'[t].pc = "crashed" /\ \A u \in Callers \ {t} : call'[u] = call[u]
    BY <1>2, Crashing
  <2> QED
    BY <2>1 DEF PatternCall, Forms, Active
<1>3. CASE UNCHANGED call
  BY <1>3 DEF PatternCall, Forms, Active
<1> QED
  BY <1>1, <1>2, <1>3

LEMMA StartsMove ==
    ASSUME TypeOK, CallGroup, role = "entity", NEW t \in Callers,
           AsideRead(t) \/ Through(t) \/ Behind(t) \/ SourceChanges(t)
    PROVE  \A u \in Callers \ {t} : call'[u] = call[u] /\ task'[u] = task[u]
<1> USE DEF Kinds, TaskPCs
<1>1. \E k \in Kinds, l \in TaskPCs : Start(t, k, l)
  BY DEF AsideRead, Through, Behind, SourceChanges
<1>2. TaskMoves(t) /\ last' \in 0..MaxVersion
  BY <1>1, TaskStarts
<1>3. CASE AsideRead(t)
  BY <1>2, <1>3, Beginning, NoValueType, OpsInRole DEF AsideRead, EntityOps, TaskMoves
<1>4. CASE Behind(t)
  <2>1. last' \in Values
    BY <1>4, TaskStarts DEF Behind
  <2>2. \E v \in Storable : Begin(t, "set", v)
    BY <1>4, <2>1, BehindStores
  <2> QED
    BY <1>2, <2>2, Beginning, OpsInRole DEF EntityOps, TaskMoves
<1>5. CASE Through(t) \/ SourceChanges(t)
  BY <1>2, <1>5 DEF Through, SourceChanges, cacheVars, TaskMoves
<1> QED
  BY <1>3, <1>4, <1>5

-----------------------------------------------------------------------------
(* The theorems.                                                           *)

LEMMA InitInv == Init => IInv
<1> SUFFICES ASSUME Init PROVE IInv
  OBVIOUS
<1>1. <<backend, role>> \in Uses /\ shared \in BOOLEAN
  <2>1. PICK u \in Uses : backend = u[1] /\ role = u[2]
    BY DEF Init, CallsInit
  <2>2. u \in Backends \X Roles
    BY UsesAssumption
  <2>3. u = <<backend, role>>
    BY <2>1, <2>2
  <2>4. shared \in CASE backend = "memory" -> {TRUE}
                      [] backend \in {"memcached", "proxy"} -> BOOLEAN
                      [] OTHER -> {FALSE}
    BY DEF Init, CallsInit
  <2>5. shared \in BOOLEAN
    BY <2>4
  <2> QED
    BY <2>3, <2>5
<1>2. /\ entry = NoEntry /\ mutex = NoOne /\ handles = {} /\ flock = NoOne
      /\ call = [t \in Callers |-> Ended("none", NoEntry)]
      /\ token = [t \in Callers |-> "none"] /\ orders = <<>> /\ text \in BOOLEAN
      /\ current = {} /\ allowed = [t \in Callers |-> {}] /\ crossed = {} /\ leased = {}
      /\ task = [t \in Callers |-> NoTask] /\ tries = [t \in Callers |-> 0]
      /\ source = 0 /\ last = 0 /\ behind = {} /\ tainted = {}
  BY DEF Init, CallsInit
<1>3. Ended("none", NoEntry) \in Call /\ Ended("none", NoEntry).pc = "idle"
  BY EndedFacts DEF NoneOr
<1>4. MaxVersion \in Nat /\ NoTask \in [kind : Kinds, pc : TaskPCs, val : 0..MaxVersion] /\ NoTask.pc = "none"
      /\ NoTask.kind = "none"
  BY VersionsAssumption, FS_CardinalityType DEF MaxVersion, NoTask, Kinds, TaskPCs
<1>5. CallsTypeOK
  <2>1. orders \in Seq(Orders)
    BY <1>2
  <2> QED
    BY <1>1, <1>2, <1>3, <2>1 DEF CallsTypeOK, Tokens
<1>6. TypeOK
  <2>1. backend \in Backends /\ MaxAttempts[backend] \in Nat \ {0}
    BY <1>1, UsesAssumption, AttemptsAssumption
  <2>2. 0 \in 0..(MaxAttempts[backend] - 1)
    BY <2>1
  <2> QED
    BY <1>2, <1>4, <1>5, <2>2 DEF TypeOK
<1>7. \A t \in Callers : ~Active(t) /\ call[t].pc = "idle"
  BY <1>2, <1>3 DEF Active
<1>8. OpsInv /\ SeenInv /\ EntryInv /\ LeaseInv /\ CountInv /\ CountsKept
  BY <1>2, <1>7 DEF OpsInv, SeenInv, SeenOK, At, EntryInv, LeaseInv, CountInv, CountsKept
<1>9. TaskInv
  BY <1>2, <1>4 DEF TaskInv, TaskOK, EntityKinds, LockKinds
<1>10. FreshInv
  <2>1. Writers = {} /\ RangeOf(orders) = {}
    BY <1>2, <1>7 DEF Writers, RangeOf
  <2> QED
    BY <1>2, <1>7, <2>1 DEF FreshInv
<1>11. OrdersInv
  <2>1. RangeOf(orders) = {}
    BY <1>2 DEF RangeOf
  <2> QED
    BY <1>2, <1>7, <2>1 DEF OrdersInv
<1> QED
  BY <1>6, <1>8, <1>9, <1>10, <1>11 DEF IInv

\* The steps of the patterns and of the calls, seen from the cache.
LEMMA InvGroups ==
    ASSUME IInv, [Next]_vars PROVE CallGroup /\ [CacheNext]_cacheVars
<1>1. TypeOK /\ TaskInv /\ CallGroup
  BY DEF IInv, CallGroup, TypeOK
<1>2. CASE Next
  BY <1>1, <1>2, CacheSteps
<1>3. CASE UNCHANGED vars
  BY <1>1, <1>3 DEF vars
<1> QED
  BY <1>1, <1>2, <1>3

LEMMA StepInv == IInv /\ [Next]_vars => IInv'
<1> SUFFICES ASSUME IInv, [Next]_vars PROVE IInv'
  OBVIOUS
<1>1. CallGroup /\ [CacheNext]_cacheVars
  BY InvGroups
<1>2. CallGroup'
  BY <1>1, CallsTyped
<1>3. LeaseInv' /\ CountInv' /\ CountsKept' /\ FreshInv'
  BY <1>1, LeasesKept, CountsGo, FreshKept DEF IInv
<1>4. /\ TaskTypeOK' /\ tries' \in [Callers -> 0..(MaxAttempts[backend] - 1)]
      /\ source' \in 0..MaxVersion /\ last' \in 0..MaxVersion
      /\ behind' \subseteq 1..MaxVersion /\ tainted' \subseteq Reasons
      /\ TaskInv'
  BY <1>1, TasksTyped DEF IInv
<1>5. backend' = backend
  BY <1>1, FixedStays DEF fixed
<1> QED
  BY <1>2, <1>3, <1>4, <1>5 DEF IInv, CallGroup, TypeOK, TaskTypeOK

\* Nor does a call meet another without a reason.
LEMMA StaysQuiet ==
    ASSUME TypeOK, TaskInv, CallGroup, SourceInv, role = "entity", Next, tainted' = {}
    PROVE  Quiet'
<1>c. call \in [Callers -> Call]
  BY DEF CallGroup, CallsTypeOK
<1>b. ASSUME NEW t, NEW o, NEW v, Begin(t, o, v)
      PROVE  orders' = orders /\ \A u \in Callers : call'[u] = call[u] \/ call'[u].pc # "sent"
  BY <1>b, <1>c DEF Begin, store
<1>q. ASSUME tainted = {}, orders' = orders, \A u \in Callers : call'[u] = call[u] \/ call'[u].pc # "sent"
      PROVE  Quiet'
  BY <1>q DEF SourceInv, Quiet
<1>s. ASSUME NEW t \in Callers, Step(t)
      PROVE  orders' = orders /\ \A u \in Callers : call'[u] = call[u] \/ call'[u].pc # "sent"
  <2>1. orders' = orders
    BY <1>s DEF Step
  <2>2. CASE backend # "proxy"
    <3>1. CallGoes(t)
      BY <1>s, StepTyped DEF StepGoes
    <3> QED
      BY <2>1, <2>2, <3>1 DEF CallGoes
  <2>3. CASE backend = "proxy" /\ ProxyStep(t)
    <3>1. \E r, g : Return(t, r, g)
      BY <2>3 DEF ProxyStep, ProxyGet, ProxyGetMany, ProxyExists, ProxySet, ProxySetMany, ProxyGetSet, ProxySetNx,
         ProxyIncrement, ProxyDelete, ProxyDeleteMany, ProxyClear, ProxyFlush, ProxyLock, ProxyUnlock
    <3> QED
      BY <1>c, <2>1, <3>1 DEF Return, Ended
  <2>4. CASE CallFails(t)
    BY <1>c, <2>1, <2>4 DEF CallFails, Ended
  <2> QED
    BY <1>s, <2>2, <2>3, <2>4 DEF Step
\* Where the differences are forgotten, no pattern runs, so that no call does.
<1>n. Unpatterned => tainted = {} \/ (orders' = <<>> /\ \A u \in Callers : ~Active(u))
  <2>1. Busy = {} => \A u \in Callers : ~Active(u)
    BY PatternFacts DEF SourceInv
  <2> QED
    BY <2>1 DEF Unpatterned
<1>u. ASSUME Unpatterned, orders' = orders, \A u \in Callers : call'[u] = call[u] \/ call'[u].pc # "sent"
      PROVE  Quiet'
  BY <1>n, <1>q, <1>u DEF Quiet, Active
<1>1. CASE (\E t \in Callers : CallGoesOn(t) \/ ProcessCrashes(t) \/ LeaseIsOver(t)) \/ TimePasses \/ OthersInterfere
  <2>1. ASSUME NEW t \in Callers, Crash(t)
        PROVE  orders' = orders /\ \A u \in Callers : call'[u] = call[u] \/ call'[u].pc # "sent"
    BY <2>1, Crashing DEF Crash
  <2>2. (\E t \in Callers : LeaseEnds(t)) \/ Expire \/ Interference => UNCHANGED <<orders, call>>
    BY DEF LeaseEnds, store, Expire, Interference, MemoryCleanup, FileOtherKey
  <2>3. Unpatterned
    BY <1>1 DEF CallGoesOn, ProcessCrashes, LeaseIsOver, TimePasses, OthersInterfere
  <2> QED
    BY <1>1, <1>s, <1>u, <2>1, <2>2, <2>3 DEF CallGoesOn, ProcessCrashes, LeaseIsOver, TimePasses, OthersInterfere
<1>2. ASSUME NEW t \in Callers, UseDirectly(t) \/ CallCrosses(t) \/ AnswerComes(t) PROVE FALSE
  <2>1. ~UseDirectly(t)
    BY OpsInRole DEF UseDirectly, Use
  <2>2. ~CallCrosses(t)
    BY DEF CallCrosses
  <2>3. ~AnswerComes(t)
    BY <1>n DEF AnswerComes, ProxyAnswered, SourceInv, Quiet, Active
  <2> QED
    BY <1>2, <2>1, <2>2, <2>3
<1>3. CASE OrderIsDone
  <2>1. tainted # {}
    BY <1>3 DEF OrderIsDone, OrchestratorDoes, SourceInv, Quiet
  <2> QED
    BY <1>3, <1>n, <2>1 DEF OrderIsDone, OrchestratorDoes, Quiet, Active
<1>4. CASE EntityNext
  <2>1. ASSUME NEW t \in Callers, NEW k, NEW l, Start(t, k, l) PROVE tainted = {}
    BY <2>1, StartsAlone
  <2>2. ASSUME NEW t \in Callers, AsideRead(t) \/ Through(t) \/ Behind(t) \/ SourceChanges(t) PROVE Quiet'
    <3>1. tainted = {}
      BY <2>1, <2>2 DEF AsideRead, Through, Behind, SourceChanges
    <3>2. UNCHANGED cacheVars \/ \E o, v : Begin(t, o, v)
      BY <2>2 DEF AsideRead, Through, Behind, SourceChanges
    <3> QED
      BY <1>b, <1>q, <3>1, <3>2 DEF cacheVars, store
  <2>3. ASSUME NEW t \in Callers, EntityStep(t) PROVE Quiet'
    <3>1. tainted = {}
      BY <2>3 DEF EntityStep, AsideAnswered, AsideFetch, ThroughSource, Stored, Failed, InvalidateKey,
         InvalidateVersion, InvalidateType, Invalidated
    <3>2. UNCHANGED <<orders, call>> \/ \E o, v : Begin(t, o, v)
      BY <2>3 DEF EntityStep, AsideAnswered, AsideFetch, ThroughSource, Stored, StoreInCache, InvalidateKey,
         InvalidateVersion, InvalidateType, Invalidated, cacheVars, store
    <3> QED
      BY <1>b, <1>q, <3>1, <3>2
  <2>4. ASSUME NEW v \in Values, BehindWrites(v) PROVE Quiet'
    BY <1>q, <2>4 DEF BehindWrites, cacheVars, store
  <2> QED
    BY <1>4, <2>2, <2>3, <2>4 DEF EntityNext
<1>5. CASE LockNext
  <2>1. PICK t \in Callers : role = "lock" \/ task[t].pc \in {"locking", "sleep", "inside", "unlocking"}
    BY <1>5 DEF LockNext, LockStep, ReleaseLock, LockAnswered, LockRetry, WithLockDone, ReleaseAnswered, AcquireLock,
       Returned
  <2> QED
    BY <2>1, TaskTypes
<1> QED
  BY <1>1, <1>2, <1>3, <1>4, <1>5 DEF Next

\* Nor does any step part an entry from its source without a reason.
LEMMA SourceSteps == ASSUME IInv, SourceInv, [Next]_vars PROVE SourceInv'
<1>0. TypeOK /\ TaskInv /\ CallGroup /\ CallGroup' /\ UNCHANGED fixed
  BY InvGroups, CallsTyped, FixedStays DEF IInv
<1>r. role' = role
  BY <1>0 DEF fixed
<1> SUFFICES ASSUME role = "entity"
             PROVE  (\A t \in Callers : PatternCall(t)') /\ (tainted' = {} => Followed')
  <2>1. CASE Next
    BY <1>0, <1>r, <2>1, StaysQuiet DEF SourceInv
  <2>2. CASE UNCHANGED vars
    <3>1. Quiet' <=> Quiet
      BY <2>2 DEF vars, cacheVars, store, Quiet
    <3> QED
      BY <1>r, <2>2, <3>1 DEF SourceInv, vars, patternVars
  <2> QED
    BY <2>1, <2>2
<1>p. \A t \in Callers : PatternCall(t)
  BY DEF SourceInv
<1>o. ASSUME NEW t \in Callers, \A u \in Callers \ {t} : call'[u] = call[u] /\ task'[u] = task[u], PatternCall(t)'
      PROVE  \A u \in Callers : PatternCall(u)'
  <2>1. ASSUME NEW u \in Callers, u # t PROVE PatternCall(u)'
    <3>1. call'[u] = call[u] /\ task'[u] = task[u] /\ text' = text
      BY <1>0, <1>o, <2>1 DEF fixed
    <3> QED
      BY <1>p, <3>1 DEF PatternCall, Forms, Active
  <2> QED
    BY <1>o, <2>1
<1>1. ASSUME NEW t \in Callers, UseDirectly(t) PROVE FALSE
  BY <1>1, OpsInRole DEF UseDirectly, Use
<1>2. CASE \/ \E t \in Callers : CallGoesOn(t) \/ ProcessCrashes(t) \/ LeaseIsOver(t) \/ AnswerComes(t)
           \/ TimePasses \/ OthersInterfere \/ OrderIsDone
  <2>1. /\ Unpatterned
        /\ \/ \E t \in Callers : Step(t) \/ Crash(t) \/ LeaseEnds(t)
           \/ \E t \in Callers : ProxyAnswered(t)
           \/ Expire \/ Interference \/ OrchestratorDoes
    BY <1>2 DEF CallGoesOn, ProcessCrashes, LeaseIsOver, AnswerComes, TimePasses, OthersInterfere, OrderIsDone
  <2>2. (\E t \in Callers : Step(t) \/ Crash(t) \/ ProxyAnswered(t)) \/ UNCHANGED call
    BY <2>1 DEF LeaseEnds, store, Expire, Interference, MemoryCleanup, FileOtherKey, OrchestratorDoes
  <2> QED
    BY <1>0, <1>p, <2>1, <2>2, CallsStay, UnpatternedFollows DEF Unpatterned
<1>3. ASSUME NEW t \in Callers, AsideRead(t) \/ Through(t) \/ Behind(t) \/ SourceChanges(t)
      PROVE  (\A u \in Callers : PatternCall(u)') /\ (tainted' = {} => Followed')
  <2>1. PatternCall(t)' /\ (tainted' = {} => Followed')
    BY <1>0, <1>3, Starts
  <2>2. \A u \in Callers \ {t} : call'[u] = call[u] /\ task'[u] = task[u]
    BY <1>0, <1>3, StartsMove
  <2> QED
    BY <1>o, <2>1, <2>2
<1>4. ASSUME NEW t \in Callers, EntityStep(t)
      PROVE  (\A u \in Callers : PatternCall(u)') /\ (tainted' = {} => Followed')
  BY <1>0, <1>4, <1>o, Moves DEF PatternMoves
<1>5. ASSUME NEW v \in Values, BehindWrites(v)
      PROVE  (\A u \in Callers : PatternCall(u)') /\ (tainted' = {} => Followed')
  <2>1. UNCHANGED <<call, task>>
    BY <1>5 DEF BehindWrites, cacheVars
  <2> QED
    BY <1>0, <1>p, <1>5, <2>1, CallsStay, Writes
<1>6. CASE LockNext
  <2>1. PICK t \in Callers : role = "lock" \/ task[t].pc \in {"locking", "sleep", "inside", "unlocking"}
    BY <1>6 DEF LockNext, LockStep, ReleaseLock, LockAnswered, LockRetry, WithLockDone, ReleaseAnswered, AcquireLock,
       Returned
  <2> QED
    BY <1>0, <2>1, TaskTypes
<1>7. CASE UNCHANGED vars
  <2>1. UNCHANGED <<entry, handles, backend, role, text, call, task, source, behind, tainted>>
    BY <1>7 DEF vars, cacheVars, patternVars, store, fixed
  <2>2. tainted' = {} => Followed'
    BY <1>0, <2>1, Unmoved DEF SourceInv, Weaker, SameValue
  <2> QED
    BY <1>0, <1>p, <2>1, <2>2, CallsStay
<1>8. ASSUME NEW t \in Callers, CallCrosses(t)
      PROVE  (\A u \in Callers : PatternCall(u)') /\ (tainted' = {} => Followed')
  <2>1. ProxySend(t) /\ UNCHANGED task /\ tainted' # {}
    BY <1>8 DEF CallCrosses
  <2> QED
    BY <1>0, <1>p, <2>1, CallsStay
<1> QED
  BY <1>1, <1>2, <1>3, <1>4, <1>5, <1>6, <1>7, <1>8 DEF Next, EntityNext

THEOREM Invariance == Spec => []IInv
BY InitInv, StepInv, PTL DEF Spec

\* Every variable keeps its type: the calls, the entry and the history of
\* src/cache/mod.rs, and the patterns of src/cache/patterns.rs.
THEOREM TypeCorrect == Spec => []TypeOK
<1>1. IInv => TypeOK
  BY DEF IInv
<1> QED
  BY <1>1, Invariance, PTL

\* No increment that the remote stores have executed is missing in the
\* counter, for any number of callers (increment of src/cache/redis.rs,
\* src/cache/proxy_service.rs and src/cache/memcached.rs).
THEOREM CountsAreKept == Spec => []CountsKept
<1>1. IInv => CountsKept
  BY DEF IInv
<1> QED
  BY <1>1, Invariance, PTL

\* Whatever a read gives was stored by the last write, or by one that
\* overlaps (get, get_many and exists of the implementations in src/cache).
THEOREM ReadsFresh == Spec => FreshReads
<1>1. IInv /\ [Next]_vars => [\A t \in Callers : ReadIsFresh(t)]_cacheVars
  BY InvGroups, AllReadsFresh DEF IInv
<1> QED
  BY <1>1, Invariance, PTL DEF Spec, FreshReads

\* Between the patterns an entry is the version of its source: the calls of
\* cache_aside, write_through and write_behind in src/cache/patterns.rs keep
\* the two together, whatever implementation they use.
THEOREM EntriesFollow == Spec => []EntryFollowsSource
<1>1. Init => SourceInv
  <2>1. ASSUME Init PROVE Busy = {} /\ \A t \in Callers : PatternCall(t)
    <3>1. \A t \in Callers : task[t] = NoTask /\ call[t].pc = "idle"
      BY <2>1, EndedFacts DEF Init, CallsInit, NoneOr
    <3> QED
      BY <3>1 DEF Busy, PatternCall, Forms, Active, NoTask
  <2>2. ASSUME Init PROVE Quiet /\ entry = NoEntry /\ behind = {}
    BY <2>2, EndedFacts DEF Init, CallsInit, Quiet, NoneOr
  <2> QED
    BY <2>1, <2>2 DEF SourceInv, Followed, Good
<1>2. IInv /\ SourceInv /\ [Next]_vars => SourceInv'
  BY SourceSteps
<1>3. IInv /\ SourceInv => EntryFollowsSource
  <2> SUFFICES ASSUME IInv, SourceInv, role = "entity", Busy = {}, behind = {}, tainted = {}, Live(entry)
               PROVE  entry.val \in Forms(source) \/ (backend = "file" /\ entry.val \in {Foreign, Mixed})
    BY DEF EntryFollowsSource
  <2>1. Followed /\ entry # NoEntry
    BY DEF SourceInv, Live
  <2>2. Good(source)
    BY <2>1 DEF Followed
  <2>3. ~(backend = "file" /\ entry.val = Empty)
    BY <2>1 DEF Followed, Owner, Busy
  <2> QED
    BY <2>1, <2>2, <2>3 DEF Good, Special
<1> QED
  BY <1>1, <1>2, <1>3, Invariance, PTL DEF Spec

\* A lease that runs loses its entry only to the known causes, and none
\* begins with an entry that does not end (lock of the implementations).
THEOREM LocksLostForCause == Spec => LockLossHasCause
<1>1. IInv /\ [Next]_vars => [LeaseStep]_cacheVars
  BY InvGroups, LeaseStepHolds DEF IInv
<1> QED
  BY <1>1, Invariance, PTL DEF Spec, LockLossHasCause

\* The locks of Redis and of the orchestrator implement ExclusiveLock: while
\* the lease of one caller runs, no other is given the lock.
THEOREM LocksExclude == Spec => Exclusive
<1>1. Init => Lock!Init
  BY DEF Init, CallsInit, Lock!Init
<1>2. IInv /\ [Next]_vars => [Lock!Next]_(IF backend \in {"redis", "proxy"} THEN leased ELSE {})
  BY InvGroups, LeasesExclude DEF IInv, Holders, Keeping, Lock!Next, Lock!Acquire, Lock!Release
<1> QED
  BY <1>1, <1>2, Invariance, PTL DEF Spec, Exclusive, Lock!Spec
=============================================================================
