--------------------------- MODULE CachePatterns ----------------------------
(***************************************************************************)
(* What src/cache/patterns.rs builds on a cache: cache_aside,              *)
(* write_through and write_behind over a source of versions, the           *)
(* strategies of invalidation, and DistributedLock.  A task makes calls of *)
(* the trait and goes on when they have returned.                          *)
(***************************************************************************)
EXTENDS Caches

CONSTANT MaxAttempts  \* RetryConfig::max_attempts, by implementation

ASSUME AttemptsAssumption == MaxAttempts \in [Backends -> Nat \ {0}]

MaxVersion == Cardinality(Values)   \* bound: versions of the source
ASSUME VersionsAssumption == IsFiniteSet(Values) /\ Values = 1..MaxVersion

Kinds == {"none", "aside", "through", "behind", "event", "try", "acquire", "with", "release"}
TaskPCs == {"none", "reading", "fetch", "source", "storing", "invalidate", "invalidating",
            "locking", "sleep", "inside", "unlocking"}

VARIABLES
    task,     \* per caller: the pattern, where it is, and its version
    tries,    \* attempts of DistributedLock::acquire
    source,   \* version of the entity in the source
    last,     \* history: the newest version that anyone wrote
    behind,   \* write_behind: versions whose spawned write is under way
    tainted   \* history: why the entry may differ from the source

patternVars == <<task, tries, source, last, behind, tainted>>
vars == <<cacheVars, patternVars>>

Reasons == {"overlap", "failed", "unmatched", "crossed"}

TypeOK ==
    /\ CallsTypeOK
    /\ task \in [Callers -> [kind : Kinds, pc : TaskPCs, val : 0..MaxVersion]]
    /\ tries \in [Callers -> 0..(MaxAttempts[backend] - 1)]
    /\ source \in 0..MaxVersion /\ last \in 0..MaxVersion
    /\ behind \subseteq 1..MaxVersion /\ tainted \subseteq Reasons

NoTask == [kind |-> "none", pc |-> "none", val |-> 0]

Init ==
    /\ CallsInit
    /\ task = [t \in Callers |-> NoTask] /\ tries = [t \in Callers |-> 0]
    /\ source = 0 /\ last = 0 /\ behind = {} /\ tainted = {}

Free(t) == task[t] = NoTask /\ call[t].pc = "idle"
Returned(t, l) == task[t].pc = l /\ call[t].pc = "idle"
Busy == {t \in Callers : task[t].kind # "none"}

-----------------------------------------------------------------------------
(* The patterns over a source.                                             *)

\* A pattern of kind k begins at l.  Two that overlap, unless both only
\* read, may leave the entry and the source with different versions.
Start(t, k, l) ==
    LET writes == k # "aside" IN
    /\ Free(t)
    /\ IF writes THEN last < MaxVersion /\ last' = last + 1 ELSE UNCHANGED last
    /\ task' = [task EXCEPT ![t] = [kind |-> k, pc |-> l, val |-> IF writes THEN last' ELSE 0]]
    /\ tainted' = IF \/ \E u \in Busy : writes \/ task[u].kind # "aside"
                     \/ behind # {}
                  THEN tainted \union {"overlap"} ELSE tainted

Finish(t) == task' = [task EXCEPT ![t] = NoTask]
Go(t, l) == task' = [task EXCEPT ![t].pc = l]
\* The value is stored in the cache, unless the caller has crashed.
StoreInCache(t, v) ==
    /\ Begin(t, "set", v)
    /\ task' = [task EXCEPT ![t].pc = "storing", ![t].val = v]
Failed(t) == IF call[t].res = "Err" THEN tainted \union {"failed"} ELSE tainted

\* serde_json::to_vec of a version of a String, which puts it in quotes.
Quoted(v) == MaxVersion + v
Forms(v) == IF text THEN {v, Quoted(v)} ELSE {v}

\* cache_aside: the entry, or the source and then the entry.
AsideRead(t) ==
    /\ role = "entity" /\ Free(t)
    /\ Begin(t, "get", NoValue) /\ tries' = tries /\ UNCHANGED <<source, behind>>
    /\ Start(t, "aside", "reading")
\* Every entry that is UTF-8 is a String, also an empty one and one in
\* quotes; other contents that nobody wrote may be readable or not.
AsideAnswered(t) ==
    /\ Returned(t, "reading")
    /\ LET got == call[t].got IN
       \/ /\ call[t].res = "Err" \/ (got # NoEntry /\ (got = Empty => text))
          /\ Finish(t)
       \/ /\ call[t].res # "Err" /\ got \notin Nat /\ (got = Empty => ~text)
          /\ Go(t, "fetch")
    /\ UNCHANGED <<cacheVars, tries, source, last, behind, tainted>>
AsideFetch(t) ==
    /\ task[t].pc = "fetch" /\ call[t].pc = "idle"
    /\ \/ source # 0 /\ StoreInCache(t, source) /\ UNCHANGED tainted
       \/ Finish(t) /\ UNCHANGED <<cacheVars, tainted>>
    /\ UNCHANGED <<tries, source, last, behind>>

ThroughSource_CacheFirst(t) ==
    /\ task[t].pc = "source" /\ task[t].kind = "through" /\ call[t].pc = "idle"
    /\ \/ StoreInCache(t, task[t].val) /\ source' \in {source, task[t].val} /\ UNCHANGED tainted
       \/ Finish(t) /\ UNCHANGED <<cacheVars, source, tainted>>
    /\ UNCHANGED <<tries, last, behind>>

\* write_through: the source, and only then the entry.
ThroughSource(t) ==
    /\ task[t].pc = "source" /\ task[t].kind = "through" /\ call[t].pc = "idle"
    /\ \/ source' = task[t].val /\ StoreInCache(t, task[t].val) /\ UNCHANGED tainted
       \/ Finish(t) /\ UNCHANGED <<cacheVars, source, tainted>>
    /\ UNCHANGED <<tries, last, behind>>
Through(t) ==
    /\ role = "entity" /\ Start(t, "through", "source")
    /\ UNCHANGED <<cacheVars, tries, source, behind>>

\* write_behind: the entry, also of a String in the form of JSON, and then a
\* task that writes the source.
Behind(t) ==
    /\ role = "entity" /\ Start(t, "behind", "storing")
    /\ Begin(t, "set", IF text THEN Quoted(last') ELSE last')
    /\ UNCHANGED <<tries, source, behind>>
BehindWrites(v) ==
    /\ v \in behind /\ behind' = behind \ {v}
    /\ \/ source' = v /\ tainted' = IF behind' # {} THEN tainted \union {"overlap"} ELSE tainted
       \/ UNCHANGED source /\ tainted' = tainted \union {"failed"}
    /\ UNCHANGED <<cacheVars, task, tries, last>>

\* The value is in the cache, or the call has failed: cache_aside only logs
\* that, write_through and write_behind return the error.
Stored(t) ==
    /\ Returned(t, "storing") /\ Finish(t)
    /\ behind' = IF task[t].kind = "behind" /\ call[t].res # "Err"
                 THEN behind \union {task[t].val} ELSE behind
    /\ tainted' = Failed(t)
    /\ UNCHANGED <<cacheVars, tries, source, last>>

-----------------------------------------------------------------------------
(* The source is changed by others, and the entity is invalidated.         *)

SourceChanges(t) ==
    /\ role = "entity" /\ Start(t, "event", "invalidate") /\ source' = last'
    /\ UNCHANGED <<cacheVars, tries, behind>>

\* TtlInvalidationStrategy, LruInvalidationStrategy, and
\* EventInvalidationStrategy without versions.
InvalidateKey(t) ==
    /\ task[t].pc = "invalidate"
    /\ Begin(t, "delete", NoValue) /\ Go(t, "invalidating")
    /\ UNCHANGED <<tries, source, last, behind, tainted>>

\* With versions the key of the version is incremented; the key of the
\* entity does not depend on it.
InvalidateVersion(t) ==
    /\ task[t].pc = "invalidate" /\ call[t].pc = "idle" /\ Finish(t)
    /\ tainted' = tainted \union {"unmatched"}
    /\ UNCHANGED <<cacheVars, tries, source, last, behind>>

\* invalidate_type clears a namespace that ends in an asterisk.  No key of
\* an entity is in it; what an orchestrator makes of it is open.
InvalidateType(t) ==
    /\ task[t].pc = "invalidate" /\ call[t].pc = "idle" /\ Finish(t)
    /\ IF backend = "proxy" THEN entry' \in {entry, NoEntry} ELSE Keep
    /\ tainted' = tainted \union {"unmatched"}
    /\ UNCHANGED <<fixed, mutex, handles, flock, orders, call, token, history,
                   tries, source, last, behind>>

Invalidated(t) ==
    /\ Returned(t, "invalidating") /\ Finish(t) /\ tainted' = Failed(t)
    /\ UNCHANGED <<cacheVars, tries, source, last, behind>>

EntityStep(t) ==
    \/ AsideAnswered(t) \/ AsideFetch(t) \/ ThroughSource(t) \/ Stored(t)
    \/ InvalidateKey(t) \/ InvalidateVersion(t) \/ InvalidateType(t) \/ Invalidated(t)
EntityNext ==
    \/ \E t \in Callers :
           AsideRead(t) \/ Through(t) \/ Behind(t) \/ SourceChanges(t) \/ EntityStep(t)
    \/ \E v \in Values : BehindWrites(v)

-----------------------------------------------------------------------------
(* DistributedLock.                                                        *)

LockVars == <<source, last, behind, tainted>>

TryAcquire(t) == Begin(t, "lock", NoValue) /\ UNCHANGED LockVars

\* try_acquire, acquire and with_lock.
AcquireLock(t, k) ==
    /\ role = "lock" /\ Free(t) /\ TryAcquire(t)
    /\ task' = [task EXCEPT ![t] = [kind |-> k, pc |-> "locking", val |-> 0]]
    /\ tries' = [tries EXCEPT ![t] = 0]

AttemptRefused_Late(t) ==
    IF task[t].kind = "try" \/ tries[t] >= MaxAttempts[backend]
    THEN Finish(t) /\ tries' = [tries EXCEPT ![t] = 0]
    ELSE Go(t, "sleep") /\ tries' = [tries EXCEPT ![t] = @ + 1]

\* attempts is counted and compared before the sleep.
AttemptRefused(t) ==
    IF task[t].kind = "try" \/ tries[t] + 1 >= MaxAttempts[backend]
    THEN Finish(t) /\ tries' = [tries EXCEPT ![t] = 0]
    ELSE Go(t, "sleep") /\ tries' = [tries EXCEPT ![t] = @ + 1]

\* The token is kept; with_lock goes on to its operation.
LockAnswered(t) ==
    /\ Returned(t, "locking")
    /\ CASE call[t].res = "Yes" -> /\ token' = [token EXCEPT ![t] =
                                           IF call[t].got = NoEntry THEN "valid" ELSE "other"]
                                   /\ IF task[t].kind = "with" THEN Go(t, "inside") ELSE Finish(t)
                                   /\ tries' = [tries EXCEPT ![t] = 0]
         [] call[t].res = "No" -> AttemptRefused(t) /\ UNCHANGED token
         [] call[t].res = "Err" -> /\ Finish(t) /\ UNCHANGED token
                                   /\ tries' = [tries EXCEPT ![t] = 0]
    /\ UNCHANGED <<fixed, store, call, history, LockVars>>

LockRetry(t) ==
    /\ task[t].pc = "sleep" /\ TryAcquire(t) /\ Go(t, "locking") /\ UNCHANGED tries

\* release: of the token that try_acquire has stored, if any.
BeginRelease(t) ==
    /\ token[t] # "none" /\ Begin(t, "unlock", NoValue)
    /\ UNCHANGED <<tries, LockVars>>
ReleaseLock(t) ==
    /\ role = "lock" /\ Free(t) /\ BeginRelease(t)
    /\ task' = [task EXCEPT ![t] = [kind |-> "release", pc |-> "unlocking", val |-> 0]]
WithLockDone(t) == task[t].pc = "inside" /\ BeginRelease(t) /\ Go(t, "unlocking")

\* An error keeps the token; with_lock ignores it.
ReleaseAnswered(t) ==
    /\ Returned(t, "unlocking") /\ Finish(t)
    /\ token' = IF call[t].res = "Err" THEN token ELSE [token EXCEPT ![t] = "none"]
    /\ UNCHANGED <<fixed, store, call, history, tries, LockVars>>

LockStep(t) ==
    LockAnswered(t) \/ LockRetry(t) \/ WithLockDone(t) \/ ReleaseAnswered(t)
LockNext ==
    \E t \in Callers :
        ReleaseLock(t) \/ LockStep(t) \/ \E k \in {"try", "acquire", "with"} : AcquireLock(t, k)

-----------------------------------------------------------------------------
\* What the cache does by itself.  An entry that is gone has no differences.
Unpatterned ==
    /\ tainted' = IF entry' = NoEntry /\ orders' = <<>> /\ Busy = {} /\ behind = {}
                  THEN {} ELSE tainted
    /\ UNCHANGED <<task, tries, source, last, behind>>

UseDirectly(t) == Free(t) /\ Use(t) /\ Unpatterned
CallGoesOn(t) == Step(t) /\ Unpatterned
ProcessCrashes(t) == Crash(t) /\ Unpatterned
LeaseIsOver(t) == LeaseEnds(t) /\ Unpatterned
TimePasses == Expire /\ Unpatterned
OthersInterfere == Interference /\ Unpatterned
AnswerComes(t) == ProxyAnswered(t) /\ Unpatterned
OrderIsDone == OrchestratorDoes /\ Unpatterned

\* From here on the pattern may be told of another call's result.
CallCrosses(t) ==
    /\ ProxySend(t)
    /\ tainted' = IF role = "entity" THEN tainted \union {"crossed"} ELSE tainted
    /\ UNCHANGED <<task, tries, source, last, behind>>

Next ==
    \/ \E t \in Callers :
           \/ UseDirectly(t) \/ CallGoesOn(t) \/ ProcessCrashes(t) \/ LeaseIsOver(t)
           \/ CallCrosses(t) \/ AnswerComes(t)
    \/ TimePasses \/ OthersInterfere \/ OrderIsDone
    \/ EntityNext \/ LockNext

Spec == Init /\ [][Next]_vars

-----------------------------------------------------------------------------
\* Between the calls, an entry of the cache is the version of the source,
\* unless two patterns have overlapped, a call or a write to the source has
\* failed, a process has crashed, the invalidation was one that does not
\* reach the key, or a call met another on its connection to the
\* orchestrator.  A String is there in one of two forms, as write_behind
\* quotes it.  A file may have been written for another key, too.
EntryFollowsSource ==
    role = "entity" /\ Busy = {} /\ behind = {} /\ tainted = {} /\ Live(entry) =>
        entry.val \in Forms(source) \/ (backend = "file" /\ entry.val \in {Foreign, Mixed})
=============================================================================
