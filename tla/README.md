# A verification of the PyWatt module SDK

TLA+ modules, TLC configurations and TLAPS proofs for the Rust SDK in `src/` (crate
`pywatt_sdk`): the library a *module* process links to talk to its *orchestrator*, over
TCP and over stdin/stdout, and to other modules through it.

Paths below are relative to the crate (`src/tcp_channel.rs` and so on). `PROJECT.json`
maps every definition to the lines it models.

## 1. Inventory

| Component | State it keeps | Operations | Talks to |
|---|---|---|---|
| TCP channel (`tcp_channel.rs`, `tcp_types.rs`) | connection state, the stream, each behind a tokio mutex | connect with three reconnect policies, send, receive, receive under a timer, close | the orchestrator's socket |
| Registration (`registration/`) | `REGISTRY`: the channel of a registered module | register, heartbeat (and its loop), advertise capabilities, unregister | TCP channel |
| Internal messaging (`internal_messaging.rs`) | `pending_internal_responses`: request id to oneshot | `send_request`, `process_routed_module_response` | TCP channel, main task |
| Bootstrap (`bootstrap.rs`, `state.rs`) | `AppState`, message handlers | `bootstrap_module`, `main_processing_task`, handler registration | all of the above |
| IPC (`ipc.rs`, `ipc_types/`) | `IPC_CHANNEL` (sender, pending map), port negotiation statics, HTTP broadcast | `send_request`, the stdin loop, the stdout task, port negotiation | stdin, stdout |
| Secret client (`secret_client/`, `secrets.rs`, `typed_secret.rs`) | cache of secrets, broadcast of rotations | `get_secret`, background task, acknowledgement, subscriptions | stdin, stdout |
| HTTP over TCP (`http_tcp/`) and over IPC (`http_ipc/`, `server.rs`) | routes; requests in flight | client request, server loops, `serve_with_options` | TCP channel, IPC |
| Caches (`cache/`) | entries with expiry, lock entries | the `CacheService` operations, patterns, `DistributedLock` | memory, files, servers, IPC |
| Databases (`database/`), model manager (`model_manager/`) | connections, transactions, schema | queries, transactions, schema synchronisation | sqlx, IPC |
| Secret providers (`secret_provider/`) | secrets by name, a file watcher | get, set, watch, reload | files, environment |
| Framing (`message.rs`), handshake, announcement, JWT, builder, logging, macros | none, or set once | conversions, one-off I/O | |

What is hard in this system:

* **One mutex for both directions.** A receive waits with the stream mutex held, so a send
  on the same channel waits for something to arrive.
* **Answers by position.** Registration, the HTTP client and the secret client take the next
  message as the answer to their request. Timeouts, dropped calls and other tasks shift it.
* **Cancellation.** A tokio timer drops a future wherever it is suspended, also in the
  middle of a frame, and leaves map entries behind.
* **Check-then-act over several locks** in `try_connect`, in the caches, in port negotiation.
* **Tasks that end** (main task, stdin loop, subscriptions) while others wait for them.

What makes each component correct: frames stay whole and a send's result is true (TCP
channel); a call gets its own answer or an error, and comes back (registration, messaging,
IPC, HTTP); the cache is not stale and rotations are announced (secrets); mutual exclusion
and no lost updates (caches); all-or-nothing or a reported failure (transactions, schema).
The hazards, with their lines, are in `PROJECT.json`.

## 2. Modules

A step of a task is the code between two points where the task may be suspended. `pc` says
where a task is. Each `*_Xxx` operator is a plausible bug that a property must catch
(`mutants` in `PROJECT.json`); no specification uses it.

### TcpChannel (with TransportProofs)
Any number of tasks share one `Arc<TcpChannel>`. `state` and `stream` are the two fields,
`streamLock` the stream mutex (the state mutex is never held across a suspension, so its
uses are single steps). A connection is a record: is the peer up, which task is in the
middle of writing a frame (`outMid`), is the reader in the middle of one (`inMid`), how many
chunks are in flight. A frame is two chunks, header and payload: the model distinguishes
"at a boundary" from "inside a frame", which is what the properties need. `connect_attempts`
is written and never read by the code and is left out. The policies differ in how a failed
attempt ends: `None` fails at once, `FixedInterval` counts, `ExponentialBackoff` loops.
`TimeoutElapses` is the drop of a future by `receive_with_timeout`. The peer may write, stop
and resume reading, and disappear, between any two steps. `write_all` has no timer: with a peer
that does not read, a writer waits where it is, with the mutex (`WriteBlocked`).

### Registration (with RegistrationProofs)
Calls for one module over its registered channel (`Shared`) and over channels of their own.
Of the TCP channel it keeps: whole messages, in order, lost with their connection, one mutex
which a waiting receive keeps. `own` and `alone` are history variables: was the answer taken
the one to this call's request, and has the call had the channel to itself since its send.
The update of `REGISTRY` is one step with the receive that decides it: nothing between the
two is visible to other tasks except through the mutex of `REGISTRY`. A send is two steps, since
it can wait for a peer that does not read ("blocked"), and `holder` is who has the mutex of a channel
meanwhile; only the wait for the answer has a timer.

### InternalMessaging (with InternalMessagingProofs)
Callers of `send_request`, the main processing task and steps 7 to 10 of `bootstrap_module`.
There are two handler maps because the code makes two: the one of `AppState::new`, which the
task's clone refers to, and the one of step 9, which the application gets. The task's map
stays empty, so the `return` after a found handler (`src/bootstrap.rs:173`), which would end
the whole task, is not reached: `OnlyShutdownEnds` holds because of the split, and its mutant
merges the two maps. It is a property of messages: an error of receive ends the task as well,
also one that a reconnection would cure, against the task's documentation (a finding).
`link` is the host of the client's channel: step 7 may find nobody there, or a host whose name
`TcpChannel` cannot use, and then a send waits for ever. `lost` is a history
variable: ids whose request or response went down with a connection. Ids are drawn afresh as
long as they mean something to anyone, and may be used again afterwards; this keeps the
instance finite and stands for unique ids.

### Ipc (with IpcProofs)
Callers of `ipc::send_request`, the outgoing task and the stdin loop, for responses. A key is
a request id or, for operations, a connection id that several calls share. `named` says
whether the line carries the copy of its operation that the loop looks for; its type does not
have that field, so the orchestrator may or may not. `alone`, `own` and `missed` are history
variables.

### SecretClient (with SecretsProofs)
Callers, the background task and a subscriber compete for the lines of one input. A secret is
its version. The timer of `send_request` can end only the wait for the mutex, because
`read_line` blocks its thread; the model has a blocked thread for that task only, which is
what a multi-threaded runtime gives. A read may fail or end (`ReadErr`, `ReadEof`): the call then
returns the error, and the background task ends. The acknowledgement's own output has no effect and is
part of `Notify`. `swallowed`, `overtaken` and `late` are history variables that name the two
causes of a stale cache. `rotation_tracking` and `last_ack` are write-only and left out, and
so is the registration for redaction.

### Caches (with CachesProofs)
`CacheCalls` has the state all caches share and how a call begins and ends; `InMemoryCache`,
`FileCache`, `RedisCache`, `MemcachedCache` and `ProxyCacheService` give the steps of a call;
`Caches` puts them together and adds expiry, failing calls and crashing processes. One step is
one operation on the concurrent map, one system call, one command to a server, or one operation
of the orchestrator. A method that looks and then stores is two steps in memory, one for
`INCR` in Redis, and in Memcached an `INCR` or, when there is no counter yet, a `SET`, both behind
a mutex of the object: the difference between the caches is where the code lets another caller in
between.

Through the proxy the calls of one object share one entry of the pending map of `Ipc`, under the
`connection_id`, whatever their keys are. A call that meets no other is one step; one that does is
sent, is done by the orchestrator some time (`orders`), and gets an error or what its method makes of
anybody's result (`Readable`): a value of another key, a token of a lock that it does not have.
What such a call has done stays done, also if its caller was told otherwise.

The model has one key, which a behaviour uses for data, a counter, a lock or an entity of a
source. Time is left out: an entry with a time to live may expire in any step. What other keys
can do to this one is kept: they may evict it in memory, and as a file they may have its name
(`key_to_path` adds up the bytes of the key), be written and removed for it, which is `Foreign`.
`Mixed` is the contents of a
file that two writers have written, `Empty` a file that was opened and not yet written.
`current` and `allowed` are history: what a read may return if every write takes effect at one
point between its call and its return; `crossed` names the writes that overlap and so have
no order. `leased` are the callers that were told they have the lock and whose time is not over.

### CachePatterns (with CachesProofs)
`cache_aside`, `write_through`, `write_behind`, the invalidation strategies and
`DistributedLock`, each a task that makes calls of a cache of `Caches` and goes on when
they return. The source is a version number, so that "newer" has a meaning. An entity is a `String`
or of another type (`text`): `write_behind` stores the JSON of both, the other two patterns the
bytes of a `String`, so a version has two forms in the cache (`Quoted`, `Forms`), and `cache_aside`
takes either for the value. `tainted` is history:
why the entry may differ from the source (patterns overlapped, something failed, the
invalidation was one that does not reach the key, a call met another on its connection). The formats of keys are left out.

### ExclusiveLock
What `CacheService::lock` promises: at most one caller holds the lock. The property `Exclusive`
of `Caches` is `ExclusiveLock!Spec` with `holders` mapped to `leased`, for the Redis and the
proxied cache; through the proxy `leased` are the callers whose token came in an answer of their
own, and a call that met another leads to no lease. The other three do not implement it: `LockLossHasCause` says in which steps
they take the lock from its holder, and that whoever is given a lock, in any cache, has one
with a time to live.

### Databases (with DatabasesProofs)
`DatabaseValues` is what happens to a value when it is bound, stored and read, by its kind.
`DatabaseCalls` has the connection, the calls, the transactions and the database, which
executes a statement as a whole or fails (in PostgreSQL this breaks the transaction).
`SqlxPool` is the external pool: acquire with its timeout, transactions that roll back when
they are dropped, closing that waits for connections in use. `SqlxDrivers` has the three
drivers over it. `execute`, `fetch` and `commit` have no timer, and PostgreSQL lets a statement wait
for a row that another open transaction has locked: `AtServer` is where a call may stay.
A value is its kind: SQLite takes a `NaN` for NULL, MySQL holds no float that is not finite, JSON
has none (`SqliteBind`, `Holds`, `ProxyBind`).
`ProxyDatabase` is the connection whose calls are `ServiceOperation`s of the
orchestrator. They share one entry of the pending map of `Ipc` under `connection_id`: a call that
is sent takes the place of the one that waits, which fails, and an answer is given to whoever waits.
`Databases` composes them.
`asked`, `acked`, `tainted`, `begun` and `refused` are history: what was asked to be committed,
what returned `Ok`, which transactions had overlapping calls, whose id arrived, and which
`close` gave up.

### Model manager (with SchemaSyncProofs)
`SchemaModels` has the descriptors; `SchemaAdapters` makes statements of
them as each of the three adapters does, `ModelGenerator` scripts. A statement is a record of what it does, never
its text; what its text decides is kept (a semicolon in a literal, at which `split_script`
cuts; a name with or without the schema). A script is a function from places to statements, of
which the first is the next to be executed. `SqlDatabase` is the external database: a schema, and
the answer to each statement, as one of the classes that `sdk_integration.rs` tells apart
by the error's text. One class is "duplicate": the code takes it for something that exists, but the
databases also say it of rows that do not allow a unique index (`Duplicates`: the rows are not
modelled and may be there at any time) and of a name that one `CREATE TABLE` has twice
(`RepeatsName`). `SchemaSync` runs `sync_schema`, `apply_model`, `drop_model` and own
migrations of several tasks, one statement per step. `upset` is history: what came in the way
of a call (a statement failed, something was dropped, two tasks raced in PostgreSQL, duplicate rows).

### HTTP (with TransportProofs)
`HttpRequests` has the requests on their way, for all servers. `PortNegotiation` is
`request_port`, `negotiate_port`, `wait_for_port_response` and the branch of the stdin loop that
takes port responses; the calls see two globals and not their own answer. `thread` says what runs
on which thread, because `PORT_RESPONSE_SENDER` is a std mutex that
`send_port_negotiation` keeps while it waits for the output: who locks it meanwhile
blocks its thread and all that runs there (`InLock`, `Runs`). A future that keeps such a guard is
not `Send`, so calls are not spread over a runtime's workers: they may share a thread on any runtime.
`IpcServing` is the broadcast of requests,
`serve_with_options` with its task `serve_ipc`, and `start_http_ipc_server`, which subscribes to
a channel on which nothing sends: no request gets to it, so its router is not modelled.
`TcpServing` is `RequestBuilder::send` and `start_http_server` over two channels: it keeps of
`TcpChannel` that a receive holds the mutex until something arrives, and that the mutex is given in
the order of asking (`line`), which is why a response waits for one more message at most. The user's
handlers, the write of a port request or response to stdout and that of a response to TCP
are steps that need not be taken. `HttpServing`
composes the three; a behaviour has one kind of server.

### SecretProviders (with SecretsProofs)
A `ChainedProvider` over a `MemoryProvider`, a `FileProvider` and an `EnvProvider`. The value of
a key is a version. One operation on a map is one step, so a reload, which clears the map and
fills it again, is several, and a lookup of the chain asks one provider per step. `notice` is
the channel of one between the file system's watcher and the watching task; a second notice is
dropped, whatever file it is of. `disk` is the file, which is written, truncated, removed or
replaced by a rename at any time. The subscriber is not in the repository: it does what an
application must do that wants current values, namely fetch all keys when it has subscribed or
lagged, and otherwise those that the events name. `missed` and `stale` are history: why a
change of the file is not noticed, and which keys no event corrects.

## 3. Runs

| Run | Instance | What it shows |
|---|---|---|
| `tcp_channel` | 3 interchangeable tasks, policy `None`, no timers | `Framing`, `SendOutcome` |
| `tcp_timers` | 2 tasks, timed receives, one reconnection attempt | `TypeOK`, `CallsReturn` |
| `registration` | an application task and a heartbeat loop, 2 messages in flight per channel | `TypeOK`, `SoleCallerGetsItsAnswer`, `HeartbeatsGoOn` |
| `internal_messaging` | 2 callers, 2 ids, 1 source module, 1 unsolicited message in flight | `TypeOK`, `OwnResponse`, `OnlyShutdownEnds`, `CallsProgress` |
| `ipc` | 2 callers, a connection id and a request id, a queue of 1 | `TypeOK`, `AnswerIsOwn`, `CallsEnd` |
| `secrets` | 1 caller, background task, subscriber, 1 secret rotated twice, broadcast of 1 | `TypeOK`, `StaleHasCause`, `OnRotateIsCurrent`, `CallsReturn` |
| `caches` | 2 callers of one key, every cache as data, counter and lock, three of them before a source, failures, crashes | `TypeOK`, `CountsKept`, `EntryFollowsSource`, `FreshReads`, `LockLossHasCause`, `Exclusive` (the refinement) |
| `databases` | 2 tasks, 3 drivers and a proxied SQLite, a pool of 1, 2 transactions | `TypeOK`, `NothingUnasked`, `ReadBack`, `OkIsTrue`, `ClosedMeansEnded`, `CallsReturn` |
| `schema` | 2 tasks, 3 database types, 7 lists of models, 3 calls, 1 fault | `TypeOK`, `SyncOkMeansComplete`, `SyncErrorsHaveCause` |
| `schema_again` | 1 task, SQLite, one model | violated: `SyncIsRepeatable` |
| `http` | 5 kinds of server, up to 3 requests, 2 callers for a port, 3 ways to share threads | `HttpTypeOK`, `AloneGetsOwn`, `PortIsOwn`, `CallsEnd` |
| `secret_providers` | 3 chains, 2 keys, 2 setters, a broadcast of 1, 2 changes of the file | `ProvidersTypeOK`, `SubscriberIsCurrent`, `FileIsFollowed` |

Several properties name exceptions. Each is a step in which the code does what one would not
expect of it; most of them are findings of `PROJECT.json`, which quote the code and the line
that says otherwise. Findings without a run were met while modelling: the model has the
behaviour, and the properties are stated so as to hold with it.
`schema_again` is kept as a run of its own, since here the documentation promises the opposite:
the second `sync_schema` of a model with a key in its column fails, because the table that is
there is migrated from an empty model.

**Bounds.** `MaxUnread`, `MaxInFlight`, `MaxInbox`, `MaxUnderWay`, `MaxLines` and `MaxOrders`
bound what is under way at once. (`MaxOrders` is 1 for the caches: of two calls that meet, one
order can still be to come; the answers need no bound, as a call may be given anybody's.) Two messages on a shared channel suffice for answers to cross
(one late, one current). `MaxUnread = 1` holds one chunk of a frame, so the peer can stop
between header and payload. A queue or broadcast of capacity 1 is full, and lags, after one
entry where the code's 100 and 10 need as many. Three tasks are the smallest number in which
one task is inside a frame while two others reconnect and close; the theorems remove this
bound. `MaxVersion = 3` allows a second rotation while the first is being handled.
`MaxAttempts = 1` in the TCP channel makes giving up and retrying both happen, and `2` in
`DistributedLock` an attempt, a pause and the last attempt (`MCAttempts`; `1` for files and the
proxy, whose locks take the most steps).
Caches: two values are two versions of the source, and two lengths of a file. `MaxCount = 2`
is a counter of which an increment can be lost. Two callers (they are interchangeable) suffice for a check and an act with
someone between them; a third would only add to who that is. `Strings` are the caches in which the
entity of a behaviour may be a `String`, one in memory and a remote one, as the patterns are the
same for all. For the same reason the patterns run over the cache in memory, Redis and the proxy
only (`MCUses`); `EntriesFollow` is proved for every cache. I/O may fail and processes may crash
(`MCFails`, `MCCrashes`) in every use but the largest: no failures in the lock of files and in the
entity behind the proxy (other calls of these two caches do fail), no crash in the data of files
(where a failure leaves the same half of a write behind). The theorems about the caches hold for
all uses, with failures and crashes in any of them.
Databases: a pool of one is exhausted by one transaction; two transactions are one that is
open while the other is closed or begun. Five calls (`MaxCalls`) are begin, a statement, commit,
close and one more of another task; proxied, three, since each is several messages.
`MCParams` has a row of one value of each plain kind and NULL, a row with a nested array, which
only PostgreSQL takes, one with an array of one level, which the proxy takes too, and one with a
`NaN` and an infinite float.
Schema: the models are one in two versions, and one for each thing a dialect treats in its own
way (keys in columns, references, schemas, enumerations, semicolons, a unique index, a name that is
there twice). Three calls are two that
overlap and one before or after; one fault is a statement that has failed, or has failed after
it had its effect, in any place.
HTTP: `Polls = 2` where the code looks ten times: one look too early, and the last. Two
port calls overlap or follow each other; their threads are one for everything (`OneThread`), one for
the calls beside those of the tasks (`CallsTogether`), or one for each (`Apart`). To
keep the instance small, requests are sent to the servers that have no negotiation
(`MaxAsks`, `MaxPortCalls`, per kind).
Secret providers: a broadcast of one lags after two events. Two changes of the file are one
that is being loaded and one that comes meanwhile; `MaxValues` is per chain, and lets memory
alone have three sets, two of which overlap. Of the two keys one is in the environment, and the
other is an error there (a value that is not Unicode).

**Deadlock** is checked for the TCP channel and registration. The other systems may stop: a
main task that has ended, a closed stdin, a closed pool, bounds that are used up or callers
that are never completed leave nothing to do, and the liveness properties say when that may
happen.

**Fairness.** tokio polls ready tasks and its mutex and bounded channel serve waiters in FIFO
order, so the steps of a task that wait for them are strongly fair, and those that do not are
weakly fair. Timers fire (weak fairness). Of a free `std::sync::Mutex` it is assumed
only that someone who waits takes it. Calls, dropped calls, failures,
crashes, lost connections and shutdowns are never fair.

The code waits without a timer in several places, and nothing bounds these waits but the
environment. Where a model has such a wait, its end is either not fair, and the property names
the wait as an exception, or it is fair, and is an assumption:

| Model | Waits without a timer | What is said of them |
|---|---|---|
| `TcpChannel` | `write_all`, with the stream mutex | exception: some write stays blocked (`WriteBlocked`) |
| `Registration` | the send of a request | exception: a send stays blocked on the loop's channel (`SendBlocked`); assumed: a reconnection ends (the orchestrator can be reached, or the policy has a limit) |
| `InternalMessaging` | sends; the receive that has the mutex; the answer | assumed: the orchestrator reads, sends heartbeats and answers what reaches it; exceptions: what is lost, a task that has ended, a channel that never connects |
| `Ipc` | the write to stdout; the answer | assumed: the orchestrator reads and answers; exceptions: answers that miss their caller, a loop that has ended |
| `SecretClient` | `read_line`, which no timer interrupts | assumed: the orchestrator reads and answers; exception: a line that never comes |
| `Databases` | statements at a server; `close` | exceptions: a call stays at its server (`AtServer`), a connection stays in use. `acquire` has its timer. Proxied calls have none, and `CallsReturn` is about direct ones |
| `HttpServing` | the user's handler, writes to stdout and TCP, receives, `lock()` | exceptions, of which a single one must go on for good (`AtHandler`, `AtWrite`, `AtReceive`, `AtLock`, `Keeps`) |
| `SecretProviders` | none | nothing is assumed of the environment |

Each exception of `HttpServing` is needed: without any one of them TLC finds `CallsEnd` violated.

## 4. Proofs

Every theorem holds for all values of the constants that the named assumptions of its module
allow (free-mutex and nobody values are no tasks, bounds are natural numbers, and so on).

| module | theorems |
|---|---|
| `TransportProofs` | TCP channel: `Spec => []TypeOK`, `[]Framing`, `[]SendOutcome`; HTTP: `HttpSpec => []HttpTypeOK`, `[]AloneGetsOwn`, `PortIsOwn` |
| `RegistrationProofs` | `Spec => []TypeOK`, `[]SoleCallerGetsItsAnswer` |
| `InternalMessagingProofs` | `Spec => []TypeOK`, `[]OwnResponse`, `OnlyShutdownEnds` |
| `IpcProofs` | `Spec => []TypeOK`, `[]AnswerIsOwn` |
| `SecretsProofs` | `Spec => []TypeOK`, `[]StaleHasCause`, `OnRotateIsCurrent`; `ProvidersSpec => []ProvidersTypeOK`, `[]SubscriberIsCurrent` |
| `CachesProofs` | `Spec => []TypeOK`, `[]CountsKept`, `FreshReads`, `[]EntryFollowsSource`, `LockLossHasCause`, `Exclusive` |
| `DatabasesProofs` | `Spec => []TypeOK`, `[]NothingUnasked`, `[]ReadBack`, `OkIsTrue`, `ClosedMeansEnded` |
| `SchemaSyncProofs` | `Spec => []TypeOK`, `SyncOkMeansComplete`, `SyncErrorsHaveCause` |

Those of one model rest on one inductive invariant, with one lemma per conjunct and in it one step per
action; lemmas about tails and extensions of a sequence say how a message that leaves or joins
a queue affects what is known of the queue.

### TcpChannel

    IInv == TypeOK /\ AttemptInv /\ LockInv /\ OpInv /\ Framing /\ SendOutcome

`Framing` says what a stream looks like while a task is inside a frame and when no one is; a
step of another task could break it unless the mutex excludes it, which is `LockInv`: the tasks
inside a frame are exactly the holder of the mutex, and it has a stream. `TypeOK` needs
`AttemptInv` (past the head of the retry loop an attempt is left) for the bound on `attempts`.
`SendOutcome` needs `OpInv`: only a send is ever in the writing steps, so only a send counts a
frame, and its only way out of the last writing step is `Ok`. There is one lemma per conjunct
(`TypeStep`, `AttemptStep`, `LockStep`, `OpStep`, `FramingStep`, `OutcomeStep`), each with one
step per action, and `Invariance` puts them together. `Framing` is conditional on no call
having a timer: with one, a receive can be dropped between header and payload, and the next
receive takes the payload for a header (a finding in `PROJECT.json`).

### Registration

    IInv == TypeOK /\ AloneInv /\ OwnChannelInv /\ RegisterInv /\ OwnAnswer

The property speaks of the end of a call; what makes it true happens before. `AloneInv`: on the
channel of a call that is alone every request is its own and every answer is for it, so the
next message is its answer. A call on a channel of its own is alone because the channel is
empty until it sends (`OwnChannelInv`), and the one call that can move a channel under the
others, a successful `register_module`, runs before any other exists (`RegisterInv`).

### InternalMessaging

    IInv == TypeOK /\ CallInv /\ BootInv /\ OwnResponse

`CallInv`: between the insertion into the pending map and the send, nobody can answer the id
and the entry is there; without it, a response could be thought to arrive early and find no
one. `BootInv`: the main task refers to the first handler map, which stays empty, and the
application to the second. `OnlyShutdownEnds` is an action property that follows from it.

### Ipc

    IInv == TypeOK /\ AloneInv /\ AnswerIsOwn

`AloneInv`: whatever is under way with the key of a call that is alone - queued, at the
orchestrator, or answered and not read - is of that call. `AnswerIsOwn` alone says nothing of
messages, so the step that reads a response could break it.

### SecretClient

    IInv == TypeOK /\ LineInv /\ TookInv /\ StaleHasCause /\ DueInv /\ HandInv

`StaleHasCause` follows the order of the lines: a secret among them is the current one or has its
rotation behind it (`LineInv`), and a secret in a task's hand is the current one, or the rotation
is on the way to the cache (`Announced`), was read by someone else (`swallowed`), or has been
there since the secret was read (`overtaken`): `TookInv`. `PendingStep` is the core: a rotation
stays announced or swallowed until it reaches the cache. `OnRotateIsCurrent` follows the same order
from the other end: the secrets still to be read are at least as new as every rotation read
before them (`DueInv`), so is what the subscriber has in hand (`HandInv`).

### SecretProviders

    ProvidersInv == ProvidersTypeOK /\ SourceInv /\ FetchInv /\ CopyInv

`SubscriberIsCurrent` speaks of states in which nothing is under way, so it says nothing of the
steps that lead there. `CopyInv` does: each key is named by an event to come (`NamedLater`), or is
one the subscriber will fetch or is fetching, or has in the copy the value that the chain gives
when the reload in progress is over (`IsValue`), or is `stale`, for the reason that the history
variable stands for. A reload empties the map before it fills it, so the map alone does not say
what the chain gives: `Provides` takes what the file provider *will* have. A fetch asks one
provider after the other, and by `FetchInv` has been past providers that lack the key, unless it
looked into a reload (`torn`) or the key is named later. `SourceInv` says that a reload clears only
what it replaces, and that a provider of the chain announces to someone who watches. The
assumptions are that a chain is a sequence of some of the three providers and has one, that the
environment has its values or an error, and that the broadcast channel has room for one.

### HttpServing

    HttpInv == HttpTypeOK /\ InputInv /\ InboxInv /\ LineInv /\ ResponseInv /\ AloneInv /\ AloneGetsOwn
               /\ SoleInv /\ ServeInv

`AloneGetsOwn` is about a client that takes the next message as its response. It needs a count:
every call that ended with `Ok` has taken a response, and no two the same (`ResponseInv`), so if
all earlier calls have ended so, as many responses as requests are gone, and by the cardinality of
the two sets nothing is left but the one to come (`AloneInv`). `InputInv` and `InboxInv` say
that a request is read and broadcast at most once, `LineInv` that nobody is twice in the line for
the stream mutex, so that who leaves it is gone (`HttpTypeOK` says who is in it). `PortIsOwn` needs to know where the answer to
the sole caller is (`SoleInv`): with the orchestrator, in the input, about to empty the slot,
or in `ALLOCATED_PORT`; `ServeInv` keeps other callers of the negotiation out before
`serve_with_options` is called. `PortCallersAssumption` says that only
`negotiate_port` and `request_port` ask for a port, and that the first does where
`serve_with_options` negotiates.

### Caches

    IInv == TypeOK /\ OpsInv /\ OrdersInv /\ TaskInv /\ SeenInv /\ EntryInv /\ LeaseInv /\ CountInv /\ CountsKept /\ FreshInv

One invariant for the five implementations: what they have in common is about the entry, and each
action of each store is a step of the proof. `CountsKept` needs `CountInv`: in Memcached the
caller that found no counter has the mutex until it has stored one. `FreshReads` follows from
`FreshInv`: what is stored is what the last write, or one of those that overlap, has stored;
for Redis' `set_nx` and for a file that is open and truncated it says what the write has
already done, and for the orders that are still to come through the proxy (`OrdersInv`: nowhere else
are there any) that each is one of those writes. `Exclusive`, the refinement of `ExclusiveLock`, and `LockLossHasCause` follow from
`LeaseInv`: in Redis and with the orchestrator whoever has a lease has the entry, which no
order of another call removes, since it does not have the token (`Fits`), but a flush, which ends
the leases. `EntriesFollow`
adds `SourceInv`: as long as nothing has tainted the entry, patterns that write
run alone (`Followed`), and none has a call that crossed another's, the call of a pattern is the one it makes where it is (`PatternCall`), and
each pattern has got as far as its place says (`PatternOK`). In a file the entry may be empty, but
only while the process that truncated it has not finished, or has failed or crashed (`Owner`).
`ContentsAssumption` says that the marks for a foreign, mixed or empty file are no values,
`VersionsAssumption` that the values are the versions from 1.

### Databases

    IInv == TypeOK /\ CallInv /\ OrderInv /\ PoolInv /\ RowInv /\ BackInv /\ NothingUnasked /\ HandleInv
            /\ AckInv /\ StartedInv /\ AloneInv /\ TaintInv /\ BrokenInv /\ BegunInv

The steps of the three drivers, and those of the proxied connection, are first shown to be
among nine direct moves and seven proxied ones (`DirectMoves`, `ProxiedMoves`), and those of the
database among five effects on one transaction (`DbSteps`). `TypeOK` counts the connections of
the pool; `PoolInv` has what the arithmetic of cardinalities needs. `NothingUnasked`: a commit is
under way only for a transaction that was asked to be committed (`CallInv`, `OrderInv`), and a
transaction has no row but its own (`RowInv`). `ReadBack` needs only that what was returned is the
reading of the parameters and that the driver took them and the database held them (`BackInv`,
`Holds`), and then goes through the kinds of values, driver by driver.

`OkIsTrue` and `ClosedMeansEnded` are different for the two sorts of connection. A direct one:
the open transactions are those that tasks hold (`HandleInv`), which have the rows that execute
returned `Ok` for (`AckInv`); when the pool is full again, nobody holds one. A proxied one: while
a call is alone, whatever is under way is its own order, then the true answer to it
(`AloneInv`); whoever is not alone has tainted its transaction, also if its order is still
under way (`TaintInv`), and so has a statement that broke one in PostgreSQL, or it is about to, when its
error arrives (`BrokenInv`); and a transaction whose id has been received is among those that close
has taken or will take, unless a close gave it up (`BegunInv`, `StartedInv`). The assumptions
used are those of `DatabaseCalls`: nobody is no task, a connection is to one of the
three databases, values are of the kinds of `DatabaseValue`, and the pool has a connection.

### Model manager

    SchemaInv == TypeOK /\ Shape(schema) /\ CallInv /\ SyncInv

`SyncOkMeansComplete` is about the end of a call that has executed a script per model, and lets
other tasks execute theirs in between. `SyncInv` says of a call that nothing has upset: the
models before are complete, and whatever this one asks for is there or its statement is in what
is left of the script (`OnItsWay`), or a piece of a statement that was cut, with which the call
will fail. Three groups of lemmas carry it. `CreateFacts` and `AdditiveFacts`: for each adapter and
any model a script has a statement for the table, every column and every index, and the
migration from an empty model drops nothing. `Executed`: a statement that is accepted
does what it is for, and only one that drops something takes anything away (`Grows`), which
upsets every other call. `ExistsMeets`: when the database answers that something exists, and
the code takes that for success, it does exist, or the statement names something twice
(`NamesTwice` of its model). "Duplicate" of rows is not such an answer, and upsets the call.

`SyncErrorsHaveCause` is about every answer in between, and reads the same invariant the other
way: a call that has got so far, in whatever company, cannot be refused but for its model. Three
parts of `OnItsWay` are for this. `OwnScript`: every statement that is left belongs to the phase
and is made from the model, so that what is wrong with it is a property of the model
(`CreateTableFacts`, `ColumnFacts`, `IndexFacts`: of each adapter's statements, where a key comes
from, and when there is none). `EnumsLeft`: the type of an enumeration is there, or its
`CREATE TYPE` is left, so that no table or column comes before its type. `BeforeIndexes`: what
is left of the table comes before the indexes, so that an index is refused only for its schema
or its columns. `StatementError` takes a refused statement, `CreateScriptError` and
`AdditiveScriptError` a script that is not generated, and `ErrFacts` says that there is no other
way to an error. The proof found two causes that no model of the run has: an index of a column
that the model lacks, and in MySQL a key column that is added to a table. They are now in
`Unsupported` and `Unextendable`.

`CallInv` says that a script
of `sync_schema` drops nothing. The assumptions are that the lists are lists of descriptors and
not empty, that migrations are between descriptors, and that databases are of the three types.

### Only model-checked

* All liveness (`CallsReturn`, `CallsEnd`, `CallsProgress`, `HeartbeatsGoOn`, `FileIsFollowed`):
  fairness and `ENABLED` are out of the prover's reach.
* `SyncIsRepeatable` is violated (`schema_again`): there is nothing to prove.

## 5. Not modelled

See `components` in `PROJECT.json`. Outside the models:

* pure conversions: message framing and formats (`message.rs`), JSON layout, the text of SQL,
  headers, routes and bodies of HTTP. What a property tells apart is kept where it is used;
* the router of `http_ipc/mod.rs`: `start_http_ipc_server` never receives a request;
* `HttpClientPool`, builders and route tables: maps that one task fills before others read;
* of the secret providers, `keys` and `redact_line`, which only read, metrics and tracing, and a
  `FileProvider` of a bare file name, whose directory is the empty path and cannot be watched
  (in the model, `watch` may fail for any file);
* the branches of the stdin loop that hand lines to the secret client (`Ipc` and `SecretClient`
  each model their own competition for the input; a composition of the two is not checked);
* seconds: that a time to live is rounded or converted by a store; that an entry's time may be
  over at any moment includes what rounding can do;
* the variant of `serve_with_options` without the feature `ipc_channel`;
* JWT, handshake, announcement, logging and redaction, macros, command line tools, test stubs
  and mocks: no state, or state that is set once, before any task runs.

## 6. Plan

1. Abstract specifications: a reliable frame channel that `TcpChannel` without timers
   implements, used by `Registration` and `InternalMessaging`; a request/response service with
   own-answer-or-error as its contract, that `InternalMessaging` and, per key, `Ipc` implement.
2. `MessageFraming`: frame and format conversions as operators, with lemmas.
