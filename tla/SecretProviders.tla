--------------------------- MODULE SecretProviders --------------------------
(***************************************************************************)
(* Sources of secrets (src/secret_provider): ChainedProvider over a        *)
(* MemoryProvider, a FileProvider whose file is watched, and an            *)
(* EnvProvider.  One operation on a concurrent map is one step, so that a  *)
(* reload, which clears the map and fills it again, is several.            *)
(*                                                                         *)
(* The application's subscriber is not part of the repository: it watches  *)
(* the chain and fetches the keys that an event names, or all of them at   *)
(* the start and when it has lagged.  Which of Rotated and Added names a   *)
(* key is left out, and so are metrics and tracing.                        *)
(***************************************************************************)
EXTENDS Naturals, Sequences, FiniteSets

CONSTANTS
    Names,
    Chains,      \* sequences of distinct providers
    Envs,        \* what the environment may have
    Setters,     \* tasks that call set
    Cap,         \* capacity of the broadcast channel
    MaxValues,   \* bound, per chain: values that are ever written
    MaxChanges,  \* bound: changes of the file
    EnvValue, EnvError, NoOne

Values == Nat   \* versions; 0: the key is not there
Maps == [Names -> Values]
\* The file; it may also be away, or hold what does not parse.
Files == [ok : BOOLEAN, has : Maps]

ASSUME ChainsAssumption == \A c \in Chains : c \in Seq({"memory", "file", "env"}) /\ c # <<>>
ASSUME EnvsAssumption == Envs \subseteq [Names -> {0, EnvValue, EnvError}]
ASSUME CapAssumption == Cap \in Nat \ {0} /\ MaxValues \in [Chains -> Nat \ {0}] /\ MaxChanges \in Nat
ASSUME NoOneAssumption == NoOne \notin Names

VARIABLES
    chain, env,
    newest, changes, \* bounds
    disk,      \* the contents of the file
    secrets,   \* FileProvider::secrets
    reload,    \* its watching task
    notice,    \* what is in notify's channel of one: "file", "other" or "none"
    memory,    \* MemoryProvider::secrets
    watcher,   \* MemoryProvider::watcher is set
    setter,    \* the set of each task, which has still to insert, or to announce
    events,    \* the broadcast channel, as far as it has not been received
    behind,
    sub,       \* the subscriber
    copy,      \* what it has got for each key
    missed,    \* history: the file's last change will not be noticed
    stale      \* history: keys whose change, or fetch, no event corrects

fileVars == <<disk, changes, secrets, reload, notice, missed>>
memoryVars == <<memory, watcher, setter>>
subscriberVars == <<sub, copy>>
eventVars == <<events, behind>>
providerVars == <<chain, env, newest, fileVars, memoryVars, subscriberVars, eventVars, stale>>

Have(m) == {k \in Names : m[k] # 0}
Without(m, k) == [m EXCEPT ![k] = 0]
Nothing == [k \in Names |-> 0]
InChain(p) == \E i \in DOMAIN chain : chain[i] = p

ReloadPCs == {"off", "starting", "waiting", "reading", "clearing", "filling"}
ProvidersTypeOK ==
    /\ chain \in Chains /\ env \in Envs
    /\ newest \in 1..MaxValues[chain] /\ changes \in 0..MaxChanges
    /\ disk \in Files
    /\ secrets \in Maps /\ memory \in Maps
    /\ reload \in [pc : ReloadPCs, from : Maps, was : Maps, todo : SUBSET Names]
    /\ reload.todo \subseteq Have(reload.from)
    \* While the map is filled it has what the file had, but for what is left.
    /\ reload.pc = "filling" => secrets = [k \in Names |-> IF k \in reload.todo THEN 0 ELSE reload.from[k]]
    /\ reload.pc \notin {"clearing", "filling"} => reload.todo = {}
    /\ reload.pc \in {"off", "starting"} => notice = "none"
    /\ notice \in {"none", "file", "other"} /\ watcher \in BOOLEAN
    /\ setter \in [Setters -> [pc : {"idle", "insert", "announce"}, key : Names \union {NoOne}, val : Values]]
    /\ events \in Seq(SUBSET Names) /\ Len(events) <= Cap /\ behind \in BOOLEAN
    /\ sub \in [on : BOOLEAN, todo : SUBSET Names, key : Names \union {NoOne}, at : 0..Len(chain),
               torn : BOOLEAN]
    /\ sub.key = NoOne <=> sub.at = 0
    /\ copy \in [Names -> Values \union {EnvValue, EnvError}]
    /\ missed \in BOOLEAN /\ stale \subseteq Names

NotReloading == [pc |-> "off", from |-> Nothing, was |-> Nothing, todo |-> {}]
ProvidersInit ==
    /\ chain \in Chains /\ env \in Envs
    /\ newest = 1 /\ changes = 0
    /\ secrets \in {[k \in Names |-> IF k \in h THEN 1 ELSE 0] : h \in SUBSET Names}
    /\ disk = [ok |-> TRUE, has |-> secrets]   \* FileProvider::new
    /\ reload = NotReloading /\ notice = "none"
    /\ memory = Nothing /\ watcher = FALSE
    /\ setter = [t \in Setters |-> [pc |-> "idle", key |-> NoOne, val |-> 0]]
    /\ events = <<>> /\ behind = FALSE
    /\ sub = [on |-> FALSE, todo |-> {}, key |-> NoOne, at |-> 0, torn |-> FALSE]
    /\ copy = Nothing /\ missed = FALSE /\ stale = {}

\* broadcast::Sender::send.
Announce(ks) ==
    IF ~sub.on THEN UNCHANGED eventVars
    ELSE IF Len(events) < Cap THEN events' = Append(events, ks) /\ UNCHANGED behind
    ELSE events' = Append(Tail(events), ks) /\ behind' = TRUE

-----------------------------------------------------------------------------
(* The file, and what notify makes of its changes.                         *)

Watching == reload.pc \notin {"off", "starting"}

\* try_send into the channel of one.
PutNotice(what) == notice' = IF Watching /\ notice = "none" THEN what ELSE notice

\* A change of the file itself is noticed, unless nobody watches, or a change
\* of another file in the directory is in the channel.
FileNotice ==
    /\ PutNotice("file")
    /\ missed' = (~Watching \/ notice = "other")

Changed ==
    /\ InChain("file") /\ changes < MaxChanges /\ changes' = changes + 1
    /\ UNCHANGED <<chain, env, secrets, reload, memoryVars, subscriberVars, eventVars, stale>>

\* The file is truncated, half written, or removed.
FileBreaks ==
    /\ Changed /\ disk' \in [ok : BOOLEAN, has : {Nothing}] /\ disk' # disk
    /\ FileNotice /\ UNCHANGED newest

\* It is written: some keys with a new value, some left out,
\* some as they were loaded.
NewContents ==
    /\ newest < MaxValues[chain] /\ newest' = newest + 1
    /\ \E new, gone \in SUBSET Names :
        /\ new \intersect gone = {}
        /\ disk' = [ok |-> TRUE, has |-> [k \in Names |->
                        IF k \in new THEN newest' ELSE IF k \in gone THEN 0 ELSE secrets[k]]]
FileWritten == Changed /\ NewContents /\ disk' # disk /\ FileNotice

\* A new file is renamed to it: an event that the provider does not look for.
FileReplaced ==
    /\ Changed /\ NewContents /\ disk' # disk
    /\ missed' = TRUE /\ UNCHANGED notice

OtherFileChanges ==
    /\ InChain("file") /\ Watching /\ notice = "none" /\ PutNotice("other")
    /\ UNCHANGED <<chain, env, newest, disk, changes, secrets, reload, missed,
                   memoryVars, subscriberVars, eventVars, stale>>

-----------------------------------------------------------------------------
(* The task of start_watching_task, and load_secrets.                      *)

Loads == UNCHANGED <<chain, env, newest, disk, changes, memoryVars, subscriberVars>>

\* notify cannot watch the directory: the task ends, and watch may be called
\* again.
StartsWatching ==
    /\ reload.pc = "starting"
    /\ \E l \in {"waiting", "off"} : reload' = [reload EXCEPT !.pc = l]
    /\ Loads /\ UNCHANGED <<secrets, notice, missed, eventVars, stale>>

\* An event of another file is dropped.
TakesNotice ==
    /\ reload.pc = "waiting" /\ notice # "none" /\ notice' = "none"
    /\ reload' = IF notice = "file" THEN [reload EXCEPT !.pc = "reading"] ELSE reload
    /\ Loads /\ UNCHANGED <<secrets, missed, eventVars, stale>>

\* The file is read and parsed; the keys of the map are remembered.
Reads ==
    /\ reload.pc = "reading" /\ disk.ok
    /\ reload' = [pc |-> "clearing", from |-> disk.has, was |-> secrets, todo |-> Have(disk.has)]
    /\ missed' = FALSE
    /\ Loads /\ UNCHANGED <<secrets, notice, eventVars, stale>>

\* An error leaves the map as it is, and nobody tries again.
ReadFails ==
    /\ reload.pc = "reading" /\ reload' = [reload EXCEPT !.pc = "waiting"]
    /\ missed' = (missed \/ (disk.ok /\ notice # "file"))
    /\ Loads /\ UNCHANGED <<secrets, notice, eventVars, stale>>

Clears_Never ==
    /\ reload.pc = "clearing" /\ reload' = [reload EXCEPT !.pc = "filling"]
    /\ Loads /\ UNCHANGED <<secrets, notice, missed, eventVars, stale>>

\* DashMap::clear goes from shard to shard.
Clears ==
    /\ reload.pc = "clearing"
    /\ IF Have(secrets) = {} THEN reload' = [reload EXCEPT !.pc = "filling"] /\ UNCHANGED secrets
       ELSE (\E k \in Have(secrets) : secrets' = Without(secrets, k)) /\ UNCHANGED reload
    /\ Loads /\ UNCHANGED <<notice, missed, eventVars, stale>>

Inserts ==
    /\ reload.pc = "filling"
    /\ \E k \in reload.todo :
        /\ secrets' = [secrets EXCEPT ![k] = reload.from[k]]
        /\ reload' = [reload EXCEPT !.todo = @ \ {k}]
    /\ Loads /\ UNCHANGED <<notice, missed, eventVars, stale>>

ChangedKeys_Additions(m) == Have(m) \ Have(reload.was)

\* Keys that are new or gone; a new value of a key is no change.
ChangedKeys(m) == (Have(m) \ Have(reload.was)) \union (Have(reload.was) \ Have(m))

Reloaded_Drains ==
    /\ reload.pc = "filling" /\ reload.todo = {}
    /\ reload' = [NotReloading EXCEPT !.pc = "waiting"] /\ notice' = "none"
    /\ IF ChangedKeys(secrets) # {} THEN Announce(ChangedKeys(secrets)) ELSE UNCHANGED eventVars
    /\ stale' = stale \union {k \in Have(secrets) \intersect Have(reload.was) :
                                secrets[k] # reload.was[k]}
    /\ Loads /\ UNCHANGED <<secrets, missed>>

Reloaded ==
    /\ reload.pc = "filling" /\ reload.todo = {}
    /\ reload' = [NotReloading EXCEPT !.pc = "waiting"]
    /\ IF ChangedKeys(secrets) # {} THEN Announce(ChangedKeys(secrets)) ELSE UNCHANGED eventVars
    /\ stale' = stale \union {k \in Have(secrets) \intersect Have(reload.was) :
                                secrets[k] # reload.was[k]}
    /\ Loads /\ UNCHANGED <<secrets, notice, missed>>

ReloadStep == StartsWatching \/ TakesNotice \/ Reads \/ ReadFails \/ Clears \/ Inserts \/ Reloaded

-----------------------------------------------------------------------------
(* ChainedProvider.                                                        *)

\* get of one provider.
Lookup(p, k) ==
    CASE p = "memory" -> memory[k] [] p = "file" -> secrets[k] [] p = "env" -> env[k]

\* What get of the chain gives when nothing changes: the first provider that
\* has the key, or has an error.
ChainValue(k) ==
    LET having == {i \in DOMAIN chain : Lookup(chain[i], k) # 0} IN
    IF having = {} THEN 0 ELSE Lookup(chain[CHOOSE i \in having : \A j \in having : i <= j], k)

\* set of the chain: the others do not support it, so that it is
\* MemoryProvider::set.  The value is inserted, and then announced.
BeginSet(t) ==
    /\ InChain("memory") /\ setter[t].pc = "idle" /\ newest < MaxValues[chain]
    /\ newest' = newest + 1
    /\ \E k \in Names :
        setter' = [setter EXCEPT ![t] = [pc |-> "insert", key |-> k, val |-> newest']]
    /\ UNCHANGED <<chain, env, fileVars, memory, watcher, subscriberVars, eventVars, stale>>

SetInserts(t) ==
    /\ setter[t].pc = "insert" /\ setter' = [setter EXCEPT ![t].pc = "announce"]
    /\ memory' = [memory EXCEPT ![setter[t].key] = setter[t].val]
    /\ UNCHANGED <<chain, env, newest, fileVars, watcher, subscriberVars, eventVars, stale>>

SetAnnounces(t) ==
    /\ setter[t].pc = "announce"
    /\ setter' = [setter EXCEPT ![t] = [pc |-> "idle", key |-> NoOne, val |-> 0]]
    /\ IF watcher THEN Announce({setter[t].key}) ELSE UNCHANGED eventVars
    /\ UNCHANGED <<chain, env, newest, fileVars, memory, watcher, subscriberVars, stale>>

\* watch of the chain.  A file that is watched already is left to its task.
Watch ==
    /\ ~sub.on \/ (InChain("file") /\ reload.pc = "off")
    /\ sub' = [on |-> TRUE, todo |-> Names, key |-> NoOne, at |-> 0, torn |-> FALSE]
    /\ watcher' = InChain("memory")
    /\ reload' = IF InChain("file") /\ reload.pc = "off" THEN [reload EXCEPT !.pc = "starting"] ELSE reload
    /\ UNCHANGED <<chain, env, newest, disk, changes, secrets, notice, missed, memory, setter,
                   copy, eventVars, stale>>

-----------------------------------------------------------------------------
(* The subscriber.                                                         *)

Fetched == UNCHANGED <<chain, env, newest, fileVars, memoryVars>>
Quiet == sub.todo = {} /\ sub.key = NoOne

TakesEvent ==
    /\ sub.on /\ Quiet
    /\ \/ behind /\ sub' = [sub EXCEPT !.todo = Names] /\ events' = events
       \/ ~behind /\ events # <<>> /\ sub' = [sub EXCEPT !.todo = Head(events)] /\ events' = Tail(events)
    /\ behind' = FALSE /\ Fetched /\ UNCHANGED <<copy, stale>>

\* The map is looked at while it is without the key, for a moment.
FallsThrough(k, i) ==
    /\ chain[i] = "file" /\ reload.pc \in {"clearing", "filling"}
    /\ k \in Have(reload.was) \intersect Have(reload.from)
    /\ secrets[k] # reload.from[k]

\* get of the chain asks provider i; a key it does not have is looked for in
\* the next.
Asks(k, i, before) ==
    LET v == Lookup(chain[i], k)
        torn == before \/ FallsThrough(k, i) IN
    /\ IF v = 0 /\ i < Len(chain)
       THEN /\ sub' = [sub EXCEPT !.key = k, !.at = i + 1, !.todo = @ \ {k}, !.torn = torn]
            /\ UNCHANGED <<copy, stale>>
       ELSE /\ sub' = [sub EXCEPT !.key = NoOne, !.at = 0, !.todo = @ \ {k}, !.torn = FALSE]
            /\ copy' = [copy EXCEPT ![k] = v]
            /\ stale' = IF torn THEN stale \union {k} ELSE stale \ {k}
    /\ Fetched /\ UNCHANGED eventVars

Get == sub.key = NoOne /\ \E k \in sub.todo : Asks(k, 1, FALSE)
GetNext == sub.key # NoOne /\ Asks(sub.key, sub.at, sub.torn)

ProvidersNext ==
    \/ FileBreaks \/ FileWritten \/ FileReplaced \/ OtherFileChanges
    \/ ReloadStep \/ Watch
    \/ \E t \in Setters : BeginSet(t) \/ SetInserts(t) \/ SetAnnounces(t)
    \/ TakesEvent \/ Get \/ GetNext

\* The watching task runs, and its timer wakes it.
ProvidersFairness == WF_providerVars(ReloadStep)
ProvidersSpec == ProvidersInit /\ [][ProvidersNext]_providerVars /\ ProvidersFairness

-----------------------------------------------------------------------------
(* Properties.                                                             *)

\* A subscriber that fetches what the events name, and all when it has
\* lagged, has the values of the chain when nothing is under way: an event
\* comes after the change that it is of (set, load_secrets).  Excepted are
\* keys of the file that got another value, which no event names, and keys
\* that were fetched in the middle of a reload, where get falls through to a
\* later provider, or to an older or no value.
SubscriberIsCurrent ==
    /\ sub.on /\ Quiet /\ events = <<>> /\ ~behind
    /\ reload.pc \in {"off", "waiting"} /\ \A t \in Setters : setter[t].pc # "announce"
    => \A k \in Names \ stale : copy[k] = ChainValue(k)

\* A file that is watched and can be parsed is loaded in the end, unless its
\* last change will not be noticed: it came when nobody watched, as a rename,
\* while an event of another file was in the channel, or reading failed
\* (start_watching_task, whose channel holds one event).
Loadable == Watching /\ disk.ok /\ ~missed
FileIsFollowed == Loadable ~> secrets = disk.has \/ ~Loadable
=============================================================================
