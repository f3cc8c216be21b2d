----------------------------- MODULE FileCache ------------------------------
(***************************************************************************)
(* FileCache (src/cache/file.rs): one file per key, or per group of keys   *)
(* with the same sum of bytes.  A system call is one step.  Whether a file *)
(* is expired is told from its time of modification and the default time   *)
(* to live.  A handle on a file that was removed reads and writes nothing  *)
(* that anyone sees.                                                       *)
(***************************************************************************)
EXTENDS CacheCalls

Written(v) == [val |-> v, ttl |-> TRUE, exp |-> FALSE, n |-> 0]

\* What is read after new was written at the beginning of old.
Overlay(old, new) ==
    IF old = Empty THEN {new}
    ELSE IF old \in Values /\ new \in Values
         THEN IF old <= new THEN {new} ELSE {Mixed}
         ELSE {new, Mixed}

FileGet(t) ==
    \/ /\ At(t, "called", {"get", "get_many"}) /\ Keep
       /\ Goto(t, IF Live(entry) THEN "open" ELSE "purge", NoEntry)
    \/ /\ At(t, "open", {"get", "get_many"}) /\ Keep
       /\ IF entry = NoEntry THEN Return(t, "Err", NoEntry) ELSE Return(t, "Ok", entry.val)
    \/ At(t, "purge", {"get", "get_many"}) /\ Drop /\ Return(t, "Ok", NoEntry)

\* Both questions are asked twice; a file that is missing counts as expired,
\* and what is removed is whatever is there by then.
FileExists(t) ==
    \/ /\ At(t, "called", {"exists"}) /\ Keep
       /\ IF Live(entry) THEN Return(t, "Ok", Reading(entry)) ELSE Goto(t, "open", NoEntry)
    \/ /\ At(t, "open", {"exists"}) /\ Keep
       /\ IF entry = NoEntry THEN Return(t, "Ok", NoEntry) ELSE Goto(t, "look", NoEntry)
    \/ /\ At(t, "look", {"exists"}) /\ Keep
       /\ IF Live(entry) THEN Return(t, "Ok", NoEntry) ELSE Goto(t, "purge", NoEntry)
    \/ At(t, "purge", {"exists"}) /\ Drop /\ Return(t, "Ok", NoEntry)

\* Opening truncates the file, before its lock is taken.
OpenTruncated(t) ==
    /\ entry' = Written(Empty) /\ handles' = handles \union {t} /\ UNCHANGED flock

FileSet(t) ==
    /\ At(t, "called", {"set", "set_many"})
    /\ OpenTruncated(t) /\ Goto(t, "opened", NoEntry)

FileGetSet(t) ==
    \/ /\ At(t, "called", {"get_set"}) /\ Keep /\ UNCHANGED <<handles, flock>>
       /\ Goto(t, "open", Reading(entry))
    \/ /\ At(t, "open", {"get_set"})
       /\ OpenTruncated(t) /\ Goto(t, "opened", call[t].seen)

CreateNew(t) ==
    /\ entry = NoEntry /\ entry' = Written(Empty) /\ handles' = {t} /\ UNCHANGED flock

\* An expired file is not taken for this one, but still prevents its creation.
FileSetNx(t) ==
    \/ /\ At(t, "called", {"set_nx"}) /\ Keep /\ UNCHANGED <<handles, flock>>
       /\ IF Live(entry) THEN Return(t, "No", NoEntry) ELSE Goto(t, "open", NoEntry)
    \/ At(t, "open", {"set_nx"}) /\ CreateNew(t) /\ Goto(t, "opened", NoEntry)
    \/ /\ At(t, "open", {"set_nx"}) /\ entry # NoEntry /\ Keep /\ UNCHANGED <<handles, flock>>
       /\ Return(t, "No", NoEntry)

\* flock waits for the holder of the lock on the same file.
FileLocked(t) ==
    /\ At(t, "opened", Ops)
    /\ IF t \in handles THEN flock = NoOne /\ flock' = t ELSE UNCHANGED flock
    /\ Keep /\ UNCHANGED handles
    /\ Goto(t, "flocked", call[t].seen)

Unlocked(t) ==
    /\ flock' = IF flock = t THEN NoOne ELSE flock
    /\ handles' = handles \ {t}

\* write_all at the beginning of the file, and the unlocking.
FileWritten(t) ==
    /\ At(t, "flocked", DataWrites)
    /\ IF t \in handles
       THEN \E v \in Overlay(entry.val, call[t].arg) : entry' = Written(v)
       ELSE Keep
    /\ Unlocked(t)
    /\ Return(t, IF call[t].op = "set_nx" THEN "Yes" ELSE "Ok",
              IF call[t].op = "get_set" THEN call[t].seen ELSE NoEntry)

NumberIn(f) == IF f \in Nat THEN f ELSE 0

\* The file is read, truncated, and written.  The handle that was read
\* through shares its position with the one that writes: after a non-empty
\* read the number is written behind a gap.
FileIncrement(t) ==
    \/ /\ At(t, "called", {"increment"})
       /\ IF entry = NoEntry THEN entry' = Written(Empty) ELSE Keep
       /\ handles' = handles \union {t} /\ UNCHANGED flock
       /\ Goto(t, "opened", NoEntry)
    \/ /\ At(t, "flocked", {"increment"}) /\ UNCHANGED <<handles, flock>>
       /\ Goto(t, "truncated", Reading(entry))
       /\ IF t \in handles THEN entry' = [Written(Empty) EXCEPT !.n = entry.n] ELSE Keep
    \/ /\ At(t, "truncated", {"increment"}) /\ Unlocked(t)
       /\ IF t \in handles
          THEN LET number == IF entry.val = Empty THEN {1} ELSE {1, Mixed} IN
               /\ \E v \in IF call[t].seen \in {NoEntry, Empty} THEN number ELSE {Mixed} :
                      entry' = [Written(v) EXCEPT !.n = entry.n + 1]
               /\ Return(t, "Ok", NumberIn(call[t].seen) + 1)
          ELSE Keep /\ \E n \in 1..MaxCount : Return(t, "Ok", n)

FileDelete(t) ==
    \/ /\ At(t, "called", {"delete", "delete_many"}) /\ Keep
       /\ IF entry = NoEntry THEN Return(t, "No", NoEntry) ELSE Goto(t, "remove", NoEntry)
    \/ /\ At(t, "remove", {"delete", "delete_many"}) /\ Drop
       /\ Return(t, IF entry = NoEntry THEN "Err" ELSE "Yes", NoEntry)

\* The names of the files are hashes: none contains a prefix, and with a
\* namespace nothing is removed.
FileClear(t) ==
    /\ At(t, "called", {"clear"})
    /\ \/ Drop /\ Return(t, "Ok", NoEntry)
       \/ Keep /\ Return(t, "No", NoEntry)
FileFlush(t) == At(t, "called", {"flush"}) /\ Drop /\ Return(t, "Ok", NoEntry)

\* A new file, and then the token in it.  One that could not be created is
\* looked at again: if it is expired, or gone, whatever is there by then is
\* removed, and the call starts over.
FileLock(t) ==
    \/ At(t, "called", {"lock"}) /\ CreateNew(t) /\ Goto(t, "named", NoEntry)
    \/ /\ At(t, "called", {"lock"}) /\ entry # NoEntry /\ Keep /\ UNCHANGED <<handles, flock>>
       /\ Goto(t, "look", NoEntry)
    \/ /\ At(t, "look", {"lock"}) /\ Keep /\ UNCHANGED <<handles, flock>>
       /\ IF Live(entry) THEN Return(t, "No", NoEntry) ELSE Goto(t, "purge", NoEntry)
    \/ /\ At(t, "named", {"lock"}) /\ Return(t, "Yes", NoEntry)
       /\ IF t \in handles THEN entry' = Written(t) ELSE Keep
       /\ handles' = handles \ {t} /\ UNCHANGED flock

FileUnlock_AnyToken(t) ==
    \/ /\ At(t, "called", {"unlock"}) /\ Keep
       /\ IF entry = NoEntry THEN Return(t, "No", NoEntry) ELSE Goto(t, "remove", NoEntry)
    \/ /\ At(t, "remove", {"unlock"}) /\ Drop
       /\ Return(t, IF entry = NoEntry THEN "Err" ELSE "Yes", NoEntry)

\* Whether the file is expired is not looked at.
FileUnlock(t) ==
    \/ /\ At(t, "called", {"unlock"}) /\ Keep
       /\ IF entry = NoEntry THEN Return(t, "No", NoEntry) ELSE Goto(t, "open", NoEntry)
    \/ /\ At(t, "open", {"unlock"}) /\ Keep
       /\ IF entry = NoEntry THEN Return(t, "Err", NoEntry)
          ELSE IF entry.val = t /\ token[t] = "valid" THEN Goto(t, "remove", t)
          ELSE Return(t, "No", NoEntry)
    \/ /\ At(t, "remove", {"unlock"}) /\ Drop
       /\ Return(t, IF entry = NoEntry THEN "Err" ELSE "Yes", NoEntry)

\* What removes the file leaves the handles on it behind.
Orphans == IF entry' = NoEntry THEN handles' = {} /\ flock' = NoOne ELSE UNCHANGED <<handles, flock>>

FilePurgeLock(t) == At(t, "purge", {"lock"}) /\ Drop /\ Goto(t, "called", NoEntry)

FileStep(t) ==
    /\ \/ FileSet(t) \/ FileGetSet(t) \/ FileSetNx(t) \/ FileLocked(t) \/ FileWritten(t)
       \/ FileIncrement(t) \/ FileLock(t)
       \/ /\ FileGet(t) \/ FileExists(t) \/ FileDelete(t) \/ FileClear(t) \/ FileFlush(t)
             \/ FileUnlock(t) \/ FilePurgeLock(t)
          /\ Orphans
    /\ UNCHANGED mutex

\* key_to_path: another key with the same sum of bytes has the same file, to
\* be written, also over what was in it, and to be removed.
FileOtherKey ==
    /\ entry' \in {Written(Foreign), Written(Mixed), NoEntry} /\ Orphans
    /\ UNCHANGED <<fixed, mutex, orders, call, token, history>>
=============================================================================
