---------------------------- MODULE ExclusiveLock ---------------------------
(***************************************************************************)
(* What CacheService::lock promises (src/cache/mod.rs): while the lease of *)
(* one caller runs, no other is given the lock.                            *)
(***************************************************************************)
CONSTANT Callers
VARIABLE holders

Init == holders = {}

Acquire(t) == holders = {} /\ holders' = {t}

\* Released, given up by an administrator, or the lease is over.
Release(t) == t \in holders /\ holders' = holders \ {t}

Next == \E t \in Callers : Acquire(t) \/ Release(t)

Spec == Init /\ [][Next]_holders
=============================================================================
