------------------------------ MODULE MCCaches ------------------------------
(* Two callers of one cache, used for data, counters, entities and locks   *)
(* by the implementations.                                                 *)
EXTENDS CachePatterns, TLC

\* Every use, except that the patterns over a source, which are the same code
\* for all, run on three of the implementations.
MCUses == ((Backends \ {"disabled"}) \X {"data", "counter", "lock"})
          \union ({"memory", "redis", "proxy"} \X {"entity"})
          \union {<<"disabled", "data">>}

\* Where the faults of others do the same, the largest uses go without.
MCFails == MCUses \ {<<"file", "lock">>, <<"proxy", "entity">>}
MCCrashes == MCUses \ {<<"file", "data">>}

\* Where calls take the most steps a refused lock is not tried again.
MCAttempts == [b \in Backends |-> IF b \in {"file", "proxy"} THEN 1 ELSE 2]

\* The callers are interchangeable.
Symmetry == Permutations(Callers)
=============================================================================
