--------------------------- MODULE MCCacheService ----------------------------
(* The cache server and its reader, the engine that keeps the second level in *)
(* an object store, or the first level in memory: one of them per behaviour.  *)
EXTENDS CacheService, CosCacheEngine, InMemoryCache

VARIABLE part

allVars == <<part, vars, cosVars, arcVars>>

MCSize == [k \in Objects |-> IF k = 2 THEN 2 ELSE 1]

Service == part = "service" /\ UNCHANGED <<part, cosVars, arcVars>>
Engine == part = "engine" /\ UNCHANGED <<part, vars, arcVars>>
Memory == part = "memory" /\ UNCHANGED <<part, vars, cosVars>>

ServerInit ==
    /\ CosInit /\ Init /\ ArcInit
    /\ \/ part = "service"
       \/ part \in {"engine", "memory"} /\ l2 = {} /\ served = 0

ServerNext ==
    (Service /\ Next) \/ (Engine /\ CosNext) \/ (Memory /\ ArcNext)

ServerSafety == ServerInit /\ [][ServerNext]_allVars

\* The server's handlers go on, its timers fire, time passes, and an RPC that is
\* repeated for ever is answered and decoded now and then; listing and purging
\* are timers too.
ServerSpec ==
    /\ ServerSafety
    /\ \A k \in Keys : WF_allVars(Service /\ PutEntry(k))
    /\ WF_allVars(Service /\ OnRebuildTimer)
    /\ WF_allVars(Service /\ LoadCacheBloomFilter)
    /\ SF_allVars(Service /\ Fetch) /\ SF_allVars(Service /\ Apply)
    /\ SF_allVars(Service /\ FullUpdate(TRUE))
    /\ WF_allVars(Service /\ Tick)
    /\ \A l \in Listers : WF_allVars(Engine /\ GetKeys(l))
    /\ WF_allVars(Engine /\ OnPurgeTimer)
=============================================================================
