-------------------------- MODULE MCTaskDispatcher --------------------------
(* Instances of TaskDispatcher for TLC.                                       *)
EXTENDS TaskDispatcher

(* A servant's heartbeat: at location l it offers n slots on n processors.    *)
Beat(l, n, ttl) ==
    [observed |-> l, location |-> l, capacity |-> n, num_processors |-> 0,
     current_load |-> 0, low_memory |-> FALSE, dedicated |-> FALSE,
     version |-> 1, environments |-> {"gcc"}, is_user |-> TRUE,
     is_servant |-> TRUE, ttl |-> ttl]

App(immediate, prefetch, wait, lease) ==
    [env |-> "gcc", min_version |-> 1, requestor |-> "h3",
     immediate_reqs |-> immediate, prefetch_reqs |-> prefetch,
     wait |-> wait, lease |-> lease]

MCLocations == {"l1", "l2"}
MCHostOf == [l \in MCLocations |-> IF l = "l1" THEN "h1" ELSE "h2"]

(* A servant with two slots that comes, leaves politely (ttl 0, one slot) or  *)
(* silently, and comes back; and another one.                                 *)
SafetyBeats == {Beat("l1", 2, 1), Beat("l1", 1, 0), Beat("l2", 1, 0)}
SafetyApps == {App(1, 1, 0, 0)}

(* One slot that two handlers compete for.                                    *)
WaitBeats == {Beat("l1", 1, 0), [Beat("l1", 1, 1) EXCEPT !.low_memory = TRUE],
              Beat("l1", 1, 1)}
WaitApps == {App(1, 0, 0, 0)}
=============================================================================
