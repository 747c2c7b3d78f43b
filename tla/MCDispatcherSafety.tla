------------------------- MODULE MCDispatcherSafety -------------------------
(* Two instances of TaskDispatcher, told apart by `part': the life of a small *)
(* registry (servants come, go and come back, grants are prefetched, renewed  *)
(* and freed), and one pick from every registry of three servants on three    *)
(* hosts, the first one the requestor's, in any mix of load, capacity, memory *)
(* pressure and priority, with any number of tasks running on each.           *)
EXTENDS MCTaskDispatcher

VARIABLE part

PickLocations == {"l0", "l1", "l2"}
PickHostOf == [l \in PickLocations |-> IF l = "l0" THEN "h3" ELSE MCHostOf[l]]

LocationOf == [d \in 0 .. 2 |-> CASE d = 0 -> "l0" [] d = 1 -> "l1"
                                  [] OTHER -> "l2"]

Loads == {[dedicated |-> FALSE, low |-> FALSE, cap |-> 2, load |-> 0],
          [dedicated |-> FALSE, low |-> FALSE, cap |-> 3, load |-> 3],
          [dedicated |-> TRUE, low |-> FALSE, cap |-> 3, load |-> 0],
          [dedicated |-> TRUE, low |-> FALSE, cap |-> 2, load |-> 2],
          [dedicated |-> TRUE, low |-> TRUE, cap |-> 2, load |-> 0]}

Servant(d, k, running) ==
    [personality |->
        [observed_location |-> LocationOf[d], version |-> 1,
         environments |-> {"gcc"}, num_processors |-> 3,
         current_load |-> k.load, low_memory |-> k.low,
         dedicated |-> k.dedicated, max_tasks |-> k.cap],
     expires_at |-> 1, running_tasks |-> running]

PickInit ==
    /\ \E k \in [0 .. 2 -> Loads], n \in [0 .. 2 -> 0 .. 2] :
          /\ servants = [d \in 0 .. 2 |-> Servant(d, k[d], n[d])]
          /\ next_task_id = n[0] + n[1] + n[2]
          /\ tasks = [t \in 0 .. (n[0] + n[1] + n[2] - 1) |->
                [servant |-> IF t < n[0] THEN 0
                             ELSE IF t < n[0] + n[1] THEN 1 ELSE 2,
                 expires_at |-> 1, zombie |-> FALSE, is_prefetch |-> FALSE]]
    /\ next_desc = 3
    /\ requests = [r \in Requests |->
          [phase |-> "immediate", app |-> App(1, 1, 0, 0), index |-> 0,
           grants |-> {}, left |-> 0, asleep |-> FALSE]]
    /\ heartbeats = {}
    /\ bookkeeper = [l \in {} |-> {}]
    /\ unannounced = FALSE

(* The bounds of the first instance, smaller than the second one's.           *)
LifeTasks == 2
LifeDescs == 2

SafetyInit ==
    \/ part = "life" /\ Init
    \/ part = "pick" /\ PickInit

SafetyNext ==
    /\ \/ /\ part = "life" /\ Next
          /\ next_task_id' <= LifeTasks /\ next_desc' <= LifeDescs
       \/ part = "pick" /\ \E r \in Requests : Allocate(r) \/ Sleep(r)
    /\ UNCHANGED part

SafetySpec == SafetyInit /\ [][SafetyNext]_<<vars, part>>
=============================================================================
