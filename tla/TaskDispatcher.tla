--------------------------- MODULE TaskDispatcher ---------------------------
(* The scheduler of yadcc: src/yadcc/scheduler/task_dispatcher.{h,cc}, driven *)
(* by the RPC handlers of scheduler_service_impl.cc and feeding               *)
(* running_task_bookkeeper.cc.                                                *)
(*                                                                            *)
(* A servant registers itself by heartbeats; a delegate daemon applies for    *)
(* task grants, renews them and frees them.  Every critical section of        *)
(* `allocation_lock_' is one action; a handler that takes the lock several    *)
(* times (Heartbeat, WaitForStartingTask) is as many actions, so handlers     *)
(* interleave exactly where the code lets them.                               *)
(*                                                                            *)
(* Time: `expires_at' and the waiting deadline are kept as what is left of    *)
(* them, in units of Tick, and stop at -1: "expires_at < now" is "< 0".       *)
EXTENDS Integers, FiniteSets

CONSTANTS
    Locations,      \* IP:port pairs a servant can be at
    HostOf,         \* [Locations -> hosts]: the IP part of a location
    HeartbeatReqs,  \* the HeartbeatRequests servants send (see HeartbeatType)
    Applications,   \* the WaitForStartingTaskRequests delegates send
    Requests,       \* fibers serving WaitForStartingTask
    Renewals,       \* the next_keep_alive values KeepTaskAlive is called with
    MinDaemonVersion, MaxHeartbeatTtl,  \* FLAGS_min_daemon_version, 30s
    MaxTaskId,      \* bound: grants ever made
    MaxDesc,        \* bound: servant registrations ever made
    MaxInflight     \* bound: Heartbeat handlers between their two sections

HeartbeatType ==
    [observed: Locations, location: Locations, capacity: Nat,
     num_processors: Nat, current_load: Nat, low_memory: BOOLEAN,
     dedicated: BOOLEAN, version: Nat, environments: SUBSET STRING,
     is_user: BOOLEAN, is_servant: BOOLEAN, ttl: Nat]

ApplicationType ==
    [env: STRING, min_version: Nat, requestor: STRING, immediate_reqs: Nat,
     prefetch_reqs: Nat, wait: Nat, lease: Nat]

ASSUME ConstantsAssumption ==
    /\ HeartbeatReqs \subseteq HeartbeatType
    /\ Applications \subseteq ApplicationType
    /\ Renewals \subseteq Nat
    /\ MinDaemonVersion \in Nat /\ MaxHeartbeatTtl \in Nat
    /\ MaxTaskId \in Nat /\ MaxDesc \in Nat /\ MaxInflight \in Nat
    /\ HostOf \in [Locations -> STRING]

VARIABLES
    servants,      \* servants_.servants: registered descriptors, by identity
    next_desc,     \* identity of the next ServantDesc (its place in the vector)
    tasks,         \* tasks_.tasks: live grants
    next_task_id,  \* tasks_.next_task_id
    requests,      \* the WaitForStartingTask handlers
    heartbeats,    \* Heartbeat handlers that have done their first section
    bookkeeper,    \* running_task_bookkeeper_.running_tasks_
    unannounced    \* history: KeepServantAlive ran since the last notify_all

vars == <<servants, next_desc, tasks, next_task_id, requests, heartbeats,
          bookkeeper, unannounced>>

NoApplication == [phase |-> "idle"]

-----------------------------------------------------------------------------
(* Reading the registry.                                                      *)

At(loc) == {d \in DOMAIN servants :
              servants[d].personality.observed_location = loc}

TasksOf(d) == {t \in DOMAIN tasks : tasks[t].servant = d}

AtLeastZero(n) == IF n < 0 THEN 0 ELSE n

AtMost(a, b) == IF a < b THEN a ELSE b

GetCapacityAvailable(d) ==
    LET p == servants[d].personality
        foreign_load == AtLeastZero(p.current_load - servants[d].running_tasks)
    IN  IF p.low_memory
          THEN servants[d].running_tasks
          ELSE AtMost(p.max_tasks, AtLeastZero(p.num_processors - foreign_load))

UnsafeEnumerateEligibleServants(app) ==
    {d \in DOMAIN servants :
        /\ app.env \in servants[d].personality.environments
        /\ servants[d].personality.max_tasks # 0
        /\ servants[d].personality.version >= app.min_version}

UnsafeEnumerateFreeServants(app) ==
    {d \in UnsafeEnumerateEligibleServants(app) :
        servants[d].running_tasks < GetCapacityAvailable(d)}

(* The first descriptor with the lowest running_tasks / capacity, as the set  *)
(* that holds it.                                                             *)
UnsafeTryPickServantFor(ds) ==
    {d \in ds : \A e \in ds :
        LET mine   == servants[d].running_tasks * GetCapacityAvailable(e)
            theirs == servants[e].running_tasks * GetCapacityAvailable(d)
        IN  mine < theirs \/ (mine = theirs /\ d <= e)}

(* Mutant: the requestor is not set apart.                                    *)
PickServantSelfish(free, requestor) ==
    LET dedicated == {d \in free :
            /\ servants[d].personality.dedicated
            /\ servants[d].running_tasks * 2
                 < servants[d].personality.num_processors}
    IN  IF dedicated # {} THEN UnsafeTryPickServantFor(dedicated)
        ELSE UnsafeTryPickServantFor(free)

UnsafePickServantFor(free, requestor) ==
    LET local == {d \in free :
            HostOf[servants[d].personality.observed_location] = requestor}
        self == {d \in local : \A e \in local : d <= e}
        others == free \ self
        dedicated == {d \in others :
            /\ servants[d].personality.dedicated
            /\ servants[d].running_tasks * 2
                 < servants[d].personality.num_processors}
    IN  IF dedicated # {} THEN UnsafeTryPickServantFor(dedicated)
        ELSE IF others # {} THEN UnsafeTryPickServantFor(others)
        ELSE self

-----------------------------------------------------------------------------
(* Freeing task allocations: UnsafeFreeTasks on ids that are all known.       *)

Forget(ids) == [t \in DOMAIN tasks \ ids |-> tasks[t]]

(* Mutant: one decrement per servant, however many of its tasks go.           *)
ReleaseOnce(ids, alive) ==
    [d \in alive |-> [servants[d] EXCEPT !.running_tasks =
        @ - AtMost(1, Cardinality({t \in ids : tasks[t].servant = d}))]]

Release(ids, alive) ==
    [d \in alive |-> [servants[d] EXCEPT !.running_tasks =
        @ - Cardinality({t \in ids : tasks[t].servant = d})]]

Asleep(r) == requests[r].phase # "idle" /\ requests[r].asleep

NotifyAll ==
    /\ requests' = [r \in Requests |->
          IF Asleep(r) THEN [requests[r] EXCEPT !.asleep = FALSE]
                       ELSE requests[r]]
    /\ unannounced' = FALSE

UnsafeFreeTasks(ids) ==
    /\ tasks' = Forget(ids)
    /\ servants' = Release(ids, DOMAIN servants)
    /\ NotifyAll

(* A call for an id that is not (or no longer) known returns early.           *)
FreeTask(t) ==
    /\ t \in DOMAIN tasks
    /\ UnsafeFreeTasks({t})
    /\ UNCHANGED <<next_desc, next_task_id, heartbeats, bookkeeper>>

KeepTaskAlive(t, new_expires_in) ==
    /\ t \in DOMAIN tasks
    /\ ~tasks[t].zombie
    /\ tasks' = [tasks EXCEPT ![t].expires_at = new_expires_in]
    /\ UNCHANGED <<servants, next_desc, next_task_id, requests, heartbeats,
                   bookkeeper, unannounced>>

-----------------------------------------------------------------------------
(* Heartbeat: KeepServantAlive, then, in a critical section of its own,       *)
(* NotifyServantRunningTasks.  `observed' is the peer's IP with the port it   *)
(* reports, `location' is what it reports: they differ behind a NAT.          *)

Personality(h) ==
    [observed_location |-> h.observed,
     version           |-> h.version,
     environments      |-> h.environments,
     num_processors    |-> IF h.num_processors = 0 THEN h.capacity
                                                   ELSE h.num_processors,
     current_load      |-> h.current_load,
     low_memory        |-> h.low_memory,
     dedicated         |-> h.dedicated,
     max_tasks         |-> IF h.observed # h.location \/ ~h.is_servant
                              \/ h.ttl = 0
                           THEN 0 ELSE h.capacity]

Registered(personality, expires_in, running) ==
    [personality |-> personality, expires_at |-> expires_in,
     running_tasks |-> running]

KeepServantAlive(personality, expires_in) ==
    LET known == At(personality.observed_location)
    IN  \/ /\ known # {}
           /\ servants' = [d \in DOMAIN servants |->
                 IF d \in known
                   THEN [servants[d] EXCEPT !.personality = personality,
                                            !.expires_at = expires_in]
                   ELSE servants[d]]
           /\ UNCHANGED next_desc
        \/ /\ known = {}
           /\ next_desc < MaxDesc
           /\ servants' = [d \in DOMAIN servants \union {next_desc} |->
                 IF d = next_desc THEN Registered(personality, expires_in, 0)
                                  ELSE servants[d]]
           /\ next_desc' = next_desc + 1

Heartbeat(h, running) ==
    /\ h.is_user \/ h.is_servant
    /\ h.version >= MinDaemonVersion
    /\ h.ttl <= MaxHeartbeatTtl
    /\ Cardinality(heartbeats) < MaxInflight
    /\ KeepServantAlive(Personality(h), h.ttl)
    /\ heartbeats' = heartbeats \union
          {[observed |-> h.observed, location |-> h.location,
            running |-> running]}
    /\ unannounced' = TRUE
    /\ UNCHANGED <<tasks, next_task_id, requests, bookkeeper>>

PermittedTasks(d) == {t \in TasksOf(d) : ~tasks[t].zombie}

(* What the servant is told to kill.                                          *)
UnknownTasks(b) ==
    {t \in b.running : \A d \in At(b.location) : t \notin PermittedTasks(d)}

(* Mutant: whatever the servant does not run goes, zombie or not.             *)
SweepWhateverIdle(d, running) == TasksOf(d) \ running

UnsafeSweepZombiesOf(d, running) ==
    {t \in TasksOf(d) : tasks[t].zombie /\ t \notin running}

NotifyServantRunningTasks(b) ==
    /\ b \in heartbeats
    /\ heartbeats' = heartbeats \ {b}
    /\ \/ /\ At(b.location) = {}
          /\ UNCHANGED <<servants, tasks, requests, bookkeeper, unannounced>>
       \/ \E d \in At(b.location) :
             /\ UnsafeFreeTasks(UnsafeSweepZombiesOf(d, b.running))
             /\ bookkeeper' =
                   [l \in DOMAIN bookkeeper \union {b.location} |->
                      IF l = b.location THEN b.running \ UnknownTasks(b)
                                        ELSE bookkeeper[l]]
    /\ UNCHANGED <<next_desc, next_task_id>>

AliveServants == {d \in DOMAIN servants : servants[d].expires_at >= 0}

(* Mutant: the servants go and their tasks stay.                              *)
SweepNoOrphans == {}

(* UnsafeSweepOrphans: the tasks that are left without their servant.         *)
UnsafeSweepOrphans ==
    {t \in DOMAIN tasks : tasks[t].servant \notin AliveServants}

(* Mutant: tasks that outlived their lease are left alone.                    *)
MarkNoZombies(orphans) == Forget(orphans)

MarkZombies(orphans) ==
    [t \in DOMAIN tasks \ orphans |->
        [tasks[t] EXCEPT !.zombie = @ \/ tasks[t].expires_at < 0]]

DropServants(gone) ==
    [l \in DOMAIN bookkeeper \
             {servants[d].personality.observed_location : d \in gone} |->
        bookkeeper[l]]

(* Mutant: the waiters are not notified.                                      *)
TimerSilent ==
    /\ servants' = Release(UnsafeSweepOrphans, AliveServants)
    /\ tasks' = MarkZombies(UnsafeSweepOrphans)
    /\ bookkeeper' = DropServants(DOMAIN servants \ AliveServants)
    /\ UNCHANGED <<next_desc, next_task_id, heartbeats, requests, unannounced>>

(* Expired servants go with their tasks; tasks that outlived their lease      *)
(* become zombies.                                                            *)
OnExpirationTimer ==
    /\ servants' = Release(UnsafeSweepOrphans, AliveServants)
    /\ tasks' = MarkZombies(UnsafeSweepOrphans)
    /\ bookkeeper' = DropServants(DOMAIN servants \ AliveServants)
    /\ NotifyAll
    /\ UNCHANGED <<next_desc, next_task_id, heartbeats>>

-----------------------------------------------------------------------------
(* WaitForStartingTask: a loop of WaitForStartingNewTask calls for the        *)
(* immediate requests, then one for the prefetches; only while nothing has    *)
(* been granted may a call wait.                                              *)

WaitForStartingTask(r, app) ==
    /\ requests[r].phase = "idle"
    /\ app.immediate_reqs + app.prefetch_reqs > 0
    /\ requests' = [requests EXCEPT ![r] =
          [phase |-> IF app.immediate_reqs > 0 THEN "immediate" ELSE "prefetch",
           app |-> app, index |-> 0, grants |-> {}, left |-> app.wait,
           asleep |-> FALSE]]
    /\ UNCHANGED <<servants, next_desc, tasks, next_task_id, heartbeats,
                   bookkeeper, unannounced>>

Calling(r) == requests[r].phase \in {"immediate", "prefetch"}

Finish(q) == [q EXCEPT !.phase = IF q.grants = {} THEN "no_quota" ELSE "ok"]

EnterPrefetch(q) ==
    IF q.app.prefetch_reqs = 0
      THEN Finish(q)
      ELSE [q EXCEPT !.phase = "prefetch", !.index = 0]

(* The next call of the loop the handler is in, or what follows the loop.     *)
Advance(q) ==
    IF q.phase = "immediate"
      THEN IF q.index < q.app.immediate_reqs THEN q ELSE EnterPrefetch(q)
      ELSE IF q.index < q.app.prefetch_reqs THEN q ELSE Finish(q)

Break(q) == IF q.phase = "immediate" THEN EnterPrefetch(q) ELSE Finish(q)

Allocate(r) ==
    LET q    == requests[r]
        free == UnsafeEnumerateFreeServants(q.app)
    IN  /\ Calling(r) /\ ~q.asleep
        /\ next_task_id < MaxTaskId
        /\ \E pick \in UnsafePickServantFor(free, q.app.requestor) :
              /\ servants' = [servants EXCEPT ![pick].running_tasks = @ + 1]
              /\ tasks' = [t \in DOMAIN tasks \union {next_task_id} |->
                    IF t = next_task_id
                      THEN [servant |-> pick, expires_at |-> q.app.lease,
                            zombie |-> FALSE,
                            is_prefetch |-> (q.phase = "prefetch")]
                      ELSE tasks[t]]
        /\ next_task_id' = next_task_id + 1
        /\ requests' = [requests EXCEPT ![r] =
              Advance([q EXCEPT !.index = @ + 1,
                                !.grants = @ \union {next_task_id}])]
        /\ UNCHANGED <<next_desc, heartbeats, bookkeeper, unannounced>>

EnvironmentNotFound(r) ==
    LET q == requests[r]
    IN  /\ Calling(r) /\ ~q.asleep
        /\ UnsafeEnumerateEligibleServants(q.app) = {}
        /\ requests' = [requests EXCEPT ![r] =
              IF q.phase = "immediate"
                THEN [q EXCEPT !.phase = "env_not_found"]
                ELSE Finish(q)]
        /\ UNCHANGED <<servants, next_desc, tasks, next_task_id, heartbeats,
                       bookkeeper, unannounced>>

Sleep(r) ==
    LET q == requests[r]
    IN  /\ Calling(r) /\ ~q.asleep
        /\ UnsafeEnumerateEligibleServants(q.app) # {}
        /\ UnsafeEnumerateFreeServants(q.app) = {}
        /\ requests' = [requests EXCEPT ![r].asleep = TRUE]
        /\ UNCHANGED <<servants, next_desc, tasks, next_task_id, heartbeats,
                       bookkeeper, unannounced>>

(* wait_until gives up: at once if something has been granted already.        *)
Timeout(r) ==
    LET q == requests[r]
    IN  /\ Calling(r) /\ q.asleep
        /\ q.grants # {} \/ q.left <= 0
        /\ requests' = [requests EXCEPT ![r] =
              Break([q EXCEPT !.asleep = FALSE])]
        /\ UNCHANGED <<servants, next_desc, tasks, next_task_id, heartbeats,
                       bookkeeper, unannounced>>

(* The handler returns; what it granted is the delegate's to renew and free.  *)
Respond(r) ==
    /\ requests[r].phase \in {"ok", "no_quota", "env_not_found"}
    /\ requests' = [requests EXCEPT ![r] = NoApplication]
    /\ UNCHANGED <<servants, next_desc, tasks, next_task_id, heartbeats,
                   bookkeeper, unannounced>>

-----------------------------------------------------------------------------
Countdown(n) == IF n < 0 THEN n ELSE n - 1

Tick ==
    /\ servants' = [d \in DOMAIN servants |->
          [servants[d] EXCEPT !.expires_at = Countdown(@)]]
    /\ tasks' = [t \in DOMAIN tasks |->
          [tasks[t] EXCEPT !.expires_at = Countdown(@)]]
    /\ requests' = [r \in Requests |->
          IF Calling(r) THEN [requests[r] EXCEPT !.left = Countdown(@)]
                        ELSE requests[r]]
    /\ UNCHANGED <<next_desc, next_task_id, heartbeats, bookkeeper,
                   unannounced>>

Init ==
    /\ servants = [d \in {} |-> 0]
    /\ next_desc = 0
    /\ tasks = [t \in {} |-> 0]
    /\ next_task_id = 0
    /\ requests = [r \in Requests |-> NoApplication]
    /\ heartbeats = {}
    /\ bookkeeper = [l \in {} |-> {}]
    /\ unannounced = FALSE

IssuedIds == 0 .. (next_task_id - 1)

Next ==
    \/ \E h \in HeartbeatReqs, running \in SUBSET IssuedIds :
          Heartbeat(h, running)
    \/ \E b \in heartbeats : NotifyServantRunningTasks(b)
    \/ \E r \in Requests :
          \/ \E app \in Applications : WaitForStartingTask(r, app)
          \/ Allocate(r)
          \/ EnvironmentNotFound(r)
          \/ Sleep(r)
          \/ Timeout(r)
          \/ Respond(r)
    \/ \E t \in DOMAIN tasks :
          \/ FreeTask(t)
          \/ \E n \in Renewals : KeepTaskAlive(t, n)
    \/ OnExpirationTimer
    \/ Tick

Spec == Init /\ [][Next]_vars

(* What runs on its own: the clock, the 1s timer, and every handler that has  *)
(* been entered.  Timeouts, clients and servants promise nothing.             *)
Fairness ==
    /\ WF_vars(Tick)
    /\ WF_vars(OnExpirationTimer)
    /\ WF_vars(\E b \in heartbeats : NotifyServantRunningTasks(b))
    /\ \A r \in Requests :
          WF_vars(Allocate(r) \/ EnvironmentNotFound(r) \/ Sleep(r)
                    \/ Respond(r))

FairSpec == Spec /\ Fairness

-----------------------------------------------------------------------------
PersonalityType ==
    [observed_location: Locations, version: Nat, environments: SUBSET STRING,
     num_processors: Nat, current_load: Nat, low_memory: BOOLEAN,
     dedicated: BOOLEAN, max_tasks: Nat]

ServantDescType ==
    [personality: PersonalityType, expires_at: Int, running_tasks: Nat]

TaskDescType ==
    [servant: 0 .. (next_desc - 1), expires_at: Int, zombie: BOOLEAN,
     is_prefetch: BOOLEAN]

ActiveRequestType ==
    [phase: {"immediate", "prefetch", "ok", "no_quota", "env_not_found"},
     app: Applications, index: Nat, grants: SUBSET IssuedIds, left: Int,
     asleep: BOOLEAN]

RequestType == ActiveRequestType \union {NoApplication}

(* Type invariant of the scheduler.  `running_tasks' is a size_t in the code: *)
(* that it stays a natural is that no path frees a task twice.                *)
TypeOK ==
    /\ next_desc \in 0 .. MaxDesc
    /\ next_task_id \in 0 .. MaxTaskId
    /\ DOMAIN servants \subseteq 0 .. (next_desc - 1)
    /\ \A d \in DOMAIN servants : servants[d] \in ServantDescType
    /\ DOMAIN tasks \subseteq IssuedIds
    /\ \A t \in DOMAIN tasks : tasks[t] \in TaskDescType
    /\ requests \in [Requests -> RequestType]
    /\ \A b \in heartbeats :
          b \in [observed: Locations, location: Locations,
                 running: SUBSET IssuedIds]
    /\ DOMAIN bookkeeper \subseteq Locations
    /\ \A l \in DOMAIN bookkeeper : bookkeeper[l] \subseteq IssuedIds
    /\ unannounced \in BOOLEAN

(* A grant never outlives its servant's registration, and a servant has one   *)
(* registration: OnExpirationTimer forgets both in one critical section, so   *)
(* a servant that comes back starts with nothing charged to it.               *)
RegistrySound ==
    /\ \A t \in DOMAIN tasks : tasks[t].servant \in DOMAIN servants
    /\ \A d, e \in DOMAIN servants :
          servants[d].personality.observed_location =
            servants[e].personality.observed_location => d = e

(* The counter the capacity check reads equals the grants outstanding on the  *)
(* servant, zombies included, however grants, frees, sweeps of zombies and    *)
(* removals of servants interleave.                                           *)
RunningTasksExact ==
    \A d \in DOMAIN servants :
        servants[d].running_tasks = Cardinality(TasksOf(d))

(* No lost wakeup in WaitForStartingNewTask: while a waiter sleeps on         *)
(* allocation_cv_ no servant is free for it, unless a heartbeat has come in   *)
(* since the last notify_all (KeepServantAlive does not notify).              *)
NoLostWakeup ==
    \A r \in Requests :
        Asleep(r) /\ ~unannounced =>
            UnsafeEnumerateFreeServants(requests[r].app) = {}

(* The tasks GetRunningTasks hands to delegates come from registered servants *)
(* only: DropServant and SetServantRunningTasks never leave an entry behind.  *)
BookkeeperOfRegistered ==
    \A l \in DOMAIN bookkeeper : At(l) # {}

(* What every handler of the scheduler finds when it takes the locks: a       *)
(* registry that is whole, and no waiter that should have been woken.         *)
RegistryConsistent ==
    TypeOK /\ RegistrySound /\ BookkeeperOfRegistered /\ NoLostWakeup

(* A live allocation leaves the table only because its holder freed it, its   *)
(* servant's registration lapsed, or it is a zombie that a heartbeat for its  *)
(* servant's location no longer lists.  No step of anyone else takes a lease  *)
(* away.                                                                      *)
RightlyGone(t) ==
    \/ FreeTask(t)
    \/ tasks[t].servant \notin DOMAIN servants'
    \/ /\ tasks[t].zombie
       /\ \E b \in heartbeats \ heartbeats' :
             /\ tasks[t].servant \in At(b.location)
             /\ t \notin b.running

(* Nor does a step give one back: a renewal that comes too late leaves a      *)
(* zombie and its lease as they are, and once its servant's heartbeat, which  *)
(* is answered with the order to kill it, has been handled, no delegate is    *)
(* told that it runs there.                                                   *)
StaysBuried(t) ==
    /\ t \in DOMAIN tasks' =>
          tasks'[t].zombie /\ tasks'[t].expires_at <= tasks[t].expires_at
    /\ \A b \in heartbeats \ heartbeats' :
          b.location \in DOMAIN bookkeeper' => t \notin bookkeeper'[b.location]

LeaseRespected ==
    [][/\ \A t \in DOMAIN tasks \ DOMAIN tasks' : RightlyGone(t)
       /\ \A t \in DOMAIN tasks : tasks[t].zombie => StaysBuried(t)]_vars

(* The comment on TaskDesc::zombie: an expired task is kept "until a call to  *)
(* KeepServantAlive signaling that this task is not running on the            *)
(* corresponding servant", so only that servant's heartbeat sweeps it.        *)
SweptByItsServant ==
    [][\A t \in DOMAIN tasks \ DOMAIN tasks' :
          \/ FreeTask(t)
          \/ tasks[t].servant \notin DOMAIN servants'
          \/ \E b \in heartbeats \ heartbeats' :
                tasks[t].servant \in At(b.observed)]_vars

(* The FLARE_CHECKs on the way to a grant: whenever a servant is free the     *)
(* pick yields exactly one, and every candidate has room by `max_tasks' as    *)
(* well as by the capacity computed from its load.                            *)
PickChecks ==
    \A r \in Requests : Calling(r) =>
        LET free == UnsafeEnumerateFreeServants(requests[r].app)
            pick == UnsafePickServantFor(free, requests[r].app.requestor)
        IN  /\ free # {} => \E d \in free : pick = {d}
            /\ \A d \in free :
                  /\ servants[d].personality.max_tasks >
                       servants[d].running_tasks
                  /\ GetCapacityAvailable(d) # 0

(* UnsafePickServantFor: a grant goes to a servant with room for it; to the   *)
(* requestor's own servant only when no other one is free; to an idle enough  *)
(* dedicated servant when there is one; and, within its class, to the one     *)
(* least utilized.  (With one servant per host: a second one on the           *)
(* requestor's host counts as a stranger.)                                    *)
PickPolicy ==
    [][\A t \in DOMAIN tasks' \ DOMAIN tasks, r \in Requests :
          requests'[r] # requests[r] =>
            LET d     == tasks'[t].servant
                app   == requests[r].app
                free  == UnsafeEnumerateFreeServants(app)
                Own(e) == HostOf[servants[e].personality.observed_location]
                            = app.requestor
                Idle(e) == /\ servants[e].personality.dedicated
                           /\ 2 * servants[e].running_tasks <
                                servants[e].personality.num_processors
                strangers == {e \in free : ~Own(e)}
                idle == {e \in strangers : Idle(e)}
                rivals == IF idle # {} THEN idle
                          ELSE IF strangers # {} THEN strangers ELSE free
            IN  /\ servants'[d].running_tasks <=
                     servants[d].personality.max_tasks
                /\ ~servants[d].personality.low_memory
                /\ d \in rivals
                /\ \A e \in rivals :
                      servants[d].running_tasks * GetCapacityAvailable(e) <=
                        servants[e].running_tasks * GetCapacityAvailable(d)
       ]_vars

(* Every grant is picked as the code's checks and its policy require.         *)
PickSound == []PickChecks /\ PickPolicy

(* A sleeping waiter for whom a servant is free is woken without waiting for  *)
(* its timeout: whatever notification was missed, the 1s timer repeats it.    *)
WaiterWoken ==
    \A r \in Requests :
        (Asleep(r) /\ UnsafeEnumerateFreeServants(requests[r].app) # {})
            ~> ~Asleep(r)

(* scheduler.proto on FreeTask: "So long as the client does not renew its     *)
(* grant i[nd]efinitely, the grant will expire sooner or later.  Once the     *)
(* grant expires, we're back to normal": a grant that is not renewed any more *)
(* and that no heartbeat lists any more is forgotten, whether the servant     *)
(* keeps sending heartbeats or dies.                                          *)
GrantReclaimed ==
    \A t \in 0 .. (MaxTaskId - 1) :
        /\ <>[][\A n \in Renewals : ~KeepTaskAlive(t, n)]_vars
        /\ <>[](\A b \in heartbeats : t \notin b.running)
        => <>[](t \notin DOMAIN tasks)
=============================================================================
