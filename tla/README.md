# A verification project for yadcc

yadcc is a distributed C++ compiler. A *client* (a compiler wrapper) preprocesses
a source file and hands it to the *daemon* on its machine (the delegate), which
obtains a *grant* from the *scheduler*, submits the compilation to the daemon of
another machine (the *servant*) and waits for the result; a *cache server* keeps
results of earlier compilations. This directory holds TLA+ models of the parts of
yadcc that carry its own logic, TLC configurations that check them on small
instances, and proofs, checked by TLAPS, that hold for all instances.

## 1. Inventory

| part | state | operations | interacts with |
| --- | --- | --- | --- |
| Scheduler, `TaskDispatcher` (`scheduler/task_dispatcher.cc`) | registered servants with the number of tasks charged to each, live grants with their leases, a condition variable for waiting handlers | `WaitForStartingNewTask`, `KeepTaskAlive`, `FreeTask`, `KeepServantAlive`, `NotifyServantRunningTasks`, `OnExpirationTimer` | all under `allocation_lock_`; called by the RPC service, calls the bookkeeper |
| Scheduler, `SchedulerServiceImpl` | three serving-daemon tokens that rotate | `Heartbeat` (two critical sections), `GetConfig`, `WaitForStartingTask` (a loop of calls that may wait), `KeepTaskAlive`, `FreeTask`, `GetRunningTasks` | delegates and servants, by RPC |
| Scheduler, `RunningTaskBookkeeper` | what each servant says it is running | `SetServantRunningTasks`, `DropServant`, `GetRunningTasks` | fed by the dispatcher, read by delegates |
| Servant, `ExecutionEngine` (`daemon/cloud/execution_engine.cc`) | task table with reference counts, `running_tasks_`, child processes, the waitpid thread and its semaphore | `TryQueueTask`, `TryReferenceTask`, `WaitForTask`, `FreeTask`, `KillExpiredTasks`, `OnCleanupTimer`, `OnProcessExitCallback`, `ProcessWaiterProc`, `Stop`, `Join` | RPC handlers of `DaemonServiceImpl`, heartbeats, the kernel |
| Delegate, `TaskGrantKeeper` | per environment: a queue of unused grants, the number of waiters, a fetcher fiber | `Get`, `Free`, `GrantFetcherProc`, `Stop`, `Join` | scheduler (RPC), `DistributedTaskDispatcher` |
| Delegate, `DistributedTaskDispatcher` | tasks (Pending, ReadyToFire, Dispatched, Done), an abort flag each | `QueueTask`, `WaitForTask`, `PerformOneTask`, timers for abort, keep-alive, orphans, cleanup | HTTP clients, scheduler, servants, cache |
| Delegate, `RunningTaskKeeper`, `ConfigKeeper` | snapshots of the scheduler's running tasks and of the token | refresh timers | scheduler, dispatcher |
| Delegate, `LocalTaskMonitor` | permissions for local preprocessing and compilation, by process | wait for a permission, drop it, 1s check for dead processes | HTTP clients |
| Delegate, `DistributedCacheReader` | replica of the cache's Bloom filter | full and incremental refresh, `TryRead` | cache server |
| Delegate, `FileDigestCache` | digest of each compiler by path, size and mtime | lookup, report | HTTP clients |
| Servant, `DaemonServiceImpl`, `CompilerRegistry`, `CxxCompilationTask` | acceptable tokens, known compilers, the task being prepared | heartbeat and its reply, `QueueCxxCompilationTask`, `ReferenceTask`, `FreeTask`, rescan, completion | scheduler, delegates, file system, cache |
| Cache server: service, Bloom filter generator, `DistributedCacheWriter` | two cache levels, the filter, the keys of the last hour | `PutEntry`, `TryGetEntry`, `FetchBloomFilter`, rebuild | delegates, servants |
| Cache server: `InMemoryCache` (ARC) | four lists, two maps, four byte counters, the adaptive size | `TryGet`, `Put`, `Remove` | the service, under one lock |
| Cache server: `CosCacheEngine` | what is marked for removal; the objects are in an external store | `Put`, `GetKeys`, `OnPurgeTimer` | object store, by RPC |
| `common/disk_cache` | entries by directory with one lock per directory and per entry; the files | `TryGet`, `Put`, `Purge`, loading after a restart | cache engine |
| Client (`client/cxx`, `client/common`) | none kept | quota, preprocess, submit, poll, retry, local fall back; the HTTP call and the pipes below them | daemon, by HTTP; the compiler, by pipes |
| Client, fake root library | one file per user, extracted under a lock | look, extract, preload | other wrappers of the user |
| Pure algorithms | none | arguments, chunks, cache entries, patching of object files, consistent hashing, sizes, loads, dates, keys, paths, streams, escaping | used by all of the above |

### What is hard here

* **Interleavings.** The scheduler's handlers sleep inside critical sections;
  `Heartbeat` is two critical sections between which everything may change; the
  engine's waitpid thread and `Stop` touch atomics that `TryQueueTask` touches
  under a lock they do not take.
* **Failure.** Servants fall silent and come back; delegates die holding grants;
  responses get lost; children die, are killed, and are reaped by a thread that
  knows nothing of the table.
* **Time.** Leases expire while renewals are under way; a zombie grant must stay
  until its servant no longer runs it.
* **Sharing.** Several delegates share one compilation by reference counts; pids
  and ids come from different number spaces.

The list of hazards, each at its line and with the properties that would notice it
going wrong, is in `PROJECT.json`.

### What makes each part correct

* Scheduler: the counter a capacity check reads is the number of grants really
  outstanding; a grant lives exactly as long as its lease, its servant or its
  holder's interest; waiting requests are woken when there is room; what is handed
  to delegates as running is running on registered servants only; the servant that
  is picked is the one the policy names.
* Engine: never more compilers than slots; every child is reaped and every exit
  accounted for once; a task shared by clients survives until the last one frees
  it; waiting clients get an answer; a stopped engine comes to rest.
* Grant keeper: a grant is handed out once and before it expires; waiters and
  fetcher do not wait for each other; the fetcher ends when asked to.
* Delegate: whatever is obtained (grant, reference, servant task) is given back
  once on every path; every queued task completes; only those tasks are aborted
  that the timers are meant for.
* Cache: the ARC books balance and what is found under a key was put there; a value
  read from the disk is whole, whatever died while writing it; a filter has no false
  negatives for what is stored, and a reader hears of everything that stays; purging
  takes the oldest and comes to an end.
* Servant: a result is made by the compiler that was asked for; what depends on the
  time of day is not cached; tokens that delegates were given are understood; the
  scheduler ends up believing what is installed, and nothing of a servant that left.
* Client: a compilation ends, and fails only if the local compiler says so; the
  machine is not overwhelmed and nobody waits who could go; bytes get where they
  should however the kernel cuts them; what wrappers share is whole and fresh.

## 2. Plan

| step | modules | state |
| --- | --- | --- |
| 1 | `TaskDispatcher`, with proofs | done |
| 2 | `ExecutionEngine`, with proofs | done |
| 3 | `TaskGrantKeeper`, with proofs | done |
| 4 | `DistributedTaskDispatcher`, the delegate's state machine and timers, with `RunningTaskKeeper` as its snapshot and the HTTP handlers in front of it | done |
| 5 | `InMemoryCache` against `AbstractCache`; `DiskCache`; `CacheService` and `CosCacheEngine` | done |
| 6 | `ServantService`: tokens, heartbeats, compilers, tasks, composed of both ends of those messages | done |
| 7 | `LocalTaskMonitor` and `CompilerClient`, `DaemonCall`, `ChildIo`, `WrapperIo`, `FileDigestCache`, `FakeRootLibrary`; the algorithms in `Formats`, `Quantities`, `Paths`, `Streams` | done |
| 8 | Proofs for `DistributedTaskDispatcher`, `DiskCache`, `CacheService`, `CosCacheEngine`, `ServantService`, and of the client's modules (`ClientProofs`) | done |
| 9 | Proofs of `LeaseRespected`, `PickSound`, `ReferencesHonoured` and `RunningHasProcess` | done |
| 10 | `InMemoryCache` and `DaemonCall` without folds, to prove `BooksExact`, the refinement of `AbstractCache` and `IoIntact` | done |
| 11 | `Cluster`: scheduler, delegate and servant as one system with messages between them, against an abstract specification of a grant | to do |

## 3. Modules

### TaskDispatcher

One variable per member of the class: `servants` and `tasks` are the two tables
(a servant is named by its place in the vector, so that one that returns is a new
one), `bookkeeper` the bookkeeper's table, `requests` the `WaitForStartingTask`
handlers in progress and `heartbeats` the `Heartbeat` handlers between their two
critical sections. `unannounced` is a history variable: a heartbeat has changed the
registry since the last `notify_all`.

Each critical section of `allocation_lock_` is one action and each place where a
handler gives up the lock, `wait_until` included, separates two actions:

| action | code |
| --- | --- |
| `Heartbeat`, `KeepServantAlive` | the checks of `SchedulerServiceImpl::Heartbeat`, the personality it builds, the registration |
| `NotifyServantRunningTasks` | the second section: sweeps zombies the servant no longer runs, tells it what to kill, feeds the bookkeeper |
| `WaitForStartingTask`, `Allocate`, `EnvironmentNotFound`, `Sleep`, `Timeout`, `Respond` | the handler's two loops around `WaitForStartingNewTask`, and the exits of that function |
| `FreeTask`, `KeepTaskAlive`, `OnExpirationTimer` | the functions of these names |
| `Tick` | the steady clock |

`expires_at` is kept as the time left; it stops at -1 because the code only ever
asks whether it has passed. `GetCapacityAvailable`, the enumeration of eligible and
free servants and the choice among them are translated as they are, with the
comparison of the two floating point utilizations as a comparison of cross products
(equal for the magnitudes that occur). The request's `next_keep_alive` counts from
the moment of the allocation, as in the code.

A handler that fails with `EnvironmentNotFound` after it has made grants drops
them; they stay charged until their leases end (`GrantReclaimed` covers it).
`LeaseRespected` says both that no step takes a lease away and that none gives one back:
`StaysBuried` is about the renewal that arrives after the timer.

### ExecutionEngine

`descs` are all the `TaskDesc`s ever made (fibers keep references to them after they
left `tasks_`), `tasks` the table. `procs` is the kernel's view of each pid: `free`,
`forked` (has not called `setpgid` yet), `running`, `zombie`. `exits` and
`completing` are callback fibers at the two points where they can be overtaken,
`killing` are `FreeTask` calls between the unlock and `KillTask`, `waiter` and
`stopper` are the program counters of the waitpid thread and of whoever calls `Stop`
and `Join`. `held` and `frees` are the clients: delegates that start or reference a
task and later free it. `DistributedTaskDispatcher::TryGetExistingTaskResult` frees
what it referenced by the id of its own table; the constant `LocalIds` says which
numbers those are. They meet the servant's, since both begin at 1: `misfreed` marks a
task that somebody freed who did not hold it. A pid comes back as soon as the exit callback
of its last use has run, whether or not a finished task in the table had it: `shared`
marks a running task that found its pid there. Both are history, which no guard reads.

`TryQueueTask` is four actions (entered, counted, rejected or started): it holds
`tasks_lock_` all the while (`starting`), but `Stop` and the waitpid thread use
`exiting_` and `running_tasks_` without it. `running_tasks_` has no initializer; the
only instance has static storage, so it starts at zero.

`KillExpiredTasks` takes the grants to kill, as the code does; the comment above it
(`execution_engine.h:136`) describes the complement and a tolerance the code does
not have.

### TaskGrantKeeper

Per environment: `remaining` is the queue of unused grants, `waiters` the counter,
`fetcher` where the fiber of `GrantFetcherProc` is, `call` what it asked for and
when (as the time left of the grants it will get), `granted` what the scheduler has
granted to that call and the fetcher has not seen yet. `tasks` are the fibers in
`StartNewServantTask`, which call `Get` until they have a grant or notice that they
are aborted; `held` is the grant each of them was given. `leases` is the scheduler's
side of every grant: how much of the lease is left. `stopper` is the thread that
calls `Stop` and then `Join`.

| action | code |
| --- | --- |
| `StartNewServantTask`, `Abort`, `Free` | a task's loop, its abort flag, and the end of its use of a grant |
| `FindKeeper` | the first critical section of `Get`: the entry, and with a new entry its fetcher |
| `Get` | the second: expired grants are dropped, then one is taken or the task waits |
| `TakeAfterWaiting`, `WaitOn`, `TimeOut` | the ways out of (and back into) `available_cv.wait_for` |
| `FetcherChecks`, `FetcherParks` | `leaving_`, the predicate and the request; blocking on `need_more_cv` |
| `SchedulerGrants` | external: the scheduler grants some of what was asked for |
| `FetchSucceeds`, `FetchFails`, `FetcherRetries` | the two outcomes of the RPC, and the 100ms pause, which keeps the lock |
| `Stop`, `StopNotifies`, `Join` | the store, the notifications (both under `lock_` only), the joins |

A fetcher that has found its predicate false and is about to block is `parking`, and
has the keeper's lock until it blocks: only `Stop`, which does not take that lock, can
come between. The environments' notifications in `Stop` are one step; they concern
different fetchers, which share nothing.

### DistributedTaskDispatcher

`tasks` is the table and `descs` every `TaskDesc` ever queued; `fiber` is where each
`PerformOneTask` is, `waiter` where the HTTP handler of its client is, `keeping` the
`KeepTaskAlive` call under way, `running` the snapshot of `RunningTaskKeeper`. What the
scheduler and the servant keep of our tasks (`grants`, `servant`, `started`) is external
and modelled from the calls made here.

| action | code |
| --- | --- |
| `SubmitCxxTask`, `WaitForTask` | the HTTP handlers and `QueueTask`; the latch, and taking the result |
| `PerformOneTask` | the fiber, a step per RPC: cache, joining a running task, grant, submission, polling with retries, freeing, completion |
| `OnAbortTimer`, `OnKeepAliveTimer`, `OnKillOrphanTimer`, `OnCleanupTimer` | the timers, each on any set of tasks it may find due |
| `SchedulerRenews`, `KeepAliveAnswered`, `KeepAliveFails` | the renewal and its answer, applied later than it was made |
| `Refresh`, `RefreshFails` | the snapshot of running tasks |
| `FreeGrant`, `FreeArrives` | `TaskGrantKeeper::Free` makes the call and waits for nothing; it gets to the scheduler later, or never |
| `OtherDelegateStarts`, `ServantFinishes`, `ServantForgets`, `ServantRestarts`, `GrantExpires` | external |

An RPC that fails may or may not have had its effect. A `FreeTask` that is lost is one
that never arrives: the grant then stays out until its lease ends (`GrantsEnd`). After a
restart the servant's ids begin at 1 again.

### Caches

`AbstractCache` says what a cache promises: what is found under a key was put there and
not forgotten since. `InMemoryCache` is the ARC cache; its operations are functions on
one structure (the lists with their counters, the maps, the adaptive size), in the
order of the code, and `Promised` is the refinement mapping: the bindings of the buffer
map are the abstract contents. Its three `while` loops are iterations of a round
(`While`) with a bound, `Rounds`, on how many there are: twice the entries that are kept,
which leave one list for another and then that one, and once those that are remembered.
That no loop needs more is proved, not assumed.

`DiskCache` has files that may be cut anywhere by a crash or damaged by the disk, the
index built from them, and `TryGet`, `Put`, `Purge` and the constructor as sequences of
steps. Locks are not variables: what is done under one lock without I/O in between is
one step, and a `Put` excludes others from its directory from its first step to its
last. `strays` are keys that were put while `Purge` was about to unlink a file it had
found without an entry, outside the lock: they lose their file. `IndexExact` promises all
others theirs, and of strays, too, that the size is right while the file is there.

`CacheService` has both levels as sets of keys, the filter, the keys populated lately
with their ages, the `PutEntry` handlers, the rebuild (two listings, one after the
other, of which the second may be cut short) and the reader with its own ages and RPC.
Listings and calls may take longer than the code compensates for. Two histories say what can
still be expected: `rebuilt`, that the last rebuild had a whole listing in time, and `served`,
the age of the last answer, or `Unsure` once an update came too late or from a filter that
was not `rebuilt`, until the next full update. `CosCacheEngine` is the second level in
an object store: listings a batch at a time, marks, and the purge. `Bytes` counts the
bytes of entries as a set, which is their total size without a recursive sum.

### ServantService

Both ends of the heartbeat: the servant's registry of compilers over a file system that
changes, the tokens it accepts, requests and replies on their way (a set, so that they
overtake each other and get lost), the scheduler's rotation and what it believes of this
servant, the token a delegate has fetched, and one task from its preparation to its
completion. `task.swapped` records that the executable was replaced after the registry
last looked.

### The wrapper

`LocalTaskMonitor` are the permissions and the handlers that wait for one, and
`CompilerClient` the processes: entry, permission, preprocessing, the cloud with its
retries, the local compiler, giving back. `CheckFails` are the ways in which a wrapper
aborts: a preprocessor or compiler that a signal killed (`command.cc:232`), a library
that cannot be extracted (`libfakeroot.cc:99`), a compiler that is gone
(`utility.cc:168`), and after the cloud's answer fewer files than it names
(`compilation_saas.cc:250`), one that is not compressed (`compress.cc:65`) or that
cannot be written (`io.cc:87`). Processes are killed, and the answer that grants a
permission or the call that returns it get lost. `DaemonCall` is one HTTP call byte by
byte (`writev` over several buffers in rounds, the header, the body, the deadline): a
byte is its place in the request or the answer, a round (`iov`) the first and the last
buffer it sends, and `Writing` what is left of it after `bytes_written`. `ChildIo` is
the poll loop that feeds and drains a program over three pipes, and `WrapperIo` a
wrapper that does both. `FileDigestCache` and `FakeRootLibrary` are what the wrappers of
one machine share (a compiler may be behind a link, which `lstat` looks at and an
upgrade may leave as it is); `SharedFiles` puts the two side by side.

`Formats` computes, one sample per behaviour, the pure algorithms, with those of
`Quantities` (sizes, offers, load, dates), `Paths` (keys, locations, output files,
directories) and `Streams` (chunked compression, escaping), and compares each with a
definition that does not compute it. Where the code's result is not what a caller would
expect, the property states the condition under which it is, and section 4 lists the
rest.

## 4. Runs

| run | instance | shows |
| --- | --- | --- |
| `dispatcher_safety` | life of a registry: a servant with two slots and one with a single slot, one handler asking for a grant and a prefetch; and one pick from every registry of three servants of five kinds of load with 0 to 2 tasks each | `RegistryConsistent`, `RunningTasksExact`, `LeaseRespected`, `PickSound` (the code's `FLARE_CHECK`s and its policy) |
| `dispatcher_wait` | two handlers, one slot, memory pressure that comes and goes | `WaiterWoken`, `GrantReclaimed` |
| `engine_safety` | two clients, three tasks, two pids, one slot, joiners that free by an id which is the first task's | `EngineConsistent`, `ReferencesHonoured`, `RunningHasProcess`, with frees, kills, exits, joins and `Stop` at any moment |
| `engine_live` | two clients, two tasks, two pids, two slots, the same wrong id | `StopTerminates`, `PollEnds` |
| `keeper` | one environment, two tasks, four grants, leases of 1 with a tolerance of 1 | `QueueConsistent`, `HandedOnce`, `HandedAlive`, `KeeperLive`, with slow, failing and partial fetches, expiry, timeouts and `Stop` at any moment |
| `keeper_join` | one environment, one task | finding: `Join` may never return |
| `delegate` | one task, two digests of which one is not to be cached, one servant task at a time, one restart, any RPC failing, that which frees the grant included | `TableConsistent`, `ResultSound`, `GrantsReturned`, `TaskEnds` |
| `cache_service` | a server with one key and a reader, with listings that may be cut short or take 2 where 1 is compensated for, and RPCs delayed by up to 2; an object store with three objects in two directories, listed and deleted one at a time, with one failure; an ARC cache of 3 bytes with three keys and buffers of 0, 1, 2 and 4 | `FilterSound`; `PurgesOldest`; `BooksExact`, `RefinesAbstractCache` |
| `cache_live` | the same server, where nothing is compensated for and listings and RPCs may take 1, and the same store, with fair timers | `ReaderLearns`; `OverflowPurged` |
| `disk_cache` | two keys, two shards of which two assignments are known, one reader, one writer | `IndexExact`, `ReadsGenuine`, `DiskFollowed` |
| `client` | three processes of which one may use the cloud, one slot and one more for light tasks, one lost call; a request of four buffers, two to a `writev`; pipes of one byte; some 13,000 samples of the algorithms; two wrappers and three versions of a compiler, behind a link or not; three wrappers of two builds | `PermissionsSound`, `FailuresAreLocal`, `TerminatesUnlessLost`, `PermissionReclaimed`; `IoIntact`, `IoTerminates`; `FormatsExact`; `SharedSound` |
| `servant` | two places for a compiler and two compilers; in one scope tokens rotate twice, in the others a compiler changes and heartbeats overtake each other or tasks run, of the four kinds of source (allowed to be cached, telling the time, with that overridden, not allowed) | `TokensUnderstood`, `GenuineOutput`, `StoppedIsForgotten`, `CompilersAdvertised` |

A run whose module begins with `MC` and has a variable `part` explores several instances
that do not interact: the first state chooses one of them and the others stay still.

**Mutants.** For every property `PROJECT.json` names a plausible mistake in one
definition of the model (its replacement stands next to it, marked `Mutant`) under which
TLC finds the property violated.

**Bounds.** `MaxTaskId`, `MaxDesc`, `MaxInflight` (dispatcher), `MaxTaskId`,
`MaxReferences` (engine), `MaxGrants` (grant keeper), `MaxTasks`, `MaxServantTasks`,
`MaxRestarts` (delegate), `MaxPuts`, `MaxFaults` (object store), `GatherTime`,
`MaxDelay` (cache service), `MaxLost` (client), `MaxVersions` (digests) and the members
of `Scope` (servant) cap what is otherwise unbounded.

* Two grants on one servant are needed for a decrement that counts once instead of
  twice to show; two registrations for a servant that returns; one heartbeat in flight
  is enough because two handlers of one servant only meet through the tables.
* In the engine the third task exists so that a slot is reused while an earlier task is
  being freed, killed or reaped, and with two pids so that it may meet a finished task
  that had its own. With one slot a second child alive is one too many; two compilations
  at once are explored in `engine_live`, and proved about for any number.
* Four grants are a full batch for two waiting tasks (three) and one of the next; a
  lease of 1 with a tolerance of 1 lets a grant be fresh, expired for the keeper only,
  and expired for both. Keepers of different environments share only `lock_`.
* Tasks of one delegate meet in the table and in the timers only, each of which treats
  every task by itself; what races is one task's fiber, its handler, the timers and the
  other delegate's task, and these are all there with one task.
* In the ARC cache, three keys and these sizes fill every list, make one buffer evict
  two, and reach a buffer that is too large and one that is empty.
* One key is enough for the filter, whose keys do not influence each other. A listing or a
  call may be one unit longer than what is compensated for, which is all it takes to lose
  a key; the reader's full updates come often enough for it to be sure again. In the
  object store three objects of two sizes make a listing that changes under the lister
  and a purge of two batches. There is one lister: with a second one (whoever inspects
  the engine) the state space is beyond a run of minutes, and it adds marks that the
  first one could make too.
* Byte counts are small but every boundary is met: buffers of no byte, more buffers
  than one `writev` takes, a header longer than the limit, a full pipe.

**Fairness.** The scheduler: the clock, the 1s timer and handlers that have been entered
go on (weak fairness); clients and servants promise nothing, so a timeout is never
relied upon in `WaiterWoken`. The engine: threads and fibers go on, compilers end, and
whoever waits for `tasks_lock_` gets it in the end, which is strong fairness of the
actions that take it (`flare::fiber::Mutex` queues its waiters). The grant keeper:
fibers go on, RPCs come back (they have timeouts), waits time out after their second, a
task in its loop calls `Get` again or gives up, and the keeper's lock is fair. When
`Stop` is called, and what clients do, is left open, and so is whether the scheduler
ever grants anything. The delegate: a task's fiber goes on, the timers fire, time
passes, an RPC ends and the scheduler ends leases that are over; nothing is asked of
servant or client, nor that a `FreeTask` ever arrives: it is the deadline that ends a
task, and the end of its renewals that ends a grant. The cache: handlers, timers and
time go on, and an RPC that is repeated for ever is answered now and then (strong
fairness); how long it takes, and when the server restarts, is open. The servant: timers
fire, messages that are not lost arrive (how many are lost is bounded), time passes. The
client: a process that was started goes on, and so do the daemon's handlers and its
timer; the cloud's task ends, which is `TaskEnds` of the delegate; in a call the
deadline passes, and a program that can read, write or end does.

### Finding

* `keeper_join`: `Stop` notifies the fetcher without its lock; a fetcher about to
  block misses it and `Join` waits for ever.

### Known disagreements and limits

Met while modelling. Those in the models can be reproduced by adding the property, or
the constants, to a configuration.

Scheduler and servant

* The registry is keyed by the observed location, running tasks are reported under the
  location the daemon claims (`scheduler_service_impl.cc:181`); behind a NAT a heartbeat
  sweeps another servant's zombies. `SweptByItsServant` fails with the beats
  `{Beat("l1", 1, 1), [Beat("l2", 1, 1) EXCEPT !.location = "l1"]}`.
* A task freed before its exit callback runs never has its latch signaled, against
  `execution_engine.h:180` (`LatchAlwaysSignaled`).
* `Stop` between `TryQueueTask`'s check and its count ends the waitpid thread with a child
  still to come, against `execution_engine.cc:459` (`WaiterReapsAll`).
* The exit callback looks for a pid among finished tasks too (`execution_engine.cc:423`), so
  that a task whose pid is also theirs may stay marked as running for ever, against
  `execution_engine.h` on `is_running`: `RunningCleared` fails, and `RunningHasProcess`,
  `StopTerminates` and `PollEnds` except such tasks (`shared`).
* A joined task is freed by the id of the delegate's own table
  (`distributed_task_dispatcher.cc:285`). Where that is another task of the servant's, it
  loses a reference and may go while others hold it, against the comment in `FreeTask`:
  `HeldTasksStay` fails, and `ReferencesHonoured` excepts the task that was hit (`misfreed`).
* `kill(-pid)` misses a child that has not called `setpgid` yet (`execute_command.cc:60`).
* `Get` adds to `keepers_` after `Stop`, although `Join` walks it without the lock
  (`task_grant_keeper.cc:110`); a task that takes the last prefetched grant does not start a
  new prefetch, as `doc/daemon.md:89` says it does.
* After a restart a servant's ids name other tasks, and the delegate compares nothing else:
  `OwnResult` leaves that case out.
* `KillTimer` of the abort timer in `Stop` leaves tasks that are under way without a deadline
  (`distributed_task_dispatcher.cc:109`); `TaskEnds` speaks of delegates that were not stopped.
* A dedicated servant with a single processor offers 0 tasks with reason "unknown"
  (`execution_engine.cc:132`); a load sample that comes late can make the load negative
  (`sysinfo.cc:140`).
* A compiler replaced in place between rescan and execution is run and its result may be
  cached under the old digest (`task.swapped` in `GenuineOutput`).

Caches

* Rebuilding compensates for a listing of ten seconds and an incremental update for a call of five,
  but nothing bounds a listing, and the call may take ten (`distributed_cache_reader.cc:133`).
  A listing that fails half-way is used as it is (`cos_cache_engine.cc:204`), also for the
  filter. In each case a key can be missing until the next rebuild or full update: `FilterSound`
  says so by `rebuilt` and `Unsure`.
* The reader sets both of its times even if its first load failed, so that "We haven't
  succeeded yet, force a full update then" (`distributed_cache_reader.cc:122`) does not come
  true; `ReaderLearns` still holds, because the full update comes in its turn.
* `Purge` unlinks a file it found without an entry after it has let go of the lock
  (`disk_cache.cc:594`); a `Put` in between loses its file (`strays`). A failed open erases the
  `EntryDesc` whose lock is held (`disk_cache.cc:519`), which `OpenFails` leaves to a `Crash`.
* Time stamps of objects are read with the month one too high
  (`cos_cache_engine.cc:88`), so that January 31 sorts after February 1: `AgesOrdered`
  leaves such pairs out. An unexpected key in a listing leaves an entry with an
  uninitialised size (`cos_cache_engine.cc:213`). An object written again after it was
  marked is purged all the same.

Wrapper and formats

* A wrapper that aborts (`CheckFails`) compiles nothing and ends with a signal, although the
  compiler was never asked: a preprocessor that is killed, or a disk that is full when the
  cloud's outputs are written, fails a build. `FailuresAreLocal` is about the exit codes, and
  about files that have been taken back from the cloud.
* `ReadHttpBody` spins if the connection ends inside the header (`daemon_call.cc:233`);
  `CallReturns` leaves that case out.
* A release that is lost while its process lives on is counted until the process ends, so that
  "The daemon should be able to handle the case we crashed" (`task_quota.cc:37`) covers less
  than its caller needs: `TerminatesUnlessLost`. A release that arrives after its caller has
  given up waiting for the answer is not in the model.
* `GetMtimeAndSize` looks at a link instead of the compiler (`utility.cc:168`): an upgrade
  behind the link goes unnoticed, and `DigestFresh` promises only that the digest is none of
  before the link was made. A compiler put back with its old time stamp finds a digest
  that was taken meanwhile.
* The check after the extraction of the library (`libfakeroot.cc:98`) fails if another
  build renames its own in between, and builds of the same size are not told apart
  (`libfakeroot.cc:109`).
* `PatchPathOccurrences` compares the path with the room for path and suffix together
  (`compilation_saas.cc:96`): `PathsRepaired` needs the wrapper's path to be no longer than the
  servant's.
* `TryParseSize` of an empty string is undefined (`parse_size.cc:28`); it is not among the samples.
* `EscapeCommandArgument` leaves `'` and `|` as they are, and what it makes of control
  characters is a letter to `sh` (`escape.cc:26`).
* The fall back to `-E` still sets `directives_only` (`rewrite_file.cc:173`); compilers in
  `/usr/bin` are patched although a comment says not to, for want of a slash
  (`rewrite_file.cc:61`).
* `GetOutputFile` keeps the slash of a file in the root directory and misnames a file without
  an extension in a directory with a dot (`compiler_args.cc:183`).
* `EnumerateDir` tests `d_type` with `&`: links count as files, sockets and block devices
  as directories (`dir.cc:46`).
* A source that is not to be cached has no digest, so that different sources have one task key
  at the delegate; it never equals a servant's.

## 5. Proofs

The theorems hold for every value of the constants that satisfies the named
assumptions of the modules (`ConstantsAssumption`, `EngineAssumption`,
`KeeperAssumption`, `DelegateAssumption`, `MonitorAssumption`, `ClientAssumption`,
`WrappersAssumption`, `CallConstants`, `ChildConstants`, `CacheServiceAssumption`,
`CosAssumption`, `ArcAssumption`, `DiskCacheAssumption`, `ServantConstants`): types,
finitely many clients, pids, tasks and objects, room for something in a cache and a pipe, a
tolerance no longer than the lease, reader's calls that time out before a full update is due.
One theorem has a hypothesis of its own, `PickSoundCorrect`: `OneServantPerHost`. "The
requestor's own servant" is found by comparing hosts, and with two servants on a host the
policy itself is ambiguous. What the code does not keep up in every case is excepted in the
properties themselves, by histories the models carry (`misfreed`, `shared`, `rebuilt` and
`Unsure`, `strays`), so that the theorems hold of every behaviour.

`ResultSound` itself is about behaviours without a restart of the servant, after which its
ids mean other tasks.

There is no induction over data here. What replaces it: the least of a set of naturals
(`LeastNatural`, from the library's fact that < on Nat is well founded), which gives the
first of a list, the least utilized servant and the greatest key of a batch; and
counting, where a total is the cardinality of a set, so that totals are compared by
injections (`BytesByKeys`). It deals with loops too, by the first round that is a
counterexample: `RunExists` says that the iteration of a round is a function, and
`RunEnds` that a loop whose rounds lower a measure has come to its end within that many.
The same argument gives the layout of a request's buffers (`BeforeAdds`, `BeforeGrows`).

`TaskDispatcherProofs`. The inductive invariant is `RegistryInv`: `TypeOK`,
`RegistrySound` and `RunningTasksExact` together. None is inductive alone: that the
counter stays a natural needs it to equal the number of grants, that needs every grant
to name a registered servant, and the new registration of a heartbeat starts at zero
only because no grant can name it yet. Its steps give `TypeCorrect`, `RegistryCorrect`
and `AccountingCorrect`. `BookkeeperCorrect` and `WakeupCorrect` are proved on top of
it: the latter from the fact that which servants are free depends on the registry alone
(`FreeDependsOn`) and that every action that lowers a counter wakes everybody or leaves
`unannounced` set. `LeaseRespectedCorrect` goes through the actions that shrink the task
table, and through those that touch a zombie (`ZombieStep`). `PickSoundCorrect` follows
the choice as the code makes it: the ratios are compared by cross products, which is
transitive for positive capacities (`CrossTransitive`), so a least one exists and the
first of them is unique (`PickIsOne`, `PickIsLeast`); a free servant has room by both of
its limits (`FreeHasRoom`).

`ExecutionEngineProofs`. `EngineInv` is `TypeOK`, `Sequencing` (who holds the lock,
which stages of the stopper go with `exiting`), `RunningTasksExact`,
`SemaphoreBalanced`, `WaiterNeverAborts` and `LimitRespected`. The limit follows
from the exact count, the naturalness of the counters too, and the waitpid thread's
check never fires because the semaphore never exceeds the children by more than the
one release of `Stop`. `TypeStep` and `CountingStep` have one case per action;
`Untouched` and `CountingUntouched` deal with what an action leaves alone. On top of it,
`ReferencesInv` adds that a client holds only what was started (`HoldersKnown`), so that a
task nobody has mistakenly freed loses its references to its holders alone, and
`ProcessesInv` that no other task in the table has the pid of a running one which found its
own free (`PidsOwned`): the exit callback then finds that task and no other.

`TaskGrantKeeperProofs`. `KeeperInv` adds three facts to the properties. `CallsApart`
says of grants on their way back to the fetcher what `HandedOnce` says of the others;
`CallsConservative` says that the reckoning of a call is conservative already when the
scheduler makes its grants; `OneBatch` says that while a call is under way the queue is
empty and the batch no larger than what was asked for, which bounds the queue because
`WaitersExact` bounds `waiters`. `HandedOnce` rests on fresh ids being fresh, and on
nothing the lock is let go over being used afterwards. There is one lemma per group of
conjuncts (`TypeStep`, `WaitersStep`, `ApartStep`, `ExpiryStep`, `BatchStep`), each with
one case per action that touches its variables; `TakeQueues` and the `...Shape` lemmas
say what the sequence operations do to a queue. `HandedAliveCorrect` is an action
property: only `Get` takes a task from its call to a grant (`OnlyGetHands`), the grant
it takes has not expired by the keeper's reckoning, and that is conservative.

`RegistryConsistentCorrect`, `EngineConsistentCorrect` and `QueueConsistentCorrect` put the
theorems of each module together to the invariant its run checks.

`DistributedTaskDispatcherProofs`. `DelegateInv` adds to the three properties what stage
a task's descriptor is in at each place of its fiber (`Stages`), what a keep-alive under
way may still say (`KeepingSound`: its task keeps that grant to the end, and a renewal
it reports is no younger than the lease) and what a servant's task id names
(`ServantNames`: snapshots, references and running tasks agree on the digest while the
servant has not restarted). The three properties need each other: that nobody leaves the
table early is what keeps timers off a completed task, and no two fibers use one grant
(`HoldersApart`), so that the `FreeTask` of one never takes the other's.

`ClientProofs`. `ClientInv` is about what the daemon believes (`OnRecord`: whoever holds a
permission is in the table, however the call that says so got lost), with which size of
work it judged it (`JudgedAsAsked`) and how much that leaves (`WithinBounds`); a permission
of a process that died is given back by the check only, which can only raise what is
left. `FailuresCorrect` follows from `ExitCodes` and from `ForTheCloud`: what was taken back
from the cloud, or never went there, is not on any of the paths where a wrapper aborts
before it compiles. `DigestInv` says what a wrapper's look and
hash still tell about a compiler that is upgraded meanwhile, `LibraryInv` whose file is under
the temporary name at each step between `flock` and `rename`. `OutputCorrect` is about a program's
pipes: an output is done only when its writer is gone and its pipe is empty (`OutputsDone`),
and bytes are in the program's count, the pipe's or the caller's. `IoIntactCorrect` is all of
`IoIntact`, for any buffers, rounds and ways of the kernel to cut them. `CallInv` says that
what the daemon has got is the request up to the round's first buffer and the
`bytes_written` after it (`SentSoFar`), and what the caller has read is the answer up to the
place its state says (`ReadSoFar`). The step that matters is `WritesTheRest`: the
buffers that `TimedWriteV` still has to send after it skipped those it has, empty ones
included, are the stretch of the request that follows, whatever number of bytes the kernel took.

`CacheServiceProofs`. `CacheInv` has one conjunct per race: what a listing under way may
miss is recent as long as it is whole and in time (`GatherMissesNew`), what a call under
way does not carry is what the next one will (`CallWillTell`, `AnswerTells`). `CosInv`
says that a listing has every key once and in order although keys are written again
behind and before the marker (`ListedInOrder`), that a time stamp that was seen is no
later than the last write (`SeenAfterWritten`), and hence that what a listing marks lies
behind a capacity's worth of other keys, each of them written at the marked time or
since (`MarkStep`); writing more only adds to them (`NewerGrows`).

The first level is in the same module. `ArcInv` is `Consistent`, that the lists and the
maps agree and a counter is the total of its list, and `Fits`, that what is kept and
what is remembered take no more than their room. Inside an operation neither holds as it
stands: `UnsafeTryEvict` lowers a counter before the list loses its entry, adjusts the
halves in between, and only `EvictMemoryOverflow` brings the sizes back. So there is a
lemma for every operator on the structure, which says what it leaves and what it forgets
at most (`Given`, `Taken`), and each of the loops is shown to end within `Rounds`,
because a round moves an entry to a list that counts less or drops it (`RoundKeeps`,
`EvictShortens`, `ForgetShortens`). `ArcBooksCorrect` follows, and
`ArcRefinementCorrect`: an operation binds at most the key it was called with and
otherwise only forgets.

`DiskCacheProofs`. `DiskInv` relates the files, the index and the fibers: a header is of its
own key and is written first (`HeadersGenuine`), one writer to a key
(`OneWriter`), a reader's file stays while it has it (`ReadersHaveFile`), an entry's file is
of the size it says, and missing for `strays` only (`EntriesTrue`), and what loading has been
through has its entry (`LoadedSoFar`). `BareWatched` says that no other key loses its file to
a `Purge` that has let go of the lock.

`ServantServiceProofs`. `ServantInv`'s `TokensHeard` says that tokens which left the scheduler
less than a rollout interval ago are its current or its previous ones, for the request, the
reply, the servant's and the delegate's copies; `RegistryRight` that the registry's tables
list each other and were found by a scan, `TaskRight` what the task under way may rely on.
`Scan` is a function on the digests found, so that what it contains is a lemma and not an
induction along the directories.

**Only model-checked:** liveness (`WaiterWoken`, `GrantReclaimed`, `StopTerminates`,
`PollEnds`, `KeeperLive`, `TaskEnds`, `ReaderLearns`, `OverflowPurged`,
`TerminatesUnlessLost`, `PermissionReclaimed`, `IoTerminates`, `StoppedIsForgotten`,
`CompilersAdvertised`), because fairness and ENABLED are out of the prover's reach;
and `FormatsExact`, which computes samples with folds and functions that recur over the
data.

## 6. Not modelled

What `PROJECT.json` lists as `not_modelled`: the web console and the inspection pages
(presentation), privileges, temporary directories, flags and start-up (operating system
calls without state of their own), logging, options and compression in the client. In the
parts marked `partly`: JSON and protobuf conversion, the hash functions, reading `/proc`,
the null cache engine, the interposed system calls of the fake root library and the
`exec` of the universal wrapper.

Inside the modelled parts these are left out: `DumpInternals` and what is logged; the
captured output of a compilation as text; the memory check of `TryQueueTask` other than
as a rejection at any time; a pid that comes back before the exit callback of its last
use has run; false positives of the Bloom filter, which cost an RPC; files in the disk
cache's directories that are not its own; foreign file types in a compilation's
directory; two handlers waiting for one task of the delegate. Each component is checked
against the calls its neighbours make, not against the neighbours' own modules: the
composition of scheduler, delegate and servant is step 11 of the plan.
