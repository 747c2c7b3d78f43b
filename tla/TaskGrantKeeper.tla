-------------------------- MODULE TaskGrantKeeper ---------------------------
(* What a delegate daemon keeps of the grants it obtains from the scheduler:  *)
(* src/yadcc/daemon/local/task_grant_keeper.{h,cc}.                           *)
(*                                                                            *)
(* Per environment there is a queue of unused grants and a fetcher fiber that *)
(* refills it by RPC.  Tasks (fibers in StartNewServantTask of                *)
(* distributed_task_dispatcher.cc) call Get until it yields a grant or they   *)
(* are aborted.  A critical section of a keeper's lock is one action; the     *)
(* fetcher keeps the lock over several when it is about to block on           *)
(* need_more_cv (Stop notifies without the lock) and while it backs off.      *)
(*                                                                            *)
(* Time is kept as what is left, and stops at -1.                             *)
EXTENDS Integers, Sequences, FiniteSets

CONSTANTS
    Envs,       \* environments (compiler digests)
    Tasks,      \* fibers that need a grant
    ExpiresIn,  \* kExpiresIn
    Tolerance,  \* kNetworkDelayTolerance
    MaxGrants   \* bound: grants ever made

ASSUME KeeperAssumption ==
    /\ ExpiresIn \in Nat /\ Tolerance \in Nat /\ Tolerance <= ExpiresIn
    /\ MaxGrants \in Nat
    /\ IsFiniteSet(Tasks)

NoGrant == 0

VARIABLES
    keepers,     \* keepers_: the environments it has an entry for
    remaining,   \* each keeper's queue of grants
    waiters,     \* each keeper's `waiters'
    fetcher,     \* where each keeper's GrantFetcherProc is
    call,        \* its WaitForStartingTask RPC: since when, for how many
    granted,     \* what the scheduler has granted to that call
    tasks,       \* where each task is, and for which environment
    held,        \* the grant each task was given
    leases,      \* external: what the scheduler leaves of each grant's lease
    leaving,     \* leaving_
    stopper      \* where the thread calling Stop, then Join, is

keeperVars == <<keepers, remaining, waiters>>
fetcherVars == <<fetcher, call, granted>>
stopVars == <<leaving, stopper>>

vars == <<keepers, remaining, waiters, fetcher, call, granted, tasks, held,
          leases, leaving, stopper>>

NoCall == [expires_at |-> 0, immediate_reqs |-> 0]

(* The fetcher has the keeper's lock.                                         *)
Locked(e) == fetcher[e] \in {"parking", "backoff"}

WaitingFor(e) == {t \in Tasks : tasks[t].at \in {"waiting", "notified"}
                                  /\ tasks[t].env = e}

At(t, place) == [tasks EXCEPT ![t].at = place]

-----------------------------------------------------------------------------
(* The callers: StartNewServantTask.                                          *)

StartNewServantTask(t, e) ==
    /\ tasks[t].at = "idle"
    /\ tasks' = [tasks EXCEPT ![t] = [at |-> "looping", env |-> e]]
    /\ UNCHANGED <<keeperVars, fetcherVars, held, leases, stopVars>>

(* `aborted' is seen between two calls of Get.                                *)
Abort(t) ==
    /\ tasks[t].at = "looping"
    /\ tasks' = At(t, "idle")
    /\ UNCHANGED <<keeperVars, fetcherVars, held, leases, stopVars>>

Free(t) ==
    /\ tasks[t].at = "granted"
    /\ tasks' = At(t, "idle")
    /\ held' = [held EXCEPT ![t] = NoGrant]
    /\ UNCHANGED <<keeperVars, fetcherVars, leases, stopVars>>

-----------------------------------------------------------------------------
(* Get: the keeper is found or made under lock_, then its own lock is taken.  *)

StartFetcher(e) == IF e \in keepers THEN fetcher
                   ELSE [fetcher EXCEPT ![e] = "loop"]

FindKeeper(t) ==
    LET e == tasks[t].env
    IN  /\ tasks[t].at = "looping"
        /\ stopper # "stopping"
        /\ tasks' = At(t, "entered")
        /\ keepers' = keepers \union {e}
        /\ fetcher' = StartFetcher(e)
        /\ UNCHANGED <<remaining, waiters, call, granted, held, leases,
                       stopVars>>

(* Mutant: nothing is dropped.                                                *)
DropNothing(q, k) == k = 0

(* The first k grants, and not the one after them, have expired.              *)
DropExpired(q, k) ==
    /\ \A i \in 1 .. k : q[i].expires_at < 0
    /\ k < Len(q) => q[k + 1].expires_at >= 0

(* Mutant: the fetcher is not told.                                           *)
WakeNobody(e) == fetcher[e]

WakeFetcher(e) == IF fetcher[e] = "asleep" THEN "loop" ELSE fetcher[e]

(* Mutant: the grant is left in the queue.                                    *)
NoPop(q) == q

Pop(q) == Tail(q)

TakeGrant(t, q) ==
    /\ tasks' = At(t, "granted")
    /\ held' = [held EXCEPT ![t] = Head(q).grant_id]
    /\ remaining' = [remaining EXCEPT ![tasks[t].env] = Pop(q)]

Get(t) ==
    LET e == tasks[t].env
    IN  /\ tasks[t].at = "entered"
        /\ ~Locked(e)
        /\ \E k \in 0 .. Len(remaining[e]) :
              /\ DropExpired(remaining[e], k)
              /\ \/ /\ k < Len(remaining[e])
                    /\ TakeGrant(t, SubSeq(remaining[e], k + 1,
                                           Len(remaining[e])))
                    /\ UNCHANGED <<waiters, fetcher>>
                 \/ /\ k = Len(remaining[e])
                    /\ remaining' = [remaining EXCEPT ![e] = <<>>]
                    /\ tasks' = At(t, "waiting")
                    /\ waiters' = [waiters EXCEPT ![e] = @ + 1]
                    /\ fetcher' = [fetcher EXCEPT ![e] = WakeFetcher(e)]
                    /\ UNCHANGED held
        /\ UNCHANGED <<keepers, call, granted, leases, stopVars>>

LeaveWaiters(e) == [waiters EXCEPT ![e] = @ - 1]

(* wait_for looks at the queue when it is notified and when its time is up.   *)
TakeAfterWaiting(t) ==
    LET e == tasks[t].env
    IN  /\ tasks[t].at \in {"waiting", "notified"}
        /\ ~Locked(e)
        /\ remaining[e] # <<>>
        /\ TakeGrant(t, remaining[e])
        /\ waiters' = LeaveWaiters(e)
        /\ UNCHANGED <<keepers, fetcherVars, leases, stopVars>>

WaitOn(t) ==
    /\ tasks[t].at = "notified"
    /\ ~Locked(tasks[t].env)
    /\ remaining[tasks[t].env] = <<>>
    /\ tasks' = At(t, "waiting")
    /\ UNCHANGED <<keeperVars, fetcherVars, held, leases, stopVars>>

TimeOut(t) ==
    LET e == tasks[t].env
    IN  /\ tasks[t].at \in {"waiting", "notified"}
        /\ ~Locked(e)
        /\ remaining[e] = <<>>
        /\ tasks' = At(t, "looping")
        /\ waiters' = LeaveWaiters(e)
        /\ UNCHANGED <<keepers, remaining, fetcherVars, held, leases, stopVars>>

-----------------------------------------------------------------------------
(* GrantFetcherProc.  At "loop" it has yet to read leaving_ and to take the   *)
(* lock.                                                                      *)

NeedMore(e) == remaining[e] = <<>>

(* The call is accounted from before it is made.                              *)
NewCall(e) ==
    [expires_at |-> ExpiresIn - Tolerance, immediate_reqs |-> waiters[e]]

FetcherChecks(e) ==
    /\ fetcher[e] = "loop"
    /\ \/ /\ leaving
          /\ fetcher' = [fetcher EXCEPT ![e] = "done"]
          /\ UNCHANGED call
       \/ /\ ~leaving /\ NeedMore(e)
          /\ fetcher' = [fetcher EXCEPT ![e] = "calling"]
          /\ call' = [call EXCEPT ![e] = NewCall(e)]
       \/ /\ ~leaving /\ ~NeedMore(e)
          /\ fetcher' = [fetcher EXCEPT ![e] = "parking"]
          /\ UNCHANGED call
    /\ UNCHANGED <<keeperVars, granted, tasks, held, leases, stopVars>>

(* need_more_cv.wait blocks and lets go of the lock.                          *)
FetcherParks(e) ==
    /\ fetcher[e] = "parking"
    /\ fetcher' = [fetcher EXCEPT ![e] = "asleep"]
    /\ UNCHANGED <<keeperVars, call, granted, tasks, held, leases, stopVars>>

(* External: the scheduler makes some of the grants asked for; one more than  *)
(* immediate_reqs is asked for as a prefetch.                                 *)
SchedulerGrants(e, n) ==
    /\ fetcher[e] = "calling"
    /\ granted[e] = <<>>
    /\ n <= call[e].immediate_reqs + 1
    /\ Len(leases) + n <= MaxGrants
    /\ granted' = [granted EXCEPT ![e] = [i \in 1 .. n |-> Len(leases) + i]]
    /\ leases' = leases \o [i \in 1 .. n |-> ExpiresIn]
    /\ UNCHANGED <<keeperVars, fetcher, call, tasks, held, stopVars>>

(* Mutant: the lease is reckoned from the response.                           *)
ExpiryFromNow(e) == ExpiresIn - Tolerance

Expiry(e) == call[e].expires_at

NotifyAvailable(e) ==
    [t \in Tasks |-> IF tasks[t].at = "waiting" /\ tasks[t].env = e
                       THEN [tasks[t] EXCEPT !.at = "notified"] ELSE tasks[t]]

FetchSucceeds(e) ==
    /\ fetcher[e] = "calling"
    /\ granted[e] # <<>>
    /\ remaining' = [remaining EXCEPT ![e] = @ \o
          [i \in 1 .. Len(granted[e]) |->
              [grant_id |-> granted[e][i], expires_at |-> Expiry(e)]]]
    /\ granted' = [granted EXCEPT ![e] = <<>>]
    /\ tasks' = NotifyAvailable(e)
    /\ fetcher' = [fetcher EXCEPT ![e] = "loop"]
    /\ call' = [call EXCEPT ![e] = NoCall]
    /\ UNCHANGED <<keepers, waiters, held, leases, stopVars>>

(* No quota, a lost response, a timeout: whatever was granted is lost.        *)
FetchFails(e) ==
    /\ fetcher[e] = "calling"
    /\ granted' = [granted EXCEPT ![e] = <<>>]
    /\ fetcher' = [fetcher EXCEPT ![e] = "backoff"]
    /\ call' = [call EXCEPT ![e] = NoCall]
    /\ UNCHANGED <<keeperVars, tasks, held, leases, stopVars>>

FetcherRetries(e) ==
    /\ fetcher[e] = "backoff"
    /\ fetcher' = [fetcher EXCEPT ![e] = "loop"]
    /\ UNCHANGED <<keeperVars, call, granted, tasks, held, leases, stopVars>>

-----------------------------------------------------------------------------
(* Stop has lock_ from its first to its second step.                          *)

Stop ==
    /\ stopper = "none"
    /\ leaving' = TRUE
    /\ stopper' = "stopping"
    /\ UNCHANGED <<keeperVars, fetcherVars, tasks, held, leases>>

StopNotifies ==
    /\ stopper = "stopping"
    /\ fetcher' = [e \in Envs |-> WakeFetcher(e)]
    /\ stopper' = "stopped"
    /\ UNCHANGED <<keeperVars, call, granted, tasks, held, leases, leaving>>

Join ==
    /\ stopper = "stopped"
    /\ \A e \in keepers : fetcher[e] = "done"
    /\ stopper' = "joined"
    /\ UNCHANGED <<keeperVars, fetcherVars, tasks, held, leases, leaving>>

-----------------------------------------------------------------------------
Countdown(n) == IF n < 0 THEN n ELSE n - 1

Tick ==
    /\ leases' = [g \in 1 .. Len(leases) |-> Countdown(leases[g])]
    /\ remaining' = [e \in Envs |-> [i \in 1 .. Len(remaining[e]) |->
          [remaining[e][i] EXCEPT !.expires_at = Countdown(@)]]]
    /\ call' = [e \in Envs |->
          IF fetcher[e] = "calling"
            THEN [call[e] EXCEPT !.expires_at = Countdown(@)] ELSE call[e]]
    /\ UNCHANGED <<keepers, waiters, fetcher, granted, tasks, held, stopVars>>

Init ==
    /\ keepers = {}
    /\ remaining = [e \in Envs |-> <<>>]
    /\ waiters = [e \in Envs |-> 0]
    /\ fetcher = [e \in Envs |-> "none"]
    /\ call = [e \in Envs |-> NoCall]
    /\ granted = [e \in Envs |-> <<>>]
    /\ tasks \in [Tasks -> [at: {"idle"}, env: Envs]]
    /\ held = [t \in Tasks |-> NoGrant]
    /\ leases = <<>>
    /\ leaving = FALSE
    /\ stopper = "none"

Next ==
    \/ \E t \in Tasks :
          \/ \E e \in Envs : StartNewServantTask(t, e)
          \/ Abort(t) \/ Free(t)
          \/ FindKeeper(t) \/ Get(t)
          \/ TakeAfterWaiting(t) \/ WaitOn(t) \/ TimeOut(t)
    \/ \E e \in Envs :
          \/ FetcherChecks(e) \/ FetcherParks(e) \/ FetcherRetries(e)
          \/ \E n \in 1 .. Cardinality(Tasks) + 1 : SchedulerGrants(e, n)
          \/ FetchSucceeds(e) \/ FetchFails(e)
    \/ Stop \/ StopNotifies \/ Join
    \/ Tick

Spec == Init /\ [][Next]_vars

(* Fibers run on, RPCs return (they have timeouts), waits time out, and a     *)
(* task in its loop calls Get again or notices that it is aborted.  Whoever   *)
(* waits for a lock gets it in the end (flare::fiber::Mutex queues its        *)
(* waiters): SF for what takes a keeper's lock.                               *)
Fairness ==
    /\ \A t \in Tasks :
          /\ WF_vars(FindKeeper(t) \/ Abort(t))
          /\ SF_vars(Get(t))
          /\ SF_vars(TakeAfterWaiting(t) \/ WaitOn(t) \/ TimeOut(t))
    /\ \A e \in Envs :
          /\ WF_vars(FetcherChecks(e) \/ FetcherParks(e) \/ FetcherRetries(e))
          /\ WF_vars(FetchSucceeds(e) \/ FetchFails(e))
    /\ WF_vars(StopNotifies \/ Join)

FairSpec == Spec /\ Fairness

-----------------------------------------------------------------------------
Ids == 1 .. Len(leases)

GrantDescType == [grant_id: Ids, expires_at: Int]

TasksOK ==
    /\ tasks \in [Tasks -> [at: {"idle", "looping", "entered", "waiting",
                                 "notified", "granted"}, env: Envs]]
    /\ held \in [Tasks -> Ids \union {NoGrant}]
    /\ \A t \in Tasks : held[t] # NoGrant <=> tasks[t].at = "granted"

FetchersOK ==
    /\ fetcher \in [Envs -> {"none", "loop", "parking", "asleep", "calling",
                             "backoff", "done"}]
    /\ call \in [Envs -> [expires_at: Int, immediate_reqs: Int]]
    /\ granted \in [Envs -> Seq(Ids)]
    /\ \A e \in Envs : fetcher[e] = "none" <=> e \notin keepers

(* Type invariant.  `waiters' is an int that Get checks with                  *)
(* FLARE_CHECK_GE(--waiters, 0): see WaitersExact.                            *)
TypeOK ==
    /\ keepers \subseteq Envs
    /\ remaining \in [Envs -> Seq(GrantDescType)]
    /\ waiters \in [Envs -> Int]
    /\ leases \in Seq(Int)
    /\ leaving \in BOOLEAN
    /\ stopper \in {"none", "stopping", "stopped", "joined"}
    /\ TasksOK
    /\ FetchersOK

(* `waiters', which says how many grants the next RPC asks for, is the number *)
(* of tasks waiting in Get, whichever way they leave it; so that              *)
(* FLARE_CHECK_GE(--keeper->waiters, 0) never fires.                          *)
WaitersExact ==
    \A e \in Envs : waiters[e] = Cardinality(WaitingFor(e))

(* A grant is good for one compilation: it is never given to two tasks, nor   *)
(* left in a queue once given, however fetches, waits and timeouts interleave.*)
HandedOnce ==
    /\ \A t, u \in Tasks : held[t] = held[u] /\ held[t] # NoGrant => t = u
    /\ \A e \in Envs : \A i \in 1 .. Len(remaining[e]) :
          /\ \A t \in Tasks : held[t] # remaining[e][i].grant_id
          /\ \A f \in Envs : \A j \in 1 .. Len(remaining[f]) :
                remaining[e][i].grant_id = remaining[f][j].grant_id
                  => e = f /\ i = j

(* A delegate never sits on more grants of an environment than there were     *)
(* tasks waiting, and the prefetched one: a batch is fetched only when the    *)
(* last one is used up, although the lock is let go during the RPC.           *)
QueueBounded ==
    \A e \in Envs : Len(remaining[e]) <= Cardinality(Tasks) + 1

(* "Using timestamp prior to RPC issue, let's be conservative": what the      *)
(* keeper believes is left of a grant is less than what the scheduler leaves  *)
(* of it by the tolerance for network delay.                                  *)
ConservativeExpiry ==
    \A e \in Envs : \A i \in 1 .. Len(remaining[e]) :
        remaining[e][i].expires_at >= 0 =>
            leases[remaining[e][i].grant_id] >=
                remaining[e][i].expires_at + Tolerance

(* What Get and the fetcher find under the keeper's lock: exact books, at     *)
(* most one batch, and no lease believed longer than it is.                   *)
QueueConsistent ==
    TypeOK /\ WaitersExact /\ QueueBounded /\ ConservativeExpiry

(* A grant that Get hands out from its stock without waiting is one the       *)
(* scheduler will honour for the time of the tolerance, however long it lay   *)
(* in the queue.                                                              *)
HandedAlive ==
    [][\A t \in Tasks :
          tasks[t].at = "entered" /\ tasks'[t].at = "granted" =>
              leases[held'[t]] >= Tolerance]_vars

Needy(t) == tasks[t].at \in {"looping", "entered", "waiting", "notified"}

(* A task without a grant is not forgotten: a new RPC is made, or it is given *)
(* a grant, or it gives up.  (A notification of need_more_cv can be missed:   *)
(* a grant is taken after the fetcher has gone to sleep over it, while        *)
(* another task goes on waiting.  The 1s timeout and the next Get repair it.) *)
TaskServed ==
    \A t \in Tasks :
        Needy(t) ~> (~Needy(t) \/ leaving \/ fetcher[tasks[t].env] = "calling")

(* Stop ends every fetcher it finds, save one that has looked at leaving_ and *)
(* has yet to block (see JoinReturns).                                        *)
FetcherEnds ==
    \A e \in Envs :
        (stopper = "stopping" /\ fetcher[e] \notin {"none", "parking"})
            ~> (fetcher[e] = "done")

(* A waiting task is served or gives up, and the fetchers end with Stop.      *)
KeeperLive == TaskServed /\ FetcherEnds

(* task_grant_keeper_test.cc calls Stop and then Join, and goes on: Join      *)
(* returns.                                                                   *)
JoinReturns == (stopper = "stopped") ~> (stopper = "joined")
=============================================================================
