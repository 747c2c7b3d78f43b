---------------------- MODULE DistributedTaskDispatcher ----------------------
(* How a delegate daemon gets a task compiled:                                *)
(* src/yadcc/daemon/local/distributed_task_dispatcher.{h,cc}, with the HTTP   *)
(* handlers in front of it (http_service_impl.cc), the task it is handed      *)
(* (distributed_task/cxx_compilation_task.cc) and its view of what runs in    *)
(* the cluster (running_task_keeper.cc).                                      *)
(*                                                                            *)
(* Every task has a fiber of its own (PerformOneTask), whose steps interleave *)
(* with the four timers and with the HTTP handler its client waits in.  A     *)
(* critical section, and an RPC together with the update its answer causes,   *)
(* is one action; an RPC that fails may have had its effect on the servant.   *)
(* The servant and the scheduler are external: what they keep of our tasks is *)
(* modelled from the calls made here.                                         *)
(*                                                                            *)
(* Time is coarse: that a deadline, a minute or five seconds have passed is   *)
(* an event of its own.                                                       *)
EXTENDS Integers, FiniteSets

CONSTANTS
    MaxTasks,         \* bound: tasks ever submitted
    Digests,          \* task digests
    Uncached,         \* those submitted with CacheControl Disallow or Refill
    Retries,          \* kRpcRetries
    MaxServantTasks,  \* bound: tasks the servant has ever accepted
    MaxRestarts       \* bound: restarts of the servant

ASSUME DelegateAssumption ==
    /\ MaxTasks \in Nat /\ Retries \in Nat \ {0}
    /\ MaxServantTasks \in Nat /\ MaxRestarts \in Nat
    /\ Uncached \subseteq Digests

NoTask == 0

VARIABLES
    tasks,      \* tasks_: the ids in the table
    descs,      \* the TaskDesc of every task ever queued
    fiber,      \* where each PerformOneTask is
    retries,    \* retries_left of each WaitServantForTaskWithRetry
    waiter,     \* where the HTTP handler waiting for each task is
    keeping,    \* the KeepTaskAlive RPC under way: task and grant pairs
    running,    \* running_tasks_ of RunningTaskKeeper
    servant,    \* external: the servant's tasks
    started,    \* external: ids the servant has given out since it started
    grants,     \* external: grants outstanding at the scheduler, by age
    granted,    \* external: grants the scheduler has made
    freeing,    \* grants whose FreeTask is on its way to the scheduler
    restarts,   \* external: how often the servant restarted
    stopped     \* Stop has killed the timers

tableVars == <<tasks, descs>>
fiberVars == <<fiber, retries>>
servantVars == <<servant, started, restarts>>
grantVars == <<grants, granted, freeing>>

vars == <<tasks, descs, fiber, retries, waiter, keeping, running, servant,
          started, grants, granted, freeing, restarts, stopped>>

Ids == DOMAIN descs

None == "none"

(* What became of the compilation: whose output, and how it exited.           *)
Failure(code) == [code |-> code, of |-> None]

Goto(t, place) == fiber' = [fiber EXCEPT ![t] = place]

-----------------------------------------------------------------------------
(* The HTTP handlers.                                                         *)

NewTaskDesc(d) ==
    [digest |-> d, state |-> "Pending", aborted |-> FALSE,
     output |-> Failure("unset"), grant_id |-> 0, servant_task_id |-> NoTask,
     keep |-> 0, latch |-> FALSE, task |-> TRUE]

(* The descriptor enters the table and its fiber is started.                  *)
QueueDistributedTask(d) ==
    LET t == Cardinality(Ids) + 1
        Add(f, v) == [i \in Ids \union {t} |-> IF i = t THEN v ELSE f[i]]
    IN  /\ t <= MaxTasks
        /\ descs' = Add(descs, NewTaskDesc(d))
        /\ tasks' = tasks \union {t}
        /\ fiber' = Add(fiber, "cache")
        /\ retries' = Add(retries, Retries)
        /\ waiter' = Add(waiter, "none")
        /\ UNCHANGED <<keeping, running, servantVars, grantVars, stopped>>

(* A request whose Prepare accepts it: d is the digest of the task, absent    *)
(* compilers and malformed requests are turned away and leave no trace.       *)
SubmitCxxTask(d) == QueueDistributedTask(d)

(* The lookup.  404 when the task is not in the table: the client gives up.   *)
WaitForDistributedTask(t) ==
    /\ waiter[t] = "none"
    /\ waiter' = [waiter EXCEPT ![t] = IF t \in tasks THEN "latch" ELSE "404"]
    /\ UNCHANGED <<tableVars, fiberVars, keeping, running, servantVars,
                   grantVars, stopped>>

(* 503: the client asks again.                                                *)
WaitTimesOut(t) ==
    /\ waiter[t] = "latch"
    /\ ~descs[t].latch
    /\ waiter' = [waiter EXCEPT ![t] = "none"]
    /\ UNCHANGED <<tableVars, fiberVars, keeping, running, servantVars,
                   grantVars, stopped>>

WaiterErases(t) ==
    /\ waiter[t] = "latch"
    /\ descs[t].latch
    /\ tasks' = tasks \ {t}
    /\ waiter' = [waiter EXCEPT ![t] = "take"]
    /\ UNCHANGED <<descs, fiberVars, keeping, running, servantVars, grantVars,
                   stopped>>

(* RebuildOutput: the HTTP status that an output becomes.                     *)
RebuildOutput(output) == IF output.code = "malformed" THEN "500" ELSE "200"

(* std::move(desc->task): a second handler would be left with nothing.        *)
WaiterTakes(t) ==
    /\ waiter[t] = "take"
    /\ descs' = [descs EXCEPT ![t].task = FALSE]
    /\ waiter' = [waiter EXCEPT ![t] = RebuildOutput(descs[t].output)]
    /\ UNCHANGED <<tasks, fiberVars, keeping, running, servantVars, grantVars,
                   stopped>>

-----------------------------------------------------------------------------
(* PerformOneTask.                                                            *)

MayReadCache(t) == descs[t].digest \notin Uncached

(* A hit whose files can be parsed completes the task.                        *)
CacheHit(t, code) ==
    /\ fiber[t] = "cache"
    /\ MayReadCache(t)
    /\ descs' = [descs EXCEPT ![t].output =
                    [code |-> code, of |-> descs[t].digest]]
    /\ Goto(t, "complete")
    /\ UNCHANGED <<tasks, retries, waiter, keeping, running, servantVars,
                   grantVars, stopped>>

CacheMiss(t) ==
    /\ fiber[t] = "cache"
    /\ descs' = [descs EXCEPT ![t].output = Failure("rpc")]
    /\ Goto(t, "find")
    /\ UNCHANGED <<tasks, retries, waiter, keeping, running, servantVars,
                   grantVars, stopped>>

(* Mutant: whatever runs will do.                                             *)
FindAnyTask(d) == {running[e] : e \in Digests} \ {NoTask}

TryFindTask(d) == {running[d]} \ {NoTask}

NotRunning(t) ==
    /\ fiber[t] = "find"
    /\ TryFindTask(descs[t].digest) = {}
    /\ Goto(t, "grant")
    /\ UNCHANGED <<tableVars, retries, waiter, keeping, running, servantVars,
                   grantVars, stopped>>

(* The servant still has the task: we join it.  There is no grant for it;     *)
(* task_grant_id becomes 0.                                                   *)
JoinTask(t, s) ==
    /\ fiber[t] = "find"
    /\ s \in TryFindTask(descs[t].digest)
    /\ s \in DOMAIN servant
    /\ descs' = [descs EXCEPT
          ![t].state = "Dispatched", ![t].grant_id = 0,
          ![t].servant_task_id = s, ![t].keep = 0]
    /\ Goto(t, "joined")
    /\ UNCHANGED <<tasks, retries, waiter, keeping, running, servantVars,
                   grantVars, stopped>>

(* It has not, or the call fails, before or after the servant counted us.     *)
JoinFails(t, s) ==
    /\ fiber[t] = "find"
    /\ s \in TryFindTask(descs[t].digest)
    /\ Goto(t, "grant")
    /\ UNCHANGED <<tableVars, retries, waiter, keeping, running, servantVars,
                   grantVars, stopped>>

-----------------------------------------------------------------------------
(* StartNewServantTask.                                                       *)

(* The loop around TaskGrantKeeper::Get sees `aborted'.                       *)
AbortedBeforeGrant(t) ==
    /\ fiber[t] = "grant"
    /\ descs[t].aborted
    /\ Goto(t, "complete")
    /\ UNCHANGED <<tableVars, retries, waiter, keeping, running, servantVars,
                   grantVars, stopped>>

(* Get yields a grant, possibly after `aborted' was set.  The scheduler       *)
(* numbers grants from zero.                                                  *)
GrantArrives(t) ==
    /\ fiber[t] = "grant"
    /\ granted' = granted + 1
    /\ grants' = [g \in DOMAIN grants \union {granted} |->
                     IF g = granted THEN 0 ELSE grants[g]]
    /\ descs' = [descs EXCEPT ![t].state = "ReadyToFire",
                              ![t].grant_id = granted, ![t].keep = 0]
    /\ Goto(t, "submit")
    /\ UNCHANGED <<tasks, retries, waiter, keeping, running, servantVars,
                   freeing, stopped>>

(* External: the servant accepts a task under its next id.                    *)
Accept(d) ==
    /\ started < MaxServantTasks
    /\ started' = started + 1
    /\ servant' = [s \in DOMAIN servant \union {started + 1} |->
          IF s = started + 1 THEN [digest |-> d, code |-> "running"]
          ELSE servant[s]]

SubmitSucceeds(t) ==
    /\ fiber[t] = "submit"
    /\ Accept(descs[t].digest)
    /\ descs' = [descs EXCEPT ![t].state = "Dispatched",
                              ![t].servant_task_id = started + 1]
    /\ Goto(t, "started")
    /\ UNCHANGED <<tasks, retries, waiter, keeping, running, restarts,
                   grantVars, stopped>>

(* It is overloaded, or the call fails, before or after it had its effect.    *)
SubmitFails(t) ==
    /\ fiber[t] = "submit"
    /\ Goto(t, "free_grant")
    /\ UNCHANGED <<servant, started>> \/ Accept(descs[t].digest)
    /\ UNCHANGED <<tableVars, retries, waiter, keeping, running, restarts,
                   grantVars, stopped>>

-----------------------------------------------------------------------------
(* WaitServantForTaskWithRetry, in "started" or "joined".                     *)

Polling(t) == fiber[t] \in {"started", "joined"}

AfterLoop(t) == IF fiber[t] = "started" THEN "free_servant" ELSE "free_joined"

(* Mutant: the loop does not look at the flag.                                *)
NeverAborts(t) == FALSE

Aborts(t) == descs[t].aborted

(* The loop's condition: out of retries, or aborted.                          *)
GivesUp(t) ==
    /\ Polling(t)
    /\ retries[t] = 0 \/ Aborts(t)
    /\ Goto(t, AfterLoop(t))
    /\ UNCHANGED <<tableVars, retries, waiter, keeping, running, servantVars,
                   grantVars, stopped>>

(* The servant's handler: the task may be unknown to it, running or done.     *)
WaitForCompilationOutput(s) ==
    IF s \notin DOMAIN servant THEN [status |-> "not found"]
    ELSE IF servant[s].code = "running" THEN [status |-> "running"]
    ELSE [status |-> "done", of |-> servant[s].digest]

StillRunning(t) ==
    WaitForCompilationOutput(descs[t].servant_task_id).status = "running"

(* WaitServantForTask: what becomes of an answer other than `running'.  Any   *)
(* other status than done is a failure, and so are files that do not parse.   *)
WaitServantForTask(t) ==
    LET answer == WaitForCompilationOutput(descs[t].servant_task_id)
    IN  IF answer.status # "done" THEN {Failure("wait")}
        ELSE {[code |-> "exited", of |-> answer.of], Failure("wait")}

ServantRunning(t) ==
    /\ Polling(t)
    /\ retries[t] > 0
    /\ StillRunning(t)
    /\ retries' = [retries EXCEPT ![t] = Retries]
    /\ UNCHANGED <<tableVars, fiber, waiter, keeping, running, servantVars,
                   grantVars, stopped>>

PollFails(t) ==
    /\ Polling(t)
    /\ retries[t] > 0
    /\ retries' = [retries EXCEPT ![t] = @ - 1]
    /\ UNCHANGED <<tableVars, fiber, waiter, keeping, running, servantVars,
                   grantVars, stopped>>

ServantAnswers(t) ==
    /\ Polling(t)
    /\ retries[t] > 0
    /\ ~StillRunning(t)
    /\ \E output \in WaitServantForTask(t) :
          descs' = [descs EXCEPT ![t].output = output]
    /\ Goto(t, AfterLoop(t))
    /\ UNCHANGED <<tasks, retries, waiter, keeping, running, servantVars,
                   grantVars, stopped>>

-----------------------------------------------------------------------------
(* What is given back, in the order the ScopedDeferreds run.                  *)

(* External: FreeTask on the servant, which forgets the task if the reference *)
(* was the last one and the call gets there.                                  *)
FreeCall(s) ==
    \/ servant' = [i \in DOMAIN servant \ {s} |-> servant[i]]
    \/ UNCHANGED servant

FreeServantTask(t) ==
    /\ fiber[t] = "free_servant"
    /\ FreeCall(descs[t].servant_task_id)
    /\ Goto(t, "free_grant")
    /\ UNCHANGED <<tableVars, retries, waiter, keeping, running, started,
                   restarts, grantVars, stopped>>

(* TryGetExistingTaskResult passes our own id, not the servant's.             *)
FreeJoinedTask(t) ==
    /\ fiber[t] = "free_joined"
    /\ FreeCall(t)
    /\ Goto(t, "complete")
    /\ UNCHANGED <<tableVars, retries, waiter, keeping, running, started,
                   restarts, grantVars, stopped>>

(* Mutant: only a task that was dispatched gives its grant back.              *)
FreeDispatched(t) ==
    IF descs[t].state = "Dispatched" THEN freeing \union {descs[t].grant_id}
    ELSE freeing

Free(t) == freeing \union {descs[t].grant_id}

(* TaskGrantKeeper::Free: the call is made, nobody waits for it.              *)
FreeGrant(t) ==
    /\ fiber[t] = "free_grant"
    /\ freeing' = Free(t)
    /\ Goto(t, "complete")
    /\ UNCHANGED <<tableVars, retries, waiter, keeping, running, servantVars,
                   grants, granted, stopped>>

Completed(t) == [descs EXCEPT ![t].state = "Done", ![t].latch = TRUE]

(* OnCompletion, and the latch.                                               *)
Complete(t) ==
    /\ fiber[t] = "complete"
    /\ descs' = Completed(t)
    /\ Goto(t, "ended")
    /\ UNCHANGED <<tasks, retries, waiter, keeping, running, servantVars,
                   grantVars, stopped>>

-----------------------------------------------------------------------------
(* The timers.                                                                *)

Abort(ts) == [t \in Ids |-> [descs[t] EXCEPT !.aborted = @ \/ t \in ts]]

(* Those past their start_deadline, whatever their state.                     *)
OnAbortTimer(late) ==
    /\ ~stopped
    /\ descs' = Abort(late)
    /\ UNCHANGED <<tasks, fiberVars, waiter, keeping, running, servantVars,
                   grantVars, stopped>>

(* Those whose client is gone.                                                *)
OnKillOrphanTimer(orphans) ==
    /\ ~stopped
    /\ descs' = Abort(orphans)
    /\ UNCHANGED <<tasks, fiberVars, waiter, keeping, running, servantVars,
                   grantVars, stopped>>

(* Mutant: an aborted task is dropped while its fiber is on its way.          *)
DropAborted(t, old) ==
    descs[t].aborted \/ (descs[t].state = "Done" /\ t \in old)

DropTask(t, old) == descs[t].state = "Done" /\ (descs[t].aborted \/ t \in old)

(* `old': completed for more than a minute.                                   *)
OnCleanupTimer(old) ==
    /\ ~stopped
    /\ tasks' = {t \in tasks : ~DropTask(t, old)}
    /\ UNCHANGED <<descs, fiberVars, waiter, keeping, running, servantVars,
                   grantVars, stopped>>

Live(t) == descs[t].state \in {"ReadyToFire", "Dispatched"}

ToKeepAlive == {t \in tasks : Live(t) /\ ~descs[t].aborted}

(* Some have waited for more than a minute since their last keep-alive.       *)
MayBeLate(t) == descs[t].keep = 1

(* `now' is read before the call; `since' is what has passed since then.      *)
OnKeepAliveTimer(late) ==
    /\ ~stopped
    /\ keeping = {}
    /\ \A t \in late : t \in ToKeepAlive /\ MayBeLate(t)
    /\ descs' = Abort(late)
    /\ keeping' = {[task |-> t, grant |-> descs[t].grant_id, since |-> 0,
                    status |-> "sent"] : t \in ToKeepAlive \ late}
    /\ UNCHANGED <<tasks, fiberVars, waiter, running, servantVars, grantVars,
                   stopped>>

(* External: the scheduler renews the grants it knows.                        *)
SchedulerRenews ==
    /\ \E k \in keeping : k.status = "sent"
    /\ grants' = [g \in DOMAIN grants |->
                     IF \E k \in keeping : k.grant = g THEN 0 ELSE grants[g]]
    /\ keeping' = {[k EXCEPT !.status = IF k.grant \in DOMAIN grants
                                          THEN "renewed" ELSE "unknown"] :
                      k \in keeping}
    /\ UNCHANGED <<tableVars, fiberVars, waiter, running, servantVars,
                   granted, freeing, stopped>>

LastKeepAlive(k) == k.since

KeepAliveAnswered ==
    LET renewed == {k \in keeping : k.status = "renewed" /\ k.task \in tasks}
    IN  /\ \E k \in keeping : k.status # "sent"
        /\ keeping' = {}
        /\ descs' = [t \in Ids |->
              IF \E k \in renewed : k.task = t
                THEN [descs[t] EXCEPT !.keep =
                        LastKeepAlive(CHOOSE k \in renewed : k.task = t)]
                ELSE descs[t]]
        /\ UNCHANGED <<tasks, fiberVars, waiter, running, servantVars,
                       grantVars, stopped>>

KeepAliveFails ==
    /\ keeping # {}
    /\ keeping' = {}
    /\ UNCHANGED <<tableVars, fiberVars, waiter, running, servantVars,
                   grantVars, stopped>>

(* The fibers and the handlers go on.                                         *)
Stop ==
    /\ ~stopped
    /\ stopped' = TRUE
    /\ UNCHANGED <<tableVars, fiberVars, waiter, keeping, running,
                   servantVars, grantVars>>

-----------------------------------------------------------------------------
(* RunningTaskKeeper.                                                         *)

(* What the servant reports to the scheduler, by digest.                      *)
Reported(d) == {s \in DOMAIN servant : /\ servant[s].digest = d
                                       /\ servant[s].code = "running"}

Refresh ==
    /\ ~stopped
    /\ running' \in [Digests -> DOMAIN servant \union {NoTask}]
    /\ \A d \in Digests : IF Reported(d) = {} THEN running'[d] = NoTask
                           ELSE running'[d] \in Reported(d)
    /\ UNCHANGED <<tableVars, fiberVars, waiter, keeping, servantVars,
                   grantVars, stopped>>

(* The scheduler cannot be reached, for more than five seconds.               *)
RefreshFails ==
    /\ ~stopped
    /\ running' = [d \in Digests |-> NoTask]
    /\ UNCHANGED <<tableVars, fiberVars, waiter, keeping, servantVars,
                   grantVars, stopped>>

-----------------------------------------------------------------------------
(* External: the servant, the scheduler and the clock.                        *)

OtherDelegateStarts(d) ==
    /\ Accept(d)
    /\ UNCHANGED <<tableVars, fiberVars, waiter, keeping, running, restarts,
                   grantVars, stopped>>

(* The compiler exits, with whatever status.                                  *)
ServantFinishes(s) ==
    /\ servant[s].code = "running"
    /\ servant' = [servant EXCEPT ![s].code = "exited"]
    /\ UNCHANGED <<tableVars, fiberVars, waiter, keeping, running, started,
                   restarts, grantVars, stopped>>

(* Its last client frees it, or it has been completed for a minute.           *)
ServantForgets(s) ==
    /\ servant' = [i \in DOMAIN servant \ {s} |-> servant[i]]
    /\ UNCHANGED <<tableVars, fiberVars, waiter, keeping, running, started,
                   restarts, grantVars, stopped>>

(* Its ids start anew.                                                        *)
ServantRestarts ==
    /\ restarts < MaxRestarts
    /\ restarts' = restarts + 1
    /\ servant' = [s \in {} |-> 0]
    /\ started' = 0
    /\ UNCHANGED <<tableVars, fiberVars, waiter, keeping, running, grantVars,
                   stopped>>

(* Ages: 0, and 1 for the ten seconds of a lease or more.  An RPC ends sooner *)
(* than that.                                                                 *)
Tick ==
    /\ \A k \in keeping : k.since = 0
    /\ descs' = [t \in Ids |->
          IF Live(t) THEN [descs[t] EXCEPT !.keep = 1] ELSE descs[t]]
    /\ grants' = [g \in DOMAIN grants |-> 1]
    /\ keeping' = {[k EXCEPT !.since = 1] : k \in keeping}
    /\ UNCHANGED <<tasks, fiberVars, waiter, running, servantVars, granted,
                   freeing, stopped>>

GrantExpires(g) ==
    /\ grants[g] = 1
    /\ grants' = [i \in DOMAIN grants \ {g} |-> grants[i]]
    /\ UNCHANGED <<tableVars, fiberVars, waiter, keeping, running,
                   servantVars, granted, freeing, stopped>>

(* The FreeTask of a grant gets to the scheduler.  It may fail or get lost,   *)
(* which nobody notices: then this does not happen.                           *)
FreeArrives(g) ==
    /\ g \in freeing
    /\ freeing' = freeing \ {g}
    /\ grants' = [i \in DOMAIN grants \ {g} |-> grants[i]]
    /\ UNCHANGED <<tableVars, fiberVars, waiter, keeping, running,
                   servantVars, granted, stopped>>

-----------------------------------------------------------------------------
Init ==
    /\ tasks = {}
    /\ descs = [t \in {} |-> 0]
    /\ fiber = [t \in {} |-> 0]
    /\ retries = [t \in {} |-> 0]
    /\ waiter = [t \in {} |-> 0]
    /\ keeping = {}
    /\ running = [d \in Digests |-> NoTask]
    /\ servant = [s \in {} |-> 0]
    /\ started = 0
    /\ grants = [g \in {} |-> 0]
    /\ granted = 0
    /\ freeing = {}
    /\ restarts = 0
    /\ stopped = FALSE

FindRunning(t) ==
    \/ NotRunning(t)
    \/ \E s \in 1 .. MaxServantTasks : JoinTask(t, s) \/ JoinFails(t, s)

ReadCache(t) ==
    CacheMiss(t) \/ \E c \in {"exited", "malformed"} : CacheHit(t, c)

Submit(t) == SubmitSucceeds(t) \/ SubmitFails(t)

Poll(t) == ServantRunning(t) \/ PollFails(t) \/ ServantAnswers(t) \/ GivesUp(t)

GiveBack(t) == FreeServantTask(t) \/ FreeJoinedTask(t) \/ FreeGrant(t)

PerformOneTask(t) ==
    \/ ReadCache(t) \/ FindRunning(t)
    \/ AbortedBeforeGrant(t) \/ GrantArrives(t) \/ Submit(t)
    \/ Poll(t) \/ GiveBack(t) \/ Complete(t)

WaitForTask(t) ==
    \/ WaitForDistributedTask(t) \/ WaitTimesOut(t)
    \/ WaiterErases(t) \/ WaiterTakes(t)

Next ==
    \/ \E d \in Digests : SubmitCxxTask(d)
    \/ \E t \in Ids : PerformOneTask(t) \/ WaitForTask(t)
    \/ \E ts \in SUBSET tasks : \/ OnAbortTimer(ts) \/ OnKillOrphanTimer(ts)
                               \/ OnCleanupTimer(ts) \/ OnKeepAliveTimer(ts)
    \/ SchedulerRenews \/ KeepAliveAnswered
    \/ KeepAliveFails \/ Stop \/ Refresh \/ RefreshFails
    \/ \E d \in Digests : OtherDelegateStarts(d)
    \/ \E s \in DOMAIN servant : ServantForgets(s) \/ ServantFinishes(s)
    \/ ServantRestarts \/ Tick
    \/ \E g \in DOMAIN grants : GrantExpires(g)
    \/ \E g \in freeing : FreeArrives(g)

Spec == Init /\ [][Next]_vars

TaskIds == 1 .. MaxTasks

GrantIds == 0 .. (MaxTasks - 1)

(* What a fiber does without a grant coming or the servant answering.  It     *)
(* never goes back, and at each place one of these takes it on.               *)
GoesOn(t) ==
    \/ ReadCache(t) \/ FindRunning(t) \/ AbortedBeforeGrant(t) \/ Submit(t)
    \/ GivesUp(t) \/ GiveBack(t) \/ Complete(t)

(* A fiber never stops for good, timers fire, time passes, an RPC ends and    *)
(* the scheduler ends leases that are over.  Nothing is asked of the servant, *)
(* of the client, or of a FreeTask, which may never get anywhere.             *)
FairSpec ==
    /\ Spec
    /\ \A t \in TaskIds :
          /\ WF_vars(t \in Ids /\ GoesOn(t))
          /\ WF_vars(t \in tasks /\ OnAbortTimer({t}))
          /\ WF_vars(t \in tasks /\ OnCleanupTimer({t}))
    /\ WF_vars(Tick)
    /\ WF_vars(KeepAliveAnswered \/ KeepAliveFails)
    /\ \A g \in GrantIds : WF_vars(g \in DOMAIN grants /\ GrantExpires(g))

-----------------------------------------------------------------------------
Codes == {"unset", "rpc", "wait", "exited", "malformed"}

TypeOK ==
    /\ tasks \subseteq Ids /\ Ids \subseteq TaskIds
    /\ DOMAIN fiber = Ids /\ DOMAIN retries = Ids
    /\ \A t \in Ids :
          /\ descs[t].output.code \in Codes
          /\ descs[t].output.of \in Digests \union {None}
          /\ descs[t].keep \in 0 .. 1
          /\ retries[t] \in 0 .. Retries
          /\ waiter[t] \in {"none", "latch", "take", "200", "404", "500"}
    /\ \A g \in DOMAIN grants : g < granted /\ grants[g] \in 0 .. 1
    /\ \A g \in freeing : g < granted

(* A client is handed the output of the source it submitted, whoever started  *)
(* the compilation and however stale the list of running tasks was, unless    *)
(* the servant restarted (its ids then name other tasks).                     *)
OwnResult ==
    restarts = 0 =>
      \A t \in Ids : descs[t].output.of \in {descs[t].digest, None}

(* A client that does not want the cache gets what a servant compiled.        *)
CacheRespected ==
    \A t \in Ids : descs[t].digest \in Uncached /\ descs[t].output.of # None =>
                      descs[t].servant_task_id # NoTask

(* What a client is handed is its own, and from where it wanted it.           *)
ResultSound == OwnResult /\ CacheRespected

Holds(t, g) == /\ fiber[t] \in {"submit", "started", "free_servant",
                                 "free_grant"}
               /\ descs[t].grant_id = g

(* Every path out of StartNewServantTask calls FreeTask for the grant, and no *)
(* path does so while it still uses it: a grant that is still out belongs to  *)
(* a fiber that is on its way, or to a call that is or was.                   *)
GrantsReturned ==
    /\ \A g \in DOMAIN grants : g \in freeing \/ \E t \in Ids : Holds(t, g)
    /\ \A g \in freeing, t \in Ids : ~Holds(t, g)

(* What the daemon believes of a lease never exceeds what the scheduler      *)
(* leaves of it, however long the keep-alive call takes.                      *)
ConservativeKeepAlive ==
    \A t \in Ids, g \in DOMAIN grants :
      Holds(t, g) => grants[g] <= descs[t].keep

(* A task is in the table until its fiber is through: nothing is dropped that *)
(* a handler could still be asked for, or the timers still have to watch.     *)
InTableUntilDone == \A t \in Ids : descs[t].state = "Done" \/ t \in tasks

(* The table, the fibers and the leases agree.                                *)
TableConsistent == TypeOK /\ InTableUntilDone /\ ConservativeKeepAlive

(* Whatever the scheduler and the servant do, a task ends (the deadline sees  *)
(* to it, until Stop kills the timer) and then leaves the table, even if      *)
(* nobody ever asks for the result.                                           *)
TaskCompletes ==
    \A t \in TaskIds :
      (t \in tasks) ~> (stopped \/ (t \in Ids \ tasks /\ descs[t].latch))

(* TaskGrantKeeper::Free, "the result is discard. Failure doesn't harm": no   *)
(* grant stays out for ever, although the call that gives it back may be      *)
(* lost, because nobody renews it once its task is done; nor after Stop.      *)
GrantsEnd == \A g \in GrantIds : (g \in DOMAIN grants) ~> (g \notin DOMAIN grants)

(* A submitted task ends, and then leaves the table and the scheduler.        *)
TaskEnds == TaskCompletes /\ GrantsEnd
=============================================================================
