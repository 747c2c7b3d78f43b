--------------------------- MODULE ExecutionEngine --------------------------
(* The part of a serving daemon that runs compilations:                       *)
(* src/yadcc/daemon/cloud/execution_engine.{h,cc}, called by the RPC handlers *)
(* of daemon_service_impl.cc, the child side of execute_command.cc, and what  *)
(* delegates ask of a servant (distributed_task_dispatcher.cc).               *)
(*                                                                            *)
(* Actors: fibers serving RPCs for clients (tasks of delegate daemons),       *)
(* fibers running OnProcessExitCallback, the waitpid thread, the thread that  *)
(* stops the daemon, and the child processes.  A critical section of          *)
(* `tasks_lock_' is one action, except TryQueueTask's, which shares atomics   *)
(* with threads that do not take the lock and is three; what the code does    *)
(* after unlocking is another action.                                         *)
(*                                                                            *)
(* A TaskDesc is named by its task id, which is never reused (an id wasted on *)
(* a rejected task is not represented).                                       *)
EXTENDS Integers, FiniteSets

CONSTANTS
    Clients,      \* tasks of delegates, each using one servant task at a time
    Grants,       \* task grant ids
    Pids,         \* process ids
    LocalIds,     \* ids that tasks have in their own delegate's table
    Limit,        \* task_concurrency_limit_
    MaxTaskId,    \* bound: tasks ever started
    MaxReferences \* bound: references counted on one task

ASSUME EngineAssumption ==
    /\ Limit \in Nat
    /\ MaxTaskId \in Nat /\ MaxReferences \in Nat
    /\ LocalIds \subseteq Nat \ {0}
    /\ IsFiniteSet(Pids) /\ IsFiniteSet(Clients)

NoTask == 0

VARIABLES
    next_task_id,   \* next_task_id_
    descs,          \* every TaskDesc ever made, by task id
    tasks,          \* tasks_: the ids in the table
    running_tasks,  \* running_tasks_
    starting,       \* whoever is inside TryQueueTask, holding tasks_lock_
    counted,        \* has it added itself to running_tasks_
    procs,          \* what the kernel knows of each pid
    owner,          \* history: the task each pid was last started for
    exits,          \* reaped processes whose callback fiber has yet to run
    completing,     \* callbacks between OnCompletion and the latch
    killing,        \* FreeTask calls that have yet to KillTask
    held,           \* the task each client started or referenced, not yet freed
    frees,          \* the id the client will call FreeTask with
    semaphore,      \* waitpid_semaphore_
    waiter,         \* where the waitpid thread is
    exiting,        \* exiting_
    stopper         \* where the thread calling Stop, then Join, is

tableVars == <<next_task_id, descs, tasks>>
startVars == <<running_tasks, starting, counted>>
procVars == <<procs, owner, exits>>
clientVars == <<held, frees>>
waiterVars == <<semaphore, waiter>>
stopVars == <<exiting, stopper>>

vars == <<next_task_id, descs, tasks, running_tasks, starting, counted, procs,
          owner, exits, completing, killing, held, frees, semaphore, waiter,
          exiting, stopper>>

Unlocked == starting = {}

Children == {p \in Pids : procs[p] # "free"}

-----------------------------------------------------------------------------
(* The child: it leaves the daemon's process group some time after fork().    *)

ChildSetsGroup(p) ==
    /\ procs[p] = "forked"
    /\ procs' = [procs EXCEPT ![p] = "running"]
    /\ UNCHANGED <<tableVars, startVars, owner, exits, completing, killing,
                   clientVars, waiterVars, stopVars>>

ChildExits(p) ==
    /\ procs[p] = "running"
    /\ procs' = [procs EXCEPT ![p] = "zombie"]
    /\ UNCHANGED <<tableVars, startVars, owner, exits, completing, killing,
                   clientVars, waiterVars, stopVars>>

(* KillTask on each of `ts': kill(-process_id, SIGKILL) reaches whatever      *)
(* leads the group by that number now, and nobody if the group does not exist *)
(* yet.                                                                       *)
KillTask(ts) ==
    procs' = [p \in Pids |->
        IF procs[p] = "running"
             /\ \E t \in ts : descs[t].is_running /\ descs[t].process_id = p
          THEN "zombie" ELSE procs[p]]

-----------------------------------------------------------------------------
(* TryQueueTask: exiting_ is read, then running_tasks_ is raised, then the    *)
(* task is rejected or started.  The lock is held throughout; Stop's store to *)
(* exiting_ and the waitpid thread do not take it.  (Calls that come once     *)
(* MaxTaskId tasks were started are left out.)                                *)

TryQueueTask(c) ==
    /\ Unlocked
    /\ next_task_id <= MaxTaskId
    /\ held[c] = NoTask
    /\ ~exiting
    /\ starting' = {c}
    /\ UNCHANGED <<tableVars, running_tasks, counted, procVars, completing,
                   killing, clientVars, waiterVars, stopVars>>

CountTask ==
    /\ ~Unlocked
    /\ ~counted
    /\ running_tasks' = running_tasks + 1
    /\ counted' = TRUE
    /\ UNCHANGED <<tableVars, starting, procVars, completing, killing,
                   clientVars, waiterVars, stopVars>>

(* Mutant: the count before the addition is compared.                         *)
HasSlotOffByOne == running_tasks - 1 <= Limit

HasSlot == running_tasks <= Limit

(* Too many tasks, or (at any time) too little memory.                        *)
RejectTask ==
    /\ counted
    /\ running_tasks' = running_tasks - 1
    /\ counted' = FALSE
    /\ starting' = {}
    /\ UNCHANGED <<tableVars, procVars, completing, killing, clientVars,
                   waiterVars, stopVars>>

(* What fork() can return: any pid that is not in use, those that tasks in    *)
(* the table have had included.  Not modelled: a pid coming back before the   *)
(* exit callback of its last use has run.                                     *)
FreshPid(p) == procs[p] = "free" /\ p \notin exits

(* Mutant: the waitpid thread is not told.                                    *)
NoRelease == semaphore

Release == semaphore + 1

(* Two fields are history, which no guard reads.  `shared': the task is       *)
(* running and when it started, a task in the table had the same pid.         *)
(* `misfreed': one who did not hold the task has called FreeTask with its id. *)
NewTaskDesc(g, p) ==
    [grant_id |-> g, client_ref_count |-> 1, is_running |-> TRUE,
     process_id |-> p, latch |-> FALSE, misfreed |-> FALSE,
     shared |-> \E t \in tasks : descs[t].process_id = p]

StartTask(c, g, p) ==
    /\ starting = {c}
    /\ counted
    /\ HasSlot
    /\ next_task_id <= MaxTaskId
    /\ FreshPid(p)
    /\ next_task_id' = next_task_id + 1
    /\ descs' = [t \in DOMAIN descs \union {next_task_id} |->
          IF t = next_task_id THEN NewTaskDesc(g, p) ELSE descs[t]]
    /\ tasks' = tasks \union {next_task_id}
    /\ procs' = [procs EXCEPT ![p] = "forked"]
    /\ owner' = [owner EXCEPT ![p] = next_task_id]
    /\ semaphore' = Release
    /\ counted' = FALSE
    /\ starting' = {}
    /\ held' = [held EXCEPT ![c] = next_task_id]
    /\ frees' = [frees EXCEPT ![c] = next_task_id]
    /\ UNCHANGED <<running_tasks, exits, completing, killing, waiter, stopVars>>

-----------------------------------------------------------------------------
(* The other RPC handlers.                                                    *)

(* A delegate that joins a task someone else started will free it by the id   *)
(* its own table knows the task by (TryGetExistingTaskResult).                *)
TryReferenceTask(c, t, local) ==
    /\ Unlocked
    /\ held[c] = NoTask
    /\ t \in tasks
    /\ descs[t].client_ref_count < MaxReferences
    /\ descs' = [descs EXCEPT ![t].client_ref_count = @ + 1]
    /\ held' = [held EXCEPT ![c] = t]
    /\ frees' = [frees EXCEPT ![c] = local]
    /\ UNCHANGED <<next_task_id, tasks, startVars, procVars, completing,
                   killing, waiterVars, stopVars>>

(* What a call that waits no longer is told; it changes nothing.              *)
WaitForTask(t) ==
    IF t \notin tasks THEN "NotFound"
    ELSE IF descs[t].latch THEN "Done" ELSE "Running"

(* Mutant: references are not counted.                                        *)
AnyReference(t) == TRUE

LastReference(t) == descs[t].client_ref_count = 1

FreeTask(c) ==
    LET t == frees[c]
    IN  /\ Unlocked
        /\ held[c] # NoTask
        /\ held' = [held EXCEPT ![c] = NoTask]
        /\ frees' = [frees EXCEPT ![c] = NoTask]
        /\ \/ /\ t \notin tasks
              /\ UNCHANGED <<descs, tasks, killing>>
           \/ /\ t \in tasks
              /\ descs' = [descs EXCEPT ![t].client_ref_count = @ - 1,
                                       ![t].misfreed = @ \/ held[c] # t]
              /\ IF LastReference(t)
                   THEN /\ tasks' = tasks \ {t}
                        /\ killing' = killing \union {t}
                   ELSE UNCHANGED <<tasks, killing>>
        /\ UNCHANGED <<next_task_id, startVars, procVars, completing,
                       waiterVars, stopVars>>

FreeTaskKills(t) ==
    /\ t \in killing
    /\ killing' = killing \ {t}
    /\ KillTask({t})
    /\ UNCHANGED <<tableVars, startVars, owner, exits, completing, clientVars,
                   waiterVars, stopVars>>

(* The answer to a heartbeat names grants the scheduler no longer knows.      *)
KillExpiredTasks(expired) ==
    /\ Unlocked
    /\ KillTask({t \in tasks : descs[t].grant_id \in expired})
    /\ UNCHANGED <<tableVars, startVars, owner, exits, completing, killing,
                   clientVars, waiterVars, stopVars>>

(* Forgets any completed tasks that have been there for a minute.             *)
OnCleanupTimer(old) ==
    /\ Unlocked
    /\ stopper = "none"
    /\ \A t \in old : ~descs[t].is_running
    /\ tasks' = tasks \ old
    /\ UNCHANGED <<next_task_id, descs, startVars, procVars, completing,
                   killing, clientVars, waiterVars, stopVars>>

-----------------------------------------------------------------------------
(* The waitpid thread and the callbacks it starts.                            *)

MoreWorkToDo == ~exiting \/ running_tasks # 0

WaiterChecks ==
    /\ waiter \in {"loop", "awake"}
    /\ waiter' = IF ~MoreWorkToDo THEN "done"
                 ELSE IF waiter = "loop" THEN "acquire" ELSE "wait"
    /\ UNCHANGED <<tableVars, startVars, procVars, completing, killing,
                   clientVars, semaphore, stopVars>>

WaiterAcquires ==
    /\ waiter = "acquire"
    /\ semaphore > 0
    /\ semaphore' = semaphore - 1
    /\ waiter' = "awake"
    /\ UNCHANGED <<tableVars, startVars, procVars, completing, killing,
                   clientVars, stopVars>>

(* wait() returns a zombie child.                                             *)
WaiterReaps(p) ==
    /\ waiter = "wait"
    /\ procs[p] = "zombie"
    /\ procs' = [procs EXCEPT ![p] = "free"]
    /\ exits' = exits \union {p}
    /\ waiter' = "loop"
    /\ UNCHANGED <<tableVars, startVars, owner, completing, killing,
                   clientVars, semaphore, stopVars>>

(* FLARE_PCHECK(pid != -1), unless we are exiting.                            *)
CheckUnlessExiting == IF exiting THEN "done" ELSE "abort"

(* wait() fails: there is no child.                                           *)
WaiterFails ==
    /\ waiter = "wait"
    /\ Children = {}
    /\ waiter' = CheckUnlessExiting
    /\ UNCHANGED <<tableVars, startVars, procVars, completing, killing,
                   clientVars, semaphore, stopVars>>

CountExit(found) == running_tasks - 1

(* Mutant: the task is left as it is.                                         *)
MarkNothing(t) == descs

MarkFinished(t) ==
    [descs EXCEPT ![t].is_running = FALSE, ![t].shared = FALSE]

(* The table is searched by pid; the count goes down either way.              *)
OnProcessExitCallback(p) ==
    LET found == {t \in tasks : descs[t].process_id = p}
    IN  /\ Unlocked
        /\ p \in exits
        /\ exits' = exits \ {p}
        /\ running_tasks' = CountExit(found)
        /\ \/ /\ found = {}
              /\ UNCHANGED <<descs, completing>>
           \/ \E t \in found :
                 /\ descs' = MarkFinished(t)
                 /\ completing' = completing \union {t}
        /\ UNCHANGED <<next_task_id, tasks, starting, counted, procs, owner,
                       killing, clientVars, waiterVars, stopVars>>

(* Mutant: the latch is signaled only if several clients wait.                *)
SignalJoined(t) ==
    [descs EXCEPT ![t].latch = descs[t].client_ref_count > 1]

Signal(t) == [descs EXCEPT ![t].latch = TRUE]

(* After OnCompletion, outside the lock.                                      *)
CountDownLatch(t) ==
    /\ t \in completing
    /\ completing' = completing \ {t}
    /\ descs' = Signal(t)
    /\ UNCHANGED <<next_task_id, tasks, startVars, procVars, killing,
                   clientVars, waiterVars, stopVars>>

-----------------------------------------------------------------------------
(* Stop, then Join.  RPCs already being served go on.                         *)

StopBegins ==
    /\ stopper = "none"
    /\ exiting' = TRUE
    /\ stopper' = "exiting"
    /\ UNCHANGED <<tableVars, startVars, procVars, completing, killing,
                   clientVars, waiterVars>>

StopKillsAll ==
    /\ Unlocked
    /\ stopper = "exiting"
    /\ KillTask(tasks)
    /\ stopper' = "killed"
    /\ UNCHANGED <<tableVars, startVars, owner, exits, completing, killing,
                   clientVars, waiterVars, exiting>>

StopReleases ==
    /\ stopper = "killed"
    /\ semaphore' = Release
    /\ stopper' = "joining"
    /\ UNCHANGED <<tableVars, startVars, procVars, completing, killing,
                   clientVars, waiter, exiting>>

Join ==
    /\ Unlocked
    /\ stopper = "joining"
    /\ waiter = "done"
    /\ \A t \in tasks : ~descs[t].is_running
    /\ stopper' = "joined"
    /\ UNCHANGED <<tableVars, startVars, procVars, completing, killing,
                   clientVars, waiterVars, exiting>>

-----------------------------------------------------------------------------
Init ==
    /\ next_task_id = 1
    /\ descs = [t \in {} |-> 0]
    /\ tasks = {}
    /\ running_tasks = 0
    /\ starting = {} /\ counted = FALSE
    /\ procs = [p \in Pids |-> "free"]
    /\ owner = [p \in Pids |-> NoTask]
    /\ exits = {} /\ completing = {} /\ killing = {}
    /\ held = [c \in Clients |-> NoTask]
    /\ frees = [c \in Clients |-> NoTask]
    /\ semaphore = 0
    /\ waiter = "loop"
    /\ exiting = FALSE
    /\ stopper = "none"

Next ==
    \/ \E p \in Pids : ChildSetsGroup(p) \/ ChildExits(p)
    \/ \E c \in Clients :
          \/ TryQueueTask(c)
          \/ \E g \in Grants, p \in Pids : StartTask(c, g, p)
          \/ \E t \in tasks, local \in LocalIds : TryReferenceTask(c, t, local)
          \/ FreeTask(c)
    \/ CountTask \/ RejectTask
    \/ \E t \in killing : FreeTaskKills(t)
    \/ \E expired \in SUBSET Grants : KillExpiredTasks(expired)
    \/ \E old \in SUBSET tasks : OnCleanupTimer(old)
    \/ WaiterChecks \/ WaiterAcquires \/ WaiterFails
    \/ \E p \in Pids : WaiterReaps(p) \/ OnProcessExitCallback(p)
    \/ \E t \in completing : CountDownLatch(t)
    \/ StopBegins \/ StopKillsAll \/ StopReleases \/ Join

Spec == Init /\ [][Next]_vars

(* Threads and fibers keep running and compilers terminate; whoever waits for *)
(* tasks_lock_ gets it in the end (flare::fiber::Mutex queues its waiters),   *)
(* hence SF for what takes the lock.  Nothing is assumed of clients,          *)
(* heartbeats or the moment the daemon is stopped.                            *)
Fairness ==
    /\ \A p \in Pids : /\ WF_vars(ChildSetsGroup(p) \/ ChildExits(p))
                       /\ SF_vars(OnProcessExitCallback(p))
    /\ WF_vars(CountTask)
    /\ WF_vars(RejectTask
                 \/ \E c \in Clients, g \in Grants, p \in Pids :
                       StartTask(c, g, p))
    /\ WF_vars(WaiterChecks \/ WaiterAcquires \/ WaiterFails
                 \/ \E p \in Pids : WaiterReaps(p))
    /\ WF_vars(\E t \in completing : CountDownLatch(t))
    /\ SF_vars(StopKillsAll \/ StopReleases \/ Join)

FairSpec == Spec /\ Fairness

-----------------------------------------------------------------------------
TaskDescType ==
    [grant_id: Grants, client_ref_count: Nat, is_running: BOOLEAN,
     process_id: Pids, latch: BOOLEAN, misfreed: BOOLEAN, shared: BOOLEAN]

TableOK ==
    /\ next_task_id \in 1 .. (MaxTaskId + 1)
    /\ DOMAIN descs = 1 .. (next_task_id - 1)
    /\ \A t \in DOMAIN descs : descs[t] \in TaskDescType
    /\ tasks \subseteq DOMAIN descs
    /\ \A t \in tasks : descs[t].client_ref_count > 0

StartOK ==
    /\ running_tasks \in Nat
    /\ starting \in SUBSET Clients
    /\ counted \in BOOLEAN

ProcessesOK ==
    /\ procs \in [Pids -> {"free", "forked", "running", "zombie"}]
    /\ owner \in [Pids -> Nat]
    /\ exits \in SUBSET Pids

ThreadsOK ==
    /\ semaphore \in Nat
    /\ waiter \in {"loop", "acquire", "awake", "wait", "done", "abort"}
    /\ exiting \in BOOLEAN
    /\ stopper \in {"none", "exiting", "killed", "joining", "joined"}

(* Type invariant.  running_tasks_ and client_ref_count are unsigned in the   *)
(* code: that they stay naturals is part of it.                               *)
TypeOK ==
    /\ TableOK
    /\ StartOK
    /\ ProcessesOK
    /\ ThreadsOK
    /\ completing \subseteq DOMAIN descs
    /\ killing \subseteq DOMAIN descs
    /\ held \in [Clients -> Nat]
    /\ frees \in [Clients -> Nat]

(* The engine never has more compilers (dead but unreaped ones included) than *)
(* task_concurrency_limit_, however frees, kills and exits interleave: a slot *)
(* is given back by the exit callback only, never by FreeTask.                *)
LimitRespected == Cardinality(Children) <= Limit

One(b) == IF b THEN 1 ELSE 0

(* running_tasks_ counts the children not yet reaped, the exits not yet       *)
(* handled (tasks already freed included) and the task being started.         *)
RunningTasksExact ==
    running_tasks = Cardinality(Children) + Cardinality(exits) + One(counted)

(* The waitpid thread calls wait() at most as often as there are children     *)
(* (once more after Stop), so that FLARE_PCHECK(pid != -1) never fires.       *)
WaiterNeverAborts == waiter # "abort"

(* The semaphore counts the children no wait() is spoken for yet: no child is *)
(* left unreaped by a waitpid thread that sleeps.                             *)
SemaphoreBalanced ==
    waiter \notin {"done", "abort"} =>
        semaphore + One(waiter \in {"awake", "wait"}) =
            Cardinality(Children) + One(stopper \in {"joining", "joined"})

(* What the engine's threads rely on in each other: the slots, the counter,   *)
(* the semaphore and the children agree.                                      *)
EngineConsistent ==
    /\ TypeOK /\ LimitRespected /\ RunningTasksExact
    /\ WaiterNeverAborts /\ SemaphoreBalanced

(* The comment in FreeTask, "If more than one client wait for this task, we   *)
(* should only dereference the task": a task that a client has started or     *)
(* referenced and not freed has a reference for it, and stays in the table    *)
(* until it completes.  Joiners free by the ids of their own tables; a task   *)
(* which one of those has hit is what HeldTasksStay is about.                 *)
ReferencesHonoured ==
    \A t \in DOMAIN descs : ~descs[t].misfreed =>
        LET holders == {c \in Clients : held[c] = t}
        IN  /\ t \in tasks => descs[t].client_ref_count >= Cardinality(holders)
            /\ holders # {} => t \in tasks \/ ~descs[t].is_running

(* "No other client wait on the task, clean it" (FreeTask), for every task,   *)
(* whatever ids clients free by.                                              *)
HeldTasksStay ==
    \A c \in Clients : held[c] # NoTask =>
        held[c] \in tasks \/ ~descs[held[c]].is_running

(* The process of a task that is marked running is its own, alive or with an  *)
(* exit callback to come.                                                     *)
HasProcess(t) ==
    /\ owner[descs[t].process_id] = t
    /\ descs[t].process_id \in Children \union exits

(* The exit callback searches the table by pid and finds finished tasks too,  *)
(* while the kernel may hand their pids out again: a task in the table that   *)
(* is marked running has a process, or an exit callback that will find it,    *)
(* unless its pid was that of another task in the table when it started.      *)
RunningHasProcess ==
    \A t \in tasks : descs[t].is_running => descs[t].shared \/ HasProcess(t)

(* The comment on TaskDesc::is_running, "Set if the task is still running.    *)
(* Cleared by OnProcessExitCallback", for every task in the table.            *)
RunningCleared == \A t \in tasks : descs[t].is_running => HasProcess(t)

(* The comment on TaskDesc::completion_latch: "Always signaled by             *)
(* OnProcessExitCallback, even if the task is killed by KillTask".            *)
LatchAlwaysSignaled ==
    [][\A p \in exits \ exits' :
          owner[p] \in completing' \/ descs'[owner[p]].latch]_vars

(* The comment in ProcessWaiterProc: "if we're stopped when outstanding tasks *)
(* are running, waiting for all of them to exit won't take long".  The        *)
(* waitpid thread waits for all of them.                                      *)
WaiterReapsAll == waiter = "done" => Children = {}

(* Once stopped the engine comes to rest: the waitpid thread ends and Join    *)
(* returns, whatever was running, being freed or exiting at that moment; save *)
(* when the waitpid thread ended while TryQueueTask was past its check of     *)
(* exiting_ (see WaiterReapsAll), or a task whose pid is another's too is     *)
(* still marked running (see RunningCleared).                                 *)
StopTerminates ==
    (exiting /\ Unlocked /\ waiter # "done") ~>
        (stopper = "joined" \/ \E t \in tasks : descs[t].shared)

(* Who polls a task is told the result in the end, or that there is none: no  *)
(* task that clients hold stays "Running" for ever, save in the case          *)
(* WaiterReapsAll is about and if its pid is another's too.                   *)
PollEnds ==
    \A t \in 1 .. MaxTaskId :
        (\E c \in Clients : held[c] = t) ~>
            \/ \A c \in Clients : held[c] # t
            \/ WaitForTask(t) # "Running" \/ descs[t].shared \/ ~WaiterReapsAll
=============================================================================
