----------------------- MODULE ExecutionEngineProofs ------------------------
(* Invariance proofs for ExecutionEngine, for every number of clients, pids   *)
(* and tasks and every concurrency limit.                                     *)
EXTENDS ExecutionEngine, FiniteSetTheorems, TLAPS

(* Two facts the counters rest on: Stop announces itself before it does       *)
(* anything else, and a pid whose exit is still to be handled is nobody's.    *)
Sequencing ==
    /\ stopper # "none" => exiting
    /\ \A p \in exits : procs[p] = "free"

(* The inductive invariant.  WaiterNeverAborts follows only from the balance  *)
(* of the semaphore, LimitRespected only from the exact running_tasks_.       *)
EngineInv ==
    /\ TypeOK
    /\ Sequencing
    /\ RunningTasksExact
    /\ SemaphoreBalanced
    /\ WaiterNeverAborts
    /\ LimitRespected

-----------------------------------------------------------------------------
(* A set of pids is finite, and one more or one less counts as such.          *)
LEMMA PidSets ==
    ASSUME NEW S \in SUBSET Pids
    PROVE  /\ IsFiniteSet(S)
           /\ Cardinality(S) \in Nat
           /\ \A p : p \notin S => Cardinality(S \union {p}) = Cardinality(S) + 1
           /\ \A p \in S : Cardinality(S \ {p}) = Cardinality(S) - 1
           /\ S # {} => Cardinality(S) > 0
           /\ S = {} => Cardinality(S) = 0
<1>1. IsFiniteSet(S)
  BY EngineAssumption, FS_Subset
<1>2. Cardinality(S) \in Nat
  BY <1>1, FS_CardinalityType
<1>3. \A p : p \notin S => Cardinality(S \union {p}) = Cardinality(S) + 1
  BY <1>1, FS_AddElement
<1>4. \A p \in S : Cardinality(S \ {p}) = Cardinality(S) - 1
  BY <1>1, FS_RemoveElement
<1>5. Cardinality(S) = 0 <=> S = {}
  BY <1>1, FS_EmptySet
<1> QED
  BY <1>1, <1>2, <1>3, <1>4, <1>5

(* Killing makes zombies of children: it neither frees nor makes a process.   *)
LEMMA KillKeepsChildren ==
    ASSUME TypeOK, NEW ts, KillTask(ts)
    PROVE  /\ procs' \in [Pids -> {"free", "forked", "running", "zombie"}]
           /\ Children' = Children
           /\ \A p \in Pids : procs[p] = "free" => procs'[p] = "free"
  BY DEF TypeOK, ProcessesOK, KillTask, Children

LEMMA EngineInit == Init => EngineInv
<1> SUFFICES ASSUME Init PROVE EngineInv
  OBVIOUS
<1>1. TypeOK
  <2>1. DOMAIN descs = {} /\ 1 .. (next_task_id - 1) = {}
    BY DEF Init
  <2>2. TableOK
    BY <2>1, EngineAssumption DEF Init, TableOK
  <2>3. StartOK /\ ProcessesOK
    BY DEF Init, StartOK, ProcessesOK, NoTask
  <2>4. ThreadsOK
    BY DEF Init, ThreadsOK
  <2> QED
    BY <2>1, <2>2, <2>3, <2>4 DEF Init, TypeOK, NoTask
<1>2. Children = {} /\ Cardinality(Children) = 0 /\ Cardinality(exits) = 0
  BY FS_EmptySet DEF Init, Children
<1> QED
  BY <1>1, <1>2, EngineAssumption
  DEF Init, EngineInv, Sequencing, RunningTasksExact, SemaphoreBalanced,
      WaiterNeverAborts, LimitRespected, One

-----------------------------------------------------------------------------
(* What a step leaves alone keeps its type.                                   *)
LEMMA Untouched ==
    ASSUME TypeOK
    PROVE  /\ UNCHANGED tableVars => TableOK' /\ DOMAIN descs' = DOMAIN descs
           /\ UNCHANGED startVars => StartOK'
           /\ UNCHANGED procVars => ProcessesOK'
           /\ UNCHANGED <<waiterVars, stopVars>> => ThreadsOK'
<1>1. UNCHANGED tableVars => TableOK' /\ DOMAIN descs' = DOMAIN descs
  BY DEF TypeOK, TableOK, tableVars
<1>2. UNCHANGED startVars => StartOK'
  BY DEF TypeOK, StartOK, startVars
<1>3. UNCHANGED procVars => ProcessesOK'
  BY DEF TypeOK, ProcessesOK, procVars
<1>4. UNCHANGED <<waiterVars, stopVars>> => ThreadsOK'
  BY DEF TypeOK, ThreadsOK, waiterVars, stopVars
<1> QED
  BY <1>1, <1>2, <1>3, <1>4

(* Changing one descriptor for another leaves a table of descriptors.         *)
LEMMA DescTyped ==
    ASSUME TypeOK, NEW t \in DOMAIN descs, NEW d \in TaskDescType,
           descs' = [descs EXCEPT ![t] = d]
    PROVE  /\ DOMAIN descs' = DOMAIN descs
           /\ \A u \in DOMAIN descs : descs'[u] \in TaskDescType
           /\ descs'[t] = d
           /\ \A u \in DOMAIN descs \ {t} : descs'[u] = descs[u]
  BY DEF TypeOK, TableOK

(* The edits the engine makes to a descriptor.                                *)
LEMMA DescEdits ==
    ASSUME NEW d \in TaskDescType, NEW n \in Nat
    PROVE  /\ [d EXCEPT !.client_ref_count = n] \in TaskDescType
           /\ [d EXCEPT !.client_ref_count = n].client_ref_count = n
           /\ [d EXCEPT !.is_running = FALSE, !.shared = FALSE] \in TaskDescType
           /\ [d EXCEPT !.is_running = FALSE, !.shared = FALSE].client_ref_count
                = d.client_ref_count
           /\ [d EXCEPT !.latch = TRUE] \in TaskDescType
           /\ [d EXCEPT !.latch = TRUE].client_ref_count = d.client_ref_count
           /\ d.client_ref_count \in Nat
  BY DEF TaskDescType

(* The counters of the engine cannot be driven below zero.                    *)
LEMMA Countable ==
    ASSUME TypeOK, RunningTasksExact
    PROVE  /\ counted => running_tasks - 1 \in Nat
           /\ exits # {} => running_tasks - 1 \in Nat
<1>1. Children \in SUBSET Pids /\ exits \in SUBSET Pids
  BY DEF Children, TypeOK, ProcessesOK
<1>2. /\ Cardinality(Children) \in Nat /\ Cardinality(exits) \in Nat
      /\ exits # {} => Cardinality(exits) > 0
  BY <1>1, PidSets
<1> QED
  BY <1>2 DEF RunningTasksExact, One, TypeOK, StartOK

(* Every step keeps the types.                                                *)
LEMMA TypeStep ==
    ASSUME TypeOK, RunningTasksExact, [Next]_vars
    PROVE  TypeOK'
<1> USE Untouched
<1>1. ASSUME NEW p \in Pids, ChildSetsGroup(p) \/ ChildExits(p)
      PROVE  TypeOK'
  <2>1. ProcessesOK'
    BY <1>1 DEF TypeOK, ProcessesOK, ChildSetsGroup, ChildExits
  <2> QED
    BY <1>1, <2>1 DEF TypeOK, ChildSetsGroup, ChildExits, clientVars
<1>2. ASSUME NEW c \in Clients, TryQueueTask(c) PROVE TypeOK'
  <2>1. StartOK'
    BY <1>2 DEF TypeOK, StartOK, TryQueueTask
  <2> QED
    BY <1>2, <2>1 DEF TypeOK, TryQueueTask, clientVars
<1>3. ASSUME NEW c \in Clients, NEW g \in Grants, NEW p \in Pids,
             StartTask(c, g, p)
      PROVE  TypeOK'
  <2>1. NewTaskDesc(g, p) \in TaskDescType
        /\ NewTaskDesc(g, p).client_ref_count > 0
    BY DEF NewTaskDesc, TaskDescType
  <2>2. /\ next_task_id' \in 1 .. (MaxTaskId + 1)
        /\ DOMAIN descs' = 1 .. (next_task_id' - 1)
        /\ next_task_id \in Nat
    BY <1>3, EngineAssumption DEF StartTask, TypeOK, TableOK
  <2>3. \A t \in DOMAIN descs' : descs'[t] \in TaskDescType
    BY <1>3, <2>1 DEF StartTask, TypeOK, TableOK
  <2>4. /\ tasks' \subseteq DOMAIN descs'
        /\ \A t \in tasks' : descs'[t].client_ref_count > 0
    BY <1>3, <2>1 DEF StartTask, TypeOK, TableOK
  <2>5. DOMAIN descs \subseteq DOMAIN descs'
    BY <1>3 DEF StartTask
  <2>6. TableOK'
    BY <2>2, <2>3, <2>4 DEF TableOK
  <2>7. StartOK' /\ ProcessesOK'
    BY <1>3, <2>2 DEF StartTask, TypeOK, StartOK, ProcessesOK
  <2>8. ThreadsOK'
    BY <1>3 DEF StartTask, Release, TypeOK, ThreadsOK, stopVars
  <2> QED
    BY <1>3, <2>2, <2>5, <2>6, <2>7, <2>8 DEF StartTask, TypeOK
<1>4. ASSUME NEW c \in Clients, NEW t \in tasks, NEW local \in LocalIds,
             TryReferenceTask(c, t, local)
      PROVE  TypeOK'
  <2>1. t \in DOMAIN descs /\ descs[t] \in TaskDescType
    BY DEF TypeOK, TableOK
  <2>2. PICK d \in TaskDescType :
            /\ d = [descs[t] EXCEPT !.client_ref_count = @ + 1]
            /\ d.client_ref_count > 0
    <3>1. PICK m \in Nat : m = descs[t].client_ref_count
      BY <2>1, DescEdits
    <3>2. PICK n \in Nat : n = m + 1 /\ n > 0
      OBVIOUS
    <3>3. /\ [descs[t] EXCEPT !.client_ref_count = n] \in TaskDescType
          /\ [descs[t] EXCEPT !.client_ref_count = n].client_ref_count = n
      BY <2>1, DescEdits
    <3> QED
      BY <3>1, <3>2, <3>3, Zenon
  <2>3. descs' = [descs EXCEPT ![t] = d]
    BY <1>4, <2>2 DEF TryReferenceTask
  <2>4. DOMAIN descs' = DOMAIN descs /\ TableOK'
    BY <1>4, <2>1, <2>2, <2>3, DescTyped DEF TryReferenceTask, TypeOK, TableOK
  <2>5. held' \in [Clients -> Nat] /\ frees' \in [Clients -> Nat]
    <3>1. local \in Nat /\ t \in Nat
      BY EngineAssumption, <2>1 DEF TypeOK, TableOK
    <3> QED
      BY <1>4, <3>1 DEF TryReferenceTask, TypeOK
  <2> QED
    BY <1>4, <2>4, <2>5 DEF TryReferenceTask, TypeOK
<1>5. ASSUME NEW c \in Clients, FreeTask(c) PROVE TypeOK'
  <2>1. /\ held' \in [Clients -> Nat] /\ frees' \in [Clients -> Nat]
    BY <1>5 DEF FreeTask, TypeOK, NoTask
  <2>2. CASE frees[c] \notin tasks
    BY <1>5, <2>1, <2>2 DEF FreeTask, TypeOK, tableVars
  <2>3. CASE frees[c] \in tasks
    <3>1. PICK t \in tasks : t = frees[c]
      BY <2>3
    <3>2. /\ descs[t].client_ref_count > 0 /\ descs[t] \in TaskDescType
          /\ t \in DOMAIN descs
      BY DEF TypeOK, TableOK
    <3> DEFINE mis == descs[t].misfreed \/ held[c] # t
    <3>3. PICK d \in TaskDescType :
              /\ d = [descs[t] EXCEPT !.client_ref_count = @ - 1,
                                      !.misfreed = @ \/ held[c] # t]
              /\ descs[t].client_ref_count # 1 => d.client_ref_count > 0
      <4>1. PICK m \in Nat : m = descs[t].client_ref_count
        BY <3>2, DescEdits
      <4>2. m > 0
        BY <3>2, <4>1
      <4>3. PICK n \in Nat : n = m - 1 /\ (m # 1 => n > 0)
        BY <4>2
      <4>5. PICK b \in BOOLEAN : b = mis
        OBVIOUS
      <4> HIDE DEF mis
      <4>4. /\ [descs[t] EXCEPT !.client_ref_count = n, !.misfreed = b]
                 \in TaskDescType
            /\ [descs[t] EXCEPT !.client_ref_count = n,
                                !.misfreed = b].client_ref_count = n
        BY <3>2 DEF TaskDescType
      <4> QED
        BY <4>1, <4>3, <4>4, <4>5, Zenon DEF mis
    <3>4. descs' = [descs EXCEPT ![t] = d]
      BY <1>5, <3>1, <3>3 DEF FreeTask
    <3>5. /\ DOMAIN descs' = DOMAIN descs
          /\ \A u \in DOMAIN descs : descs'[u] \in TaskDescType
          /\ descs'[t] = d
          /\ \A u \in DOMAIN descs \ {t} : descs'[u] = descs[u]
      BY <3>2, <3>4, DescTyped
    <3>6. \/ descs[t].client_ref_count # 1 /\ UNCHANGED <<tasks, killing>>
          \/ tasks' = tasks \ {t} /\ killing' = killing \union {t}
      BY <1>5, <3>1 DEF FreeTask, LastReference
    <3>7. TableOK' /\ killing' \subseteq DOMAIN descs
      BY <1>5, <3>2, <3>3, <3>5, <3>6 DEF FreeTask, TypeOK, TableOK
    <3> QED
      BY <1>5, <2>1, <3>5, <3>7 DEF FreeTask, TypeOK
  <2> QED
    BY <2>2, <2>3
<1>6. ASSUME CountTask \/ RejectTask PROVE TypeOK'
  <2>1. running_tasks' \in Nat
    BY <1>6, Countable DEF CountTask, RejectTask, TypeOK, StartOK
  <2>2. StartOK'
    BY <1>6, <2>1, Zenon DEF CountTask, RejectTask, TypeOK, StartOK
  <2> QED
    BY <1>6, <2>2 DEF CountTask, RejectTask, TypeOK, clientVars
<1>7. ASSUME NEW t \in killing, FreeTaskKills(t) PROVE TypeOK'
  <2>1. ProcessesOK'
    BY <1>7, KillKeepsChildren DEF FreeTaskKills, TypeOK, ProcessesOK
  <2> QED
    BY <1>7, <2>1 DEF FreeTaskKills, TypeOK, clientVars
<1>8. ASSUME NEW expired \in SUBSET Grants, KillExpiredTasks(expired)
      PROVE  TypeOK'
  <2>1. ProcessesOK'
    BY <1>8, KillKeepsChildren DEF KillExpiredTasks, TypeOK, ProcessesOK
  <2> QED
    BY <1>8, <2>1 DEF KillExpiredTasks, TypeOK, clientVars
<1>9. ASSUME NEW old \in SUBSET tasks, OnCleanupTimer(old) PROVE TypeOK'
  <2>1. TableOK'
    BY <1>9 DEF OnCleanupTimer, TypeOK, TableOK
  <2> QED
    BY <1>9, <2>1 DEF OnCleanupTimer, TypeOK, clientVars
<1>10. ASSUME WaiterChecks \/ WaiterAcquires \/ WaiterFails PROVE TypeOK'
  <2>1. waiter' \in {"loop", "acquire", "awake", "wait", "done", "abort"}
    BY <1>10, Zenon
    DEF WaiterChecks, WaiterAcquires, WaiterFails, CheckUnlessExiting
  <2>2. semaphore' \in Nat
    BY <1>10 DEF WaiterChecks, WaiterAcquires, WaiterFails, TypeOK, ThreadsOK
  <2>3. ThreadsOK'
    BY <1>10, <2>1, <2>2
    DEF WaiterChecks, WaiterAcquires, WaiterFails, TypeOK, ThreadsOK, stopVars
  <2> QED
    BY <1>10, <2>3
    DEF WaiterChecks, WaiterAcquires, WaiterFails, TypeOK, clientVars
<1>11. ASSUME NEW p \in Pids, WaiterReaps(p) PROVE TypeOK'
  <2>1. ProcessesOK' /\ ThreadsOK'
    BY <1>11 DEF WaiterReaps, TypeOK, ProcessesOK, ThreadsOK, stopVars
  <2> QED
    BY <1>11, <2>1 DEF WaiterReaps, TypeOK, clientVars
<1>12. ASSUME NEW p \in Pids, OnProcessExitCallback(p) PROVE TypeOK'
  <2>1. StartOK'
    BY <1>12, Countable DEF OnProcessExitCallback, CountExit, TypeOK, StartOK
  <2>2. ProcessesOK'
    BY <1>12 DEF OnProcessExitCallback, TypeOK, ProcessesOK
  <2>3. CASE UNCHANGED <<descs, completing>>
    BY <1>12, <2>1, <2>2, <2>3
    DEF OnProcessExitCallback, TypeOK, tableVars, clientVars
  <2>4. ASSUME NEW t \in tasks,
               descs' = [descs EXCEPT ![t].is_running = FALSE, ![t].shared = FALSE],
               completing' = completing \union {t}
        PROVE  TypeOK'
    <3>1. t \in DOMAIN descs /\ descs[t] \in TaskDescType
      BY DEF TypeOK, TableOK
    <3>2. PICK d \in TaskDescType :
              /\ d = [descs[t] EXCEPT !.is_running = FALSE, !.shared = FALSE]
              /\ d.client_ref_count = descs[t].client_ref_count
      BY <3>1, DescEdits
    <3>3. descs' = [descs EXCEPT ![t] = d]
      BY <2>4, <3>2
    <3>4. DOMAIN descs' = DOMAIN descs /\ TableOK'
      BY <1>12, <3>1, <3>2, <3>3, DescTyped
      DEF OnProcessExitCallback, TypeOK, TableOK
    <3> QED
      BY <1>12, <2>1, <2>2, <2>4, <3>1, <3>4
      DEF OnProcessExitCallback, TypeOK, clientVars
  <2> QED
    BY <1>12, <2>3, <2>4 DEF OnProcessExitCallback, MarkFinished
<1>13. ASSUME NEW t \in completing, CountDownLatch(t) PROVE TypeOK'
  <2>1. t \in DOMAIN descs /\ descs[t] \in TaskDescType
    BY DEF TypeOK, TableOK
  <2>2. PICK d \in TaskDescType :
            /\ d = [descs[t] EXCEPT !.latch = TRUE]
            /\ d.client_ref_count = descs[t].client_ref_count
    BY <2>1, DescEdits
  <2>3. descs' = [descs EXCEPT ![t] = d]
    BY <1>13, <2>2 DEF CountDownLatch, Signal
  <2>4. DOMAIN descs' = DOMAIN descs /\ TableOK'
    BY <1>13, <2>1, <2>2, <2>3, DescTyped DEF CountDownLatch, TypeOK, TableOK
  <2> QED
    BY <1>13, <2>4 DEF CountDownLatch, TypeOK, clientVars
<1>14. ASSUME StopBegins \/ StopReleases \/ Join PROVE TypeOK'
  <2>1. semaphore' \in Nat
    BY <1>14
    DEF StopBegins, StopReleases, Release, Join, TypeOK, ThreadsOK, waiterVars
  <2>2. waiter' = waiter
    BY <1>14 DEF StopBegins, StopReleases, Join, waiterVars
  <2>3. exiting' \in BOOLEAN
    BY <1>14, Zenon DEF StopBegins, StopReleases, Join, TypeOK, ThreadsOK
  <2>4. stopper' \in {"none", "exiting", "killed", "joining", "joined"}
    BY <1>14 DEF StopBegins, StopReleases, Join
  <2>5. ThreadsOK'
    BY <2>1, <2>2, <2>3, <2>4 DEF TypeOK, ThreadsOK
  <2> QED
    BY <1>14, <2>5 DEF StopBegins, StopReleases, Join, TypeOK, clientVars
<1>15. ASSUME StopKillsAll PROVE TypeOK'
  <2>1. ProcessesOK'
    BY <1>15, KillKeepsChildren DEF StopKillsAll, TypeOK, ProcessesOK
  <2>2. ThreadsOK'
    BY <1>15 DEF StopKillsAll, TypeOK, ThreadsOK, waiterVars
  <2> QED
    BY <1>15, <2>1, <2>2 DEF StopKillsAll, TypeOK, clientVars
<1>16. ASSUME UNCHANGED vars PROVE TypeOK'
  BY <1>16 DEF vars, TypeOK, tableVars, startVars, procVars, waiterVars, stopVars
<1> QED
  BY <1>1, <1>2, <1>3, <1>4, <1>5, <1>6, <1>7, <1>8, <1>9, <1>10, <1>11,
     <1>12, <1>13, <1>14, <1>15, <1>16
  DEF Next

-----------------------------------------------------------------------------
(* The part of the invariant that is about counting.                          *)
Counting ==
    /\ Sequencing
    /\ RunningTasksExact
    /\ SemaphoreBalanced
    /\ WaiterNeverAborts
    /\ LimitRespected

(* A step that touches none of the counters, keeps the children (whatever     *)
(* their state) and does not move a thread keeps the counting.                *)
LEMMA CountingUntouched ==
    ASSUME TypeOK, Counting,
           Children' = Children,
           \A p \in Pids : procs[p] = "free" => procs'[p] = "free",
           UNCHANGED <<running_tasks, counted, exits, semaphore, waiter,
                       exiting, stopper>>
    PROVE  Counting'
<1>1. Sequencing'
  BY DEF Counting, Sequencing, TypeOK, ProcessesOK
<1>2. RunningTasksExact' /\ LimitRespected'
  BY DEF Counting, RunningTasksExact, LimitRespected, One
<1>3. SemaphoreBalanced' /\ WaiterNeverAborts'
  BY DEF Counting, SemaphoreBalanced, WaiterNeverAborts, One
<1> QED
  BY <1>1, <1>2, <1>3 DEF Counting

(* Every step keeps the counting.                                             *)
LEMMA CountingStep ==
    ASSUME TypeOK, Counting, [Next]_vars
    PROVE  Counting'
<1> DEFINE kids == Cardinality(Children)
           gone == Cardinality(exits)
<1>0. /\ Children \in SUBSET Pids /\ exits \in SUBSET Pids
      /\ kids \in Nat /\ gone \in Nat
      /\ running_tasks \in Nat /\ semaphore \in Nat /\ Limit \in Nat
  BY PidSets, EngineAssumption
  DEF Children, TypeOK, ProcessesOK, StartOK, ThreadsOK
<1>a. procs' = procs =>
        /\ Children' = Children
        /\ \A p \in Pids : procs[p] = "free" => procs'[p] = "free"
  BY DEF Children
<1>1. ASSUME NEW p \in Pids, ChildSetsGroup(p) \/ ChildExits(p)
      PROVE  Counting'
  <2>1. /\ Children' = Children
        /\ \A q \in Pids : procs[q] = "free" => procs'[q] = "free"
    BY <1>1 DEF ChildSetsGroup, ChildExits, Children, TypeOK, ProcessesOK
  <2> QED
    BY <1>1, <2>1, CountingUntouched
    DEF ChildSetsGroup, ChildExits, startVars, waiterVars, stopVars
<1>2. ASSUME NEW c \in Clients, TryQueueTask(c) PROVE Counting'
  BY <1>2, <1>a, CountingUntouched
  DEF TryQueueTask, procVars, waiterVars, stopVars
<1>3. ASSUME NEW c \in Clients, NEW g \in Grants, NEW p \in Pids,
             StartTask(c, g, p)
      PROVE  Counting'
  <2>1. p \notin Children /\ p \notin exits /\ Children' = Children \union {p}
    BY <1>3 DEF StartTask, FreshPid, Children, TypeOK, ProcessesOK
  <2>2. Cardinality(Children') = kids + 1
    BY <1>0, <2>1, PidSets
  <2>3. Sequencing'
    BY <1>3, <2>1
    DEF StartTask, Counting, Sequencing, TypeOK, ProcessesOK, stopVars
  <2> HIDE DEF kids, gone
  <2>4. running_tasks = kids + gone + 1 /\ exits' = exits
    BY <1>3 DEF StartTask, Counting, RunningTasksExact, One, kids, gone
  <2>5. RunningTasksExact'
    BY <1>0, <1>3, <2>2, <2>4
    DEF StartTask, RunningTasksExact, One, gone
  <2>6. LimitRespected'
    BY <1>0, <1>3, <2>2, <2>4 DEF StartTask, HasSlot, LimitRespected
  <2>7. waiter \notin {"done", "abort"} =>
            semaphore + One(waiter \in {"awake", "wait"}) =
                kids + One(stopper \in {"joining", "joined"})
    BY DEF Counting, SemaphoreBalanced, kids
  <2>8. SemaphoreBalanced'
    BY <1>0, <1>3, <2>2, <2>7 DEF StartTask, Release, SemaphoreBalanced, One, stopVars
  <2>9. WaiterNeverAborts'
    BY <1>3 DEF StartTask, Counting, WaiterNeverAborts
  <2> QED
    BY <2>3, <2>5, <2>6, <2>8, <2>9 DEF Counting
<1>4. ASSUME NEW c \in Clients, NEW t \in tasks, NEW local \in LocalIds,
             TryReferenceTask(c, t, local)
      PROVE  Counting'
  BY <1>4, <1>a, CountingUntouched
  DEF TryReferenceTask, startVars, procVars, waiterVars, stopVars
<1>5. ASSUME NEW c \in Clients, FreeTask(c) PROVE Counting'
  BY <1>5, <1>a, CountingUntouched
  DEF FreeTask, startVars, procVars, waiterVars, stopVars
<1>6. ASSUME CountTask \/ RejectTask PROVE Counting'
  <2>1. Children' = Children /\ exits' = exits
    BY <1>6, <1>a DEF CountTask, RejectTask, procVars
  <2>2. Sequencing'
    BY <1>6 DEF CountTask, RejectTask, Counting, Sequencing, procVars, stopVars
  <2>3. SemaphoreBalanced' /\ WaiterNeverAborts' /\ LimitRespected'
    BY <1>6, <2>1
    DEF CountTask, RejectTask, Counting, SemaphoreBalanced, WaiterNeverAborts,
        LimitRespected, One, waiterVars, stopVars
  <2> HIDE DEF kids, gone
  <2>4. running_tasks = kids + gone + One(counted)
    BY DEF Counting, RunningTasksExact, kids, gone
  <2>5. running_tasks' = kids + gone + One(counted')
    BY <1>0, <1>6, <2>4 DEF CountTask, RejectTask, One
  <2>6. RunningTasksExact'
    BY <2>1, <2>5 DEF RunningTasksExact, kids, gone
  <2> QED
    BY <2>2, <2>3, <2>6 DEF Counting
<1>7. ASSUME NEW t \in killing, FreeTaskKills(t) PROVE Counting'
  BY <1>7, KillKeepsChildren, CountingUntouched
  DEF FreeTaskKills, startVars, waiterVars, stopVars
<1>8. ASSUME NEW expired \in SUBSET Grants, KillExpiredTasks(expired)
      PROVE  Counting'
  BY <1>8, KillKeepsChildren, CountingUntouched
  DEF KillExpiredTasks, startVars, waiterVars, stopVars
<1>9. ASSUME NEW old \in SUBSET tasks, OnCleanupTimer(old) PROVE Counting'
  BY <1>9, <1>a, CountingUntouched
  DEF OnCleanupTimer, startVars, procVars, waiterVars, stopVars
<1>10. ASSUME WaiterChecks \/ WaiterAcquires PROVE Counting'
  <2>1. Children' = Children /\ exits' = exits
    BY <1>10, <1>a DEF WaiterChecks, WaiterAcquires, procVars
  <2>2. Sequencing'
    BY <1>10
    DEF WaiterChecks, WaiterAcquires, Counting, Sequencing, procVars, stopVars
  <2>3. RunningTasksExact' /\ LimitRespected'
    BY <1>10, <2>1
    DEF WaiterChecks, WaiterAcquires, Counting, RunningTasksExact,
        LimitRespected, One, startVars
  <2>4. WaiterNeverAborts'
    BY <1>10, Zenon DEF WaiterChecks, WaiterAcquires, WaiterNeverAborts
  <2>5. \/ waiter' = "done" /\ waiter \in {"loop", "awake"} /\ semaphore' = semaphore
        \/ waiter = "loop" /\ waiter' = "acquire" /\ semaphore' = semaphore
        \/ waiter = "awake" /\ waiter' = "wait" /\ semaphore' = semaphore
        \/ waiter = "acquire" /\ waiter' = "awake" /\ semaphore' = semaphore - 1
    BY <1>10, Zenon DEF WaiterChecks, WaiterAcquires
  <2>6. stopper' = stopper
    BY <1>10 DEF WaiterChecks, WaiterAcquires, stopVars
  <2> HIDE DEF kids
  <2>7. waiter \notin {"done", "abort"} =>
            semaphore + One(waiter \in {"awake", "wait"}) =
                kids + One(stopper \in {"joining", "joined"})
    BY DEF Counting, SemaphoreBalanced, kids
  <2>8. waiter' \notin {"done", "abort"} =>
            semaphore' + One(waiter' \in {"awake", "wait"}) =
                kids + One(stopper' \in {"joining", "joined"})
    BY <1>0, <2>5, <2>6, <2>7 DEF One
  <2>9. SemaphoreBalanced'
    BY <2>1, <2>8 DEF SemaphoreBalanced, One, kids
  <2> QED
    BY <2>2, <2>3, <2>4, <2>9 DEF Counting
<1>11. ASSUME WaiterFails PROVE Counting'
  <2>1. Children' = Children /\ exits' = exits
    BY <1>11, <1>a DEF WaiterFails, procVars
  <2>2. Sequencing'
    BY <1>11 DEF WaiterFails, Counting, Sequencing, procVars, stopVars
  <2>3. RunningTasksExact' /\ LimitRespected'
    BY <1>11, <2>1
    DEF WaiterFails, Counting, RunningTasksExact, LimitRespected, One, startVars
  <2>4. kids = 0
    BY <1>11, <1>0, PidSets DEF WaiterFails
  <2>5. stopper \in {"joining", "joined"}
    <3> HIDE DEF kids
    <3>1. semaphore + One(waiter \in {"awake", "wait"}) =
            kids + One(stopper \in {"joining", "joined"})
      BY <1>11 DEF WaiterFails, Counting, SemaphoreBalanced, kids
    <3> QED
      BY <1>0, <1>11, <2>4, <3>1 DEF WaiterFails, One
  <2>6. exiting
    BY <2>5 DEF Counting, Sequencing
  <2>7. waiter' = "done"
    BY <1>11, <2>6, Zenon DEF WaiterFails, CheckUnlessExiting
  <2> QED
    BY <2>2, <2>3, <2>7 DEF Counting, SemaphoreBalanced, WaiterNeverAborts
<1>12. ASSUME NEW p \in Pids, WaiterReaps(p) PROVE Counting'
  <2>1. /\ p \in Children /\ p \notin exits
        /\ Children' = Children \ {p}
        /\ exits' = exits \union {p}
    BY <1>12
    DEF WaiterReaps, Children, Counting, Sequencing, TypeOK, ProcessesOK
  <2>2. Cardinality(Children') = kids - 1 /\ Cardinality(exits') = gone + 1
    BY <1>0, <2>1, PidSets
  <2>3. Sequencing'
    BY <1>12, <2>1
    DEF WaiterReaps, Counting, Sequencing, TypeOK, ProcessesOK, stopVars
  <2> HIDE DEF kids, gone
  <2>4. /\ running_tasks = kids + gone + One(counted) /\ kids <= Limit
        /\ semaphore + 1 = kids + One(stopper \in {"joining", "joined"})
    BY <1>12
    DEF WaiterReaps, Counting, RunningTasksExact, LimitRespected,
        SemaphoreBalanced, One, kids, gone
  <2>5. RunningTasksExact' /\ LimitRespected'
    BY <1>0, <1>12, <2>2, <2>4
    DEF WaiterReaps, RunningTasksExact, LimitRespected, One, startVars
  <2>6. SemaphoreBalanced' /\ WaiterNeverAborts'
    BY <1>0, <1>12, <2>2, <2>4
    DEF WaiterReaps, SemaphoreBalanced, WaiterNeverAborts, One, stopVars
  <2> QED
    BY <2>3, <2>5, <2>6 DEF Counting
<1>13. ASSUME NEW p \in Pids, OnProcessExitCallback(p) PROVE Counting'
  <2>1. Children' = Children /\ p \in exits /\ exits' = exits \ {p}
    BY <1>13 DEF OnProcessExitCallback, Children
  <2>2. Cardinality(exits') = gone - 1
    BY <1>0, <2>1, PidSets
  <2>3. Sequencing'
    BY <1>13 DEF OnProcessExitCallback, Counting, Sequencing, stopVars
  <2>4. SemaphoreBalanced' /\ WaiterNeverAborts' /\ LimitRespected'
    BY <1>13, <2>1
    DEF OnProcessExitCallback, Counting, SemaphoreBalanced, WaiterNeverAborts,
        LimitRespected, One, waiterVars, stopVars
  <2> HIDE DEF kids, gone
  <2>5. running_tasks = kids + gone + One(counted)
    BY DEF Counting, RunningTasksExact, kids, gone
  <2>6. running_tasks' = kids + Cardinality(exits') + One(counted')
    BY <1>0, <1>13, <2>2, <2>5 DEF OnProcessExitCallback, CountExit, One
  <2>7. RunningTasksExact'
    BY <2>1, <2>6 DEF RunningTasksExact, kids
  <2> QED
    BY <2>3, <2>4, <2>7 DEF Counting
<1>14. ASSUME NEW t \in completing, CountDownLatch(t) PROVE Counting'
  BY <1>14, <1>a, CountingUntouched
  DEF CountDownLatch, startVars, procVars, waiterVars, stopVars
<1>15. ASSUME StopBegins \/ StopKillsAll \/ StopReleases \/ Join PROVE Counting'
  <2>1. /\ Children' = Children /\ exits' = exits
        /\ \A p \in Pids : procs[p] = "free" => procs'[p] = "free"
    BY <1>15, <1>a, KillKeepsChildren
    DEF StopBegins, StopKillsAll, StopReleases, Join, procVars
  <2>2. Sequencing'
    BY <1>15, <2>1
    DEF StopBegins, StopKillsAll, StopReleases, Join, Counting, Sequencing,
        TypeOK, ProcessesOK
  <2>3. RunningTasksExact' /\ LimitRespected'
    BY <1>15, <2>1
    DEF StopBegins, StopKillsAll, StopReleases, Join, Counting,
        RunningTasksExact, LimitRespected, One, startVars
  <2>4. WaiterNeverAborts' /\ waiter' = waiter
    BY <1>15
    DEF StopBegins, StopKillsAll, StopReleases, Join, Counting,
        WaiterNeverAborts, waiterVars
  <2>5. \/ stopper \notin {"joining", "joined"} /\ stopper' \notin {"joining", "joined"}
           /\ semaphore' = semaphore
        \/ stopper = "killed" /\ stopper' = "joining" /\ semaphore' = semaphore + 1
        \/ stopper = "joining" /\ stopper' = "joined" /\ semaphore' = semaphore
    BY <1>15
    DEF StopBegins, StopKillsAll, StopReleases, Release, Join, waiterVars
  <2> HIDE DEF kids
  <2>6. waiter \notin {"done", "abort"} =>
            semaphore + One(waiter \in {"awake", "wait"}) =
                kids + One(stopper \in {"joining", "joined"})
    BY DEF Counting, SemaphoreBalanced, kids
  <2>7. waiter' \notin {"done", "abort"} =>
            semaphore' + One(waiter' \in {"awake", "wait"}) =
                kids + One(stopper' \in {"joining", "joined"})
    BY <1>0, <2>4, <2>5, <2>6 DEF One
  <2>8. SemaphoreBalanced'
    BY <2>1, <2>7 DEF SemaphoreBalanced, One, kids
  <2> QED
    BY <2>2, <2>3, <2>4, <2>8 DEF Counting
<1>16. ASSUME UNCHANGED vars PROVE Counting'
  BY <1>16, <1>a, CountingUntouched DEF vars
<1> QED
  BY <1>1, <1>2, <1>3, <1>4, <1>5, <1>6, <1>7, <1>8, <1>9, <1>10, <1>11,
     <1>12, <1>13, <1>14, <1>15, <1>16
  DEF Next

-----------------------------------------------------------------------------
(* The engine's inductive invariant holds in every reachable state.           *)
LEMMA EngineInvariant == Spec => []EngineInv
<1>1. Init => EngineInv
  BY EngineInit
<1>2. EngineInv /\ [Next]_vars => EngineInv'
  BY TypeStep, CountingStep DEF EngineInv, Counting
<1> QED
  BY <1>1, <1>2, PTL DEF Spec

(* The type invariant: in particular running_tasks_, the semaphore and the    *)
(* reference counts never go below zero.                                      *)
THEOREM EngineTypeCorrect == Spec => []TypeOK
<1>1. EngineInv => TypeOK
  BY DEF EngineInv
<1> QED
  BY <1>1, EngineInvariant, PTL

(* A servant never has more compiler processes than its limit.                *)
THEOREM LimitCorrect == Spec => []LimitRespected
<1>1. EngineInv => LimitRespected
  BY DEF EngineInv
<1> QED
  BY <1>1, EngineInvariant, PTL

(* running_tasks_ is exact, for freed, killed and exiting tasks alike.        *)
THEOREM RunningCountCorrect == Spec => []RunningTasksExact
<1>1. EngineInv => RunningTasksExact
  BY DEF EngineInv
<1> QED
  BY <1>1, EngineInvariant, PTL

(* A sleeping waitpid thread has a release to come for every child.           *)
THEOREM SemaphoreCorrect == Spec => []SemaphoreBalanced
<1>1. EngineInv => SemaphoreBalanced
  BY DEF EngineInv
<1> QED
  BY <1>1, EngineInvariant, PTL

(* The check after wait() never aborts the daemon.                            *)
THEOREM WaiterCorrect == Spec => []WaiterNeverAborts
<1>1. EngineInv => WaiterNeverAborts
  BY DEF EngineInv
<1> QED
  BY <1>1, EngineInvariant, PTL

(* The slots, running_tasks_, the semaphore and the children agree, whatever  *)
(* the waitpid thread, Stop and the clients are in the middle of.             *)
THEOREM EngineConsistentCorrect == Spec => []EngineConsistent
<1>1. EngineInv => EngineConsistent
  BY DEF EngineInv, EngineConsistent
<1> QED
  BY <1>1, EngineInvariant, PTL
-----------------------------------------------------------------------------
(* References.  FreeTask is called with the id the client knows the task by:  *)
(* the servant's own id for a task it started, an id of its delegate's table  *)
(* for one it joined, which may be another task's.  A call with another       *)
(* task's id costs the holder nothing and marks the other one as misfreed.    *)

(* A client holds a task that was started.                                    *)
HoldersKnown == \A c \in Clients : held[c] # NoTask => held[c] \in DOMAIN descs

ReferencesInv == HoldersKnown /\ ReferencesHonoured

Holders(t) == {c \in Clients : held[c] = t}

(* ReferencesHonoured, one task at a time.                                    *)
Honoured(t) ==
    ~descs[t].misfreed =>
        /\ t \in tasks => descs[t].client_ref_count >= Cardinality(Holders(t))
        /\ Holders(t) # {} => t \in tasks \/ ~descs[t].is_running

LEMMA HonouredEach == ReferencesHonoured <=> \A t \in DOMAIN descs : Honoured(t)
  BY DEF ReferencesHonoured, Honoured, Holders

(* A set of clients is finite, and one more or one less counts as such.       *)
LEMMA ClientSets ==
    ASSUME NEW S \in SUBSET Clients
    PROVE  /\ Cardinality(S) \in Nat
           /\ \A c : Cardinality(S \union {c}) <= Cardinality(S) + 1
           /\ \A c \in S : Cardinality(S \ {c}) = Cardinality(S) - 1
           /\ \A T \in SUBSET S : Cardinality(T) <= Cardinality(S)
           /\ \A c \in S : Cardinality(S) <= 1 => S = {c}
           /\ S = {} => Cardinality(S) = 0
<1>1. IsFiniteSet(S)
  BY EngineAssumption, FS_Subset
<1>2. Cardinality(S) \in Nat
  BY <1>1, FS_CardinalityType
<1>3. \A c : Cardinality(S \union {c}) <= Cardinality(S) + 1
  <2> TAKE c
  <2>1. CASE c \in S
    <3>1. S \union {c} = S
      BY <2>1
    <3> QED
      BY <1>2, <3>1
  <2>2. CASE c \notin S
    <3>1. Cardinality(S \union {c}) = Cardinality(S) + 1
      BY <1>1, <2>2, FS_AddElement
    <3> QED
      BY <1>2, <3>1
  <2> QED
    BY <2>1, <2>2
<1>4. \A c \in S : Cardinality(S \ {c}) = Cardinality(S) - 1
  BY <1>1, FS_RemoveElement
<1>5. \A T \in SUBSET S : Cardinality(T) <= Cardinality(S)
  BY <1>1, FS_Subset
<1>6. Cardinality(S) = 0 <=> S = {}
  BY <1>1, FS_EmptySet
<1>7. ASSUME NEW c \in S, Cardinality(S) <= 1 PROVE S = {c}
  <2>1. Cardinality(S \ {c}) = Cardinality(S) - 1
    BY <1>4
  <2>2. IsFiniteSet(S \ {c}) /\ Cardinality(S \ {c}) \in Nat
    BY <1>1, FS_Subset, FS_CardinalityType
  <2>3. Cardinality(S \ {c}) = 0
    BY <1>2, <1>7, <2>1, <2>2
  <2>4. S \ {c} = {}
    BY <2>2, <2>3, FS_EmptySet
  <2> QED
    BY <2>4
<1> QED
  BY <1>2, <1>3, <1>4, <1>5, <1>6, <1>7

(* A step that leaves the clients and the counts alone, starts nothing and    *)
(* drops only finished tasks from the table keeps the references.             *)
LEMMA ReferencesUntouched ==
    ASSUME TypeOK, ReferencesInv, UNCHANGED clientVars,
           DOMAIN descs' = DOMAIN descs,
           tasks' \subseteq tasks,
           \A t \in DOMAIN descs :
               /\ descs'[t].client_ref_count = descs[t].client_ref_count
               /\ descs'[t].misfreed = descs[t].misfreed
               /\ descs'[t].is_running => descs[t].is_running
               /\ t \in tasks \ tasks' => ~descs'[t].is_running
    PROVE  ReferencesInv'
<1>1. HoldersKnown'
  BY DEF ReferencesInv, HoldersKnown, clientVars
<1>2. \A t : Holders(t)' = Holders(t)
  BY DEF Holders, clientVars
<1>3. ASSUME NEW t \in DOMAIN descs PROVE Honoured(t)'
  BY <1>2, HonouredEach DEF ReferencesInv, Honoured
<1> QED
  BY <1>1, <1>3, HonouredEach DEF ReferencesInv, ReferencesHonoured, Honoured, Holders

(* Every step keeps the references.                                           *)
LEMMA ReferencesStep ==
    ASSUME TypeOK, ReferencesInv, [Next]_vars
    PROVE  ReferencesInv'
<1>a. /\ \A t \in DOMAIN descs : descs[t] \in TaskDescType
      /\ tasks \subseteq DOMAIN descs /\ DOMAIN descs = 1 .. (next_task_id - 1)
      /\ next_task_id \in 1 .. (MaxTaskId + 1)
      /\ held \in [Clients -> Nat] /\ frees \in [Clients -> Nat]
  BY DEF TypeOK, TableOK
<1>b. /\ HoldersKnown
      /\ \A t \in DOMAIN descs : Honoured(t)
  BY HonouredEach DEF ReferencesInv
<1>c. \A t : Holders(t) \in SUBSET Clients
  BY DEF Holders
<1>d. ASSUME UNCHANGED <<tableVars, clientVars>> PROVE ReferencesInv'
  BY <1>d, ReferencesUntouched DEF tableVars
<1>1. ASSUME NEW p \in Pids, ChildSetsGroup(p) \/ ChildExits(p) \/ WaiterReaps(p)
      PROVE  ReferencesInv'
  BY <1>1, <1>d DEF ChildSetsGroup, ChildExits, WaiterReaps
<1>2. ASSUME NEW c \in Clients, TryQueueTask(c) PROVE ReferencesInv'
  BY <1>2, <1>d DEF TryQueueTask
<1>3. ASSUME NEW c \in Clients, NEW g \in Grants, NEW p \in Pids,
             StartTask(c, g, p)
      PROVE  ReferencesInv'
  <2> PICK n \in Nat : n = next_task_id
    BY <1>a
  <2>1. /\ DOMAIN descs' = DOMAIN descs \union {n}
        /\ n \notin DOMAIN descs
        /\ \A t \in DOMAIN descs : descs'[t] = descs[t]
        /\ descs'[n] = NewTaskDesc(g, p)
        /\ tasks' = tasks \union {n}
    BY <1>3, <1>a DEF StartTask
  <2>2. /\ held'[c] = n /\ frees'[c] = n
        /\ \A b \in Clients \ {c} : held'[b] = held[b] /\ frees'[b] = frees[b]
    BY <1>3, <1>a DEF StartTask
  <2>3. HoldersKnown'
    BY <1>b, <2>1, <2>2 DEF HoldersKnown
  <2>4. Honoured(n)'
    <3>1. Holders(n)' \subseteq {c}
      <4>1. \A b \in Clients : held[b] # n
        BY <1>a, <1>b, <2>1 DEF HoldersKnown, NoTask
      <4> QED
        BY <2>2, <4>1 DEF Holders
    <3>2. Cardinality(Holders(n)') <= 1
      <4>1. Cardinality({c}) = 1
        BY FS_Singleton
      <4> QED
        BY <3>1, <4>1, ClientSets
    <3>3. descs'[n].client_ref_count = 1 /\ n \in tasks'
      BY <2>1 DEF NewTaskDesc
    <3>4. Cardinality(Holders(n)') \in Nat
      BY <3>1, ClientSets
    <3>5. n \in tasks' =>
            descs'[n].client_ref_count
              >= Cardinality(Holders(n)')
      BY <3>2, <3>3, <3>4
    <3> QED
      BY <3>3, <3>5 DEF Honoured, Holders
  <2>5. ASSUME NEW t \in DOMAIN descs PROVE Honoured(t)'
    <3>1. Holders(t)' \subseteq Holders(t)
      BY <2>1, <2>2 DEF Holders
    <3>2. /\ Cardinality(Holders(t)') <= Cardinality(Holders(t))
          /\ Cardinality(Holders(t)') \in Nat /\ Cardinality(Holders(t)) \in Nat
      BY <1>c, <3>1, ClientSets
    <3>3. descs[t].client_ref_count \in Nat
      BY <1>a DEF TaskDescType
    <3>4. t \in tasks' => t \in tasks
      BY <2>1
    <3> QED
      BY <1>b, <2>1, <3>1, <3>2, <3>3, <3>4 DEF Honoured
  <2> QED
    BY <2>1, <2>3, <2>4, <2>5, HonouredEach
    DEF ReferencesInv, ReferencesHonoured, Honoured, Holders
<1>4. ASSUME NEW c \in Clients, NEW t \in tasks, NEW local \in LocalIds,
             TryReferenceTask(c, t, local)
      PROVE  ReferencesInv'
  <2>1. /\ DOMAIN descs' = DOMAIN descs /\ tasks' = tasks /\ t \in DOMAIN descs
        /\ descs'[t].client_ref_count = descs[t].client_ref_count + 1
        /\ \A u \in DOMAIN descs :
              /\ descs'[u].is_running = descs[u].is_running
              /\ descs'[u].misfreed = descs[u].misfreed
        /\ \A u \in DOMAIN descs \ {t} : descs'[u] = descs[u]
    BY <1>4, <1>a DEF TryReferenceTask, TaskDescType
  <2>2. /\ held[c] = NoTask
        /\ held'[c] = t /\ frees'[c] = local
        /\ \A b \in Clients \ {c} : held'[b] = held[b] /\ frees'[b] = frees[b]
    BY <1>4, <1>a DEF TryReferenceTask
  <2>3. HoldersKnown'
    BY <1>b, <2>1, <2>2 DEF HoldersKnown
  <2>4. Honoured(t)'
    <3>1. Holders(t)' = Holders(t) \union {c}
      BY <2>2 DEF Holders
    <3>2. /\ Cardinality(Holders(t)') <= Cardinality(Holders(t)) + 1
          /\ Cardinality(Holders(t)) \in Nat
          /\ Cardinality(Holders(t)') \in Nat
      BY <1>c, <3>1, ClientSets
    <3>3. /\ descs[t].client_ref_count \in Nat
          /\ ~descs[t].misfreed =>
                descs[t].client_ref_count >= Cardinality(Holders(t))
      BY <1>a, <1>b DEF TaskDescType, Honoured
    <3> QED
      BY <2>1, <3>2, <3>3 DEF Honoured
  <2>5. ASSUME NEW u \in DOMAIN descs \ {t} PROVE Honoured(u)'
    <3>1. Holders(u)' = Holders(u)
      <4>1. u # NoTask
        BY <1>a DEF NoTask
      <4> QED
        BY <2>2, <4>1 DEF Holders
    <3> QED
      BY <1>b, <2>1, <3>1 DEF Honoured
  <2> QED
    BY <2>1, <2>3, <2>4, <2>5, HonouredEach
    DEF ReferencesInv, ReferencesHonoured, Honoured, Holders
<1>5. ASSUME NEW c \in Clients, FreeTask(c) PROVE ReferencesInv'
  <2>1. /\ held[c] # NoTask
        /\ held'[c] = NoTask /\ frees'[c] = NoTask
        /\ \A b \in Clients \ {c} : held'[b] = held[b] /\ frees'[b] = frees[b]
    BY <1>5, <1>a DEF FreeTask
  <2>2. ASSUME NEW u \in DOMAIN descs PROVE Holders(u)' = Holders(u) \ {c}
    <3>1. u # NoTask
      BY <1>a DEF NoTask
    <3> QED
      BY <2>1, <3>1 DEF Holders
  <2>3. ASSUME NEW u \in DOMAIN descs
        PROVE  /\ Cardinality(Holders(u)') \in Nat
               /\ Cardinality(Holders(u)) \in Nat
               /\ Cardinality(Holders(u)') <= Cardinality(Holders(u))
               /\ c \in Holders(u) =>
                    Cardinality(Holders(u)') = Cardinality(Holders(u)) - 1
               /\ c \in Holders(u) /\ Cardinality(Holders(u)) <= 1 =>
                    Holders(u)' = {}
    <3>1. Holders(u)' \in SUBSET Holders(u) /\ Holders(u) \in SUBSET Clients
      BY <1>c, <2>2
    <3> QED
      BY <2>2, <3>1, ClientSets
  <2>4. CASE frees[c] \notin tasks
    <3>1. UNCHANGED <<descs, tasks>>
      BY <1>5, <2>4 DEF FreeTask
    <3>2. HoldersKnown'
      BY <1>b, <2>1, <3>1 DEF HoldersKnown
    <3>3. ASSUME NEW u \in DOMAIN descs PROVE Honoured(u)'
      <4>1. descs[u].client_ref_count \in Nat
        BY <1>a DEF TaskDescType
      <4>2. Honoured(u)
        BY <1>b
      <4>3. ~descs[u].misfreed /\ u \in tasks =>
              descs[u].client_ref_count >= Cardinality(Holders(u)')
        BY <2>3, <4>1, <4>2 DEF Honoured
      <4>4. ~descs[u].misfreed /\ Holders(u)' # {} =>
              u \in tasks \/ ~descs[u].is_running
        BY <2>2, <4>2 DEF Honoured
      <4> QED
        BY <3>1, <4>3, <4>4 DEF Honoured
    <3> QED
      BY <3>1, <3>2, <3>3, HonouredEach
      DEF ReferencesInv, ReferencesHonoured, Honoured, Holders
  <2>5. CASE frees[c] \in tasks
    <3>1. PICK t \in tasks : t = frees[c]
      BY <2>5
    <3>2. t \in DOMAIN descs /\ t \in 1 .. MaxTaskId
      BY <1>a, EngineAssumption
    <3>4. /\ DOMAIN descs' = DOMAIN descs
          /\ descs'[t].client_ref_count = descs[t].client_ref_count - 1
          /\ descs'[t].misfreed = (descs[t].misfreed \/ held[c] # t)
          /\ \A u \in DOMAIN descs : descs'[u].is_running = descs[u].is_running
          /\ \A u \in DOMAIN descs \ {t} : descs'[u] = descs[u]
      <4>1. descs' = [descs EXCEPT ![t].client_ref_count = @ - 1,
                                   ![t].misfreed = @ \/ held[c] # t]
        BY <1>5, <3>1 DEF FreeTask
      <4> QED
        BY <1>a, <3>2, <4>1 DEF TaskDescType
    <3>5. \/ descs[t].client_ref_count # 1 /\ tasks' = tasks
          \/ descs[t].client_ref_count = 1 /\ tasks' = tasks \ {t}
      BY <1>5, <3>1 DEF FreeTask, LastReference
    <3>6. HoldersKnown'
      BY <1>b, <2>1, <3>4 DEF HoldersKnown
    <3>8. ASSUME ~descs'[t].misfreed
          PROVE  /\ t \in tasks' =>
                      descs'[t].client_ref_count >= Cardinality(Holders(t)')
                 /\ t \notin tasks' => Holders(t)' = {}
      <4>1. ~descs[t].misfreed /\ c \in Holders(t)
        BY <3>4, <3>8 DEF Holders
      <4>2. /\ descs[t].client_ref_count \in Nat
            /\ descs[t].client_ref_count >= Cardinality(Holders(t))
        BY <1>a, <1>b, <3>2, <4>1 DEF TaskDescType, Honoured
      <4>3. t \in tasks' =>
              descs'[t].client_ref_count >= Cardinality(Holders(t)')
        BY <2>3, <3>2, <3>4, <4>1, <4>2
      <4>4. t \notin tasks' => Holders(t)' = {}
        BY <2>3, <3>2, <3>5, <4>1, <4>2
      <4> QED
        BY <4>3, <4>4
    <3>7. Honoured(t)'
      BY <3>8 DEF Honoured
    <3>9. ASSUME NEW u \in DOMAIN descs \ {t} PROVE Honoured(u)'
      <4>1. descs[u].client_ref_count \in Nat
        BY <1>a DEF TaskDescType
      <4>2. Honoured(u) /\ (u \in tasks' <=> u \in tasks) /\ descs'[u] = descs[u]
        BY <1>b, <3>4, <3>5
      <4>3. ~descs[u].misfreed /\ u \in tasks' =>
              descs'[u].client_ref_count >= Cardinality(Holders(u)')
        BY <2>3, <4>1, <4>2 DEF Honoured
      <4>4. ~descs[u].misfreed /\ Holders(u)' # {} =>
              u \in tasks' \/ ~descs'[u].is_running
        BY <2>2, <4>2 DEF Honoured
      <4> QED
        BY <4>2, <4>3, <4>4 DEF Honoured
    <3> QED
      BY <3>4, <3>6, <3>7, <3>9, HonouredEach
      DEF ReferencesInv, ReferencesHonoured, Honoured, Holders
  <2> QED
    BY <2>4, <2>5
<1>6. ASSUME CountTask \/ RejectTask PROVE ReferencesInv'
  BY <1>6, <1>d DEF CountTask, RejectTask
<1>7. ASSUME NEW t \in killing, FreeTaskKills(t) PROVE ReferencesInv'
  BY <1>7, <1>d DEF FreeTaskKills
<1>8. ASSUME NEW expired \in SUBSET Grants, KillExpiredTasks(expired)
      PROVE  ReferencesInv'
  BY <1>8, <1>d DEF KillExpiredTasks
<1>9. ASSUME NEW old \in SUBSET tasks, OnCleanupTimer(old) PROVE ReferencesInv'
  BY <1>9, ReferencesUntouched DEF OnCleanupTimer
<1>10. ASSUME WaiterChecks \/ WaiterAcquires \/ WaiterFails PROVE ReferencesInv'
  BY <1>10, <1>d DEF WaiterChecks, WaiterAcquires, WaiterFails
<1>11. ASSUME NEW p \in Pids, OnProcessExitCallback(p) PROVE ReferencesInv'
  <2>1. CASE UNCHANGED descs
    BY <1>11, <1>d, <2>1 DEF OnProcessExitCallback, tableVars
  <2>2. ASSUME NEW t \in tasks, descs' = MarkFinished(t) PROVE ReferencesInv'
    <3>1. /\ DOMAIN descs' = DOMAIN descs
          /\ \A u \in DOMAIN descs :
                /\ descs'[u].client_ref_count = descs[u].client_ref_count
                /\ descs'[u].misfreed = descs[u].misfreed
                /\ descs'[u].is_running => descs[u].is_running
      BY <1>a, <2>2 DEF MarkFinished, TaskDescType
    <3> QED
      BY <1>11, <3>1, ReferencesUntouched DEF OnProcessExitCallback
  <2> QED
    BY <1>11, <2>1, <2>2 DEF OnProcessExitCallback
<1>12. ASSUME NEW t \in completing, CountDownLatch(t) PROVE ReferencesInv'
  <2>1. /\ DOMAIN descs' = DOMAIN descs
        /\ \A u \in DOMAIN descs :
              /\ descs'[u].client_ref_count = descs[u].client_ref_count
              /\ descs'[u].misfreed = descs[u].misfreed
              /\ descs'[u].is_running = descs[u].is_running
    BY <1>a, <1>12 DEF CountDownLatch, Signal, TaskDescType
  <2> QED
    BY <1>12, <2>1, ReferencesUntouched DEF CountDownLatch
<1>13. ASSUME StopBegins \/ StopKillsAll \/ StopReleases \/ Join
       PROVE  ReferencesInv'
  BY <1>13, <1>d DEF StopBegins, StopKillsAll, StopReleases, Join
<1>14. ASSUME UNCHANGED vars PROVE ReferencesInv'
  BY <1>14, <1>d DEF vars, tableVars, clientVars
<1> QED
  BY <1>1, <1>2, <1>3, <1>4, <1>5, <1>6, <1>7, <1>8, <1>9, <1>10, <1>11,
     <1>12, <1>13, <1>14
  DEF Next

(* "If more than one client wait for this task, we should only dereference    *)
(* the task": a running task stays in the table for as long as a client holds *)
(* it, for any number of clients joining and freeing in any order and by any  *)
(* ids, unless one of them has freed it by the id of another.                 *)
THEOREM ReferencesCorrect ==
    Spec => []ReferencesHonoured
<1>1. Init => ReferencesInv
  BY DEF Init, ReferencesInv, HoldersKnown, ReferencesHonoured
<1>2. EngineInv /\ ReferencesInv /\ [Next]_vars => ReferencesInv'
  BY ReferencesStep DEF EngineInv
<1>3. ReferencesInv => ReferencesHonoured
  BY DEF ReferencesInv
<1> QED
  BY <1>1, <1>2, <1>3, EngineInvariant, PTL DEF Spec

-----------------------------------------------------------------------------
(* Processes.  The exit callback finds its task by pid among all tasks in the *)
(* table, finished ones included, and the kernel may hand a pid out again.    *)

(* No other task in the table has the pid of a task that is marked running    *)
(* and did not find its pid there when it started.                            *)
Alone(t) ==
    \A u \in tasks : descs[u].process_id = descs[t].process_id => u = t

PidsOwned ==
    \A t \in tasks : descs[t].is_running => descs[t].shared \/ Alone(t)

ProcessesInv == PidsOwned /\ RunningHasProcess

(* A step that starts nothing, reaps nothing and handles no exit.             *)
LEMMA ProcessesUntouched ==
    ASSUME TypeOK, ProcessesInv, DOMAIN descs' = DOMAIN descs,
           Children' = Children, UNCHANGED <<owner, exits>>,
           tasks' \subseteq tasks,
           \A t \in DOMAIN descs :
               /\ descs'[t].process_id = descs[t].process_id
               /\ descs'[t].is_running = descs[t].is_running
               /\ descs'[t].shared = descs[t].shared
    PROVE  ProcessesInv'
<1>1. tasks \subseteq DOMAIN descs
  BY DEF TypeOK, TableOK
<1> QED
  BY <1>1 DEF ProcessesInv, PidsOwned, Alone, RunningHasProcess, HasProcess

(* Every step keeps the processes.                                            *)
LEMMA ProcessesStep ==
    ASSUME TypeOK, ProcessesInv, [Next]_vars
    PROVE  ProcessesInv'
<1>a. /\ \A t \in DOMAIN descs : descs[t] \in TaskDescType
      /\ tasks \subseteq DOMAIN descs /\ DOMAIN descs = 1 .. (next_task_id - 1)
      /\ next_task_id \in 1 .. (MaxTaskId + 1)
      /\ procs \in [Pids -> {"free", "forked", "running", "zombie"}]
      /\ owner \in [Pids -> Nat] /\ exits \in SUBSET Pids
  BY DEF TypeOK, TableOK, ProcessesOK
<1>b. \A t \in DOMAIN descs : descs[t].process_id \in Pids
  BY <1>a DEF TaskDescType
<1>c. procs' = procs => Children' = Children
  BY DEF Children
<1>d. ASSUME UNCHANGED <<descs, owner, exits>>, tasks' \subseteq tasks,
             Children' = Children
      PROVE  ProcessesInv'
  BY <1>d, ProcessesUntouched
<1>1. ASSUME NEW p \in Pids, ChildSetsGroup(p) \/ ChildExits(p)
      PROVE  ProcessesInv'
  <2>1. Children' = Children
    BY <1>1, <1>a DEF ChildSetsGroup, ChildExits, Children
  <2> QED
    BY <1>1, <1>d, <2>1 DEF ChildSetsGroup, ChildExits, tableVars
<1>2. ASSUME NEW c \in Clients, TryQueueTask(c) PROVE ProcessesInv'
  BY <1>2, <1>c, <1>d DEF TryQueueTask, tableVars, procVars
<1>3. ASSUME NEW c \in Clients, NEW g \in Grants, NEW p \in Pids,
             StartTask(c, g, p)
      PROVE  ProcessesInv'
  <2> PICK n \in Nat : n = next_task_id
    BY <1>a
  <2>1. /\ n \notin DOMAIN descs
        /\ \A t \in DOMAIN descs : descs'[t] = descs[t]
        /\ descs'[n] = NewTaskDesc(g, p)
        /\ tasks' = tasks \union {n}
    BY <1>3, <1>a DEF StartTask
  <2>2. /\ p \notin Children \union exits
        /\ exits' = exits
        /\ owner'[p] = n
        /\ \A q \in Pids \ {p} : owner'[q] = owner[q]
    BY <1>3, <1>a DEF StartTask, FreshPid, Children
  <2>3. Children' = Children \union {p}
    BY <1>3, <1>a DEF StartTask, Children
  <2>4. \A t \in tasks : descs[t].is_running =>
            descs[t].shared \/ (HasProcess(t) /\ descs[t].process_id # p)
    BY <2>2 DEF ProcessesInv, RunningHasProcess, HasProcess
  <2>5. /\ descs'[n].process_id = p
        /\ descs'[n].shared <=> \E t \in tasks : descs[t].process_id = p
    BY <2>1 DEF NewTaskDesc
  <2>6. ASSUME NEW t \in tasks', descs'[t].is_running, ~descs'[t].shared
        PROVE  Alone(t)'
    <3>1. CASE t = n
      BY <1>a, <2>1, <2>5, <2>6, <3>1 DEF Alone
    <3>2. CASE t \in tasks
      <4>1. descs'[t] = descs[t] /\ Alone(t) /\ descs[t].process_id # p
        BY <1>a, <2>1, <2>4, <2>6, <3>2 DEF ProcessesInv, PidsOwned
      <4> QED
        BY <1>a, <2>1, <2>5, <4>1 DEF Alone
    <3> QED
      BY <2>1, <3>1, <3>2
  <2>7. ASSUME NEW t \in tasks', descs'[t].is_running, ~descs'[t].shared
        PROVE  HasProcess(t)'
    <3>1. CASE t = n
      BY <2>2, <2>3, <2>5, <3>1 DEF HasProcess
    <3>2. CASE t \in tasks
      <4>1. /\ descs'[t] = descs[t] /\ HasProcess(t)
            /\ descs[t].process_id \in Pids \ {p}
        BY <1>a, <1>b, <2>1, <2>4, <2>7, <3>2
      <4> QED
        BY <2>2, <2>3, <4>1 DEF HasProcess
    <3> QED
      BY <2>1, <3>1, <3>2
  <2> QED
    BY <2>6, <2>7 DEF ProcessesInv, PidsOwned, RunningHasProcess
<1>4. ASSUME NEW c \in Clients, NEW t \in tasks, NEW local \in LocalIds,
             TryReferenceTask(c, t, local)
      PROVE  ProcessesInv'
  <2>1. /\ DOMAIN descs' = DOMAIN descs
        /\ \A u \in DOMAIN descs :
              /\ descs'[u].process_id = descs[u].process_id
              /\ descs'[u].is_running = descs[u].is_running
              /\ descs'[u].shared = descs[u].shared
    BY <1>4, <1>a DEF TryReferenceTask, TaskDescType
  <2> QED
    BY <1>4, <1>c, <2>1, ProcessesUntouched DEF TryReferenceTask, procVars
<1>5. ASSUME NEW c \in Clients, FreeTask(c) PROVE ProcessesInv'
  <2>1. /\ DOMAIN descs' = DOMAIN descs
        /\ \A u \in DOMAIN descs :
              /\ descs'[u].process_id = descs[u].process_id
              /\ descs'[u].is_running = descs[u].is_running
              /\ descs'[u].shared = descs[u].shared
    <3>1. \/ descs' = descs
          \/ \E t \in tasks :
                descs' = [descs EXCEPT ![t].client_ref_count = @ - 1,
                                       ![t].misfreed = @ \/ held[c] # t]
      BY <1>5 DEF FreeTask
    <3>2. CASE descs' = descs
      BY <3>2
    <3>3. ASSUME NEW t \in tasks,
                 descs' = [descs EXCEPT ![t].client_ref_count = @ - 1,
                                       ![t].misfreed = @ \/ held[c] # t]
          PROVE  /\ DOMAIN descs' = DOMAIN descs
                 /\ \A u \in DOMAIN descs :
                       /\ descs'[u].process_id = descs[u].process_id
                       /\ descs'[u].is_running = descs[u].is_running
                       /\ descs'[u].shared = descs[u].shared
      BY <1>a, <3>3 DEF TaskDescType
    <3> QED
      BY <3>1, <3>2, <3>3
  <2>2. tasks' \subseteq tasks
    BY <1>5 DEF FreeTask
  <2> QED
    BY <1>5, <1>c, <2>1, <2>2, ProcessesUntouched DEF FreeTask, procVars
<1>6. ASSUME CountTask \/ RejectTask PROVE ProcessesInv'
  BY <1>6, <1>c, <1>d DEF CountTask, RejectTask, tableVars, procVars
<1>7. ASSUME NEW t \in killing, FreeTaskKills(t) PROVE ProcessesInv'
  BY <1>7, <1>d, KillKeepsChildren DEF FreeTaskKills, tableVars
<1>8. ASSUME NEW expired \in SUBSET Grants, KillExpiredTasks(expired)
      PROVE  ProcessesInv'
  BY <1>8, <1>d, KillKeepsChildren DEF KillExpiredTasks, tableVars
<1>9. ASSUME NEW old \in SUBSET tasks, OnCleanupTimer(old) PROVE ProcessesInv'
  BY <1>9, <1>c, <1>d DEF OnCleanupTimer, procVars
<1>10. ASSUME WaiterChecks \/ WaiterAcquires \/ WaiterFails PROVE ProcessesInv'
  BY <1>10, <1>c, <1>d
  DEF WaiterChecks, WaiterAcquires, WaiterFails, tableVars, procVars
<1>11. ASSUME NEW p \in Pids, WaiterReaps(p) PROVE ProcessesInv'
  <2>1. Children' \union exits' = Children \union exits
    BY <1>11, <1>a DEF WaiterReaps, Children
  <2> QED
    BY <1>11, <2>1
    DEF WaiterReaps, ProcessesInv, PidsOwned, Alone, RunningHasProcess,
        HasProcess, tableVars
<1>12. ASSUME NEW p \in Pids, OnProcessExitCallback(p) PROVE ProcessesInv'
  <2>1. /\ UNCHANGED <<tasks, owner>> /\ Children' = Children
        /\ exits' = exits \ {p}
    BY <1>12, <1>c DEF OnProcessExitCallback
  <2>2. CASE /\ \A t \in tasks : descs[t].process_id # p
             /\ UNCHANGED descs
    BY <2>1, <2>2
    DEF ProcessesInv, PidsOwned, Alone, RunningHasProcess, HasProcess
  <2>3. ASSUME NEW t \in tasks, descs[t].process_id = p,
               descs' = MarkFinished(t)
        PROVE  ProcessesInv'
    <3>1. /\ DOMAIN descs' = DOMAIN descs
          /\ ~descs'[t].is_running
          /\ \A u \in DOMAIN descs : descs'[u].process_id = descs[u].process_id
          /\ \A u \in DOMAIN descs \ {t} : descs'[u] = descs[u]
      BY <1>a, <2>3 DEF MarkFinished, TaskDescType
    <3>2. ASSUME NEW u \in tasks, descs'[u].is_running, ~descs'[u].shared
          PROVE  /\ u # t /\ descs[u].is_running /\ ~descs[u].shared
                 /\ Alone(u) /\ HasProcess(u)
      BY <1>a, <3>1, <3>2 DEF ProcessesInv, PidsOwned, RunningHasProcess
    <3>3. PidsOwned'
      BY <1>a, <2>1, <3>1, <3>2 DEF PidsOwned, Alone
    <3>4. ASSUME NEW u \in tasks, descs'[u].is_running, ~descs'[u].shared
          PROVE  HasProcess(u)'
      <4>1. descs[u].process_id # p
        BY <2>3, <3>2, <3>4 DEF Alone
      <4> QED
        BY <1>a, <2>1, <3>1, <3>2, <3>4, <4>1 DEF HasProcess
    <3> QED
      BY <2>1, <3>3, <3>4 DEF ProcessesInv, RunningHasProcess
  <2> QED
    BY <1>12, <2>2, <2>3 DEF OnProcessExitCallback
<1>13. ASSUME NEW t \in completing, CountDownLatch(t) PROVE ProcessesInv'
  <2>1. /\ DOMAIN descs' = DOMAIN descs
        /\ \A u \in DOMAIN descs :
              /\ descs'[u].process_id = descs[u].process_id
              /\ descs'[u].is_running = descs[u].is_running
              /\ descs'[u].shared = descs[u].shared
    BY <1>a, <1>13 DEF CountDownLatch, Signal, TaskDescType
  <2> QED
    BY <1>13, <1>c, <2>1, ProcessesUntouched DEF CountDownLatch, procVars
<1>14. ASSUME StopBegins \/ StopReleases \/ Join PROVE ProcessesInv'
  BY <1>14, <1>c, <1>d DEF StopBegins, StopReleases, Join, tableVars, procVars
<1>15. ASSUME StopKillsAll PROVE ProcessesInv'
  BY <1>15, <1>d, KillKeepsChildren DEF StopKillsAll, tableVars
<1>16. ASSUME UNCHANGED vars PROVE ProcessesInv'
  BY <1>16, <1>c, <1>d DEF vars
<1> QED
  BY <1>1, <1>2, <1>3, <1>4, <1>5, <1>6, <1>7, <1>8, <1>9, <1>10, <1>11,
     <1>12, <1>13, <1>14, <1>15, <1>16
  DEF Next

(* A task marked running has a process of its own or an exit callback to come *)
(* that finds it: no task is left running by a process that is gone, for a    *)
(* kernel that hands out any pid again once its exit callback has run, unless *)
(* another task in the table had the pid when the task started.               *)
THEOREM ProcessesCorrect ==
    Spec => []RunningHasProcess
<1>1. Init => ProcessesInv
  BY DEF Init, ProcessesInv, PidsOwned, RunningHasProcess
<1>2. EngineInv /\ ProcessesInv /\ [Next]_vars => ProcessesInv'
  BY ProcessesStep DEF EngineInv
<1>3. ProcessesInv => RunningHasProcess
  BY DEF ProcessesInv
<1> QED
  BY <1>1, <1>2, <1>3, EngineInvariant, PTL DEF Spec
=============================================================================
