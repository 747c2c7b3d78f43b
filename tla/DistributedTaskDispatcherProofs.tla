------------------- MODULE DistributedTaskDispatcherProofs -------------------
(* Invariance proofs for DistributedTaskDispatcher, for every number of       *)
(* tasks, digests, retries, servant tasks and restarts of the servant.        *)
EXTENDS DistributedTaskDispatcher, FiniteSetTheorems, TLAPS

States == {"Pending", "ReadyToFire", "Dispatched", "Done"}

(* Where a fiber owns a grant, and where it asks the servant.                 *)
Holding == {"submit", "started", "free_servant", "free_grant"}
Asking == {"started", "joined"}

Places ==
    Holding \union Asking \union
      {"cache", "find", "grant", "free_joined", "complete", "ended"}

Output == [code: Codes, of: Digests \union {None}]

DescType ==
    [digest: Digests, state: States, aborted: BOOLEAN, output: Output,
     grant_id: Nat, servant_task_id: Nat, keep: 0 .. 1, latch: BOOLEAN,
     task: BOOLEAN]

KeepType ==
    [task: Nat, grant: Nat, since: 0 .. 1,
     status: {"sent", "renewed", "unknown"}]

ServantTask == [digest: Digests, code: {"running", "exited"}]

(* Ids are handed out in order and never again.                               *)
TableTyped ==
    /\ \E n \in 0 .. MaxTasks : Ids = 1 .. n
    /\ tasks \subseteq Ids
    /\ \A t \in Ids : descs[t] \in DescType
    /\ fiber \in [Ids -> Places]
    /\ retries \in [Ids -> 0 .. Retries]
    /\ waiter \in [Ids -> {"none", "latch", "take", "200", "404", "500"}]

ServantTyped ==
    /\ started \in Nat /\ restarts \in Nat
    /\ DOMAIN servant \subseteq 1 .. started
    /\ \A s \in DOMAIN servant : servant[s] \in ServantTask

GrantsTyped ==
    /\ granted \in Nat
    /\ DOMAIN grants \subseteq 0 .. (granted - 1)
    /\ freeing \subseteq 0 .. (granted - 1)
    /\ \A g \in DOMAIN grants : grants[g] \in 0 .. 1

OthersTyped ==
    /\ ServantTyped
    /\ GrantsTyped
    /\ keeping \subseteq KeepType
    /\ running \in [Digests -> Nat]

(* What the place of a fiber says of its task.                                *)
Staged(t) ==
    /\ fiber[t] \in {"cache", "find", "grant"} => descs[t].state = "Pending"
    /\ fiber[t] \in Holding => Live(t) /\ descs[t].grant_id < granted
    /\ fiber[t] \in Asking => descs[t].servant_task_id # NoTask
    /\ descs[t].state = "Done" => fiber[t] = "ended"
    /\ descs[t].latch => descs[t].state = "Done"

Stages == \A t \in Ids : Staged(t)

StageInv == Stages /\ InTableUntilDone

(* A keep-alive under way is for a task that keeps its grant to the end, and  *)
(* what it will report was true when it was renewed, or is older.             *)
KeepingSound ==
    \A k \in keeping :
        /\ k.task \in Ids
        /\ fiber[k.task] \notin {"cache", "find", "grant"}
        /\ descs[k.task].grant_id = k.grant
        /\ k.status = "renewed" /\ k.grant \in DOMAIN grants =>
              grants[k.grant] <= k.since

(* No two fibers hold the same grant: what one gives back, no other uses.     *)
HoldersApart ==
    \A t \in Ids, u \in Ids :
        t # u /\ fiber[t] \in Holding /\ fiber[u] \in Holding =>
            descs[t].grant_id # descs[u].grant_id

Leases ==
    GrantsReturned /\ HoldersApart /\ ConservativeKeepAlive /\ KeepingSound

(* As long as the servant has not restarted, an id it gave us or reported     *)
(* names a task with our digest, or none any more.                            *)
Names(s, d) ==
    s # NoTask => /\ s <= started
                  /\ s \in DOMAIN servant => servant[s].digest = d

ServantNames ==
    restarts = 0 =>
        /\ \A d \in Digests : Names(running[d], d)
        /\ \A t \in Ids : Names(descs[t].servant_task_id, descs[t].digest)

DelegateInv ==
    /\ TableTyped /\ OthersTyped
    /\ Stages /\ InTableUntilDone
    /\ Leases
    /\ ServantNames /\ ResultSound
-----------------------------------------------------------------------------
(* What the steps do to the descriptor of the task they are about.            *)

(* The descriptors but t's stay as they are, and t's keeps its digest.        *)
OnlyDesc(t) ==
    /\ DOMAIN descs' = Ids
    /\ \A u \in Ids \ {t} : descs'[u] = descs[u]
    /\ descs'[t].digest = descs[t].digest
    /\ descs'[t] \in DescType

(* Only the fiber of t moves, to `place'.                                     *)
OnlyFiber(t, place) ==
    /\ DOMAIN fiber' = Ids
    /\ fiber'[t] = place
    /\ \A u \in Ids \ {t} : fiber'[u] = fiber[u]

(* The part of a descriptor that the stages are about.                        *)
Progress(d) == <<d.state, d.grant_id, d.keep, d.servant_task_id, d.latch>>

LEMMA GotoMoves ==
    ASSUME TableTyped, NEW t \in Ids, NEW place, Goto(t, place)
    PROVE  OnlyFiber(t, place)
  BY DEF TableTyped, Goto, OnlyFiber

(* An output from the cache or from the servant.                              *)
LEMMA OutputEdit ==
    ASSUME TableTyped, NEW t \in Ids, NEW o \in Output,
           descs' = [descs EXCEPT ![t].output = o]
    PROVE  /\ OnlyDesc(t) /\ descs'[t].output = o
           /\ Progress(descs'[t]) = Progress(descs[t])
<1>1. descs[t] \in DescType
  BY DEF TableTyped
<1> QED
  BY <1>1 DEF OnlyDesc, Progress, DescType, Ids

LEMMA JoinEdit ==
    ASSUME TableTyped, NEW t \in Ids, NEW s \in Nat, JoinTask(t, s)
    PROVE  /\ OnlyDesc(t) /\ descs'[t].output = descs[t].output
           /\ Progress(descs'[t]) =
                <<"Dispatched", 0, 0, s, descs[t].latch>>
<1>1. descs[t] \in DescType /\ descs' = [descs EXCEPT
          ![t].state = "Dispatched", ![t].grant_id = 0,
          ![t].servant_task_id = s, ![t].keep = 0]
  BY DEF TableTyped, JoinTask
<1> QED
  BY <1>1 DEF OnlyDesc, Progress, DescType, States, Ids

LEMMA GrantEdit ==
    ASSUME TableTyped, granted \in Nat, NEW t \in Ids, GrantArrives(t)
    PROVE  /\ OnlyDesc(t) /\ descs'[t].output = descs[t].output
           /\ Progress(descs'[t]) =
                <<"ReadyToFire", granted, 0, descs[t].servant_task_id,
                  descs[t].latch>>
<1>1. PICK g \in Nat : g = granted
  OBVIOUS
<1>2. descs[t] \in DescType /\ descs' = [descs EXCEPT
          ![t].state = "ReadyToFire", ![t].grant_id = g, ![t].keep = 0]
  BY <1>1 DEF TableTyped, GrantArrives
<1>3. /\ OnlyDesc(t) /\ descs'[t].output = descs[t].output
      /\ Progress(descs'[t]) =
           <<"ReadyToFire", g, 0, descs[t].servant_task_id, descs[t].latch>>
  <2>1. descs'[t] = [descs[t] EXCEPT !.state = "ReadyToFire", !.grant_id = g,
                                     !.keep = 0]
    BY <1>2 DEF Ids
  <2>2. DOMAIN descs' = Ids /\ \A u \in Ids \ {t} : descs'[u] = descs[u]
    BY <1>2 DEF Ids
  <2>3. /\ descs'[t] \in DescType /\ descs'[t].digest = descs[t].digest
        /\ descs'[t].output = descs[t].output
    <3>1. PICK x \in States, k \in 0 .. 1 : x = "ReadyToFire" /\ k = 0
      BY DEF States
    <3>2. PICK d \in DescType : d = descs[t]
      BY <1>2
    <3>3. descs'[t] = [d EXCEPT !.state = x, !.grant_id = g, !.keep = k]
      BY <2>1, <3>1, <3>2
    <3>4. descs'[t] \in DescType
      BY <3>3 DEF DescType
    <3> QED
      BY <1>2, <2>1, <3>4 DEF DescType
  <2>4. Progress(descs'[t]) =
          <<"ReadyToFire", g, 0, descs[t].servant_task_id, descs[t].latch>>
    BY <1>2, <2>1 DEF DescType, Progress
  <2> QED
    BY <2>2, <2>3, <2>4 DEF OnlyDesc
<1> QED
  BY <1>1, <1>3

LEMMA SubmitEdit ==
    ASSUME TableTyped, started \in Nat, NEW t \in Ids, SubmitSucceeds(t)
    PROVE  /\ OnlyDesc(t) /\ descs'[t].output = descs[t].output
           /\ Progress(descs'[t]) =
                <<"Dispatched", descs[t].grant_id, descs[t].keep, started + 1,
                  descs[t].latch>>
<1>1. descs[t] \in DescType /\ started + 1 \in Nat
      /\ descs' = [descs EXCEPT ![t].state = "Dispatched",
                                ![t].servant_task_id = started + 1]
  BY DEF TableTyped, SubmitSucceeds
<1> QED
  BY <1>1 DEF OnlyDesc, Progress, DescType, States, Ids

LEMMA CompleteEdit ==
    ASSUME TableTyped, NEW t \in Ids, Complete(t)
    PROVE  /\ OnlyDesc(t) /\ descs'[t].output = descs[t].output
           /\ Progress(descs'[t]) =
                <<"Done", descs[t].grant_id, descs[t].keep,
                  descs[t].servant_task_id, TRUE>>
<1>1. descs[t] \in DescType
      /\ descs' = [descs EXCEPT ![t].state = "Done", ![t].latch = TRUE]
  BY DEF TableTyped, Complete, Completed
<1> QED
  BY <1>1 DEF OnlyDesc, Progress, DescType, States, Ids

LEMMA TakeEdit ==
    ASSUME TableTyped, NEW t \in Ids, WaiterTakes(t)
    PROVE  /\ OnlyDesc(t) /\ descs'[t].output = descs[t].output
           /\ Progress(descs'[t]) = Progress(descs[t])
<1>1. descs[t] \in DescType /\ descs' = [descs EXCEPT ![t].task = FALSE]
  BY DEF TableTyped, WaiterTakes
<1> QED
  BY <1>1 DEF OnlyDesc, Progress, DescType, Ids

(* The timers set `aborted' and nothing else.                                 *)
LEMMA AbortEdit ==
    ASSUME TableTyped, NEW ts, descs' = Abort(ts)
    PROVE  /\ DOMAIN descs' = Ids
           /\ \A u \in Ids : /\ descs'[u] \in DescType
                             /\ descs'[u].digest = descs[u].digest
                             /\ descs'[u].output = descs[u].output
                             /\ Progress(descs'[u]) = Progress(descs[u])
<1>1. \A u \in Ids : /\ descs[u] \in DescType
                     /\ descs'[u] = [descs[u] EXCEPT !.aborted = @ \/ u \in ts]
  BY DEF TableTyped, Abort
<1>2. DOMAIN descs' = Ids
  BY DEF Abort
<1>3. ASSUME NEW d \in DescType, NEW b \in BOOLEAN
      PROVE  /\ [d EXCEPT !.aborted = b] \in DescType
             /\ [d EXCEPT !.aborted = b].digest = d.digest
             /\ [d EXCEPT !.aborted = b].output = d.output
             /\ Progress([d EXCEPT !.aborted = b]) = Progress(d)
  BY DEF DescType, Progress
<1>4. \A u \in Ids : \E b \in BOOLEAN :
          descs'[u] = [descs[u] EXCEPT !.aborted = b]
  <2> TAKE u \in Ids
  <2>1. (descs[u].aborted \/ u \in ts) \in BOOLEAN
    OBVIOUS
  <2> QED
    BY <1>1, <2>1, Zenon
<1>5. ASSUME NEW u \in Ids
      PROVE  /\ descs'[u] \in DescType
             /\ descs'[u].digest = descs[u].digest
             /\ descs'[u].output = descs[u].output
             /\ Progress(descs'[u]) = Progress(descs[u])
  <2>1. PICK b \in BOOLEAN : descs'[u] = [descs[u] EXCEPT !.aborted = b]
    BY <1>4
  <2> QED
    BY <1>1, <1>3, <2>1, Zenon
<1> QED
  BY <1>2, <1>5
(* A new task has the next id, and what was there stays as it was.            *)
LEMMA QueueAdds ==
    ASSUME TableTyped, NEW d \in Digests, QueueDistributedTask(d)
    PROVE  \E n \in Nat :
               /\ n \notin Ids /\ n \in 1 .. MaxTasks
               /\ Ids = 1 .. (n - 1)
               /\ DOMAIN descs' = Ids \union {n}
               /\ tasks' = tasks \union {n}
               /\ descs'[n] = NewTaskDesc(d)
               /\ fiber'[n] = "cache"
               /\ \A u \in Ids : descs'[u] = descs[u] /\ fiber'[u] = fiber[u]
               /\ fiber' \in [Ids \union {n} -> Places]
               /\ retries' \in [Ids \union {n} -> 0 .. Retries]
               /\ waiter' \in [Ids \union {n} ->
                                  {"none", "latch", "take", "200", "404", "500"}]
<1>1. PICK m \in 0 .. MaxTasks : Ids = 1 .. m
  BY DEF TableTyped
<1>2. Cardinality(Ids) = m
  BY <1>1, FS_Interval
<1>3. PICK n \in Nat : n = Cardinality(Ids) + 1 /\ n = m + 1
  BY <1>2
<1>4. n \notin Ids /\ Ids = 1 .. (n - 1) /\ n \in 1 .. MaxTasks
  BY <1>1, <1>2, <1>3, DelegateAssumption DEF QueueDistributedTask
<1> DEFINE Add(f, v) == [i \in Ids \union {n} |-> IF i = n THEN v ELSE f[i]]
<1>5. /\ descs' = Add(descs, NewTaskDesc(d)) /\ tasks' = tasks \union {n}
      /\ fiber' = Add(fiber, "cache") /\ retries' = Add(retries, Retries)
      /\ waiter' = Add(waiter, "none")
  BY <1>3 DEF QueueDistributedTask
<1>6. /\ DOMAIN descs' = Ids \union {n} /\ descs'[n] = NewTaskDesc(d)
      /\ \A u \in Ids : descs'[u] = descs[u]
  BY <1>4, <1>5
<1>7. /\ fiber'[n] = "cache" /\ \A u \in Ids : fiber'[u] = fiber[u]
      /\ fiber' \in [Ids \union {n} -> Places]
  BY <1>4, <1>5 DEF TableTyped, Places
<1>8. retries' \in [Ids \union {n} -> 0 .. Retries]
  BY <1>5, DelegateAssumption DEF TableTyped
<1>9. waiter' \in [Ids \union {n} ->
                      {"none", "latch", "take", "200", "404", "500"}]
  BY <1>5 DEF TableTyped
<1> QED
  BY <1>4, <1>5, <1>6, <1>7, <1>8, <1>9

LEMMA NewDescTyped ==
    ASSUME NEW d \in Digests
    PROVE  NewTaskDesc(d) \in DescType
<1>1. Failure("unset") \in Output
  BY DEF Failure, Output, Codes
<1> QED
  BY <1>1 DEF NewTaskDesc, DescType, States, NoTask

(* The servant's next task.                                                   *)
LEMMA AcceptAdds ==
    ASSUME OthersTyped, NEW d \in Digests, Accept(d)
    PROVE  /\ started' = started + 1
           /\ started + 1 \notin DOMAIN servant
           /\ DOMAIN servant' = DOMAIN servant \union {started + 1}
           /\ servant'[started + 1] \in ServantTask
           /\ servant'[started + 1].digest = d
           /\ \A s \in DOMAIN servant : servant'[s] = servant[s]
<1>1. started + 1 \notin DOMAIN servant
  BY DEF OthersTyped, ServantTyped, GrantsTyped
<1>2. /\ DOMAIN servant' = DOMAIN servant \union {started + 1}
      /\ servant'[started + 1] = [digest |-> d, code |-> "running"]
      /\ \A s \in DOMAIN servant : servant'[s] = servant[s]
  BY <1>1 DEF Accept
<1> QED
  BY <1>1, <1>2 DEF Accept, ServantTask

(* What the servant answers to a poll.                                        *)
LEMMA AnswerTyped ==
    ASSUME TableTyped, OthersTyped, NEW t \in Ids, ~StillRunning(t),
           NEW o \in WaitServantForTask(t)
    PROVE  /\ o \in Output
           /\ \/ o.of = None
              \/ /\ descs[t].servant_task_id \in DOMAIN servant
                 /\ o.of = servant[descs[t].servant_task_id].digest
<1> DEFINE s == descs[t].servant_task_id
<1>1. Failure("wait") \in Output /\ Failure("wait").of = None
  BY DEF Failure, Output, Codes
<1>2. CASE s \notin DOMAIN servant
  <2>1. o = Failure("wait")
    BY <1>2 DEF WaitServantForTask, WaitForCompilationOutput
  <2> QED
    BY <1>1, <2>1
<1>3. CASE s \in DOMAIN servant
  <2>1. \/ o = Failure("wait")
        \/ o = [code |-> "exited", of |-> servant[s].digest]
    BY <1>3 DEF WaitServantForTask, WaitForCompilationOutput, StillRunning
  <2>2. [code |-> "exited", of |-> servant[s].digest] \in Output
    BY <1>3 DEF OthersTyped, ServantTyped, ServantTask, Output, Codes
  <2> QED
    BY <1>1, <1>3, <2>1, <2>2
<1> QED
  BY <1>2, <1>3
(* The keep-alive's answer and the clock change `keep' and nothing else.      *)
Standing(d) == <<d.state, d.grant_id, d.servant_task_id, d.latch>>

KeepOnly ==
    /\ DOMAIN descs' = Ids
    /\ \A u \in Ids : /\ descs'[u] \in DescType
                      /\ descs'[u].digest = descs[u].digest
                      /\ descs'[u].output = descs[u].output
                      /\ Standing(descs'[u]) = Standing(descs[u])

LEMMA AnswerEdit ==
    ASSUME TableTyped, OthersTyped, KeepAliveAnswered
    PROVE  /\ KeepOnly
           /\ \A u \in Ids :
                 \/ descs'[u].keep = descs[u].keep
                 \/ \E k \in keeping : /\ k.status = "renewed" /\ k.task = u
                                       /\ descs'[u].keep = k.since
<1> DEFINE renewed == {k \in keeping : k.status = "renewed" /\ k.task \in tasks}
<1>1. DOMAIN descs' = Ids
  BY DEF KeepAliveAnswered
<1>2. ASSUME NEW u \in Ids
      PROVE  /\ descs'[u] \in DescType
             /\ descs'[u].digest = descs[u].digest
             /\ descs'[u].output = descs[u].output
             /\ Standing(descs'[u]) = Standing(descs[u])
             /\ \/ descs'[u].keep = descs[u].keep
                \/ \E k \in keeping : /\ k.status = "renewed" /\ k.task = u
                                      /\ descs'[u].keep = k.since
  <2>1. descs[u] \in DescType
    BY DEF TableTyped
  <2>2. CASE \E k \in renewed : k.task = u
    <3>1. PICK k \in renewed :
              k.task = u /\ k = CHOOSE j \in renewed : j.task = u
      BY <2>2
    <3>2. descs'[u] = [descs[u] EXCEPT !.keep = k.since]
      <4>1. descs'[u] = [descs[u] EXCEPT !.keep =
                LastKeepAlive(CHOOSE j \in renewed : j.task = u)]
        BY <2>2, Zenon DEF KeepAliveAnswered
      <4> QED
        BY <3>1, <4>1 DEF LastKeepAlive
    <3>3. k.since \in 0 .. 1
      BY DEF OthersTyped, KeepType
    <3>4. /\ descs'[u] \in DescType
          /\ descs'[u].keep = k.since
          /\ descs'[u].digest = descs[u].digest
          /\ descs'[u].output = descs[u].output
          /\ Standing(descs'[u]) = Standing(descs[u])
      <4>1. PICK j \in 0 .. 1 : j = k.since
        BY <3>3
      <4> QED
        BY <2>1, <3>2, <4>1 DEF DescType, Standing
    <3> QED
      BY <3>1, <3>4
  <2>3. CASE ~\E k \in renewed : k.task = u
    <3>1. descs'[u] = descs[u]
      BY <2>3, Zenon DEF KeepAliveAnswered
    <3> QED
      BY <2>1, <3>1
  <2> QED
    BY <2>2, <2>3
<1> QED
  BY <1>1, <1>2 DEF KeepOnly

LEMMA TickEdit ==
    ASSUME TableTyped, Tick
    PROVE  /\ KeepOnly
           /\ \A u \in Ids : Live(u) => descs'[u].keep = 1
<1>1. DOMAIN descs' = Ids
  BY DEF Tick
<1>2. ASSUME NEW u \in Ids
      PROVE  /\ descs'[u] \in DescType
             /\ descs'[u].digest = descs[u].digest
             /\ descs'[u].output = descs[u].output
             /\ Standing(descs'[u]) = Standing(descs[u])
             /\ Live(u) => descs'[u].keep = 1
  <2>1. descs[u] \in DescType
    BY DEF TableTyped
  <2>2. CASE Live(u)
    <3>1. descs'[u] = [descs[u] EXCEPT !.keep = 1]
      BY <2>2 DEF Tick
    <3> QED
      BY <2>1, <3>1 DEF DescType, Standing
  <2>3. CASE ~Live(u)
    <3>1. descs'[u] = descs[u]
      BY <2>3 DEF Tick
    <3> QED
      BY <2>1, <2>3, <3>1
  <2> QED
    BY <2>2, <2>3
<1> QED
  BY <1>1, <1>2 DEF KeepOnly

-----------------------------------------------------------------------------
(* Types.                                                                     *)

(* The fiber's outputs are outputs.                                           *)
LEMMA FiberOutputs ==
    ASSUME TableTyped, OthersTyped, NEW t \in Ids
    PROVE  /\ \A c \in {"exited", "malformed"} : CacheHit(t, c) =>
                /\ OnlyDesc(t)
                /\ descs'[t].output = [code |-> c, of |-> descs[t].digest]
                /\ Progress(descs'[t]) = Progress(descs[t])
           /\ CacheMiss(t) =>
                /\ OnlyDesc(t)
                /\ descs'[t].output = Failure("rpc")
                /\ Progress(descs'[t]) = Progress(descs[t])
           /\ ServantAnswers(t) =>
                /\ OnlyDesc(t)
                /\ \/ descs'[t].output.of = None
                   \/ /\ descs[t].servant_task_id \in DOMAIN servant
                      /\ descs'[t].output.of =
                            servant[descs[t].servant_task_id].digest
                /\ Progress(descs'[t]) = Progress(descs[t])
<1>1. ASSUME NEW c \in {"exited", "malformed"}, CacheHit(t, c)
      PROVE  /\ OnlyDesc(t)
             /\ descs'[t].output = [code |-> c, of |-> descs[t].digest]
             /\ Progress(descs'[t]) = Progress(descs[t])
  <2>1. descs[t].digest \in Digests
    BY DEF TableTyped, DescType
  <2>2. PICK o \in Output : o = [code |-> c, of |-> descs[t].digest]
    BY <2>1 DEF Output, Codes
  <2> QED
    BY <1>1, <2>2, OutputEdit DEF CacheHit
<1>2. ASSUME CacheMiss(t)
      PROVE  /\ OnlyDesc(t)
             /\ descs'[t].output = Failure("rpc")
             /\ Progress(descs'[t]) = Progress(descs[t])
  <2>1. Failure("rpc") \in Output
    BY DEF Failure, Output, Codes
  <2> QED
    BY <1>2, <2>1, OutputEdit DEF CacheMiss
<1>3. ASSUME ServantAnswers(t)
      PROVE  /\ OnlyDesc(t)
             /\ \/ descs'[t].output.of = None
                \/ /\ descs[t].servant_task_id \in DOMAIN servant
                   /\ descs'[t].output.of =
                         servant[descs[t].servant_task_id].digest
             /\ Progress(descs'[t]) = Progress(descs[t])
  <2>1. PICK o \in WaitServantForTask(t) : descs' = [descs EXCEPT ![t].output = o]
    BY <1>3 DEF ServantAnswers
  <2>2. ~StillRunning(t)
    BY <1>3 DEF ServantAnswers
  <2>3. /\ o \in Output
        /\ \/ o.of = None
           \/ /\ descs[t].servant_task_id \in DOMAIN servant
              /\ o.of = servant[descs[t].servant_task_id].digest
    BY <2>2, AnswerTyped
  <2> QED
    BY <2>1, <2>3, OutputEdit
<1> QED
  BY <1>1, <1>2, <1>3

(* Where each step of a fiber leads.                                          *)
LEMMA FiberPlaces ==
    ASSUME TableTyped, NEW t \in Ids, PerformOneTask(t)
    PROVE  fiber' \in [Ids -> Places] /\ retries' \in [Ids -> 0 .. Retries]
<1>1. \/ UNCHANGED fiber
      \/ \E place \in Places : Goto(t, place)
  <2>1. AfterLoop(t) \in Places
    BY DEF AfterLoop, Places, Holding
  <2>2. {"find", "grant", "joined", "submit", "started", "free_grant",
         "complete", "ended"} \subseteq Places
    BY DEF Places, Holding, Asking
  <2>3. CASE ReadCache(t) \/ FindRunning(t) \/ AbortedBeforeGrant(t)
             \/ GrantArrives(t)
    BY <2>2, <2>3
    DEF ReadCache, CacheHit, CacheMiss, FindRunning, NotRunning, JoinTask,
        JoinFails, AbortedBeforeGrant, GrantArrives
  <2>4. CASE Submit(t) \/ GiveBack(t) \/ Complete(t)
    BY <2>2, <2>4
    DEF Submit, SubmitSucceeds, SubmitFails, GiveBack, FreeServantTask,
        FreeJoinedTask, FreeGrant, Complete
  <2>5. CASE Poll(t)
    BY <2>1, <2>5 DEF Poll, ServantRunning, PollFails, ServantAnswers, GivesUp
  <2> QED
    BY <2>3, <2>4, <2>5 DEF PerformOneTask
<1>2. fiber' \in [Ids -> Places]
  BY <1>1 DEF TableTyped, Goto
<1>3. CASE UNCHANGED retries
  BY <1>2, <1>3 DEF TableTyped
<1>4. CASE ServantRunning(t) \/ PollFails(t)
  BY <1>2, <1>4, DelegateAssumption DEF TableTyped, ServantRunning, PollFails
<1>5. CASE ReadCache(t) \/ FindRunning(t) \/ AbortedBeforeGrant(t)
             \/ GrantArrives(t)
  BY <1>2, <1>3, <1>5
  DEF ReadCache, CacheHit, CacheMiss, FindRunning, NotRunning, JoinTask,
      JoinFails, AbortedBeforeGrant, GrantArrives
<1>6. CASE Submit(t) \/ GiveBack(t) \/ Complete(t)
  BY <1>2, <1>3, <1>6
  DEF Submit, SubmitSucceeds, SubmitFails, GiveBack, FreeServantTask,
      FreeJoinedTask, FreeGrant, Complete
<1>7. CASE Poll(t)
  BY <1>2, <1>3, <1>4, <1>7 DEF Poll, ServantAnswers, GivesUp
<1> QED
  BY <1>5, <1>6, <1>7 DEF PerformOneTask

(* Every step keeps the types of the table and of the fibers.                 *)
LEMMA TableStep ==
    ASSUME TableTyped, OthersTyped, [Next]_vars
    PROVE  TableTyped'
<1> DEFINE Waits == {"none", "latch", "take", "200", "404", "500"}
<1>a. ASSUME DOMAIN descs' = Ids, \A u \in Ids : descs'[u] \in DescType,
             tasks' \subseteq tasks, fiber' \in [Ids -> Places],
             retries' \in [Ids -> 0 .. Retries], waiter' \in [Ids -> Waits]
      PROVE  TableTyped'
  BY <1>a DEF TableTyped, Ids
<1>b. UNCHANGED descs => DOMAIN descs' = Ids /\ \A u \in Ids : descs'[u] \in DescType
  BY DEF TableTyped, Ids
<1>c. /\ UNCHANGED fiber => fiber' \in [Ids -> Places]
      /\ UNCHANGED retries => retries' \in [Ids -> 0 .. Retries]
      /\ UNCHANGED waiter => waiter' \in [Ids -> Waits]
  BY DEF TableTyped
<1>d. \A t \in Ids : OnlyDesc(t) =>
        DOMAIN descs' = Ids /\ \A u \in Ids : descs'[u] \in DescType
  BY DEF OnlyDesc, TableTyped
<1>e. started \in Nat /\ granted \in Nat
  BY DEF OthersTyped, ServantTyped, GrantsTyped
<1>1. ASSUME NEW d \in Digests, SubmitCxxTask(d) PROVE TableTyped'
  <2>1. PICK n \in Nat :
            /\ n \notin Ids /\ n \in 1 .. MaxTasks
            /\ Ids = 1 .. (n - 1)
            /\ DOMAIN descs' = Ids \union {n}
            /\ tasks' = tasks \union {n}
            /\ descs'[n] = NewTaskDesc(d)
            /\ \A u \in Ids : descs'[u] = descs[u]
            /\ fiber' \in [Ids \union {n} -> Places]
            /\ retries' \in [Ids \union {n} -> 0 .. Retries]
            /\ waiter' \in [Ids \union {n} -> Waits]
    BY <1>1, QueueAdds DEF SubmitCxxTask
  <2>2. DOMAIN descs' = 1 .. n /\ n \in 0 .. MaxTasks
    BY <2>1
  <2>3. \A u \in DOMAIN descs' : descs'[u] \in DescType
    BY <2>1, NewDescTyped DEF TableTyped
  <2> QED
    BY <2>1, <2>2, <2>3 DEF TableTyped, Ids
<1>2. ASSUME NEW t \in Ids, PerformOneTask(t) PROVE TableTyped'
  <2>1. fiber' \in [Ids -> Places] /\ retries' \in [Ids -> 0 .. Retries]
    BY <1>2, FiberPlaces
  <2>2. CASE ReadCache(t)
    BY <1>a, <1>c, <1>d, <2>1, <2>2, FiberOutputs
    DEF ReadCache, CacheHit, CacheMiss
  <2>3. CASE FindRunning(t)
    <3>1. \A s \in 1 .. MaxServantTasks : JoinTask(t, s) => OnlyDesc(t)
      BY JoinEdit
    <3> QED
      BY <1>a, <1>b, <1>c, <1>d, <2>1, <2>3, <3>1
      DEF FindRunning, NotRunning, JoinTask, JoinFails, tableVars
  <2>4. CASE AbortedBeforeGrant(t) \/ GrantArrives(t)
    BY <1>a, <1>b, <1>c, <1>d, <1>e, <2>1, <2>4, GrantEdit
    DEF AbortedBeforeGrant, GrantArrives, tableVars
  <2>5. CASE Submit(t)
    BY <1>a, <1>b, <1>c, <1>d, <1>e, <2>1, <2>5, SubmitEdit
    DEF Submit, SubmitSucceeds, SubmitFails, tableVars
  <2>6. CASE Poll(t)
    BY <1>a, <1>b, <1>c, <1>d, <2>1, <2>6, FiberOutputs
    DEF Poll, ServantRunning, PollFails, ServantAnswers, GivesUp, tableVars
  <2>7. CASE GiveBack(t)
    BY <1>a, <1>b, <1>c, <2>1, <2>7
    DEF GiveBack, FreeServantTask, FreeJoinedTask, FreeGrant, tableVars
  <2>8. CASE Complete(t)
    BY <1>a, <1>c, <1>d, <2>1, <2>8, CompleteEdit DEF Complete
  <2> QED
    BY <1>2, <2>2, <2>3, <2>4, <2>5, <2>6, <2>7, <2>8 DEF PerformOneTask
<1>3. ASSUME NEW t \in Ids, WaitForTask(t) PROVE TableTyped'
  <2>1. fiber' = fiber /\ retries' = retries
    BY <1>3
    DEF WaitForTask, WaitForDistributedTask, WaitTimesOut, WaiterErases,
        WaiterTakes, fiberVars
  <2>2. waiter' \in [Ids -> Waits]
    BY <1>3
    DEF WaitForTask, WaitForDistributedTask, WaitTimesOut, WaiterErases,
        WaiterTakes, RebuildOutput, TableTyped
  <2>3. CASE WaitForDistributedTask(t) \/ WaitTimesOut(t) \/ WaiterErases(t)
    BY <1>a, <1>b, <1>c, <2>1, <2>2, <2>3
    DEF WaitForDistributedTask, WaitTimesOut, WaiterErases, tableVars
  <2>4. CASE WaiterTakes(t)
    BY <1>a, <1>c, <1>d, <2>1, <2>2, <2>4, TakeEdit DEF WaiterTakes
  <2> QED
    BY <1>3, <2>3, <2>4 DEF WaitForTask
<1>4. ASSUME NEW ts \in SUBSET tasks,
             OnAbortTimer(ts) \/ OnKillOrphanTimer(ts) \/ OnKeepAliveTimer(ts)
      PROVE  TableTyped'
  <2>1. /\ descs' = Abort(ts)
        /\ UNCHANGED <<tasks, fiber, retries, waiter>>
    BY <1>4 DEF OnAbortTimer, OnKillOrphanTimer, OnKeepAliveTimer, fiberVars
  <2> QED
    BY <1>a, <1>c, <2>1, AbortEdit
<1>5. ASSUME NEW ts \in SUBSET tasks, OnCleanupTimer(ts) PROVE TableTyped'
  BY <1>a, <1>b, <1>c, <1>5 DEF OnCleanupTimer, fiberVars
<1>6. ASSUME KeepAliveAnswered PROVE TableTyped'
  BY <1>a, <1>c, <1>6, AnswerEdit DEF KeepAliveAnswered, KeepOnly, fiberVars
<1>7. ASSUME Tick PROVE TableTyped'
  BY <1>a, <1>c, <1>7, TickEdit DEF Tick, KeepOnly, fiberVars
<1>8. ASSUME UNCHANGED <<tasks, descs, fiber, retries, waiter>> PROVE TableTyped'
  BY <1>a, <1>b, <1>c, <1>8
<1>9. ASSUME \/ SchedulerRenews \/ KeepAliveFails \/ Stop
             \/ Refresh \/ RefreshFails \/ ServantRestarts
      PROVE  TableTyped'
  BY <1>8, <1>9
  DEF SchedulerRenews, KeepAliveFails, Stop, Refresh, RefreshFails,
      ServantRestarts, tableVars, fiberVars
<1>10. ASSUME NEW d \in Digests, OtherDelegateStarts(d) PROVE TableTyped'
  BY <1>8, <1>10 DEF OtherDelegateStarts, tableVars, fiberVars
<1>11. ASSUME NEW s \in DOMAIN servant, ServantForgets(s) \/ ServantFinishes(s)
       PROVE  TableTyped'
  BY <1>8, <1>11 DEF ServantForgets, ServantFinishes, tableVars, fiberVars
<1>12. ASSUME NEW g \in DOMAIN grants, GrantExpires(g) PROVE TableTyped'
  BY <1>8, <1>12 DEF GrantExpires, tableVars, fiberVars
<1>13. ASSUME NEW g \in freeing, FreeArrives(g) PROVE TableTyped'
  BY <1>8, <1>13 DEF FreeArrives, tableVars, fiberVars
<1>14. ASSUME UNCHANGED vars PROVE TableTyped'
  BY <1>8, <1>14 DEF vars
<1> QED
  BY <1>1, <1>2, <1>3, <1>4, <1>5, <1>6, <1>7, <1>9, <1>10, <1>11, <1>12,
     <1>13, <1>14
  DEF Next

(* Every step keeps the types of what is shared with the timers, the servant  *)
(* and the scheduler.                                                         *)
LEMMA OthersStep ==
    ASSUME TableTyped, OthersTyped, StageInv, [Next]_vars
    PROVE  OthersTyped'
<1>a. /\ UNCHANGED servantVars => ServantTyped'
      /\ UNCHANGED <<servant, started, restarts>> => ServantTyped'
      /\ UNCHANGED grantVars => GrantsTyped'
      /\ UNCHANGED keeping => keeping' \subseteq KeepType
      /\ UNCHANGED running => running' \in [Digests -> Nat]
  BY DEF OthersTyped, ServantTyped, GrantsTyped, servantVars, grantVars
<1>b. ASSUME NEW d \in Digests, Accept(d), UNCHANGED restarts
      PROVE  ServantTyped'
  <2>1. started \in Nat /\ restarts \in Nat /\ DOMAIN servant \subseteq 1 .. started
    BY DEF OthersTyped, ServantTyped
  <2>2. DOMAIN servant' \subseteq 1 .. started' /\ started' \in Nat
    BY <1>b, <2>1, AcceptAdds
  <2>3. \A s \in DOMAIN servant' : servant'[s] \in ServantTask
    BY <1>b, AcceptAdds DEF OthersTyped, ServantTyped
  <2> QED
    BY <1>b, <2>1, <2>2, <2>3 DEF ServantTyped
<1>c. ASSUME NEW S \in SUBSET DOMAIN servant, servant' = [i \in S |-> servant[i]],
             UNCHANGED <<started, restarts>>
      PROVE  ServantTyped'
  BY <1>c DEF OthersTyped, ServantTyped
<1>d. ASSUME NEW S \in SUBSET DOMAIN grants, grants' = [g \in S |-> grants[g]],
             freeing' \subseteq freeing, UNCHANGED granted
      PROVE  GrantsTyped'
  BY <1>d DEF OthersTyped, GrantsTyped
<1>e. \A t \in Ids : descs[t].digest \in Digests
  BY DEF TableTyped, DescType
<1>1. ASSUME NEW d \in Digests, SubmitCxxTask(d) PROVE OthersTyped'
  BY <1>a, <1>1 DEF SubmitCxxTask, QueueDistributedTask, OthersTyped
<1>2. ASSUME NEW t \in Ids, PerformOneTask(t) PROVE OthersTyped'
  <2>1. CASE ReadCache(t) \/ FindRunning(t) \/ AbortedBeforeGrant(t)
             \/ Poll(t) \/ Complete(t)
    BY <1>a, <2>1
    DEF ReadCache, CacheHit, CacheMiss, FindRunning, NotRunning, JoinTask,
        JoinFails, AbortedBeforeGrant, Poll, ServantRunning, PollFails,
        ServantAnswers, GivesUp, Complete, OthersTyped
  <2>2. CASE GrantArrives(t)
    <3>1. /\ granted \in Nat /\ granted' = granted + 1
          /\ DOMAIN grants' = DOMAIN grants \union {granted}
          /\ \A g \in DOMAIN grants' : g = granted \/ grants'[g] = grants[g]
          /\ grants'[granted] = 0
          /\ UNCHANGED freeing
      BY <2>2 DEF GrantArrives, OthersTyped, GrantsTyped
    <3>2. GrantsTyped'
      BY <3>1 DEF OthersTyped, GrantsTyped
    <3> QED
      BY <1>a, <2>2, <3>2 DEF GrantArrives, OthersTyped
  <2>3. CASE Submit(t)
    <3>1. ServantTyped'
      BY <1>a, <1>b, <1>e, <2>3 DEF Submit, SubmitSucceeds, SubmitFails
    <3> QED
      BY <1>a, <2>3, <3>1 DEF Submit, SubmitSucceeds, SubmitFails, OthersTyped
  <2>4. CASE FreeServantTask(t) \/ FreeJoinedTask(t)
    <3>1. PICK s : FreeCall(s)
      BY <2>4 DEF FreeServantTask, FreeJoinedTask
    <3>2. UNCHANGED <<started, restarts>>
      BY <2>4 DEF FreeServantTask, FreeJoinedTask
    <3>3. ServantTyped'
      BY <1>a, <1>c, <3>1, <3>2 DEF FreeCall
    <3> QED
      BY <1>a, <2>4, <3>3 DEF FreeServantTask, FreeJoinedTask, OthersTyped
  <2>5. CASE FreeGrant(t)
    <3>1. descs[t].grant_id \in 0 .. (granted - 1)
      <4>1. granted \in Nat /\ descs[t].grant_id \in Nat
        BY DEF OthersTyped, GrantsTyped, TableTyped, DescType
      <4>2. descs[t].grant_id < granted
        BY <2>5 DEF FreeGrant, StageInv, Stages, Staged, Holding
      <4> QED
        BY <4>1, <4>2
    <3>2. GrantsTyped'
      BY <2>5, <3>1 DEF FreeGrant, Free, OthersTyped, GrantsTyped
    <3> QED
      BY <1>a, <2>5, <3>2 DEF FreeGrant, OthersTyped
  <2> QED
    BY <1>2, <2>1, <2>2, <2>3, <2>4, <2>5 DEF PerformOneTask, GiveBack
<1>3. ASSUME NEW t \in Ids, WaitForTask(t) PROVE OthersTyped'
  BY <1>a, <1>3
  DEF WaitForTask, WaitForDistributedTask, WaitTimesOut, WaiterErases,
      WaiterTakes, OthersTyped
<1>4. ASSUME NEW ts \in SUBSET tasks,
             OnAbortTimer(ts) \/ OnKillOrphanTimer(ts) \/ OnCleanupTimer(ts)
      PROVE  OthersTyped'
  BY <1>a, <1>4
  DEF OnAbortTimer, OnKillOrphanTimer, OnCleanupTimer, OthersTyped
<1>5. ASSUME NEW ts \in SUBSET tasks, OnKeepAliveTimer(ts) PROVE OthersTyped'
  <2>1. \A t \in tasks : t \in Nat /\ descs[t].grant_id \in Nat
    BY DEF TableTyped, DescType
  <2>2. keeping' \subseteq KeepType
    BY <1>5, <2>1 DEF OnKeepAliveTimer, ToKeepAlive, KeepType
  <2> QED
    BY <1>a, <1>5, <2>2 DEF OnKeepAliveTimer, OthersTyped
<1>6. ASSUME SchedulerRenews PROVE OthersTyped'
  <2>1. GrantsTyped'
    BY <1>6 DEF SchedulerRenews, OthersTyped, GrantsTyped
  <2>2. keeping' \subseteq KeepType
    BY <1>6 DEF SchedulerRenews, OthersTyped, KeepType
  <2> QED
    BY <1>a, <1>6, <2>1, <2>2 DEF SchedulerRenews, OthersTyped
<1>7. ASSUME KeepAliveAnswered \/ KeepAliveFails \/ Stop PROVE OthersTyped'
  BY <1>a, <1>7 DEF KeepAliveAnswered, KeepAliveFails, Stop, OthersTyped
<1>8. ASSUME Refresh \/ RefreshFails PROVE OthersTyped'
  <2>1. running' \in [Digests -> Nat]
    BY <1>8 DEF Refresh, RefreshFails, OthersTyped, ServantTyped, NoTask
  <2> QED
    BY <1>a, <1>8, <2>1 DEF Refresh, RefreshFails, OthersTyped
<1>9. ASSUME NEW d \in Digests, OtherDelegateStarts(d) PROVE OthersTyped'
  BY <1>a, <1>b, <1>9 DEF OtherDelegateStarts, OthersTyped
<1>10. ASSUME NEW s \in DOMAIN servant, ServantForgets(s) PROVE OthersTyped'
  <2>1. ServantTyped'
    BY <1>c, <1>10 DEF ServantForgets
  <2> QED
    BY <1>a, <1>10, <2>1 DEF ServantForgets, OthersTyped
<1>11. ASSUME NEW s \in DOMAIN servant, ServantFinishes(s) PROVE OthersTyped'
  <2>1. ServantTyped'
    BY <1>11 DEF ServantFinishes, OthersTyped, ServantTyped, ServantTask
  <2> QED
    BY <1>a, <1>11, <2>1 DEF ServantFinishes, OthersTyped
<1>12. ASSUME ServantRestarts PROVE OthersTyped'
  <2>1. ServantTyped'
    BY <1>12 DEF ServantRestarts, OthersTyped, ServantTyped
  <2> QED
    BY <1>a, <1>12, <2>1 DEF ServantRestarts, OthersTyped
<1>13. ASSUME Tick PROVE OthersTyped'
  <2>1. GrantsTyped'
    BY <1>13 DEF Tick, OthersTyped, GrantsTyped
  <2>2. keeping' \subseteq KeepType
    BY <1>13 DEF Tick, OthersTyped, KeepType
  <2> QED
    BY <1>a, <1>13, <2>1, <2>2 DEF Tick, OthersTyped
<1>14. ASSUME NEW g \in DOMAIN grants, GrantExpires(g) PROVE OthersTyped'
  <2>1. GrantsTyped'
    BY <1>d, <1>14 DEF GrantExpires
  <2> QED
    BY <1>a, <1>14, <2>1 DEF GrantExpires, OthersTyped
<1>15. ASSUME NEW g \in freeing, FreeArrives(g) PROVE OthersTyped'
  <2>1. GrantsTyped'
    BY <1>d, <1>15 DEF FreeArrives
  <2> QED
    BY <1>a, <1>15, <2>1 DEF FreeArrives, OthersTyped
<1>16. ASSUME UNCHANGED vars PROVE OthersTyped'
  BY <1>a, <1>16 DEF vars, grantVars, OthersTyped
<1> QED
  BY <1>1, <1>2, <1>3, <1>4, <1>5, <1>6, <1>7, <1>8, <1>9, <1>10, <1>11,
     <1>12, <1>13, <1>14, <1>15, <1>16
  DEF Next

-----------------------------------------------------------------------------
(* Stages.                                                                    *)

(* A task that is left where it was, with its standing, is as it was; the     *)
(* scheduler may have made more grants meanwhile.                             *)
LEMMA StagedKept ==
    ASSUME TableTyped, OthersTyped, NEW u \in Ids, Staged(u),
           fiber'[u] = fiber[u], Standing(descs'[u]) = Standing(descs[u]),
           granted' \in {granted, granted + 1}
    PROVE  Staged(u)'
<1>1. granted \in Nat /\ descs[u].grant_id \in Nat
  BY DEF TableTyped, DescType, OthersTyped, GrantsTyped
<1>2. /\ descs'[u].state = descs[u].state
      /\ descs'[u].grant_id = descs[u].grant_id
      /\ descs'[u].servant_task_id = descs[u].servant_task_id
      /\ descs'[u].latch = descs[u].latch
  BY DEF Standing
<1> QED
  BY <1>1, <1>2 DEF Staged, Live

(* Every step of a fiber leads to a place that fits what it did to its task.  *)
LEMMA FiberStaged ==
    ASSUME TableTyped, OthersTyped, NEW t \in Ids, Staged(t), PerformOneTask(t)
    PROVE  Staged(t)'
<1> DEFINE d == descs[t]
           e == descs'[t]
<1>a. /\ started \in Nat /\ granted \in Nat /\ d.grant_id \in Nat
      /\ granted' = granted => d.grant_id < granted' <=> d.grant_id < granted
  BY DEF TableTyped, DescType, OthersTyped, GrantsTyped, ServantTyped
<1>b. ASSUME Progress(e) = Progress(d)
      PROVE  /\ e.state = d.state /\ e.grant_id = d.grant_id
             /\ e.servant_task_id = d.servant_task_id /\ e.latch = d.latch
  BY <1>b DEF Progress
<1>c. \A place : Goto(t, place) => fiber'[t] = place
  BY GotoMoves DEF OnlyFiber
<1>1. CASE ReadCache(t)
  <2>1. /\ e.state = d.state /\ e.grant_id = d.grant_id
        /\ e.servant_task_id = d.servant_task_id /\ e.latch = d.latch
    BY <1>1, <1>b, FiberOutputs DEF ReadCache
  <2>2. fiber[t] = "cache" /\ fiber'[t] \in {"complete", "find"}
    BY <1>1, <1>c DEF ReadCache, CacheHit, CacheMiss
  <2> QED
    BY <2>1, <2>2 DEF Staged, Live, Holding, Asking
<1>2. CASE \/ NotRunning(t) \/ AbortedBeforeGrant(t)
           \/ \E s \in 1 .. MaxServantTasks : JoinFails(t, s)
  <2>1. /\ UNCHANGED descs
        /\ fiber[t] \in {"find", "grant"} /\ fiber'[t] \in {"grant", "complete"}
    BY <1>2, <1>c DEF NotRunning, AbortedBeforeGrant, JoinFails, tableVars
  <2> QED
    BY <2>1 DEF Staged, Live, Holding, Asking
<1>3. ASSUME NEW s \in 1 .. MaxServantTasks, JoinTask(t, s) PROVE Staged(t)'
  <2>1. /\ e.state = "Dispatched" /\ e.servant_task_id = s /\ e.latch = d.latch
    BY <1>3, JoinEdit DEF Progress
  <2>2. fiber[t] = "find" /\ fiber'[t] = "joined"
    BY <1>3, <1>c DEF JoinTask
  <2> QED
    BY <2>1, <2>2 DEF Staged, Live, Holding, Asking, NoTask
<1>4. CASE GrantArrives(t)
  <2>1. /\ e.state = "ReadyToFire" /\ e.grant_id = granted /\ e.latch = d.latch
    BY <1>4, <1>a, GrantEdit DEF Progress
  <2>2. fiber[t] = "grant" /\ fiber'[t] = "submit" /\ granted' = granted + 1
    BY <1>4, <1>c DEF GrantArrives
  <2> QED
    BY <1>a, <2>1, <2>2 DEF Staged, Live, Holding, Asking
<1>5. CASE SubmitSucceeds(t)
  <2>1. /\ e.state = "Dispatched" /\ e.grant_id = d.grant_id
        /\ e.servant_task_id = started + 1 /\ e.latch = d.latch
    BY <1>5, <1>a, SubmitEdit DEF Progress
  <2>2. fiber[t] = "submit" /\ fiber'[t] = "started" /\ granted' = granted
    BY <1>5, <1>c DEF SubmitSucceeds, grantVars
  <2>3. started + 1 # NoTask
    BY <1>a DEF NoTask
  <2> QED
    BY <1>a, <2>1, <2>2, <2>3 DEF Staged, Live, Holding, Asking
<1>6. CASE SubmitFails(t)
  <2>1. /\ UNCHANGED <<descs, granted>>
        /\ fiber[t] = "submit" /\ fiber'[t] = "free_grant"
    BY <1>6, <1>c DEF SubmitFails, tableVars, grantVars
  <2> QED
    BY <2>1 DEF Staged, Live, Holding, Asking
<1>7. CASE Poll(t)
  <2>1. /\ \/ fiber'[t] = fiber[t]
           \/ fiber[t] = "started" /\ fiber'[t] = "free_servant"
           \/ fiber[t] = "joined" /\ fiber'[t] = "free_joined"
        /\ granted' = granted
    <3>1. CASE ServantRunning(t) \/ PollFails(t)
      BY <3>1 DEF ServantRunning, PollFails, grantVars
    <3>2. CASE ServantAnswers(t) \/ GivesUp(t)
      <4>1. /\ Polling(t) /\ Goto(t, AfterLoop(t)) /\ granted' = granted
        BY <3>2 DEF ServantAnswers, GivesUp, grantVars
      <4>2. fiber'[t] = AfterLoop(t)
        BY <1>c, <4>1
      <4> QED
        BY <4>1, <4>2 DEF AfterLoop, Polling
    <3> QED
      BY <1>7, <3>1, <3>2 DEF Poll
  <2>2. /\ e.state = d.state /\ e.grant_id = d.grant_id
        /\ e.servant_task_id = d.servant_task_id /\ e.latch = d.latch
    <3>1. descs' = descs \/ ServantAnswers(t)
      BY <1>7 DEF Poll, ServantRunning, PollFails, GivesUp, tableVars
    <3> QED
      BY <1>b, <3>1, FiberOutputs
  <2> QED
    BY <2>1, <2>2 DEF Staged, Live, Holding, Asking
<1>8. CASE GiveBack(t)
  <2>1. /\ UNCHANGED <<descs, granted>>
        /\ \/ fiber[t] = "free_servant" /\ fiber'[t] = "free_grant"
           \/ fiber[t] = "free_joined" /\ fiber'[t] = "complete"
           \/ fiber[t] = "free_grant" /\ fiber'[t] = "complete"
    BY <1>8, <1>c
    DEF GiveBack, FreeServantTask, FreeJoinedTask, FreeGrant, tableVars, grantVars
  <2> QED
    BY <2>1 DEF Staged, Live, Holding, Asking
<1>9. CASE Complete(t)
  <2>1. e.state = "Done"
    BY <1>9, CompleteEdit DEF Progress
  <2>2. fiber'[t] = "ended"
    BY <1>9, <1>c DEF Complete
  <2> QED
    BY <2>1, <2>2 DEF Staged, Live, Holding, Asking
<1> QED
  BY <1>1, <1>2, <1>3, <1>4, <1>5, <1>6, <1>7, <1>8, <1>9
  DEF PerformOneTask, FindRunning, Submit

(* A step of one fiber touches no other task, and the table not at all.       *)
LEMMA FiberAlone ==
    ASSUME TableTyped, OthersTyped, NEW t \in Ids, PerformOneTask(t)
    PROVE  /\ DOMAIN descs' = Ids
           /\ \A u \in Ids \ {t} : descs'[u] = descs[u] /\ fiber'[u] = fiber[u]
           /\ descs'[t].digest = descs[t].digest
           /\ granted' \in {granted, granted + 1}
           /\ UNCHANGED <<tasks, waiter, keeping, running, restarts, stopped>>
<1>a. started \in Nat /\ granted \in Nat
  BY DEF OthersTyped, ServantTyped, GrantsTyped
<1>b. UNCHANGED descs \/ OnlyDesc(t)
  <2>1. CASE ReadCache(t)
    BY <2>1, FiberOutputs DEF ReadCache
  <2>2. CASE FindRunning(t)
    BY <2>2, JoinEdit DEF FindRunning, NotRunning, JoinFails, tableVars
  <2>3. CASE AbortedBeforeGrant(t) \/ GrantArrives(t)
    BY <1>a, <2>3, GrantEdit DEF AbortedBeforeGrant, tableVars
  <2>4. CASE Submit(t)
    BY <1>a, <2>4, SubmitEdit DEF Submit, SubmitFails, tableVars
  <2>5. CASE Poll(t)
    BY <2>5, FiberOutputs
    DEF Poll, ServantRunning, PollFails, GivesUp, tableVars
  <2>6. CASE GiveBack(t)
    BY <2>6
    DEF GiveBack, FreeServantTask, FreeJoinedTask, FreeGrant, tableVars
  <2>7. CASE Complete(t)
    BY <2>7, CompleteEdit
  <2> QED
    BY <2>1, <2>2, <2>3, <2>4, <2>5, <2>6, <2>7 DEF PerformOneTask
<1>c. UNCHANGED fiber \/ \E place : Goto(t, place)
  <2>1. CASE ReadCache(t) \/ FindRunning(t) \/ AbortedBeforeGrant(t)
             \/ GrantArrives(t)
    BY <2>1
    DEF ReadCache, CacheHit, CacheMiss, FindRunning, NotRunning, JoinTask,
        JoinFails, AbortedBeforeGrant, GrantArrives
  <2>2. CASE Submit(t) \/ GiveBack(t) \/ Complete(t)
    BY <2>2
    DEF Submit, SubmitSucceeds, SubmitFails, GiveBack, FreeServantTask,
        FreeJoinedTask, FreeGrant, Complete
  <2>3. CASE Poll(t)
    BY <2>3 DEF Poll, ServantRunning, PollFails, ServantAnswers, GivesUp
  <2> QED
    BY <2>1, <2>2, <2>3 DEF PerformOneTask
<1>d. /\ UNCHANGED <<tasks, waiter, keeping, running, restarts, stopped>>
      /\ granted' \in {granted, granted + 1}
  <2>1. CASE ReadCache(t) \/ FindRunning(t) \/ AbortedBeforeGrant(t)
             \/ GrantArrives(t)
    BY <2>1
    DEF ReadCache, CacheHit, CacheMiss, FindRunning, NotRunning, JoinTask,
        JoinFails, AbortedBeforeGrant, GrantArrives, tableVars, grantVars,
        servantVars
  <2>2. CASE Submit(t) \/ GiveBack(t) \/ Complete(t)
    BY <2>2
    DEF Submit, SubmitSucceeds, SubmitFails, GiveBack, FreeServantTask,
        FreeJoinedTask, FreeGrant, Complete, tableVars, grantVars, servantVars
  <2>3. CASE Poll(t)
    BY <2>3
    DEF Poll, ServantRunning, PollFails, ServantAnswers, GivesUp, tableVars,
        grantVars, servantVars
  <2> QED
    BY <2>1, <2>2, <2>3 DEF PerformOneTask
<1>e. \A u \in Ids \ {t} : fiber'[u] = fiber[u]
  BY <1>c, GotoMoves DEF OnlyFiber
<1> QED
  BY <1>b, <1>d, <1>e DEF OnlyDesc, Ids

(* Every step keeps the stages, and drops from the table only what is done.   *)
LEMMA StageStep ==
    ASSUME TableTyped, OthersTyped, StageInv, [Next]_vars
    PROVE  StageInv'
<1>a. ASSUME DOMAIN descs' = Ids,
             \A u \in Ids : /\ fiber'[u] = fiber[u]
                            /\ Standing(descs'[u]) = Standing(descs[u]),
             \A u \in tasks \ tasks' : descs[u].state = "Done",
             granted' = granted
      PROVE  StageInv'
  <2>1. Stages'
    BY <1>a, StagedKept DEF StageInv, Stages, Ids
  <2>2. \A u \in Ids : descs'[u].state = descs[u].state
    BY <1>a DEF Standing
  <2>3. InTableUntilDone'
    BY <1>a, <2>2 DEF StageInv, InTableUntilDone, Ids
  <2> QED
    BY <2>1, <2>3 DEF StageInv
<1>b. UNCHANGED descs => /\ DOMAIN descs' = Ids
                         /\ \A u \in Ids : Standing(descs'[u]) = Standing(descs[u])
  BY DEF Ids
<1>1. ASSUME NEW d \in Digests, SubmitCxxTask(d) PROVE StageInv'
  <2>1. PICK n \in Nat :
            /\ n \notin Ids
            /\ DOMAIN descs' = Ids \union {n}
            /\ tasks' = tasks \union {n}
            /\ descs'[n] = NewTaskDesc(d)
            /\ fiber'[n] = "cache"
            /\ \A u \in Ids : descs'[u] = descs[u] /\ fiber'[u] = fiber[u]
    BY <1>1, QueueAdds DEF SubmitCxxTask
  <2>2. Staged(n)'
    BY <2>1 DEF Staged, NewTaskDesc, Holding, Asking
  <2>3. granted' = granted
    BY <1>1 DEF SubmitCxxTask, QueueDistributedTask, grantVars
  <2>4. \A u \in Ids : Staged(u)'
    BY <2>1, <2>3, StagedKept DEF StageInv, Stages
  <2>5. InTableUntilDone'
    BY <2>1 DEF StageInv, InTableUntilDone, Ids
  <2> QED
    BY <2>1, <2>2, <2>4, <2>5 DEF StageInv, Stages, Ids
<1>2. ASSUME NEW t \in Ids, PerformOneTask(t) PROVE StageInv'
  <2>1. /\ DOMAIN descs' = Ids
        /\ \A u \in Ids \ {t} : descs'[u] = descs[u] /\ fiber'[u] = fiber[u]
        /\ granted' \in {granted, granted + 1} /\ tasks' = tasks
    BY <1>2, FiberAlone
  <2>2. Staged(t) /\ Staged(t)'
    BY <1>2, FiberStaged DEF StageInv, Stages
  <2>3. \A u \in Ids \ {t} : Staged(u)'
    BY <2>1, StagedKept DEF StageInv, Stages
  <2>4. fiber[t] # "ended"
    BY <1>2
    DEF PerformOneTask, ReadCache, CacheHit, CacheMiss, FindRunning, NotRunning,
        JoinTask, JoinFails, AbortedBeforeGrant, GrantArrives, Submit,
        SubmitSucceeds, SubmitFails, Poll, ServantRunning, PollFails,
        ServantAnswers, GivesUp, Polling, GiveBack, FreeServantTask,
        FreeJoinedTask, FreeGrant, Complete
  <2>5. t \in tasks
    BY <2>2, <2>4 DEF StageInv, InTableUntilDone, Staged
  <2>6. InTableUntilDone'
    BY <2>1, <2>5 DEF StageInv, InTableUntilDone, Ids
  <2> QED
    BY <2>1, <2>2, <2>3, <2>6 DEF StageInv, Stages, Ids
<1>3. ASSUME NEW t \in Ids, WaitForTask(t) PROVE StageInv'
  <2>1. /\ UNCHANGED <<fiber, granted>>
        /\ \A u \in tasks \ tasks' : descs[u].latch
    BY <1>3
    DEF WaitForTask, WaitForDistributedTask, WaitTimesOut, WaiterErases,
        WaiterTakes, tableVars, fiberVars, grantVars
  <2>2. \A u \in tasks \ tasks' : descs[u].state = "Done"
    BY <2>1 DEF StageInv, Stages, Staged, TableTyped
  <2>3. /\ DOMAIN descs' = Ids
        /\ \A u \in Ids : Standing(descs'[u]) = Standing(descs[u])
    <3>1. CASE UNCHANGED descs
      BY <1>b, <3>1
    <3>2. CASE WaiterTakes(t)
      BY <3>2, TakeEdit DEF OnlyDesc, Progress, Standing
    <3> QED
      BY <1>3, <3>1, <3>2
      DEF WaitForTask, WaitForDistributedTask, WaitTimesOut, WaiterErases,
          tableVars
  <2> QED
    BY <1>a, <2>1, <2>2, <2>3
<1>4. ASSUME NEW ts \in SUBSET tasks,
             OnAbortTimer(ts) \/ OnKillOrphanTimer(ts) \/ OnKeepAliveTimer(ts)
      PROVE  StageInv'
  <2>1. descs' = Abort(ts) /\ UNCHANGED <<tasks, fiber, granted>>
    BY <1>4
    DEF OnAbortTimer, OnKillOrphanTimer, OnKeepAliveTimer, fiberVars, grantVars
  <2>2. /\ DOMAIN descs' = Ids
        /\ \A u \in Ids : Standing(descs'[u]) = Standing(descs[u])
    BY <2>1, AbortEdit DEF Progress, Standing
  <2> QED
    BY <1>a, <2>1, <2>2
<1>5. ASSUME NEW ts \in SUBSET tasks, OnCleanupTimer(ts) PROVE StageInv'
  BY <1>a, <1>b, <1>5 DEF OnCleanupTimer, DropTask, fiberVars, grantVars
<1>6. ASSUME KeepAliveAnswered PROVE StageInv'
  BY <1>a, <1>6, AnswerEdit DEF KeepAliveAnswered, KeepOnly, fiberVars, grantVars
<1>7. ASSUME Tick PROVE StageInv'
  BY <1>a, <1>7, TickEdit DEF Tick, KeepOnly, fiberVars
<1>8. ASSUME UNCHANGED <<tasks, descs, fiber, granted>> PROVE StageInv'
  BY <1>a, <1>b, <1>8
<1>9. ASSUME \/ SchedulerRenews \/ KeepAliveFails \/ Stop
             \/ Refresh \/ RefreshFails \/ ServantRestarts
      PROVE  StageInv'
  BY <1>8, <1>9
  DEF SchedulerRenews, KeepAliveFails, Stop, Refresh, RefreshFails,
      ServantRestarts, tableVars, fiberVars, grantVars
<1>10. ASSUME NEW d \in Digests, OtherDelegateStarts(d) PROVE StageInv'
  BY <1>8, <1>10 DEF OtherDelegateStarts, tableVars, fiberVars, grantVars
<1>11. ASSUME NEW s \in DOMAIN servant, ServantForgets(s) \/ ServantFinishes(s)
       PROVE  StageInv'
  BY <1>8, <1>11
  DEF ServantForgets, ServantFinishes, tableVars, fiberVars, grantVars
<1>12. ASSUME NEW g \in DOMAIN grants, GrantExpires(g) PROVE StageInv'
  BY <1>8, <1>12 DEF GrantExpires, tableVars, fiberVars
<1>13. ASSUME NEW g \in freeing, FreeArrives(g) PROVE StageInv'
  BY <1>8, <1>13 DEF FreeArrives, tableVars, fiberVars
<1>14. ASSUME UNCHANGED vars PROVE StageInv'
  BY <1>8, <1>14 DEF vars
<1> QED
  BY <1>1, <1>2, <1>3, <1>4, <1>5, <1>6, <1>7, <1>9, <1>10, <1>11, <1>12,
     <1>13, <1>14
  DEF Next

-----------------------------------------------------------------------------
(* Leases.                                                                    *)

Early == {"cache", "find", "grant"}

(* Between the grant's arrival and its return a fiber keeps it; elsewhere it  *)
(* does not come by one.                                                      *)
LEMMA FiberHolds ==
    ASSUME TableTyped, OthersTyped, NEW t \in Ids, PerformOneTask(t),
           ~GrantArrives(t), ~FreeGrant(t)
    PROVE  /\ UNCHANGED <<grants, freeing>>
           /\ fiber[t] \in Holding <=> fiber'[t] \in Holding
           /\ fiber[t] \in Holding \/ fiber[t] \notin Early =>
                /\ descs'[t].grant_id = descs[t].grant_id
                /\ descs'[t].keep = descs[t].keep
                /\ fiber'[t] \notin Early
<1> DEFINE d == descs[t]
           e == descs'[t]
<1>a. started \in Nat
  BY DEF OthersTyped, ServantTyped
<1>b. ASSUME Progress(e) = Progress(d)
      PROVE  e.grant_id = d.grant_id /\ e.keep = d.keep
  BY <1>b DEF Progress
<1>c. \A place : Goto(t, place) => fiber'[t] = place
  BY GotoMoves DEF OnlyFiber
<1>1. CASE ReadCache(t)
  <2>1. /\ UNCHANGED <<grants, freeing>>
        /\ fiber[t] = "cache" /\ fiber'[t] \in {"complete", "find"}
    BY <1>1, <1>c DEF ReadCache, CacheHit, CacheMiss, grantVars
  <2> QED
    BY <2>1 DEF Holding, Early
<1>2. CASE FindRunning(t) \/ AbortedBeforeGrant(t)
  <2>1. /\ UNCHANGED <<grants, freeing>>
        /\ fiber[t] \in {"find", "grant"}
        /\ fiber'[t] \in {"grant", "joined", "complete"}
    BY <1>2, <1>c
    DEF FindRunning, NotRunning, JoinTask, JoinFails, AbortedBeforeGrant, grantVars
  <2> QED
    BY <2>1 DEF Holding, Early
<1>3. CASE SubmitSucceeds(t)
  <2>1. e.grant_id = d.grant_id /\ e.keep = d.keep
    BY <1>3, <1>a, SubmitEdit DEF Progress
  <2>2. UNCHANGED <<grants, freeing>> /\ fiber[t] = "submit" /\ fiber'[t] = "started"
    BY <1>3, <1>c DEF SubmitSucceeds, grantVars
  <2> QED
    BY <2>1, <2>2 DEF Holding, Early
<1>4. CASE SubmitFails(t)
  <2>1. /\ UNCHANGED <<grants, freeing, descs>>
        /\ fiber[t] = "submit" /\ fiber'[t] = "free_grant"
    BY <1>4, <1>c DEF SubmitFails, tableVars, grantVars
  <2> QED
    BY <2>1 DEF Holding, Early
<1>5. CASE ServantRunning(t) \/ PollFails(t)
  BY <1>5
  DEF ServantRunning, PollFails, Polling, tableVars, grantVars, Holding, Early
<1>6. CASE ServantAnswers(t) \/ GivesUp(t)
  <2>1. /\ Polling(t) /\ Goto(t, AfterLoop(t)) /\ UNCHANGED <<grants, freeing>>
    BY <1>6 DEF ServantAnswers, GivesUp, grantVars
  <2>2. fiber'[t] = AfterLoop(t)
    BY <1>c, <2>1
  <2>3. e.grant_id = d.grant_id /\ e.keep = d.keep
    BY <1>6, <1>b, FiberOutputs DEF GivesUp, tableVars
  <2> QED
    BY <2>1, <2>2, <2>3 DEF AfterLoop, Polling, Holding, Early
<1>7. CASE FreeServantTask(t) \/ FreeJoinedTask(t)
  <2>1. /\ UNCHANGED <<grants, freeing, descs>>
        /\ \/ fiber[t] = "free_servant" /\ fiber'[t] = "free_grant"
           \/ fiber[t] = "free_joined" /\ fiber'[t] = "complete"
    BY <1>7, <1>c DEF FreeServantTask, FreeJoinedTask, tableVars, grantVars
  <2> QED
    BY <2>1 DEF Holding, Early
<1>8. CASE Complete(t)
  <2>1. e.grant_id = d.grant_id /\ e.keep = d.keep
    BY <1>8, CompleteEdit DEF Progress
  <2>2. UNCHANGED <<grants, freeing>> /\ fiber[t] = "complete" /\ fiber'[t] = "ended"
    BY <1>8, <1>c DEF Complete, grantVars
  <2> QED
    BY <2>1, <2>2 DEF Holding, Early
<1> QED
  BY <1>1, <1>2, <1>3, <1>4, <1>5, <1>6, <1>7, <1>8
  DEF PerformOneTask, Submit, Poll, GiveBack

(* A holder, the lease it believes in, and the grants that are out.           *)
LEMMA HoldsAt ==
    \A t, g : Holds(t, g) <=> fiber[t] \in Holding /\ descs[t].grant_id = g
  BY DEF Holds, Holding

(* A step that moves no fiber between holding and not holding, and touches    *)
(* neither grants nor what the holders believe, keeps the leases.             *)
LEMMA LeasesKept ==
    ASSUME Leases, Ids \subseteq DOMAIN descs',
           \A u \in Ids :
               /\ fiber[u] \in Holding <=> fiber'[u] \in Holding
               /\ fiber[u] \in Holding \/ fiber[u] \notin Early =>
                    /\ descs'[u].grant_id = descs[u].grant_id
                    /\ descs'[u].keep = descs[u].keep
                    /\ fiber'[u] \notin Early,
           \A u \in DOMAIN descs' \ Ids : fiber'[u] \notin Holding,
           UNCHANGED <<grants, freeing>>, UNCHANGED keeping \/ keeping' = {}
    PROVE  Leases'
<1>1. GrantsReturned'
  BY HoldsAt DEF Leases, GrantsReturned, Holds, Ids, Holding
<1>2. ConservativeKeepAlive'
  BY HoldsAt DEF Leases, ConservativeKeepAlive, Holds, Ids, Holding
<1>3. KeepingSound'
  BY DEF Leases, KeepingSound, Ids, Early
<1>4. HoldersApart'
  BY DEF Leases, HoldersApart, Ids
<1> QED
  BY <1>1, <1>2, <1>3, <1>4 DEF Leases

(* Every step keeps the leases.                                               *)
LEMMA LeaseStep ==
    ASSUME TableTyped, OthersTyped, StageInv, Leases, [Next]_vars
    PROVE  Leases'
<1>a. ASSUME DOMAIN descs' = Ids, UNCHANGED <<fiber, grants, freeing>>,
             \A u \in Ids : /\ descs'[u].grant_id = descs[u].grant_id
                            /\ descs'[u].keep = descs[u].keep,
             UNCHANGED keeping \/ keeping' = {}
      PROVE  Leases'
  <2>1. \A u \in Ids : fiber[u] \in Holding => fiber[u] \notin Early
    BY DEF Holding, Early
  <2> QED
    BY <1>a, <2>1, LeasesKept
<1>b. /\ granted \in Nat /\ DOMAIN grants \subseteq 0 .. (granted - 1)
      /\ freeing \subseteq 0 .. (granted - 1)
      /\ \A g \in DOMAIN grants : grants[g] \in 0 .. 1
      /\ keeping \subseteq KeepType
  BY DEF OthersTyped, GrantsTyped
<1>c. /\ \A u \in Ids : Staged(u)
      /\ \A u \in Ids : descs[u].keep \in 0 .. 1 /\ descs[u].grant_id \in Nat
  BY DEF StageInv, Stages, TableTyped, DescType
<1>d. /\ \A g \in DOMAIN grants :
           g \in freeing \/
           \E t \in Ids : fiber[t] \in Holding /\ descs[t].grant_id = g
      /\ \A t \in Ids : fiber[t] \in Holding => descs[t].grant_id \notin freeing
      /\ HoldersApart
      /\ \A t \in Ids : fiber[t] \in Holding /\ descs[t].grant_id \in DOMAIN grants =>
           grants[descs[t].grant_id] <= descs[t].keep
      /\ KeepingSound
  BY HoldsAt DEF Leases, GrantsReturned, ConservativeKeepAlive
<1>e. ASSUME \A g \in DOMAIN grants' :
                g \in freeing' \/
                \E t \in DOMAIN descs' :
                   fiber'[t] \in Holding /\ descs'[t].grant_id = g,
             \A t \in DOMAIN descs' :
                fiber'[t] \in Holding => descs'[t].grant_id \notin freeing',
             HoldersApart',
             \A t \in DOMAIN descs' :
                fiber'[t] \in Holding /\ descs'[t].grant_id \in DOMAIN grants' =>
                   grants'[descs'[t].grant_id] <= descs'[t].keep,
             KeepingSound'
      PROVE  Leases'
  BY <1>e DEF Leases, GrantsReturned, ConservativeKeepAlive, Holds, Ids, Holding
<1>f. ASSUME DOMAIN descs' = Ids, UNCHANGED fiber,
             \A u \in Ids : descs'[u].grant_id = descs[u].grant_id,
             DOMAIN grants' \subseteq DOMAIN grants,
             freeing' \subseteq freeing,
             \A g \in DOMAIN grants' : g \in freeing => g \in freeing',
             \A t \in Ids :
                fiber[t] \in Holding /\ descs[t].grant_id \in DOMAIN grants' =>
                   grants'[descs[t].grant_id] <= descs'[t].keep,
             KeepingSound'
      PROVE  Leases'
  <2>1. HoldersApart'
    BY <1>d, <1>f DEF HoldersApart, Ids
  <2> QED
    BY <1>d, <1>e, <1>f, <2>1
<1>1. ASSUME NEW d \in Digests, SubmitCxxTask(d) PROVE Leases'
  <2>1. PICK n \in Nat :
            /\ n \notin Ids
            /\ DOMAIN descs' = Ids \union {n}
            /\ fiber'[n] = "cache"
            /\ \A u \in Ids : descs'[u] = descs[u] /\ fiber'[u] = fiber[u]
    BY <1>1, QueueAdds DEF SubmitCxxTask
  <2>2. UNCHANGED <<grants, freeing, keeping>>
    BY <1>1 DEF SubmitCxxTask, QueueDistributedTask, grantVars
  <2>3. \A u \in Ids : fiber[u] \in Holding => fiber[u] \notin Early
    BY DEF Holding, Early
  <2>4. "cache" \notin Holding
    BY DEF Holding
  <2> QED
    BY <2>1, <2>2, <2>3, <2>4, LeasesKept
<1>2. ASSUME NEW t \in Ids, PerformOneTask(t) PROVE Leases'
  <2>1. /\ DOMAIN descs' = Ids
        /\ \A u \in Ids \ {t} : descs'[u] = descs[u] /\ fiber'[u] = fiber[u]
        /\ keeping' = keeping
    BY <1>2, FiberAlone
  <2>2. CASE ~GrantArrives(t) /\ ~FreeGrant(t)
    <3>1. \A u \in Ids : fiber[u] \in Holding => fiber[u] \notin Early
      BY DEF Holding, Early
    <3>2. /\ UNCHANGED <<grants, freeing>>
          /\ fiber[t] \in Holding <=> fiber'[t] \in Holding
          /\ fiber[t] \in Holding \/ fiber[t] \notin Early =>
               /\ descs'[t].grant_id = descs[t].grant_id
               /\ descs'[t].keep = descs[t].keep
               /\ fiber'[t] \notin Early
      BY <1>2, <2>2, FiberHolds
    <3> QED
      BY <2>1, <3>1, <3>2, LeasesKept
  <2>3. CASE GrantArrives(t)
    <3>1. /\ fiber[t] = "grant" /\ fiber'[t] = "submit"
          /\ DOMAIN grants' = DOMAIN grants \union {granted}
          /\ granted \notin DOMAIN grants
          /\ grants'[granted] = 0
          /\ \A g \in DOMAIN grants : grants'[g] = grants[g]
          /\ UNCHANGED freeing
      <4>1. Goto(t, "submit")
        BY <2>3 DEF GrantArrives
      <4>2. fiber'[t] = "submit"
        BY <4>1, GotoMoves DEF OnlyFiber
      <4>3. granted \notin DOMAIN grants
        BY <1>b
      <4> QED
        BY <2>3, <4>2, <4>3 DEF GrantArrives
    <3>2. descs'[t].grant_id = granted /\ descs'[t].keep = 0
      BY <1>b, <2>3, GrantEdit DEF Progress
    <3>3. \A g \in DOMAIN grants' :
             g \in freeing' \/
             \E u \in DOMAIN descs' :
                fiber'[u] \in Holding /\ descs'[u].grant_id = g
      <4>1. fiber'[t] \in Holding /\ fiber[t] \notin Holding
        BY <3>1 DEF Holding
      <4> QED
        BY <1>d, <2>1, <3>1, <3>2, <4>1
    <3>4. \A u \in Ids \ {t} : fiber[u] \in Holding => descs[u].grant_id # granted
      BY <1>b, <1>c DEF Staged
    <3>5. \A u \in DOMAIN descs' :
             fiber'[u] \in Holding /\ descs'[u].grant_id \in DOMAIN grants' =>
                grants'[descs'[u].grant_id] <= descs'[u].keep
      BY <1>d, <2>1, <3>1, <3>2, <3>4
    <3>6. KeepingSound'
      <4>1. \A k \in keeping : k.task # t
        BY <1>d, <3>1 DEF KeepingSound
      <4>2. \A k \in keeping : k.since \in 0 .. 1
        BY <1>b DEF KeepType
      <4> QED
        BY <1>d, <2>1, <3>1, <4>1, <4>2 DEF KeepingSound, Ids
    <3>7. HoldersApart'
      BY <1>d, <2>1, <3>1, <3>2, <3>4 DEF HoldersApart, Ids
    <3>8. \A u \in DOMAIN descs' :
             fiber'[u] \in Holding => descs'[u].grant_id \notin freeing'
      <4>1. granted \notin freeing
        BY <1>b
      <4> QED
        BY <1>d, <2>1, <3>1, <3>2, <4>1
    <3> QED
      BY <1>e, <3>3, <3>5, <3>6, <3>7, <3>8
  <2>4. CASE FreeGrant(t)
    <3>1. /\ fiber[t] = "free_grant" /\ fiber'[t] = "complete"
          /\ UNCHANGED descs
          /\ freeing' = freeing \union {descs[t].grant_id}
          /\ UNCHANGED grants
      <4>1. Goto(t, "complete")
        BY <2>4 DEF FreeGrant
      <4>2. fiber'[t] = "complete"
        BY <4>1, GotoMoves DEF OnlyFiber
      <4> QED
        BY <2>4, <4>2 DEF FreeGrant, Free, tableVars
    <3>2. fiber'[t] \notin Holding /\ fiber'[t] \notin Early
      BY <3>1 DEF Holding, Early
    <3>3. \A g \in DOMAIN grants' :
             g \in freeing' \/
             \E u \in DOMAIN descs' :
                fiber'[u] \in Holding /\ descs'[u].grant_id = g
      BY <1>d, <2>1, <3>1
    <3>4. \A u \in DOMAIN descs' :
             fiber'[u] \in Holding /\ descs'[u].grant_id \in DOMAIN grants' =>
                grants'[descs'[u].grant_id] <= descs'[u].keep
      BY <1>d, <2>1, <3>1, <3>2
    <3>5. KeepingSound'
      BY <1>d, <2>1, <3>1, <3>2 DEF KeepingSound, Ids, Early
    <3>6. HoldersApart'
      BY <1>d, <2>1, <3>1, <3>2 DEF HoldersApart, Ids
    <3>7. \A u \in DOMAIN descs' :
             fiber'[u] \in Holding => descs'[u].grant_id \notin freeing'
      <4>1. fiber[t] \in Holding
        BY <3>1 DEF Holding
      <4> QED
        BY <1>d, <2>1, <3>1, <3>2, <4>1 DEF HoldersApart
    <3> QED
      BY <1>e, <3>3, <3>4, <3>5, <3>6, <3>7
  <2> QED
    BY <2>2, <2>3, <2>4
<1>3. ASSUME NEW t \in Ids, WaitForTask(t) PROVE Leases'
  <2>1. UNCHANGED <<fiber, grants, freeing, keeping>>
    BY <1>3
    DEF WaitForTask, WaitForDistributedTask, WaitTimesOut, WaiterErases,
        WaiterTakes, fiberVars, grantVars
  <2>2. CASE UNCHANGED descs
    BY <1>a, <2>1, <2>2 DEF Ids
  <2>3. CASE WaiterTakes(t)
    BY <1>a, <2>1, <2>3, TakeEdit DEF OnlyDesc, Progress
  <2> QED
    BY <1>3, <2>2, <2>3
    DEF WaitForTask, WaitForDistributedTask, WaitTimesOut, WaiterErases, tableVars
<1>4. ASSUME NEW ts \in SUBSET tasks, OnAbortTimer(ts) \/ OnKillOrphanTimer(ts)
      PROVE  Leases'
  <2>1. descs' = Abort(ts) /\ UNCHANGED <<fiber, grants, freeing, keeping>>
    BY <1>4 DEF OnAbortTimer, OnKillOrphanTimer, fiberVars, grantVars
  <2> QED
    BY <1>a, <2>1, AbortEdit DEF Progress
<1>5. ASSUME NEW ts \in SUBSET tasks, OnCleanupTimer(ts) PROVE Leases'
  BY <1>a, <1>5 DEF OnCleanupTimer, fiberVars, grantVars, Ids
<1>6. ASSUME NEW ts \in SUBSET tasks, OnKeepAliveTimer(ts) PROVE Leases'
  <2>1. descs' = Abort(ts) /\ UNCHANGED <<fiber, grants, freeing>>
    BY <1>6 DEF OnKeepAliveTimer, fiberVars, grantVars
  <2>2. /\ DOMAIN descs' = Ids
        /\ \A u \in Ids : /\ descs'[u].grant_id = descs[u].grant_id
                          /\ descs'[u].keep = descs[u].keep
    BY <2>1, AbortEdit DEF Progress
  <2>3. \A u \in ToKeepAlive : u \in Ids /\ fiber[u] \notin Early
    BY <1>c DEF ToKeepAlive, Live, TableTyped, Staged, Early
  <2>4. KeepingSound'
    <3>1. \A k \in keeping' : \E u \in ToKeepAlive :
              k = [task |-> u, grant |-> descs[u].grant_id, since |-> 0,
                   status |-> "sent"]
      BY <1>6 DEF OnKeepAliveTimer
    <3> QED
      BY <2>1, <2>2, <2>3, <3>1 DEF KeepingSound, Ids, Early
  <2> QED
    BY <1>d, <1>f, <2>1, <2>2, <2>4
<1>7. ASSUME SchedulerRenews PROVE Leases'
  <2>1. /\ UNCHANGED <<descs, fiber, freeing>>
        /\ DOMAIN grants' = DOMAIN grants
        /\ \A g \in DOMAIN grants : grants'[g] \in {0, grants[g]}
        /\ \A k \in keeping : k.grant \in DOMAIN grants => grants'[k.grant] = 0
    BY <1>7 DEF SchedulerRenews, tableVars, fiberVars
  <2>2. \A k \in keeping' : \E j \in keeping :
            /\ k.task = j.task /\ k.grant = j.grant /\ k.since = j.since
            /\ k.since \in 0 .. 1
    BY <1>7, <1>b DEF SchedulerRenews, KeepType
  <2>3. KeepingSound'
    BY <1>d, <2>1, <2>2 DEF KeepingSound, Ids
  <2>4. \A u \in DOMAIN descs' :
           fiber'[u] \in Holding /\ descs'[u].grant_id \in DOMAIN grants' =>
              grants'[descs'[u].grant_id] <= descs'[u].keep
    BY <1>b, <1>c, <1>d, <2>1 DEF Ids
  <2> QED
    BY <1>d, <1>f, <2>1, <2>3, <2>4 DEF Ids
<1>8. ASSUME KeepAliveAnswered PROVE Leases'
  <2>1. UNCHANGED <<fiber, grants, freeing>> /\ keeping' = {}
    BY <1>8 DEF KeepAliveAnswered, fiberVars, grantVars
  <2>2. /\ DOMAIN descs' = Ids
        /\ \A u \in Ids : descs'[u].grant_id = descs[u].grant_id
    BY <1>8, AnswerEdit DEF KeepOnly, Standing
  <2>3. \A u \in Ids :
           \/ descs'[u].keep = descs[u].keep
           \/ \E k \in keeping : /\ k.status = "renewed" /\ k.task = u
                                 /\ descs'[u].keep = k.since
    BY <1>8, AnswerEdit
  <2>4. ASSUME NEW u \in Ids, fiber[u] \in Holding,
               descs[u].grant_id \in DOMAIN grants
        PROVE  grants[descs[u].grant_id] <= descs'[u].keep
    BY <1>d, <2>3, <2>4 DEF KeepingSound
  <2>5. KeepingSound'
    BY <2>1 DEF KeepingSound
  <2> QED
    BY <1>d, <1>f, <2>1, <2>2, <2>4, <2>5
<1>9. ASSUME KeepAliveFails PROVE Leases'
  BY <1>a, <1>9 DEF KeepAliveFails, tableVars, fiberVars, grantVars, Ids
<1>10. ASSUME Tick PROVE Leases'
  <2>1. /\ UNCHANGED <<fiber, freeing>> /\ DOMAIN grants' = DOMAIN grants
        /\ \A g \in DOMAIN grants : grants'[g] = 1
    BY <1>10 DEF Tick, fiberVars
  <2>2. /\ DOMAIN descs' = Ids
        /\ \A u \in Ids : descs'[u].grant_id = descs[u].grant_id
        /\ \A u \in Ids : Live(u) => descs'[u].keep = 1
    BY <1>10, TickEdit DEF KeepOnly, Standing
  <2>3. \A u \in Ids : fiber[u] \in Holding => Live(u)
    BY <1>c DEF Staged
  <2>4. \A k \in keeping' : \E j \in keeping :
            /\ k.task = j.task /\ k.grant = j.grant /\ k.since = 1
    BY <1>10, <1>b DEF Tick, KeepType
  <2>5. KeepingSound'
    BY <1>d, <2>1, <2>2, <2>4 DEF KeepingSound, Ids
  <2> QED
    BY <1>d, <1>f, <2>1, <2>2, <2>3, <2>5
<1>11. ASSUME NEW h \in DOMAIN grants, GrantExpires(h) PROVE Leases'
  <2>1. /\ UNCHANGED <<descs, fiber, freeing, keeping>>
        /\ DOMAIN grants' = DOMAIN grants \ {h}
        /\ \A g \in DOMAIN grants' : grants'[g] = grants[g]
    BY <1>11 DEF GrantExpires, tableVars, fiberVars
  <2>2. KeepingSound'
    BY <1>d, <2>1 DEF KeepingSound, Ids
  <2> QED
    BY <1>d, <1>f, <2>1, <2>2 DEF Ids
<1>17. ASSUME NEW h \in freeing, FreeArrives(h) PROVE Leases'
  <2>1. /\ UNCHANGED <<descs, fiber, keeping>>
        /\ freeing' = freeing \ {h}
        /\ DOMAIN grants' = DOMAIN grants \ {h}
        /\ \A g \in DOMAIN grants' : grants'[g] = grants[g]
    BY <1>17 DEF FreeArrives, tableVars, fiberVars
  <2>2. KeepingSound'
    BY <1>d, <2>1 DEF KeepingSound, Ids
  <2> QED
    BY <1>d, <1>f, <2>1, <2>2 DEF Ids
<1>12. ASSUME UNCHANGED <<descs, fiber, grants, freeing, keeping>> PROVE Leases'
  BY <1>a, <1>12 DEF Ids
<1>13. ASSUME Stop \/ Refresh \/ RefreshFails \/ ServantRestarts PROVE Leases'
  BY <1>12, <1>13
  DEF Stop, Refresh, RefreshFails, ServantRestarts, tableVars, fiberVars, grantVars
<1>14. ASSUME NEW d \in Digests, OtherDelegateStarts(d) PROVE Leases'
  BY <1>12, <1>14 DEF OtherDelegateStarts, tableVars, fiberVars, grantVars
<1>15. ASSUME NEW s \in DOMAIN servant, ServantForgets(s) \/ ServantFinishes(s)
       PROVE  Leases'
  BY <1>12, <1>15
  DEF ServantForgets, ServantFinishes, tableVars, fiberVars, grantVars
<1>16. ASSUME UNCHANGED vars PROVE Leases'
  BY <1>12, <1>16 DEF vars
<1> QED
  BY <1>1, <1>2, <1>3, <1>4, <1>5, <1>6, <1>7, <1>8, <1>9, <1>10, <1>11,
     <1>13, <1>14, <1>15, <1>16, <1>17
  DEF Next

-----------------------------------------------------------------------------
(* Results.                                                                   *)

(* An id keeps naming the same source until the servant restarts: ids grow,   *)
(* and a task's digest does not change.                                       *)
LEMMA NamesKept ==
    ASSUME TableTyped, OthersTyped, [Next]_vars, restarts' = 0
    PROVE  /\ restarts = 0
           /\ \A s \in Nat, d \in Digests : Names(s, d) => Names(s, d)'
<1>a. /\ started \in Nat /\ restarts \in Nat
      /\ DOMAIN servant \subseteq 1 .. started
      /\ \A s \in DOMAIN servant : servant[s] \in ServantTask
  BY DEF OthersTyped, ServantTyped
<1>b. ASSUME UNCHANGED <<servant, started>>
      PROVE  \A s \in Nat, d \in Digests : Names(s, d) => Names(s, d)'
  BY <1>b DEF Names
<1>c. ASSUME NEW c \in Digests, Accept(c)
      PROVE  \A s \in Nat, d \in Digests : Names(s, d) => Names(s, d)'
  <2>1. /\ started' = started + 1
        /\ DOMAIN servant' = DOMAIN servant \union {started + 1}
        /\ \A s \in DOMAIN servant : servant'[s] = servant[s]
    BY <1>c, AcceptAdds
  <2> QED
    BY <1>a, <2>1 DEF Names
<1>d. ASSUME NEW S \in SUBSET DOMAIN servant, servant' = [i \in S |-> servant[i]],
             UNCHANGED started
      PROVE  \A s \in Nat, d \in Digests : Names(s, d) => Names(s, d)'
  BY <1>d DEF Names
<1>e. \A t \in Ids : descs[t].digest \in Digests
  BY DEF TableTyped, DescType
<1> DEFINE Goal == /\ restarts = 0
                   /\ \A s \in Nat, d \in Digests : Names(s, d) => Names(s, d)'
<1>f. ASSUME UNCHANGED servantVars PROVE Goal
  BY <1>b, <1>f DEF servantVars
<1>1. ASSUME NEW d \in Digests, SubmitCxxTask(d) PROVE Goal
  <2>1. UNCHANGED servantVars
    BY <1>1 DEF SubmitCxxTask, QueueDistributedTask
  <2> QED
    BY <1>f, <2>1
<1>2. ASSUME NEW t \in Ids, PerformOneTask(t) PROVE Goal
  <2>1. CASE \/ ReadCache(t) \/ FindRunning(t) \/ AbortedBeforeGrant(t)
             \/ GrantArrives(t) \/ Poll(t) \/ FreeGrant(t) \/ Complete(t)
    <3>1. UNCHANGED servantVars
      BY <2>1
      DEF ReadCache, CacheHit, CacheMiss, FindRunning, NotRunning, JoinTask,
          JoinFails, AbortedBeforeGrant, GrantArrives, Poll, ServantRunning,
          PollFails, ServantAnswers, GivesUp, FreeGrant, Complete
    <3> QED
      BY <1>f, <3>1
  <2>2. CASE Submit(t)
    <3>1. /\ UNCHANGED restarts
          /\ UNCHANGED <<servant, started>> \/ Accept(descs[t].digest)
      BY <2>2 DEF Submit, SubmitSucceeds, SubmitFails
    <3> QED
      BY <1>b, <1>c, <1>e, <3>1
  <2>3. CASE FreeServantTask(t) \/ FreeJoinedTask(t)
    <3>1. UNCHANGED <<started, restarts>> /\ \E s : FreeCall(s)
      BY <2>3 DEF FreeServantTask, FreeJoinedTask
    <3> QED
      BY <1>b, <1>d, <3>1 DEF FreeCall
  <2> QED
    BY <1>2, <2>1, <2>2, <2>3 DEF PerformOneTask, GiveBack
<1>3. ASSUME NEW t \in Ids, WaitForTask(t) PROVE Goal
  <2>1. UNCHANGED servantVars
    BY <1>3
    DEF WaitForTask, WaitForDistributedTask, WaitTimesOut, WaiterErases, WaiterTakes
  <2> QED
    BY <1>f, <2>1
<1>4. ASSUME NEW ts \in SUBSET tasks,
             \/ OnAbortTimer(ts) \/ OnKillOrphanTimer(ts)
             \/ OnCleanupTimer(ts) \/ OnKeepAliveTimer(ts)
      PROVE  Goal
  <2>1. UNCHANGED servantVars
    BY <1>4
    DEF OnAbortTimer, OnKillOrphanTimer, OnCleanupTimer, OnKeepAliveTimer
  <2> QED
    BY <1>f, <2>1
<1>5. ASSUME \/ SchedulerRenews \/ KeepAliveAnswered \/ KeepAliveFails
             \/ Stop \/ Refresh \/ RefreshFails \/ Tick
      PROVE  Goal
  <2>1. UNCHANGED servantVars
    BY <1>5
    DEF SchedulerRenews, KeepAliveAnswered, KeepAliveFails, Stop, Refresh,
        RefreshFails, Tick
  <2> QED
    BY <1>f, <2>1
<1>6. ASSUME NEW d \in Digests, OtherDelegateStarts(d) PROVE Goal
  BY <1>c, <1>6 DEF OtherDelegateStarts
<1>7. ASSUME NEW s \in DOMAIN servant, ServantForgets(s) PROVE Goal
  BY <1>d, <1>7 DEF ServantForgets
<1>8. ASSUME NEW s \in DOMAIN servant, ServantFinishes(s) PROVE Goal
  <2>1. /\ DOMAIN servant' = DOMAIN servant /\ UNCHANGED <<started, restarts>>
        /\ \A i \in DOMAIN servant : servant'[i].digest = servant[i].digest
    BY <1>8, <1>a DEF ServantFinishes, ServantTask
  <2> QED
    BY <2>1 DEF Names
<1>9. ~ServantRestarts
  BY <1>a DEF ServantRestarts
<1>10. ASSUME NEW g \in DOMAIN grants, GrantExpires(g) PROVE Goal
  BY <1>f, <1>10 DEF GrantExpires
<1>11. ASSUME NEW g \in freeing, FreeArrives(g) PROVE Goal
  BY <1>f, <1>11 DEF FreeArrives
<1>12. ASSUME UNCHANGED vars PROVE Goal
  BY <1>f, <1>12 DEF vars, servantVars
<1> QED
  BY <1>1, <1>2, <1>3, <1>4, <1>5, <1>6, <1>7, <1>8, <1>9, <1>10, <1>11,
     <1>12
  DEF Next

(* ServantNames and ResultSound, one task at a time.                          *)
Named(t) ==
    restarts = 0 => Names(descs[t].servant_task_id, descs[t].digest)

Own(t) ==
    /\ restarts = 0 => descs[t].output.of \in {descs[t].digest, None}
    /\ descs[t].digest \in Uncached /\ descs[t].output.of # None =>
          descs[t].servant_task_id # NoTask

RunningNamed == restarts = 0 => \A d \in Digests : Names(running[d], d)

LEMMA ResultsEach ==
    ServantNames /\ ResultSound <=>
        RunningNamed /\ \A t \in Ids : Named(t) /\ Own(t)
  BY DEF ServantNames, ResultSound, OwnResult, CacheRespected, Named, Own,
         RunningNamed

(* A task whose source, output and servant task stay is as it was.            *)
LEMMA ResultKept ==
    ASSUME TableTyped, OthersTyped, [Next]_vars,
           NEW u \in Ids, Named(u), Own(u),
           descs'[u].digest = descs[u].digest,
           descs'[u].output = descs[u].output,
           descs'[u].servant_task_id = descs[u].servant_task_id
    PROVE  Named(u)' /\ Own(u)'
<1>1. descs[u].digest \in Digests /\ descs[u].servant_task_id \in Nat
  BY DEF TableTyped, DescType
<1>2. ASSUME restarts' = 0
      PROVE  /\ restarts = 0
             /\ \A s \in Nat, d \in Digests : Names(s, d) => Names(s, d)'
  BY <1>2, NamesKept
<1>3. Named(u)'
  BY <1>1, <1>2 DEF Named, Names
<1>4. Own(u)'
  BY <1>2 DEF Own
<1> QED
  BY <1>3, <1>4

(* What a fiber stores as its output is its own.                              *)
LEMMA FiberOwn ==
    ASSUME TableTyped, OthersTyped, [Next]_vars, RunningNamed,
           NEW t \in Ids, Named(t), Own(t), PerformOneTask(t)
    PROVE  Named(t)' /\ Own(t)'
<1> DEFINE d == descs[t]
           e == descs'[t]
<1>a. /\ d.digest \in Digests /\ d.servant_task_id \in Nat
      /\ started \in Nat /\ granted \in Nat
      /\ DOMAIN servant \subseteq 1 .. started
      /\ running \in [Digests -> Nat]
  BY DEF TableTyped, DescType, OthersTyped, ServantTyped, GrantsTyped
<1>b. e.digest = d.digest
  BY FiberAlone
<1>c. ASSUME restarts' = 0
      PROVE  /\ restarts = 0
             /\ \A s \in Nat, c \in Digests : Names(s, c) => Names(s, c)'
  BY <1>c, NamesKept
<1>d. ASSUME Progress(e) = Progress(d) PROVE e.servant_task_id = d.servant_task_id
  BY <1>d DEF Progress
<1>e. ASSUME e.servant_task_id = d.servant_task_id PROVE Named(t)'
  BY <1>a, <1>b, <1>c, <1>e DEF Named, Names
<1>1. ASSUME NEW c \in {"exited", "malformed"}, CacheHit(t, c)
      PROVE  Named(t)' /\ Own(t)'
  <2>1. /\ e.output = [code |-> c, of |-> d.digest]
        /\ e.servant_task_id = d.servant_task_id
    BY <1>1, <1>d, FiberOutputs
  <2>2. d.digest \notin Uncached
    BY <1>1 DEF CacheHit, MayReadCache
  <2> QED
    BY <1>b, <1>e, <2>1, <2>2 DEF Own
<1>2. CASE CacheMiss(t)
  <2>1. e.output.of = None /\ e.servant_task_id = d.servant_task_id
    <3>1. e.output = Failure("rpc") /\ Progress(e) = Progress(d)
      BY <1>2, FiberOutputs
    <3> QED
      BY <1>d, <3>1 DEF Failure
  <2>2. Own(t)'
    BY <2>1 DEF Own
  <2> QED
    BY <1>e, <2>1, <2>2
<1>3. ASSUME NEW s \in 1 .. MaxServantTasks, JoinTask(t, s)
      PROVE  Named(t)' /\ Own(t)'
  <2>1. e.output = d.output /\ e.servant_task_id = s
    BY <1>3, JoinEdit DEF Progress
  <2>2. s = running[d.digest] /\ s # NoTask /\ s \in Nat
    BY <1>3 DEF JoinTask, TryFindTask, NoTask
  <2>3. Named(t)'
    <3>1. PICK c \in Digests : c = d.digest
      BY <1>a
    <3>2. ASSUME restarts' = 0 PROVE Names(s, c)'
      BY <1>a, <1>c, <2>2, <3>1, <3>2 DEF RunningNamed
    <3> QED
      BY <1>b, <2>1, <3>1, <3>2 DEF Named, Names
  <2>4. Own(t)'
    BY <1>b, <1>c, <2>1, <2>2 DEF Own
  <2> QED
    BY <2>3, <2>4
<1>4. CASE GrantArrives(t)
  BY <1>4, <1>a, GrantEdit, ResultKept, <1>b DEF Progress
<1>5. CASE SubmitSucceeds(t)
  <2>1. e.output = d.output /\ e.servant_task_id = started + 1
    BY <1>5, <1>a, SubmitEdit DEF Progress
  <2>2. /\ started' = started + 1
        /\ started + 1 \in DOMAIN servant'
        /\ servant'[started + 1].digest = d.digest
    BY <1>5, <1>a, AcceptAdds DEF SubmitSucceeds
  <2>3. Named(t)'
    BY <1>a, <1>b, <2>1, <2>2 DEF Named, Names
  <2>4. started + 1 # NoTask
    BY <1>a DEF NoTask
  <2>5. Own(t)'
    BY <1>b, <1>c, <2>1, <2>4 DEF Own
  <2> QED
    BY <2>3, <2>5
<1>6. CASE ServantAnswers(t)
  <2>1. /\ e.servant_task_id = d.servant_task_id
        /\ \/ e.output.of = None
           \/ /\ d.servant_task_id \in DOMAIN servant
              /\ e.output.of = servant[d.servant_task_id].digest
    BY <1>6, <1>d, FiberOutputs
  <2>2. d.servant_task_id \in DOMAIN servant => d.servant_task_id # NoTask
    BY <1>a DEF NoTask
  <2>3. restarts' = 0 => e.output.of \in {d.digest, None}
    BY <1>c, <2>1, <2>2 DEF Named, Names
  <2>4. Own(t)'
    BY <1>b, <2>1, <2>2, <2>3 DEF Own
  <2> QED
    BY <1>e, <2>1, <2>4
<1>7. CASE Complete(t)
  BY <1>7, <1>b, CompleteEdit, ResultKept DEF Progress
<1>8. CASE UNCHANGED descs
  BY <1>8, ResultKept
<1> QED
  BY <1>1, <1>2, <1>3, <1>4, <1>5, <1>6, <1>7, <1>8
  DEF PerformOneTask, ReadCache, FindRunning, NotRunning, JoinFails,
      AbortedBeforeGrant, Submit, SubmitFails, Poll, ServantRunning, PollFails,
      GivesUp, GiveBack, FreeServantTask, FreeJoinedTask, FreeGrant, tableVars

ResultInv == ServantNames /\ ResultSound

(* Every step keeps the results.                                              *)
LEMMA ResultStep ==
    ASSUME TableTyped, OthersTyped, ResultInv, [Next]_vars
    PROVE  ResultInv'
<1>a. RunningNamed /\ \A t \in Ids : Named(t) /\ Own(t)
  BY ResultsEach DEF ResultInv
<1>b. ASSUME restarts' = 0
      PROVE  /\ restarts = 0
             /\ \A s \in Nat, d \in Digests : Names(s, d) => Names(s, d)'
  BY <1>b, NamesKept
<1>c. RunningNamed'
  <2>1. running \in [Digests -> Nat]
    BY DEF OthersTyped
  <2>2. CASE UNCHANGED running
    BY <1>a, <1>b, <2>1, <2>2 DEF RunningNamed, Names
  <2>3. CASE Refresh
    <3>1. ASSUME NEW d \in Digests, running'[d] # NoTask
          PROVE  /\ running'[d] \in DOMAIN servant
                 /\ servant[running'[d]].digest = d
      BY <2>3, <3>1 DEF Refresh, Reported
    <3>2. UNCHANGED <<servant, started>> /\ DOMAIN servant \subseteq 1 .. started
      BY <2>3 DEF Refresh, servantVars, OthersTyped, ServantTyped
    <3> QED
      BY <3>1, <3>2 DEF RunningNamed, Names, OthersTyped, ServantTyped
  <2>4. CASE RefreshFails
    BY <2>4 DEF RefreshFails, RunningNamed, Names
  <2>5. ASSUME NEW t \in Ids, PerformOneTask(t) PROVE UNCHANGED running
    BY <2>5, FiberAlone
  <2>6. ASSUME NEW t \in Ids, WaitForTask(t) PROVE UNCHANGED running
    BY <2>6
    DEF WaitForTask, WaitForDistributedTask, WaitTimesOut, WaiterErases, WaiterTakes
  <2>7. ASSUME NEW ts \in SUBSET tasks,
               \/ OnAbortTimer(ts) \/ OnKillOrphanTimer(ts)
               \/ OnCleanupTimer(ts) \/ OnKeepAliveTimer(ts)
        PROVE  UNCHANGED running
    BY <2>7
    DEF OnAbortTimer, OnKillOrphanTimer, OnCleanupTimer, OnKeepAliveTimer
  <2>8. ASSUME \/ SchedulerRenews \/ KeepAliveAnswered \/ KeepAliveFails
               \/ Stop \/ ServantRestarts \/ Tick
               \/ \E g \in DOMAIN grants : GrantExpires(g)
               \/ \E g \in freeing : FreeArrives(g)
        PROVE  UNCHANGED running
    BY <2>8
    DEF SchedulerRenews, KeepAliveAnswered, KeepAliveFails, Stop,
        ServantRestarts, Tick, GrantExpires, FreeArrives
  <2>9. ASSUME \/ \E d \in Digests : SubmitCxxTask(d) \/ OtherDelegateStarts(d)
               \/ \E s \in DOMAIN servant : ServantForgets(s) \/ ServantFinishes(s)
        PROVE  UNCHANGED running
    BY <2>9
    DEF SubmitCxxTask, QueueDistributedTask, OtherDelegateStarts,
        ServantForgets, ServantFinishes
  <2> QED
    BY <2>2, <2>3, <2>4, <2>5, <2>6, <2>7, <2>8, <2>9 DEF Next, vars
<1>d. ASSUME DOMAIN descs' = Ids,
             \A u \in Ids :
                 /\ descs'[u].digest = descs[u].digest
                 /\ descs'[u].output = descs[u].output
                 /\ descs'[u].servant_task_id = descs[u].servant_task_id
      PROVE  \A u \in DOMAIN descs' : Named(u)' /\ Own(u)'
  BY <1>a, <1>d, ResultKept
<1>e. ASSUME \A u \in DOMAIN descs' : Named(u)' /\ Own(u)' PROVE ResultInv'
  BY <1>c, <1>e
  DEF ResultInv, ServantNames, ResultSound, OwnResult, CacheRespected, Named,
      Own, RunningNamed, Ids
<1>1. ASSUME NEW d \in Digests, SubmitCxxTask(d) PROVE ResultInv'
  <2>1. PICK n \in Nat :
            /\ DOMAIN descs' = Ids \union {n}
            /\ descs'[n] = NewTaskDesc(d)
            /\ \A u \in Ids : descs'[u] = descs[u]
    BY <1>1, QueueAdds DEF SubmitCxxTask
  <2>2. \A u \in Ids : Named(u)' /\ Own(u)'
    BY <1>a, <2>1, ResultKept
  <2>3. Named(n)' /\ Own(n)'
    BY <2>1 DEF Named, Names, Own, NewTaskDesc, Failure
  <2> QED
    BY <1>e, <2>1, <2>2, <2>3
<1>2. ASSUME NEW t \in Ids, PerformOneTask(t) PROVE ResultInv'
  <2>1. /\ DOMAIN descs' = Ids
        /\ \A u \in Ids \ {t} : descs'[u] = descs[u]
    BY <1>2, FiberAlone
  <2>2. Named(t)' /\ Own(t)'
    BY <1>2, <1>a, FiberOwn
  <2>3. \A u \in Ids \ {t} : Named(u)' /\ Own(u)'
    BY <1>a, <2>1, ResultKept
  <2> QED
    BY <1>e, <2>1, <2>2, <2>3
<1>3. ASSUME UNCHANGED descs PROVE ResultInv'
  BY <1>d, <1>e, <1>3 DEF Ids
<1>4. ASSUME NEW t \in Ids, WaitForTask(t) PROVE ResultInv'
  <2>1. CASE WaiterTakes(t)
    <3>1. /\ DOMAIN descs' = Ids
          /\ \A u \in Ids :
                /\ descs'[u].digest = descs[u].digest
                /\ descs'[u].output = descs[u].output
                /\ descs'[u].servant_task_id = descs[u].servant_task_id
      BY <2>1, TakeEdit DEF OnlyDesc, Progress
    <3> QED
      BY <1>d, <1>e, <3>1
  <2> QED
    BY <1>3, <1>4, <2>1
    DEF WaitForTask, WaitForDistributedTask, WaitTimesOut, WaiterErases, tableVars
<1>5. ASSUME NEW ts \in SUBSET tasks,
             OnAbortTimer(ts) \/ OnKillOrphanTimer(ts) \/ OnKeepAliveTimer(ts)
      PROVE  ResultInv'
  <2>1. descs' = Abort(ts)
    BY <1>5 DEF OnAbortTimer, OnKillOrphanTimer, OnKeepAliveTimer
  <2>2. /\ DOMAIN descs' = Ids
        /\ \A u \in Ids :
              /\ descs'[u].digest = descs[u].digest
              /\ descs'[u].output = descs[u].output
              /\ descs'[u].servant_task_id = descs[u].servant_task_id
    BY <2>1, AbortEdit DEF Progress
  <2> QED
    BY <1>d, <1>e, <2>2
<1>6. ASSUME KeepAliveAnswered \/ Tick PROVE ResultInv'
  <2>1. KeepOnly
    BY <1>6, AnswerEdit, TickEdit
  <2>2. /\ DOMAIN descs' = Ids
        /\ \A u \in Ids :
              /\ descs'[u].digest = descs[u].digest
              /\ descs'[u].output = descs[u].output
              /\ descs'[u].servant_task_id = descs[u].servant_task_id
    BY <2>1 DEF KeepOnly, Standing
  <2> QED
    BY <1>d, <1>e, <2>2
<1>7. ASSUME \/ \E ts \in SUBSET tasks : OnCleanupTimer(ts)
             \/ SchedulerRenews \/ KeepAliveFails \/ Stop \/ Refresh
             \/ RefreshFails \/ ServantRestarts
      PROVE  ResultInv'
  BY <1>3, <1>7
  DEF OnCleanupTimer, SchedulerRenews, KeepAliveFails, Stop, Refresh,
      RefreshFails, ServantRestarts, tableVars
<1>8. ASSUME \/ \E d \in Digests : OtherDelegateStarts(d)
             \/ \E s \in DOMAIN servant : ServantForgets(s) \/ ServantFinishes(s)
             \/ \E g \in DOMAIN grants : GrantExpires(g)
             \/ \E g \in freeing : FreeArrives(g)
             \/ UNCHANGED vars
      PROVE  ResultInv'
  BY <1>3, <1>8
  DEF OtherDelegateStarts, ServantForgets, ServantFinishes, GrantExpires, FreeArrives,
      tableVars, vars
<1> QED
  BY <1>1, <1>2, <1>4, <1>5, <1>6, <1>7, <1>8 DEF Next

-----------------------------------------------------------------------------
LEMMA DelegateInit == Init => DelegateInv
<1> SUFFICES ASSUME Init PROVE DelegateInv
  OBVIOUS
<1>1. Ids = {} /\ DOMAIN servant = {} /\ DOMAIN grants = {}
  BY DEF Init, Ids
<1>2. TableTyped
  <2>1. Ids = 1 .. 0 /\ 0 \in 0 .. MaxTasks
    BY <1>1, DelegateAssumption
  <2>2. \E n \in 0 .. MaxTasks : Ids = 1 .. n
    BY <2>1
  <2> QED
    BY <1>1, <2>2 DEF Init, TableTyped
<1>3. OthersTyped
  BY <1>1 DEF Init, OthersTyped, ServantTyped, GrantsTyped, NoTask
<1>4. Stages /\ InTableUntilDone
  BY <1>1 DEF Stages, InTableUntilDone
<1>5. Leases
  BY <1>1
  DEF Init, Leases, GrantsReturned, HoldersApart, ConservativeKeepAlive,
      KeepingSound
<1>6. ServantNames /\ ResultSound
  BY <1>1
  DEF Init, ServantNames, Names, ResultSound, OwnResult, CacheRespected
<1> QED
  BY <1>2, <1>3, <1>4, <1>5, <1>6 DEF DelegateInv

(* The delegate's inductive invariant holds in every reachable state.         *)
LEMMA DelegateInvariant == Spec => []DelegateInv
<1>1. DelegateInv /\ [Next]_vars => DelegateInv'
  BY TableStep, OthersStep, StageStep, LeaseStep, ResultStep
  DEF DelegateInv, StageInv, ResultInv
<1> QED
  BY <1>1, DelegateInit, PTL DEF Spec

(* The table, the fibers and the leases agree: no task leaves the table       *)
(* before its fiber is through, and no keep-alive, however late its answer,   *)
(* makes the daemon believe in a lease longer than the scheduler's.           *)
THEOREM TableConsistentCorrect == Spec => []TableConsistent
<1>1. ASSUME DelegateInv PROVE TableConsistent
  <2>1. PICK n \in 0 .. MaxTasks : Ids = 1 .. n
    BY <1>1 DEF DelegateInv, TableTyped
  <2>2. tasks \subseteq Ids /\ Ids \subseteq TaskIds
    BY <1>1, <2>1, DelegateAssumption DEF DelegateInv, TableTyped, TaskIds
  <2>3. DOMAIN fiber = Ids /\ DOMAIN retries = Ids
    BY <1>1 DEF DelegateInv, TableTyped
  <2>4. ASSUME NEW t \in Ids
        PROVE  /\ descs[t].output.code \in Codes
               /\ descs[t].output.of \in Digests \union {None}
               /\ descs[t].keep \in 0 .. 1
               /\ retries[t] \in 0 .. Retries
               /\ waiter[t] \in {"none", "latch", "take", "200", "404", "500"}
    BY <1>1 DEF DelegateInv, TableTyped, DescType, Output
  <2>5. /\ \A g \in DOMAIN grants : g < granted /\ grants[g] \in 0 .. 1
        /\ \A g \in freeing : g < granted
    BY <1>1 DEF DelegateInv, OthersTyped, GrantsTyped
  <2>6. TypeOK
    BY <2>2, <2>3, <2>4, <2>5 DEF TypeOK
  <2> QED
    BY <1>1, <2>6 DEF DelegateInv, Leases, TableConsistent
<1> QED
  BY <1>1, DelegateInvariant, PTL

(* A client is handed the output of the source it submitted, and from a       *)
(* compilation if it did not want the cache, for every interleaving of        *)
(* fibers, refreshes and servant tasks without a restart of the servant.      *)
THEOREM ResultSoundCorrect == Spec => []ResultSound
<1>1. DelegateInv => ResultSound
  BY DEF DelegateInv
<1> QED
  BY <1>1, DelegateInvariant, PTL

(* Whatever path a fiber takes out of StartNewServantTask, it calls FreeTask  *)
(* for its grant, and not before it is through with it: a grant that is still *)
(* out has a fiber that will make the call, or the call has been made.        *)
THEOREM GrantsReturnedCorrect == Spec => []GrantsReturned
<1>1. DelegateInv => GrantsReturned
  BY DEF DelegateInv, Leases
<1> QED
  BY <1>1, DelegateInvariant, PTL
=============================================================================
