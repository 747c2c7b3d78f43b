------------------------ MODULE TaskDispatcherProofs ------------------------
(* Invariance proofs for TaskDispatcher, for every value of its constants.    *)
EXTENDS TaskDispatcher, FiniteSetTheorems, WellFoundedInduction, TLAPS

(* The inductive invariant: types, one live registration per location with    *)
(* no grant outside them, and the exact counter.  RunningTasksExact alone is  *)
(* not inductive: that a new descriptor starts at 0 is right only because no  *)
(* grant can refer to it (RegistrySound and the typing of identities).        *)
RegistryInv == TypeOK /\ RegistrySound /\ RunningTasksExact

-----------------------------------------------------------------------------
(* Removing a part of a finite set subtracts its cardinality.                 *)
LEMMA CardinalityDifference ==
    ASSUME NEW S, IsFiniteSet(S), NEW T \in SUBSET S
    PROVE  /\ IsFiniteSet(T)
           /\ IsFiniteSet(S \ T)
           /\ Cardinality(S) \in Nat
           /\ Cardinality(T) \in Nat
           /\ Cardinality(S \ T) \in Nat
           /\ Cardinality(S \ T) = Cardinality(S) - Cardinality(T)
<1>1. IsFiniteSet(T) /\ IsFiniteSet(S \ T)
  BY FS_Subset, S \ T \in SUBSET S
<1>2. /\ Cardinality(S) \in Nat
      /\ Cardinality(T) \in Nat
      /\ Cardinality(S \ T) \in Nat
  BY <1>1, FS_CardinalityType
<1>3. Cardinality((S \ T) \union T) =
        Cardinality(S \ T) + Cardinality(T) - Cardinality((S \ T) \intersect T)
  BY <1>1, FS_Union
<1>4. (S \ T) \union T = S /\ (S \ T) \intersect T = {}
  OBVIOUS
<1>5. Cardinality({}) = 0
  BY FS_EmptySet
<1>6. Cardinality(S) = Cardinality(S \ T) + Cardinality(T) - 0
  BY <1>3, <1>4, <1>5, Zenon
<1>7. Cardinality(S \ T) = Cardinality(S) - Cardinality(T)
  BY <1>2, <1>6
<1> QED
  BY <1>1, <1>2, <1>7

(* The grants of a servant are finitely many.                                 *)
LEMMA TasksFinite ==
    ASSUME TypeOK
    PROVE  /\ IsFiniteSet(DOMAIN tasks)
           /\ \A d : IsFiniteSet(TasksOf(d))
<1>1. IsFiniteSet(IssuedIds)
  BY FS_Interval DEF IssuedIds, TypeOK
<1>2. IsFiniteSet(DOMAIN tasks)
  BY <1>1, FS_Subset DEF TypeOK
<1>3. ASSUME NEW d PROVE IsFiniteSet(TasksOf(d))
  <2>1. TasksOf(d) \in SUBSET DOMAIN tasks
    BY DEF TasksOf
  <2> QED
    BY <2>1, <1>2, FS_Subset
<1> QED
  BY <1>2, <1>3

(* What Heartbeat makes of an accepted request is a personality.              *)
LEMMA PersonalityTyped ==
    ASSUME NEW h \in HeartbeatReqs
    PROVE  Personality(h) \in PersonalityType
  BY ConstantsAssumption
  DEF Personality, PersonalityType, HeartbeatType

(* A request that is not idle has the fields of an application.               *)
LEMMA ActiveRequest ==
    ASSUME TypeOK, NEW r \in Requests, requests[r].phase # "idle"
    PROVE  requests[r] \in ActiveRequestType
  BY DEF TypeOK, RequestType, NoApplication

(* Freeing grants keeps the counters exact: the decrement UnsafeFreeTasks     *)
(* makes on each servant is the number of its grants that go.                 *)
LEMMA ReleaseExact ==
    ASSUME TypeOK, RunningTasksExact,
           NEW ids \in SUBSET DOMAIN tasks,
           NEW alive \in SUBSET DOMAIN servants,
           NEW d \in alive
    PROVE  /\ Release(ids, alive)[d].running_tasks =
                Cardinality(TasksOf(d) \ ids)
           /\ Release(ids, alive)[d].running_tasks \in Nat
           /\ Release(ids, alive)[d].personality = servants[d].personality
           /\ Release(ids, alive)[d] \in ServantDescType
<1> DEFINE gone == {t \in ids : tasks[t].servant = d}
<1>1. gone \in SUBSET TasksOf(d) /\ TasksOf(d) \ gone = TasksOf(d) \ ids
  BY DEF TasksOf
<1>2. IsFiniteSet(TasksOf(d))
  BY TasksFinite
<1>3. /\ Cardinality(TasksOf(d) \ gone) = Cardinality(TasksOf(d)) - Cardinality(gone)
      /\ Cardinality(TasksOf(d) \ gone) \in Nat
  BY <1>1, <1>2, CardinalityDifference
<1>4. servants[d].running_tasks = Cardinality(TasksOf(d))
  BY DEF RunningTasksExact
<1>5. servants[d] \in ServantDescType
  BY DEF TypeOK
<1>6. Release(ids, alive)[d] =
        [servants[d] EXCEPT !.running_tasks = @ - Cardinality(gone)]
  BY DEF Release
<1> HIDE DEF gone
<1>7. Release(ids, alive)[d].running_tasks =
        servants[d].running_tasks - Cardinality(gone)
  BY <1>5, <1>6 DEF ServantDescType
<1> QED
  BY <1>1, <1>3, <1>4, <1>5, <1>6, <1>7 DEF ServantDescType

(* The handler's bookkeeping keeps a request a request.                       *)
LEMMA AdvanceTyped ==
    ASSUME NEW q \in ActiveRequestType, q.phase \in {"immediate", "prefetch"}
    PROVE  /\ Finish(q) \in ActiveRequestType
           /\ EnterPrefetch(q) \in ActiveRequestType
           /\ Advance(q) \in ActiveRequestType
           /\ Break(q) \in ActiveRequestType
<1>1. Finish(q) \in ActiveRequestType
  BY DEF Finish, ActiveRequestType
<1>2. EnterPrefetch(q) \in ActiveRequestType
  BY <1>1 DEF EnterPrefetch, ActiveRequestType
<1> QED
  BY <1>1, <1>2 DEF Advance, Break

(* notify_all changes nobody's type.                                          *)
LEMMA NotifyAllTyped ==
    ASSUME TypeOK, NotifyAll
    PROVE  /\ requests' \in [Requests -> RequestType]
           /\ unannounced' \in BOOLEAN
<1>1. ASSUME NEW r \in Requests, Asleep(r)
      PROVE  [requests[r] EXCEPT !.asleep = FALSE] \in RequestType
  <2>1. requests[r] \in ActiveRequestType
    BY <1>1, ActiveRequest DEF Asleep
  <2> QED
    BY <2>1 DEF ActiveRequestType, RequestType
<1> QED
  BY <1>1 DEF NotifyAll, TypeOK

(* The invariant holds of a scheduler that has just started.                  *)
LEMMA RegistryInit == Init => RegistryInv
<1> SUFFICES ASSUME Init PROVE RegistryInv
  OBVIOUS
<1>1. TypeOK
  <2>1. requests \in [Requests -> RequestType]
    BY DEF Init, RequestType
  <2>2. /\ next_desc \in 0 .. MaxDesc
        /\ next_task_id \in 0 .. MaxTaskId
    BY ConstantsAssumption DEF Init
  <2>3. /\ DOMAIN servants = {} /\ DOMAIN tasks = {}
        /\ DOMAIN bookkeeper = {} /\ heartbeats = {} /\ unannounced \in BOOLEAN
    BY DEF Init
  <2> QED
    BY <2>1, <2>2, <2>3 DEF TypeOK
<1>2. RegistrySound /\ RunningTasksExact
  BY DEF Init, RegistrySound, RunningTasksExact
<1> QED
  BY <1>1, <1>2 DEF RegistryInv

(* UnsafeFreeTasks preserves the invariant, whatever the batch.               *)
LEMMA FreeTasksInv ==
    ASSUME RegistryInv, NEW ids \in SUBSET DOMAIN tasks, UnsafeFreeTasks(ids),
           UNCHANGED <<next_desc, next_task_id>>,
           \A b \in heartbeats' :
              b \in [observed: Locations, location: Locations,
                     running: SUBSET IssuedIds],
           DOMAIN bookkeeper' \subseteq Locations,
           \A l \in DOMAIN bookkeeper' : bookkeeper'[l] \subseteq IssuedIds
    PROVE  RegistryInv'
<1> USE DEF RegistryInv
<1>1. /\ tasks' = Forget(ids)
      /\ servants' = Release(ids, DOMAIN servants)
      /\ NotifyAll
  BY DEF UnsafeFreeTasks
<1>2. /\ DOMAIN servants' = DOMAIN servants
      /\ DOMAIN tasks' = DOMAIN tasks \ ids
      /\ \A t \in DOMAIN tasks' : tasks'[t] = tasks[t]
  BY <1>1 DEF Forget, Release
<1>3. \A d \in DOMAIN servants :
        /\ servants'[d].running_tasks = Cardinality(TasksOf(d) \ ids)
        /\ servants'[d].personality = servants[d].personality
        /\ servants'[d] \in ServantDescType
  BY <1>1, ReleaseExact
<1>4. \A d : TasksOf(d)' = TasksOf(d) \ ids
  BY <1>2 DEF TasksOf
<1>5. IssuedIds' = IssuedIds /\ TaskDescType' = TaskDescType
        /\ RequestType' = RequestType
  BY DEF IssuedIds, TaskDescType, RequestType, ActiveRequestType
<1>6. TypeOK'
  BY <1>1, <1>2, <1>3, <1>5, NotifyAllTyped DEF TypeOK
<1>7. RegistrySound'
  BY <1>2, <1>3 DEF RegistrySound
<1>8. RunningTasksExact'
  BY <1>2, <1>3, <1>4 DEF RunningTasksExact
<1> QED
  BY <1>6, <1>7, <1>8

(* A step that changes only the handlers of WaitForStartingTask.              *)
LEMMA RequestOnlyInv ==
    ASSUME RegistryInv, NEW r \in Requests, NEW q \in RequestType,
           requests' = [requests EXCEPT ![r] = q],
           UNCHANGED <<servants, next_desc, tasks, next_task_id, heartbeats,
                       bookkeeper, unannounced>>
    PROVE  RegistryInv'
<1>1. IssuedIds' = IssuedIds /\ TaskDescType' = TaskDescType
        /\ RequestType' = RequestType
  BY DEF IssuedIds, TaskDescType, RequestType, ActiveRequestType
<1>2. TypeOK'
  BY <1>1 DEF RegistryInv, TypeOK
<1>3. RegistrySound' /\ RunningTasksExact'
  BY DEF RegistryInv, RegistrySound, RunningTasksExact, TasksOf
<1> QED
  BY <1>2, <1>3 DEF RegistryInv

(* Every step of the WaitForStartingTask handler but the grant itself.        *)
LEMMA HandlerInv ==
    ASSUME RegistryInv, NEW r \in Requests,
           \/ \E app \in Applications : WaitForStartingTask(r, app)
           \/ EnvironmentNotFound(r)
           \/ Sleep(r)
           \/ Timeout(r)
           \/ Respond(r)
    PROVE  RegistryInv'
<1>1. TypeOK
  BY DEF RegistryInv
<1>2. ASSUME NEW app \in Applications, WaitForStartingTask(r, app)
      PROVE  RegistryInv'
  <2> DEFINE q == [phase |-> IF app.immediate_reqs > 0 THEN "immediate"
                                                       ELSE "prefetch",
                   app |-> app, index |-> 0, grants |-> {},
                   left |-> app.wait, asleep |-> FALSE]
  <2>1. app.wait \in Nat
    BY ConstantsAssumption DEF ApplicationType
  <2>2. q \in RequestType
    BY <2>1 DEF RequestType, ActiveRequestType
  <2> QED
    BY <1>2, <2>2, RequestOnlyInv DEF WaitForStartingTask
<1>3. ASSUME Calling(r)
      PROVE  /\ requests[r] \in ActiveRequestType
             /\ requests[r].phase \in {"immediate", "prefetch"}
  BY <1>1, <1>3, ActiveRequest DEF Calling
<1>4. CASE EnvironmentNotFound(r)
  <2>1. requests[r] \in ActiveRequestType
        /\ requests[r].phase \in {"immediate", "prefetch"}
    BY <1>3, <1>4 DEF EnvironmentNotFound
  <2>2. /\ Finish(requests[r]) \in RequestType
        /\ [requests[r] EXCEPT !.phase = "env_not_found"] \in RequestType
    BY <2>1, AdvanceTyped DEF RequestType, ActiveRequestType
  <2> QED
    BY <1>4, <2>2, RequestOnlyInv DEF EnvironmentNotFound
<1>5. CASE Sleep(r)
  <2>1. [requests[r] EXCEPT !.asleep = TRUE] \in RequestType
    BY <1>3, <1>5 DEF Sleep, RequestType, ActiveRequestType
  <2> QED
    BY <1>5, <2>1, RequestOnlyInv DEF Sleep
<1>6. CASE Timeout(r)
  <2> DEFINE q == [requests[r] EXCEPT !.asleep = FALSE]
  <2>1. q \in ActiveRequestType /\ q.phase \in {"immediate", "prefetch"}
    BY <1>3, <1>6 DEF Timeout, ActiveRequestType
  <2>2. Break(q) \in RequestType
    BY <2>1, AdvanceTyped DEF RequestType
  <2> QED
    BY <1>6, <2>2, RequestOnlyInv DEF Timeout
<1>7. CASE Respond(r)
  BY <1>7, RequestOnlyInv DEF Respond, RequestType
<1> QED
  BY <1>2, <1>4, <1>5, <1>6, <1>7

(* Recording a grant keeps a request a request, over the larger set of ids.   *)
LEMMA GrantTyped ==
    ASSUME NEW q \in ActiveRequestType, NEW i \in Nat,
           NEW g \in SUBSET IssuedIds'
    PROVE  LET q2 == [q EXCEPT !.index = i, !.grants = g]
           IN  q2 \in ActiveRequestType' /\ q2.phase = q.phase
  BY DEF ActiveRequestType

(* The servant picked is one of the free ones.                                *)
LEMMA PickIsFree ==
    ASSUME NEW free, NEW requestor,
           NEW d \in UnsafePickServantFor(free, requestor)
    PROVE  d \in free
  BY DEF UnsafePickServantFor, UnsafeTryPickServantFor

(* A grant keeps the counters exact: one more grant, one more counted.        *)
LEMMA AllocateInv ==
    ASSUME RegistryInv, NEW r \in Requests, Allocate(r)
    PROVE  RegistryInv'
<1> DEFINE q == requests[r]
           n == next_task_id
<1>1. TypeOK /\ RegistrySound /\ RunningTasksExact
  BY DEF RegistryInv
<1>2. PICK pick \in UnsafePickServantFor(UnsafeEnumerateFreeServants(q.app),
                                         q.app.requestor) :
        /\ servants' = [servants EXCEPT ![pick].running_tasks = @ + 1]
        /\ tasks' = [t \in DOMAIN tasks \union {n} |->
              IF t = n THEN [servant |-> pick, expires_at |-> q.app.lease,
                             zombie |-> FALSE,
                             is_prefetch |-> (q.phase = "prefetch")]
                       ELSE tasks[t]]
  BY DEF Allocate
<1>3. /\ n < MaxTaskId /\ next_task_id' = n + 1
      /\ requests' = [requests EXCEPT ![r] =
            Advance([q EXCEPT !.index = @ + 1, !.grants = @ \union {n}])]
      /\ UNCHANGED <<next_desc, heartbeats, bookkeeper, unannounced>>
      /\ Calling(r)
  BY DEF Allocate
<1>4. pick \in DOMAIN servants
  BY PickIsFree DEF UnsafeEnumerateFreeServants, UnsafeEnumerateEligibleServants
<1>5. n \in Nat /\ n \notin DOMAIN tasks
  BY <1>1 DEF TypeOK, IssuedIds
<1>6. IssuedIds \subseteq IssuedIds' /\ n \in IssuedIds'
  BY <1>1, <1>3, <1>5 DEF IssuedIds, TypeOK
<1>7. q \in ActiveRequestType /\ q.phase \in {"immediate", "prefetch"}
  BY <1>1, <1>3, ActiveRequest DEF Calling
<1>8. q.app.lease \in Nat
  BY <1>7, ConstantsAssumption DEF ActiveRequestType, ApplicationType
<1>9. /\ DOMAIN servants' = DOMAIN servants
      /\ servants'[pick] = [servants[pick] EXCEPT !.running_tasks = @ + 1]
      /\ \A d \in DOMAIN servants : d # pick => servants'[d] = servants[d]
  BY <1>2, <1>4
<1>10. \A d \in DOMAIN servants :
          /\ servants[d] \in ServantDescType
          /\ servants'[d] \in ServantDescType
          /\ servants'[d].personality = servants[d].personality
          /\ servants'[d].running_tasks = IF d = pick
               THEN servants[d].running_tasks + 1 ELSE servants[d].running_tasks
  BY <1>1, <1>9 DEF TypeOK, ServantDescType
<1>11. /\ DOMAIN tasks' = DOMAIN tasks \union {n}
       /\ \A t \in DOMAIN tasks : tasks'[t] = tasks[t]
       /\ tasks'[n].servant = pick
       /\ tasks'[n] \in TaskDescType
  <2>1. pick \in 0 .. (next_desc - 1)
    BY <1>1, <1>4 DEF TypeOK
  <2> QED
    BY <1>2, <1>5, <1>8, <2>1 DEF TaskDescType
<1>12. TypeOK'
  <2>1. TaskDescType' = TaskDescType
    BY <1>3 DEF TaskDescType
  <2>2. requests' \in [Requests -> RequestType']
    <3> DEFINE q2 == [q EXCEPT !.index = @ + 1, !.grants = @ \union {n}]
    <3>1. q2 \in ActiveRequestType' /\ q2.phase \in {"immediate", "prefetch"}
      <4>1. /\ q.index + 1 \in Nat
            /\ q.grants \union {n} \in SUBSET IssuedIds'
        BY <1>6, <1>7 DEF ActiveRequestType
      <4> HIDE DEF n, q
      <4> QED
        BY <1>7, <4>1, GrantTyped
    <3>2. Advance(q2) \in ActiveRequestType'
      <4> HIDE DEF q2
      <4>1. Finish(q2) \in ActiveRequestType'
        BY <3>1 DEF Finish, ActiveRequestType
      <4>2. EnterPrefetch(q2) \in ActiveRequestType'
        BY <3>1, <4>1 DEF EnterPrefetch, ActiveRequestType
      <4> QED
        BY <3>1, <4>1, <4>2 DEF Advance
    <3>3. ActiveRequestType \subseteq ActiveRequestType'
      BY <1>6 DEF ActiveRequestType
    <3>4. requests \in [Requests -> RequestType']
      BY <1>1, <3>3 DEF TypeOK, RequestType
    <3> HIDE DEF q2
    <3>5. [requests EXCEPT ![r] = Advance(q2)] \in [Requests -> RequestType']
      BY <3>2, <3>4 DEF RequestType
    <3> QED
      BY <1>3, <3>5 DEF q2
  <2>3. \A b \in heartbeats' :
          b \in [observed: Locations, location: Locations,
                 running: SUBSET IssuedIds']
    <3>1. [observed: Locations, location: Locations, running: SUBSET IssuedIds]
            \subseteq
          [observed: Locations, location: Locations, running: SUBSET IssuedIds']
      BY <1>6
    <3> QED
      BY <1>1, <1>3, <3>1 DEF TypeOK
  <2>4. \A l \in DOMAIN bookkeeper' : bookkeeper'[l] \subseteq IssuedIds'
    BY <1>1, <1>3, <1>6 DEF TypeOK
  <2>5. next_desc' \in 0 .. MaxDesc /\ next_task_id' \in 0 .. MaxTaskId
    BY <1>1, <1>3, <1>5, ConstantsAssumption DEF TypeOK
  <2> QED
    BY <1>1, <1>3, <1>6, <1>9, <1>10, <1>11, <2>1, <2>2, <2>3, <2>4, <2>5
    DEF TypeOK
<1>13. RegistrySound'
  BY <1>1, <1>4, <1>9, <1>10, <1>11 DEF RegistrySound
<1>14. RunningTasksExact'
  <2> SUFFICES ASSUME NEW d \in DOMAIN servants
               PROVE  servants'[d].running_tasks = Cardinality(TasksOf(d)')
    BY <1>9 DEF RunningTasksExact
  <2>1. servants[d].running_tasks = Cardinality(TasksOf(d))
        /\ IsFiniteSet(TasksOf(d))
    BY <1>1, TasksFinite DEF RunningTasksExact
  <2>2. CASE d = pick
    <3>1. TasksOf(d)' = TasksOf(d) \union {n} /\ n \notin TasksOf(d)
      BY <1>5, <1>11, <2>2 DEF TasksOf
    <3>2. Cardinality(TasksOf(d) \union {n}) = Cardinality(TasksOf(d)) + 1
      BY <2>1, <3>1, FS_AddElement
    <3> QED
      BY <1>10, <2>1, <2>2, <3>1, <3>2
  <2>3. CASE d # pick
    <3>1. TasksOf(d)' = TasksOf(d)
      BY <1>5, <1>11, <2>3 DEF TasksOf
    <3> QED
      BY <1>10, <2>1, <2>3, <3>1
  <2> QED
    BY <2>2, <2>3
<1> QED
  BY <1>12, <1>13, <1>14 DEF RegistryInv

(* The first section of Heartbeat: a known location keeps its descriptor and  *)
(* its counter, a new one gets a descriptor no grant can refer to.            *)
LEMMA HeartbeatInv ==
    ASSUME RegistryInv, NEW h \in HeartbeatReqs,
           NEW running \in SUBSET IssuedIds, Heartbeat(h, running)
    PROVE  RegistryInv'
<1> DEFINE p == Personality(h)
           known == At(p.observed_location)
<1>1. TypeOK /\ RegistrySound /\ RunningTasksExact
  BY DEF RegistryInv
<1>2. /\ KeepServantAlive(p, h.ttl)
      /\ UNCHANGED <<tasks, next_task_id, requests, bookkeeper>>
      /\ heartbeats' = heartbeats \union
            {[observed |-> h.observed, location |-> h.location,
              running |-> running]}
      /\ unannounced' = TRUE
  BY DEF Heartbeat
<1>3. p \in PersonalityType /\ h \in HeartbeatType
  BY PersonalityTyped, ConstantsAssumption
<1>4. h.ttl \in Int /\ h.observed \in Locations /\ h.location \in Locations
  BY <1>3 DEF HeartbeatType
<1>5. /\ next_desc' \in 0 .. MaxDesc
      /\ next_desc <= next_desc' /\ next_desc \in Nat /\ next_desc' \in Nat
      /\ DOMAIN servants' \subseteq 0 .. (next_desc' - 1)
      /\ DOMAIN servants \subseteq DOMAIN servants'
      /\ \A d \in DOMAIN servants' : d \notin DOMAIN servants =>
            d = next_desc /\ known = {}
  <2> HIDE DEF p
  <2>1. next_desc \in Nat /\ DOMAIN servants \subseteq 0 .. (next_desc - 1)
        /\ next_desc \in 0 .. MaxDesc /\ MaxDesc \in Nat
    BY <1>1, ConstantsAssumption DEF TypeOK
  <2>2. CASE DOMAIN servants' = DOMAIN servants /\ next_desc' = next_desc
    BY <2>1, <2>2
  <2>3. CASE /\ DOMAIN servants' = DOMAIN servants \union {next_desc}
             /\ next_desc < MaxDesc /\ next_desc' = next_desc + 1
             /\ known = {}
    BY <2>1, <2>3
  <2> QED
    BY <1>2, <2>2, <2>3 DEF KeepServantAlive
<1> HIDE DEF p
<1>6. \A d \in DOMAIN servants :
        /\ servants'[d] \in ServantDescType
        /\ servants'[d].running_tasks = servants[d].running_tasks
        /\ servants'[d].personality.observed_location =
             servants[d].personality.observed_location
  <2> TAKE d \in DOMAIN servants
  <2>1. servants[d] \in ServantDescType
    BY <1>1 DEF TypeOK
  <2>2. CASE servants'[d] = servants[d]
    BY <2>1, <2>2
  <2>3. CASE /\ d \in known
             /\ servants'[d] = [servants[d] EXCEPT !.personality = p,
                                                   !.expires_at = h.ttl]
    <3>1. servants[d].personality.observed_location = p.observed_location
      BY <2>3 DEF At
    <3>2. /\ servants'[d] \in ServantDescType
          /\ servants'[d].running_tasks = servants[d].running_tasks
          /\ servants'[d].personality = p
      <4>1. PICK n \in Int : n = h.ttl
        BY <1>4
      <4>2. servants'[d] = [servants[d] EXCEPT !.personality = p,
                                               !.expires_at = n]
        BY <2>3, <4>1
      <4>3. servants'[d] \in ServantDescType
        BY <1>3, <2>1, <4>2 DEF ServantDescType
      <4>4. servants'[d].running_tasks = servants[d].running_tasks
        BY <2>1, <4>2 DEF ServantDescType
      <4>5. servants'[d].personality = p
        BY <2>1, <4>2 DEF ServantDescType
      <4> QED
        BY <4>3, <4>4, <4>5
    <3> QED
      BY <3>1, <3>2
  <2>4. d # next_desc
    BY <1>1 DEF TypeOK
  <2> QED
    BY <1>2, <2>2, <2>3, <2>4 DEF KeepServantAlive
<1>7. \A d \in DOMAIN servants' \ DOMAIN servants :
        /\ servants'[d] \in ServantDescType
        /\ servants'[d].running_tasks = 0
        /\ servants'[d].personality = p
  <2> TAKE d \in DOMAIN servants' \ DOMAIN servants
  <2>1. servants'[d] = [personality |-> p, expires_at |-> h.ttl,
                        running_tasks |-> 0]
    BY <1>2, <1>5 DEF KeepServantAlive, Registered
  <2> QED
    BY <1>3, <1>4, <2>1 DEF ServantDescType
<1>8. TypeOK'
  <2>1. IssuedIds' = IssuedIds
    BY <1>2 DEF IssuedIds
  <2>2. RequestType' = RequestType
    BY <2>1 DEF RequestType, ActiveRequestType
  <2>3. TaskDescType \subseteq TaskDescType'
    BY <1>5 DEF TaskDescType
  <2>4. \A b \in heartbeats' :
          b \in [observed: Locations, location: Locations,
                 running: SUBSET IssuedIds']
    BY <1>1, <1>2, <1>4, <2>1 DEF TypeOK
  <2>5. \A d \in DOMAIN servants' : servants'[d] \in ServantDescType
    BY <1>6, <1>7
  <2> QED
    BY <1>1, <1>2, <1>5, <2>1, <2>2, <2>3, <2>4, <2>5 DEF TypeOK
<1>9. RegistrySound'
  <2>1. \A t \in DOMAIN tasks' : tasks'[t].servant \in DOMAIN servants'
    BY <1>1, <1>2, <1>5 DEF RegistrySound
  <2>2. ASSUME NEW d \in DOMAIN servants', NEW e \in DOMAIN servants',
               servants'[d].personality.observed_location =
                 servants'[e].personality.observed_location
        PROVE  d = e
    <3>1. CASE d \in DOMAIN servants /\ e \in DOMAIN servants
      BY <1>1, <1>6, <2>2, <3>1 DEF RegistrySound
    <3>2. CASE d \notin DOMAIN servants /\ e \notin DOMAIN servants
      BY <1>5, <3>2
    <3>3. CASE d \in DOMAIN servants /\ e \notin DOMAIN servants
      BY <1>5, <1>6, <1>7, <2>2, <3>3 DEF At
    <3>4. CASE d \notin DOMAIN servants /\ e \in DOMAIN servants
      BY <1>5, <1>6, <1>7, <2>2, <3>4 DEF At
    <3> QED
      BY <3>1, <3>2, <3>3, <3>4
  <2> QED
    BY <2>1, <2>2 DEF RegistrySound
<1>10. RunningTasksExact'
  <2>1. \A d : TasksOf(d)' = TasksOf(d)
    BY <1>2 DEF TasksOf
  <2>2. \A d \in DOMAIN servants' \ DOMAIN servants : TasksOf(d) = {}
    BY <1>1 DEF TasksOf, RegistrySound
  <2>3. Cardinality({}) = 0
    BY FS_EmptySet
  <2> QED
    BY <1>1, <1>5, <1>6, <1>7, <2>1, <2>2, <2>3 DEF RunningTasksExact
<1> QED
  BY <1>8, <1>9, <1>10 DEF RegistryInv

(* The second section of Heartbeat.                                           *)
LEMMA NotifyInv ==
    ASSUME RegistryInv, NEW b \in heartbeats, NotifyServantRunningTasks(b)
    PROVE  RegistryInv'
<1>1. TypeOK
  BY DEF RegistryInv
<1>2. /\ heartbeats' = heartbeats \ {b}
      /\ UNCHANGED <<next_desc, next_task_id>>
  BY DEF NotifyServantRunningTasks
<1>3. /\ b.location \in Locations
      /\ b.running \subseteq IssuedIds
      /\ \A c \in heartbeats' :
            c \in [observed: Locations, location: Locations,
                   running: SUBSET IssuedIds]
  BY <1>1, <1>2 DEF TypeOK
<1>4. CASE UNCHANGED <<servants, tasks, requests, bookkeeper, unannounced>>
  <2>1. IssuedIds' = IssuedIds /\ TaskDescType' = TaskDescType
          /\ RequestType' = RequestType
    BY <1>2 DEF IssuedIds, TaskDescType, RequestType, ActiveRequestType
  <2>2. TypeOK'
    BY <1>1, <1>2, <1>3, <1>4, <2>1 DEF TypeOK
  <2>3. RegistrySound' /\ RunningTasksExact'
    BY <1>4 DEF RegistryInv, RegistrySound, RunningTasksExact, TasksOf
  <2> QED
    BY <2>2, <2>3 DEF RegistryInv
<1>5. ASSUME NEW d \in At(b.location),
             UnsafeFreeTasks(UnsafeSweepZombiesOf(d, b.running)),
             bookkeeper' = [l \in DOMAIN bookkeeper \union {b.location} |->
                 IF l = b.location THEN b.running \ UnknownTasks(b)
                                   ELSE bookkeeper[l]]
      PROVE  RegistryInv'
  <2>1. UnsafeSweepZombiesOf(d, b.running) \in SUBSET DOMAIN tasks
    BY DEF UnsafeSweepZombiesOf, TasksOf
  <2>2. /\ DOMAIN bookkeeper' \subseteq Locations
        /\ \A l \in DOMAIN bookkeeper' : bookkeeper'[l] \subseteq IssuedIds
    BY <1>1, <1>3, <1>5 DEF TypeOK
  <2> QED
    BY <1>2, <1>3, <1>5, <2>1, <2>2, FreeTasksInv
<1> QED
  BY <1>4, <1>5 DEF NotifyServantRunningTasks

(* The timer: servants go together with their grants.                         *)
LEMMA TimerInv ==
    ASSUME RegistryInv, OnExpirationTimer
    PROVE  RegistryInv'
<1> DEFINE alive == AliveServants
           orphans == UnsafeSweepOrphans
<1>1. TypeOK /\ RegistrySound /\ RunningTasksExact
  BY DEF RegistryInv
<1>2. /\ servants' = Release(orphans, alive)
      /\ tasks' = [t \in DOMAIN tasks \ orphans |->
            [tasks[t] EXCEPT !.zombie = @ \/ tasks[t].expires_at < 0]]
      /\ DOMAIN bookkeeper' \subseteq DOMAIN bookkeeper
      /\ \A l \in DOMAIN bookkeeper' : bookkeeper'[l] = bookkeeper[l]
      /\ NotifyAll
      /\ UNCHANGED <<next_desc, next_task_id, heartbeats>>
  BY DEF OnExpirationTimer, MarkZombies, DropServants
<1>3. alive \in SUBSET DOMAIN servants /\ orphans \in SUBSET DOMAIN tasks
  BY DEF AliveServants, UnsafeSweepOrphans
<1>4. \A t \in DOMAIN tasks : tasks[t].servant \in alive <=> t \notin orphans
  BY DEF UnsafeSweepOrphans
<1> HIDE DEF alive, orphans
<1>5. DOMAIN servants' = alive
  BY <1>2 DEF Release
<1>6. \A d \in alive :
        /\ servants'[d].running_tasks = Cardinality(TasksOf(d) \ orphans)
        /\ servants'[d].personality = servants[d].personality
        /\ servants'[d] \in ServantDescType
  BY <1>1, <1>2, <1>3, ReleaseExact
<1>7. /\ DOMAIN tasks' = DOMAIN tasks \ orphans
      /\ \A t \in DOMAIN tasks' :
            tasks'[t].servant = tasks[t].servant /\ tasks'[t] \in TaskDescType
  <2>1. DOMAIN tasks' = DOMAIN tasks \ orphans
    BY <1>2
  <2>2. ASSUME NEW t \in DOMAIN tasks'
        PROVE  tasks'[t].servant = tasks[t].servant /\ tasks'[t] \in TaskDescType
    <3>1. tasks[t] \in TaskDescType
      BY <1>1, <2>1 DEF TypeOK
    <3>2. PICK z : tasks'[t] = [tasks[t] EXCEPT !.zombie = z]
                   /\ z = (tasks[t].zombie \/ tasks[t].expires_at < 0)
      BY <1>2, <2>1
    <3>3. z \in BOOLEAN
      BY <3>2
    <3> QED
      BY <3>1, <3>2, <3>3 DEF TaskDescType
  <2> QED
    BY <2>1, <2>2
<1>8. \A d \in alive : TasksOf(d)' = TasksOf(d) \ orphans
  BY <1>7 DEF TasksOf
<1>9. TypeOK'
  <2>1. IssuedIds' = IssuedIds /\ TaskDescType' = TaskDescType
          /\ RequestType' = RequestType
    BY <1>2 DEF IssuedIds, TaskDescType, RequestType, ActiveRequestType
  <2> QED
    BY <1>1, <1>2, <1>3, <1>5, <1>6, <1>7, <2>1, NotifyAllTyped DEF TypeOK
<1>10. RegistrySound'
  BY <1>1, <1>3, <1>4, <1>5, <1>6, <1>7 DEF RegistrySound
<1>11. RunningTasksExact'
  BY <1>5, <1>6, <1>8 DEF RunningTasksExact
<1> QED
  BY <1>9, <1>10, <1>11 DEF RegistryInv

(* Time passing and renewals change leases only.                              *)
LEMMA TickInv ==
    ASSUME RegistryInv,
           \/ Tick
           \/ \E t \in DOMAIN tasks, n \in Renewals : KeepTaskAlive(t, n)
    PROVE  RegistryInv'
<1>1. TypeOK /\ RegistrySound /\ RunningTasksExact
  BY DEF RegistryInv
<1>2. UNCHANGED <<next_desc, next_task_id, heartbeats, bookkeeper, unannounced>>
  BY DEF Tick, KeepTaskAlive
<1>3. /\ DOMAIN tasks' = DOMAIN tasks
      /\ \A t \in DOMAIN tasks :
            tasks'[t].servant = tasks[t].servant /\ tasks'[t] \in TaskDescType
  <2>1. \A t \in DOMAIN tasks : tasks[t] \in TaskDescType
    BY <1>1 DEF TypeOK
  <2>2. CASE Tick
    <3>1. ASSUME NEW t \in DOMAIN tasks
          PROVE  tasks'[t].servant = tasks[t].servant
                 /\ tasks'[t] \in TaskDescType
      <4>1. Countdown(tasks[t].expires_at) \in Int
        BY <2>1 DEF Countdown, TaskDescType
      <4>2. tasks'[t] = [tasks[t] EXCEPT !.expires_at =
                            Countdown(tasks[t].expires_at)]
        BY <2>2 DEF Tick
      <4> QED
        BY <2>1, <4>1, <4>2 DEF TaskDescType
    <3> QED
      BY <2>2, <3>1 DEF Tick
  <2>3. CASE \E t \in DOMAIN tasks, n \in Renewals : KeepTaskAlive(t, n)
    BY <2>1, <2>3, ConstantsAssumption DEF KeepTaskAlive, TaskDescType
  <2> QED
    BY <2>2, <2>3
<1>4. /\ DOMAIN servants' = DOMAIN servants
      /\ \A d \in DOMAIN servants :
            /\ servants'[d] \in ServantDescType
            /\ servants'[d].running_tasks = servants[d].running_tasks
            /\ servants'[d].personality = servants[d].personality
  <2>1. \A d \in DOMAIN servants : servants[d] \in ServantDescType
    BY <1>1 DEF TypeOK
  <2>2. CASE Tick
    <3>1. ASSUME NEW d \in DOMAIN servants
          PROVE  /\ servants'[d] \in ServantDescType
                 /\ servants'[d].running_tasks = servants[d].running_tasks
                 /\ servants'[d].personality = servants[d].personality
      <4>1. Countdown(servants[d].expires_at) \in Int
        BY <2>1 DEF Countdown, ServantDescType
      <4>2. servants'[d] = [servants[d] EXCEPT !.expires_at =
                               Countdown(servants[d].expires_at)]
        BY <2>2 DEF Tick
      <4> QED
        BY <2>1, <4>1, <4>2 DEF ServantDescType
    <3> QED
      BY <2>2, <3>1 DEF Tick
  <2>3. CASE UNCHANGED servants
    BY <2>1, <2>3
  <2> QED
    BY <2>2, <2>3 DEF KeepTaskAlive
<1>5. requests' \in [Requests -> RequestType]
  <2>1. CASE Tick
    <3>1. ASSUME NEW r \in Requests, Calling(r)
          PROVE  [requests[r] EXCEPT !.left = Countdown(@)] \in RequestType
      <4>1. requests[r] \in ActiveRequestType
        BY <1>1, <3>1, ActiveRequest DEF Calling
      <4>2. Countdown(requests[r].left) \in Int
        BY <4>1 DEF Countdown, ActiveRequestType
      <4> QED
        BY <4>1, <4>2 DEF ActiveRequestType, RequestType
    <3> QED
      BY <1>1, <2>1, <3>1 DEF Tick, TypeOK
  <2>2. CASE UNCHANGED requests
    BY <1>1, <2>2 DEF TypeOK
  <2> QED
    BY <2>1, <2>2 DEF KeepTaskAlive
<1>6. TypeOK'
  <2>1. IssuedIds' = IssuedIds /\ TaskDescType' = TaskDescType
          /\ RequestType' = RequestType
    BY <1>2 DEF IssuedIds, TaskDescType, RequestType, ActiveRequestType
  <2> QED
    BY <1>1, <1>2, <1>3, <1>4, <1>5, <2>1 DEF TypeOK
<1>7. RegistrySound' /\ RunningTasksExact'
  BY <1>1, <1>3, <1>4 DEF RegistrySound, RunningTasksExact, TasksOf
<1> QED
  BY <1>6, <1>7 DEF RegistryInv

(* FreeTask is UnsafeFreeTasks on one id.                                     *)
LEMMA FreeTaskInv ==
    ASSUME RegistryInv, NEW t \in DOMAIN tasks, FreeTask(t)
    PROVE  RegistryInv'
<1>1. /\ UnsafeFreeTasks({t})
      /\ UNCHANGED <<next_desc, next_task_id, heartbeats, bookkeeper>>
  BY DEF FreeTask
<1>2. /\ \A b \in heartbeats' :
            b \in [observed: Locations, location: Locations,
                   running: SUBSET IssuedIds]
      /\ DOMAIN bookkeeper' \subseteq Locations
      /\ \A l \in DOMAIN bookkeeper' : bookkeeper'[l] \subseteq IssuedIds
  BY <1>1 DEF RegistryInv, TypeOK
<1> QED
  BY <1>1, <1>2, FreeTasksInv

(* Every step, and a stutter, preserves the invariant.                        *)
LEMMA RegistryStep ==
    ASSUME RegistryInv, [Next]_vars
    PROVE  RegistryInv'
<1>1. CASE UNCHANGED vars
  <2>1. IssuedIds' = IssuedIds /\ TaskDescType' = TaskDescType
          /\ RequestType' = RequestType
    BY <1>1 DEF vars, IssuedIds, TaskDescType, RequestType, ActiveRequestType
  <2>2. TypeOK'
    BY <1>1, <2>1 DEF vars, RegistryInv, TypeOK
  <2>3. RegistrySound' /\ RunningTasksExact'
    BY <1>1 DEF vars, RegistryInv, RegistrySound, RunningTasksExact, TasksOf
  <2> QED
    BY <2>2, <2>3 DEF RegistryInv
<1>2. CASE \E h \in HeartbeatReqs, running \in SUBSET IssuedIds :
             Heartbeat(h, running)
  BY <1>2, HeartbeatInv
<1>3. CASE \E b \in heartbeats : NotifyServantRunningTasks(b)
  BY <1>3, NotifyInv
<1>4. ASSUME NEW r \in Requests,
             \/ \E app \in Applications : WaitForStartingTask(r, app)
             \/ EnvironmentNotFound(r) \/ Sleep(r) \/ Timeout(r) \/ Respond(r)
      PROVE  RegistryInv'
  BY <1>4, HandlerInv
<1>5. CASE \E r \in Requests : Allocate(r)
  BY <1>5, AllocateInv
<1>6. CASE \E t \in DOMAIN tasks : FreeTask(t)
  BY <1>6, FreeTaskInv
<1>7. CASE Tick \/ \E t \in DOMAIN tasks, n \in Renewals : KeepTaskAlive(t, n)
  BY <1>7, TickInv
<1>8. CASE OnExpirationTimer
  BY <1>8, TimerInv
<1> QED
  BY <1>1, <1>2, <1>3, <1>4, <1>5, <1>6, <1>7, <1>8 DEF Next

(* The inductive invariant holds in every state of the scheduler.             *)
LEMMA RegistryInvariance == Spec => []RegistryInv
  BY RegistryInit, RegistryStep, PTL DEF Spec

(* Types: in particular `running_tasks' never goes below zero, so no path     *)
(* frees a grant twice.                                                       *)
THEOREM TypeCorrect == Spec => []TypeOK
<1>1. RegistryInv => TypeOK
  BY DEF RegistryInv
<1> QED
  BY <1>1, RegistryInvariance, PTL

(* One registration per location, and no grant without a registration.        *)
THEOREM RegistryCorrect == Spec => []RegistrySound
<1>1. RegistryInv => RegistrySound
  BY DEF RegistryInv
<1> QED
  BY <1>1, RegistryInvariance, PTL

(* The load the scheduler believes a servant to have is the number of grants  *)
(* it has outstanding there.                                                  *)
THEOREM AccountingCorrect == Spec => []RunningTasksExact
<1>1. RegistryInv => RunningTasksExact
  BY DEF RegistryInv
<1> QED
  BY <1>1, RegistryInvariance, PTL

-----------------------------------------------------------------------------
(* The bookkeeper.                                                            *)

(* A step that keeps the registered locations and adds no entry but for one   *)
(* of them keeps BookkeeperOfRegistered.                                      *)
LEMMA BookkeeperStep ==
    ASSUME RegistryInv, RegistryInv', BookkeeperOfRegistered, [Next]_vars
    PROVE  BookkeeperOfRegistered'
<1> DEFINE Loc(d) == servants[d].personality.observed_location
<1>1. TypeOK /\ TypeOK' /\ RunningTasksExact /\ RegistrySound
  BY DEF RegistryInv
<1>2. ASSUME DOMAIN servants \subseteq DOMAIN servants',
             \A d \in DOMAIN servants : Loc(d)' = Loc(d),
             \A l \in DOMAIN bookkeeper' : l \in DOMAIN bookkeeper \/ At(l) # {}
      PROVE  BookkeeperOfRegistered'
  BY <1>2 DEF BookkeeperOfRegistered, At
<1>3. ASSUME NEW ids \in SUBSET DOMAIN tasks, UnsafeFreeTasks(ids)
      PROVE  /\ DOMAIN servants' = DOMAIN servants
             /\ \A d \in DOMAIN servants : Loc(d)' = Loc(d)
  <2>1. servants' = Release(ids, DOMAIN servants)
    BY <1>3 DEF UnsafeFreeTasks
  <2>2. \A d \in DOMAIN servants :
          Release(ids, DOMAIN servants)[d].personality = servants[d].personality
    BY <1>1, ReleaseExact
  <2>3. DOMAIN servants' = DOMAIN servants
    BY <2>1 DEF Release
  <2> QED
    BY <2>1, <2>2, <2>3
<1>4. CASE UNCHANGED vars
  BY <1>2, <1>4 DEF vars
<1>5. ASSUME NEW h \in HeartbeatReqs, NEW running \in SUBSET IssuedIds,
             Heartbeat(h, running)
      PROVE  BookkeeperOfRegistered'
  <2>1. bookkeeper' = bookkeeper /\ KeepServantAlive(Personality(h), h.ttl)
    BY <1>5 DEF Heartbeat
  <2>2. DOMAIN servants \subseteq DOMAIN servants'
    BY <2>1 DEF KeepServantAlive
  <2>3. ASSUME NEW d \in DOMAIN servants PROVE Loc(d)' = Loc(d)
    <3>1. servants[d] \in ServantDescType /\ d # next_desc
      BY <1>1 DEF TypeOK
    <3>2. CASE servants'[d] = servants[d]
      BY <3>2
    <3>3. CASE /\ d \in At(Personality(h).observed_location)
               /\ servants'[d] = [servants[d] EXCEPT
                     !.personality = Personality(h), !.expires_at = h.ttl]
      <4>1. Loc(d) = Personality(h).observed_location
        BY <3>3 DEF At
      <4>2. PICK p, n : p = Personality(h) /\ n = h.ttl
        OBVIOUS
      <4>3. servants'[d] = [servants[d] EXCEPT !.personality = p,
                                               !.expires_at = n]
        BY <3>3, <4>2
      <4>4. servants'[d].personality = p
        BY <3>1, <4>3 DEF ServantDescType
      <4> QED
        BY <4>1, <4>2, <4>4
    <3> QED
      BY <2>1, <3>1, <3>2, <3>3 DEF KeepServantAlive
  <2> QED
    BY <1>2, <2>1, <2>2, <2>3
<1>6. ASSUME NEW b \in heartbeats, NotifyServantRunningTasks(b)
      PROVE  BookkeeperOfRegistered'
  <2>1. CASE UNCHANGED <<servants, bookkeeper>>
    BY <1>2, <2>1
  <2>2. ASSUME NEW d \in At(b.location),
               UnsafeFreeTasks(UnsafeSweepZombiesOf(d, b.running)),
               DOMAIN bookkeeper' = DOMAIN bookkeeper \union {b.location}
        PROVE  BookkeeperOfRegistered'
    <3>1. UnsafeSweepZombiesOf(d, b.running) \in SUBSET DOMAIN tasks
      BY DEF UnsafeSweepZombiesOf, TasksOf
    <3> QED
      BY <1>2, <1>3, <2>2, <3>1
  <2> QED
    BY <1>6, <2>1, <2>2 DEF NotifyServantRunningTasks
<1>7. ASSUME UNCHANGED bookkeeper, UNCHANGED servants
      PROVE  BookkeeperOfRegistered'
  BY <1>2, <1>7
<1>8. ASSUME NEW r \in Requests, Allocate(r)
      PROVE  BookkeeperOfRegistered'
  <2>1. PICK pick : servants' = [servants EXCEPT ![pick].running_tasks = @ + 1]
                    /\ bookkeeper' = bookkeeper
    BY <1>8 DEF Allocate
  <2>2. \A d \in DOMAIN servants : servants[d] \in ServantDescType
    BY <1>1 DEF TypeOK
  <2>3. DOMAIN servants' = DOMAIN servants
        /\ \A d \in DOMAIN servants : Loc(d)' = Loc(d)
    BY <2>1, <2>2 DEF ServantDescType
  <2> QED
    BY <1>2, <2>1, <2>3
<1>9. ASSUME NEW t \in DOMAIN tasks, FreeTask(t)
      PROVE  BookkeeperOfRegistered'
  BY <1>2, <1>3, <1>9 DEF FreeTask
<1>10. CASE Tick
  <2>1. ASSUME NEW d \in DOMAIN servants
        PROVE  Loc(d)' = Loc(d)
    <3>1. servants[d] \in ServantDescType
      BY <1>1 DEF TypeOK
    <3>2. servants'[d] = [servants[d] EXCEPT !.expires_at =
                             Countdown(servants[d].expires_at)]
      BY <1>10 DEF Tick
    <3> QED
      BY <3>1, <3>2 DEF ServantDescType
  <2>2. DOMAIN servants' = DOMAIN servants /\ bookkeeper' = bookkeeper
    BY <1>10 DEF Tick
  <2> QED
    BY <1>2, <2>1, <2>2
<1>11. CASE OnExpirationTimer
  <2> DEFINE alive == AliveServants
             orphans == UnsafeSweepOrphans
             dead == {Loc(d) : d \in DOMAIN servants \ alive}
  <2>1. /\ servants' = Release(orphans, alive)
        /\ DOMAIN bookkeeper' = DOMAIN bookkeeper \ dead
    BY <1>11 DEF OnExpirationTimer, DropServants
  <2>2. alive \in SUBSET DOMAIN servants /\ orphans \in SUBSET DOMAIN tasks
    BY DEF AliveServants, UnsafeSweepOrphans
  <2>3. \A d \in DOMAIN servants : d \in alive \/ Loc(d) \in dead
    OBVIOUS
  <2> HIDE DEF alive, orphans, dead
  <2>4. DOMAIN servants' = alive
        /\ \A d \in alive : servants'[d].personality = servants[d].personality
    <3>1. \A d \in alive :
            Release(orphans, alive)[d].personality = servants[d].personality
      BY <1>1, <2>2, ReleaseExact
    <3> QED
      BY <2>1, <3>1 DEF Release
  <2>5. ASSUME NEW l \in DOMAIN bookkeeper' PROVE At(l)' # {}
    <3>1. PICK d \in DOMAIN servants : Loc(d) = l
      BY <2>1 DEF BookkeeperOfRegistered, At
    <3>2. d \in alive
      BY <2>1, <2>3, <3>1
    <3>3. d \in At(l)'
      BY <2>4, <3>1, <3>2 DEF At
    <3> QED
      BY <3>3
  <2> QED
    BY <2>5 DEF BookkeeperOfRegistered
<1> QED
  BY <1>4, <1>5, <1>6, <1>7, <1>8, <1>9, <1>10, <1>11
  DEF Next, WaitForStartingTask, EnvironmentNotFound, Sleep, Timeout, Respond,
      KeepTaskAlive

(* GetRunningTasks never reports tasks of a servant that is not registered.   *)
THEOREM BookkeeperCorrect == Spec => []BookkeeperOfRegistered
<1>1. Init => BookkeeperOfRegistered
  BY DEF Init, BookkeeperOfRegistered
<1> QED
  BY <1>1, BookkeeperStep, RegistryInvariance, PTL DEF Spec

-----------------------------------------------------------------------------
(* Wakeups.                                                                   *)

(* Whether a servant is free for an application depends on its personality    *)
(* and its counter only.                                                      *)
LEMMA FreeDependsOn ==
    ASSUME NEW app, NEW d \in DOMAIN servants, d \in DOMAIN servants',
           servants'[d].personality = servants[d].personality,
           servants'[d].running_tasks = servants[d].running_tasks
    PROVE  d \in UnsafeEnumerateFreeServants(app)' <=>
             d \in UnsafeEnumerateFreeServants(app)
<1>1. GetCapacityAvailable(d)' = GetCapacityAvailable(d)
  BY DEF GetCapacityAvailable
<1>2. d \in UnsafeEnumerateEligibleServants(app)' <=>
        d \in UnsafeEnumerateEligibleServants(app)
  BY DEF UnsafeEnumerateEligibleServants
<1> QED
  BY <1>1, <1>2 DEF UnsafeEnumerateFreeServants

(* The loop's bookkeeping leaves `asleep' and the application alone.          *)
LEMMA AdvanceAsleep ==
    ASSUME NEW q \in ActiveRequestType, q.phase \in {"immediate", "prefetch"}
    PROVE  /\ Finish(q).asleep = q.asleep
           /\ EnterPrefetch(q).asleep = q.asleep
           /\ Advance(q).asleep = q.asleep
           /\ Break(q).asleep = q.asleep
<1>1. Finish(q).asleep = q.asleep
  BY DEF Finish, ActiveRequestType
<1>2. EnterPrefetch(q).asleep = q.asleep
  BY <1>1 DEF EnterPrefetch, ActiveRequestType
<1> QED
  BY <1>1, <1>2 DEF Advance, Break

(* Every step preserves NoLostWakeup: what makes a servant free wakes         *)
(* everybody, or is a heartbeat.                                              *)
LEMMA WakeupStep ==
    ASSUME RegistryInv, RegistryInv', NoLostWakeup, [Next]_vars
    PROVE  NoLostWakeup'
<1> DEFINE Free(app) == UnsafeEnumerateFreeServants(app)
<1>1. TypeOK /\ TypeOK'
  BY DEF RegistryInv
<1>2. ASSUME NotifyAll PROVE NoLostWakeup'
  <2>1. ASSUME NEW r \in Requests PROVE ~Asleep(r)'
    <3>1. CASE Asleep(r)
      <4>1. requests'[r] = [requests[r] EXCEPT !.asleep = FALSE]
        BY <1>2, <3>1 DEF NotifyAll
      <4>2. requests[r] \in ActiveRequestType
        BY <1>1, <3>1, ActiveRequest DEF Asleep
      <4> QED
        BY <4>1, <4>2 DEF Asleep, ActiveRequestType
    <3>2. CASE ~Asleep(r)
      BY <1>2, <3>2 DEF NotifyAll, Asleep
    <3> QED
      BY <3>1, <3>2
  <2> QED
    BY <2>1 DEF NoLostWakeup
<1>3. ASSUME UNCHANGED unannounced,
             \A s \in Requests : Asleep(s)' =>
                /\ Asleep(s) /\ requests'[s].app = requests[s].app
                /\ \A app : Free(app)' \subseteq Free(app)
                      \/ app # requests[s].app
      PROVE  NoLostWakeup'
  <2> SUFFICES ASSUME NEW s \in Requests, Asleep(s)', ~unannounced'
               PROVE  UnsafeEnumerateFreeServants(requests[s].app)' = {}
    BY DEF NoLostWakeup
  <2>1. requests'[s].app = requests[s].app /\ Asleep(s) /\ ~unannounced
    BY <1>3
  <2>2. PICK app : app = requests[s].app
    OBVIOUS
  <2>3. Free(app) = {}
    BY <2>1, <2>2 DEF NoLostWakeup
  <2>4. Free(app)' = {}
    BY <1>3, <2>2, <2>3
  <2> QED
    BY <2>1, <2>2, <2>4
<1>4. ASSUME UNCHANGED servants, NEW app PROVE Free(app)' = Free(app)
  BY <1>4 DEF UnsafeEnumerateFreeServants, UnsafeEnumerateEligibleServants,
              GetCapacityAvailable
<1>5. ASSUME UNCHANGED <<servants, unannounced>>,
             \A s \in Requests : Asleep(s)' =>
                Asleep(s) /\ requests'[s].app = requests[s].app
      PROVE  NoLostWakeup'
  BY <1>3, <1>4, <1>5
<1>6. ASSUME UNCHANGED <<unannounced>>,
             \A s \in Requests : Asleep(s)' =>
                Asleep(s) /\ requests'[s].app = requests[s].app,
             DOMAIN servants' = DOMAIN servants,
             \A d \in DOMAIN servants :
                /\ servants'[d].personality = servants[d].personality
                /\ servants'[d].running_tasks = servants[d].running_tasks
      PROVE  NoLostWakeup'
  <2>1. ASSUME NEW app PROVE Free(app)' = Free(app)
    <3>1. \A d \in DOMAIN servants : d \in Free(app)' <=> d \in Free(app)
      BY <1>6, FreeDependsOn
    <3>2. /\ Free(app) \subseteq DOMAIN servants
          /\ Free(app)' \subseteq DOMAIN servants'
      BY DEF UnsafeEnumerateFreeServants, UnsafeEnumerateEligibleServants
    <3> QED
      BY <1>6, <3>1, <3>2
  <2> QED
    BY <1>3, <1>6, <2>1
<1>7. CASE UNCHANGED vars
  BY <1>5, <1>7 DEF vars, Asleep
<1>8. CASE \E h \in HeartbeatReqs, running \in SUBSET IssuedIds :
             Heartbeat(h, running)
  BY <1>8 DEF Heartbeat, NoLostWakeup
<1>9. ASSUME NEW b \in heartbeats, NotifyServantRunningTasks(b)
      PROVE  NoLostWakeup'
  BY <1>2, <1>5, <1>9 DEF NotifyServantRunningTasks, UnsafeFreeTasks, Asleep
<1>10. CASE OnExpirationTimer \/ \E t \in DOMAIN tasks : FreeTask(t)
  BY <1>2, <1>10 DEF OnExpirationTimer, FreeTask, UnsafeFreeTasks
<1>11. CASE \E t \in DOMAIN tasks, n \in Renewals : KeepTaskAlive(t, n)
  BY <1>5, <1>11 DEF KeepTaskAlive, Asleep
<1>12. CASE Tick
  <2>1. ASSUME NEW d \in DOMAIN servants
        PROVE  /\ servants'[d].personality = servants[d].personality
               /\ servants'[d].running_tasks = servants[d].running_tasks
    <3>1. servants[d] \in ServantDescType
      BY <1>1 DEF TypeOK
    <3>2. servants'[d] = [servants[d] EXCEPT !.expires_at =
                             Countdown(servants[d].expires_at)]
      BY <1>12 DEF Tick
    <3> QED
      BY <3>1, <3>2 DEF ServantDescType
  <2>2. ASSUME NEW s \in Requests, Asleep(s)'
        PROVE  Asleep(s) /\ requests'[s].app = requests[s].app
    <3>1. CASE Calling(s)
      <4>1. requests'[s] = [requests[s] EXCEPT !.left =
                               Countdown(requests[s].left)]
        BY <1>12, <3>1 DEF Tick
      <4>2. requests[s] \in ActiveRequestType
        BY <1>1, <3>1, ActiveRequest DEF Calling
      <4>3. /\ requests'[s].app = requests[s].app
            /\ requests'[s].asleep = requests[s].asleep
        BY <4>1, <4>2 DEF ActiveRequestType
      <4> QED
        BY <2>2, <3>1, <4>3 DEF Asleep, Calling
    <3>2. CASE ~Calling(s)
      BY <1>12, <2>2, <3>2 DEF Tick, Asleep
    <3> QED
      BY <3>1, <3>2
  <2>3. UNCHANGED unannounced /\ DOMAIN servants' = DOMAIN servants
    BY <1>12 DEF Tick
  <2> QED
    BY <1>6, <2>1, <2>2, <2>3
<1>13. ASSUME NEW r \in Requests, Calling(r)
       PROVE  /\ requests[r] \in ActiveRequestType
              /\ requests[r].phase \in {"immediate", "prefetch"}
  BY <1>1, <1>13, ActiveRequest DEF Calling
<1>14. ASSUME NEW r \in Requests, NEW q, q.phase = "idle" \/ q.asleep = FALSE,
              requests' = [requests EXCEPT ![r] = q]
       PROVE  \A s \in Requests : Asleep(s)' =>
                 Asleep(s) /\ requests'[s].app = requests[s].app /\ s # r
  BY <1>1, <1>14 DEF Asleep, TypeOK
<1>15. ASSUME NEW r \in Requests,
              \/ \E app \in Applications : WaitForStartingTask(r, app)
              \/ EnvironmentNotFound(r) \/ Timeout(r) \/ Respond(r)
       PROVE  NoLostWakeup'
  <2>1. UNCHANGED <<servants, unannounced>>
    BY <1>15 DEF WaitForStartingTask, EnvironmentNotFound, Timeout, Respond
  <2>2. \E q : (q.phase = "idle" \/ q.asleep = FALSE)
               /\ requests' = [requests EXCEPT ![r] = q]
    <3>1. CASE \E app \in Applications : WaitForStartingTask(r, app)
      BY <3>1 DEF WaitForStartingTask
    <3>2. CASE EnvironmentNotFound(r)
      <4>1. requests[r] \in ActiveRequestType /\ requests[r].asleep = FALSE
            /\ requests[r].phase \in {"immediate", "prefetch"}
        BY <1>13, <3>2 DEF EnvironmentNotFound, ActiveRequestType
      <4>2. Finish(requests[r]).asleep = FALSE
        BY <4>1, AdvanceAsleep
      <4>3. [requests[r] EXCEPT !.phase = "env_not_found"].asleep = FALSE
        BY <4>1 DEF ActiveRequestType
      <4> QED
        BY <3>2, <4>2, <4>3 DEF EnvironmentNotFound
    <3>3. CASE Timeout(r)
      <4> DEFINE q == [requests[r] EXCEPT !.asleep = FALSE]
      <4>1. requests[r] \in ActiveRequestType
            /\ requests[r].phase \in {"immediate", "prefetch"}
        BY <1>13, <3>3 DEF Timeout
      <4>2. q \in ActiveRequestType /\ q.phase \in {"immediate", "prefetch"}
            /\ q.asleep = FALSE
        BY <4>1 DEF ActiveRequestType
      <4>3. Break(q).asleep = FALSE
        BY <4>2, AdvanceAsleep
      <4> QED
        BY <3>3, <4>3 DEF Timeout
    <3>4. CASE Respond(r)
      BY <3>4 DEF Respond, NoApplication
    <3> QED
      BY <1>15, <3>1, <3>2, <3>3, <3>4
  <2> QED
    BY <1>5, <1>14, <2>1, <2>2
<1>16. ASSUME NEW r \in Requests, Sleep(r) PROVE NoLostWakeup'
  <2>1. /\ requests' = [requests EXCEPT ![r].asleep = TRUE]
        /\ UNCHANGED <<servants, unannounced>>
        /\ Free(requests[r].app) = {}
        /\ requests[r] \in ActiveRequestType
    BY <1>13, <1>16 DEF Sleep
  <2>2. ASSUME NEW s \in Requests, s # r
        PROVE  requests'[s] = requests[s]
    BY <1>1, <2>1, <2>2 DEF TypeOK
  <2>3. requests'[r].app = requests[r].app
    BY <1>1, <2>1 DEF TypeOK, ActiveRequestType
  <2> SUFFICES ASSUME NEW s \in Requests, Asleep(s)', ~unannounced'
               PROVE  UnsafeEnumerateFreeServants(requests[s].app)' = {}
    BY DEF NoLostWakeup
  <2>4. PICK app : app = requests[s].app
    OBVIOUS
  <2>5. app = requests'[s].app
    BY <2>2, <2>3, <2>4
  <2>6. Free(app) = {}
    <3>1. CASE s = r
      BY <2>1, <2>4, <3>1
    <3>2. CASE s # r
      BY <2>1, <2>2, <2>4, <3>2 DEF NoLostWakeup, Asleep
    <3> QED
      BY <3>1, <3>2
  <2>7. Free(app)' = {}
    BY <1>4, <2>1, <2>6
  <2> QED
    BY <2>5, <2>7
<1>17. ASSUME NEW r \in Requests, Allocate(r) PROVE NoLostWakeup'
  <2>1. PICK pick \in UnsafePickServantFor(Free(requests[r].app),
                                           requests[r].app.requestor) :
          servants' = [servants EXCEPT ![pick].running_tasks = @ + 1]
    BY <1>17 DEF Allocate
  <2>2. pick \in Free(requests[r].app)
    BY PickIsFree
  <2>3. /\ UNCHANGED unannounced
        /\ requests' = [requests EXCEPT ![r] =
              Advance([requests[r] EXCEPT !.index = @ + 1,
                                          !.grants = @ \union {next_task_id}])]
        /\ requests[r] \in ActiveRequestType
        /\ requests[r].phase \in {"immediate", "prefetch"}
        /\ ~requests[r].asleep
        /\ next_task_id < MaxTaskId
    BY <1>13, <1>17 DEF Allocate
  <2>4. ~Asleep(r)' /\ \A s \in Requests : s # r => requests'[s] = requests[s]
    <3>1. PICK i \in Nat, g \in SUBSET IssuedIds' :
             i = requests[r].index + 1
             /\ g = requests[r].grants \union {next_task_id}
      <4>1. next_task_id \in IssuedIds' /\ IssuedIds \subseteq IssuedIds'
        BY <1>1, <1>17 DEF Allocate, TypeOK, IssuedIds
      <4>2. requests[r].index \in Nat /\ requests[r].grants \subseteq IssuedIds
        BY <2>3 DEF ActiveRequestType
      <4>3. /\ requests[r].index + 1 \in Nat
            /\ requests[r].grants \union {next_task_id} \in SUBSET IssuedIds'
        BY <4>1, <4>2
      <4> QED
        BY <4>3, Zenon
    <3> DEFINE q == [requests[r] EXCEPT !.index = i, !.grants = g]
    <3>2. /\ q.phase \in {"immediate", "prefetch"}
          /\ q.asleep = FALSE
      BY <2>3 DEF ActiveRequestType
    <3>3. requests' = [requests EXCEPT ![r] = Advance(q)]
      BY <2>3, <3>1
    <3>4. q \in ActiveRequestType'
      BY <2>3, GrantTyped
    <3> HIDE DEF q
    <3>5. Advance(q).asleep = FALSE
      <4>1. Finish(q).asleep = FALSE
        BY <3>2, <3>4 DEF Finish, ActiveRequestType
      <4>2. EnterPrefetch(q).asleep = FALSE
        BY <3>2, <3>4, <4>1 DEF EnterPrefetch, ActiveRequestType
      <4> QED
        BY <3>2, <4>1, <4>2 DEF Advance
    <3> QED
      BY <1>1, <3>3, <3>5 DEF Asleep, TypeOK
  <2>5. ASSUME NEW s \in Requests, Asleep(s)', ~unannounced'
        PROVE  Free(requests[s].app)' = {}
    <3>1. s # r /\ requests'[s] = requests[s] /\ Asleep(s) /\ ~unannounced
      BY <2>3, <2>4, <2>5 DEF Asleep
    <3>2. PICK app : app = requests[s].app
      OBVIOUS
    <3>3. Free(app) = {}
      BY <3>1, <3>2 DEF NoLostWakeup
    <3>4. pick \notin UnsafeEnumerateEligibleServants(app)
      BY <2>2, <3>3 DEF UnsafeEnumerateFreeServants
    <3>5. \A d \in DOMAIN servants : servants[d] \in ServantDescType
      BY <1>1 DEF TypeOK
    <3>6. pick \in DOMAIN servants
      BY <2>2 DEF UnsafeEnumerateFreeServants, UnsafeEnumerateEligibleServants
    <3>7. /\ DOMAIN servants' = DOMAIN servants
          /\ servants'[pick].personality = servants[pick].personality
          /\ \A d \in DOMAIN servants : d # pick => servants'[d] = servants[d]
      BY <2>1, <3>5, <3>6 DEF ServantDescType
    <3>8. pick \notin Free(app)'
      BY <3>4, <3>6, <3>7
      DEF UnsafeEnumerateFreeServants, UnsafeEnumerateEligibleServants
    <3>9. \A d \in DOMAIN servants : d # pick => d \notin Free(app)'
      BY <3>3, <3>7, FreeDependsOn
    <3>10. Free(app)' \subseteq DOMAIN servants'
      BY DEF UnsafeEnumerateFreeServants, UnsafeEnumerateEligibleServants
    <3>11. Free(app)' = {}
      BY <3>7, <3>8, <3>9, <3>10
    <3> QED
      BY <3>1, <3>2, <3>11
  <2> QED
    BY <2>5 DEF NoLostWakeup
<1> QED
  BY <1>7, <1>8, <1>9, <1>10, <1>11, <1>12, <1>15, <1>16, <1>17 DEF Next

(* No lost wakeup: a waiter sleeps beside a free servant only until the       *)
(* notification that follows a heartbeat.                                     *)
THEOREM WakeupCorrect == Spec => []NoLostWakeup
<1>1. Init => NoLostWakeup
  BY DEF Init, NoLostWakeup, Asleep, NoApplication
<1> QED
  BY <1>1, WakeupStep, RegistryInvariance, PTL DEF Spec

(* Every critical section of the scheduler starts from a whole registry and   *)
(* leaves no waiter behind that it should have woken.                         *)
THEOREM RegistryConsistentCorrect == Spec => []RegistryConsistent
  BY TypeCorrect, RegistryCorrect, BookkeeperCorrect, WakeupCorrect, PTL
  DEF RegistryConsistent
-----------------------------------------------------------------------------
(* What makes a grant go.                                                     *)

(* A zombie stays one, its lease is not renewed, and the heartbeat of the     *)
(* servant that still runs it takes it off the list delegates join from.      *)
LEMMA ZombieStep ==
    ASSUME TypeOK, BookkeeperOfRegistered, Next, NEW t \in DOMAIN tasks,
           tasks[t].zombie
    PROVE  StaysBuried(t)
<1> DEFINE Kept == t \in DOMAIN tasks' => tasks'[t] = tasks[t]
           Handled == \E b \in heartbeats : b \notin heartbeats'
<1>0. tasks[t] \in TaskDescType /\ tasks[t].expires_at \in Int /\ t \in IssuedIds
  BY DEF TypeOK, TaskDescType
<1>1. ASSUME Kept, ~Handled PROVE StaysBuried(t)
  BY <1>0, <1>1 DEF StaysBuried
<1>2. ASSUME NEW h \in HeartbeatReqs, NEW running \in SUBSET IssuedIds,
             Heartbeat(h, running)
      PROVE  Kept /\ ~Handled
  BY <1>2 DEF Heartbeat
<1>3. ASSUME NEW b \in heartbeats, NotifyServantRunningTasks(b)
      PROVE  StaysBuried(t)
  <2>1. heartbeats \ heartbeats' = {b}
    BY <1>3 DEF NotifyServantRunningTasks
  <2>2. CASE At(b.location) = {} /\ UNCHANGED <<tasks, bookkeeper>>
    <3>1. b.location \notin DOMAIN bookkeeper'
      BY <2>2 DEF BookkeeperOfRegistered
    <3> QED
      BY <1>0, <2>1, <2>2, <3>1 DEF StaysBuried
  <2>3. ASSUME NEW d \in At(b.location),
               UnsafeFreeTasks(UnsafeSweepZombiesOf(d, b.running)),
               bookkeeper' =
                 [l \in DOMAIN bookkeeper \union {b.location} |->
                    IF l = b.location THEN b.running \ UnknownTasks(b)
                                      ELSE bookkeeper[l]]
        PROVE  StaysBuried(t)
    <3>1. Kept
      BY <2>3 DEF UnsafeFreeTasks, Forget
    <3>2. t \notin bookkeeper'[b.location]
      <4>1. \A e : t \notin PermittedTasks(e)
        BY DEF PermittedTasks
      <4>2. t \in b.running => t \in UnknownTasks(b)
        BY <4>1 DEF UnknownTasks
      <4> QED
        BY <2>3, <4>2
    <3> QED
      BY <1>0, <2>1, <3>1, <3>2 DEF StaysBuried
  <2> QED
    BY <1>3, <2>2, <2>3 DEF NotifyServantRunningTasks
<1>4. ASSUME NEW r \in Requests,
             \/ \E app \in Applications : WaitForStartingTask(r, app)
             \/ EnvironmentNotFound(r) \/ Sleep(r) \/ Timeout(r) \/ Respond(r)
      PROVE  Kept /\ ~Handled
  BY <1>4 DEF WaitForStartingTask, EnvironmentNotFound, Sleep, Timeout, Respond
<1>5. ASSUME NEW r \in Requests, Allocate(r) PROVE Kept /\ ~Handled
  <2>1. t # next_task_id
    BY <1>0 DEF TypeOK, IssuedIds
  <2>2. tasks'[t] = tasks[t] /\ UNCHANGED heartbeats
    BY <1>5, <2>1 DEF Allocate
  <2> QED
    BY <2>2
<1>6. ASSUME NEW u \in DOMAIN tasks, FreeTask(u) PROVE Kept /\ ~Handled
  BY <1>6 DEF FreeTask, UnsafeFreeTasks, Forget
<1>7. ASSUME NEW u \in DOMAIN tasks, NEW n \in Renewals, KeepTaskAlive(u, n)
      PROVE  Kept /\ ~Handled
  BY <1>7 DEF KeepTaskAlive
<1>8. ASSUME Tick PROVE StaysBuried(t)
  <2>1. /\ tasks'[t] = [tasks[t] EXCEPT !.expires_at = Countdown(@)]
        /\ UNCHANGED heartbeats
    BY <1>8 DEF Tick
  <2>2. tasks'[t].zombie /\ tasks'[t].expires_at = Countdown(tasks[t].expires_at)
    BY <1>0, <2>1 DEF TaskDescType
  <2>3. Countdown(tasks[t].expires_at) <= tasks[t].expires_at
    BY <1>0 DEF Countdown
  <2> QED
    BY <2>1, <2>2, <2>3 DEF StaysBuried
<1>9. ASSUME OnExpirationTimer PROVE StaysBuried(t)
  <2>1. UNCHANGED heartbeats
    BY <1>9 DEF OnExpirationTimer
  <2>2. ASSUME t \in DOMAIN tasks'
        PROVE  tasks'[t] = [tasks[t] EXCEPT
                  !.zombie = @ \/ tasks[t].expires_at < 0]
    BY <1>9, <2>2 DEF OnExpirationTimer, MarkZombies
  <2>3. ASSUME t \in DOMAIN tasks'
        PROVE  /\ tasks'[t].zombie
               /\ tasks'[t].expires_at = tasks[t].expires_at
    BY <1>0, <2>2, <2>3 DEF TaskDescType
  <2> QED
    BY <1>0, <2>1, <2>3 DEF StaysBuried
<1> QED
  BY <1>1, <1>2, <1>3, <1>4, <1>5, <1>6, <1>7, <1>8, <1>9 DEF Next

(* A grant leaves the table only because its holder freed it, because its     *)
(* servant's registration has lapsed, or as a zombie that the heartbeat of    *)
(* its servant's location no longer lists: KeepTaskAlive, WaitForStartingTask *)
(* and the heartbeats of others never take a lease away.  And a zombie is not *)
(* revived by a renewal that comes after the timer.                           *)
THEOREM LeaseRespectedCorrect == Spec => LeaseRespected
<1> DEFINE Respected == \A t \in DOMAIN tasks \ DOMAIN tasks' : RightlyGone(t)
           Buried == \A t \in DOMAIN tasks : tasks[t].zombie => StaysBuried(t)
<1>1. ASSUME NEW h \in HeartbeatReqs, NEW running \in SUBSET IssuedIds,
             Heartbeat(h, running)
      PROVE  Respected
  BY <1>1 DEF Heartbeat
<1>2. ASSUME NEW b \in heartbeats, NotifyServantRunningTasks(b) PROVE Respected
  <2> SUFFICES ASSUME NEW t \in DOMAIN tasks \ DOMAIN tasks'
               PROVE  RightlyGone(t)
    OBVIOUS
  <2>1. b \in heartbeats \ heartbeats'
    BY <1>2 DEF NotifyServantRunningTasks
  <2>2. PICK d \in At(b.location) :
          UnsafeFreeTasks(UnsafeSweepZombiesOf(d, b.running))
    BY <1>2 DEF NotifyServantRunningTasks
  <2>3. t \in UnsafeSweepZombiesOf(d, b.running)
    BY <2>2 DEF UnsafeFreeTasks, Forget
  <2>4. tasks[t].zombie /\ tasks[t].servant = d /\ t \notin b.running
    BY <2>3 DEF UnsafeSweepZombiesOf, TasksOf
  <2> QED
    BY <2>1, <2>2, <2>4 DEF RightlyGone
<1>3. ASSUME NEW r \in Requests,
             \/ \E app \in Applications : WaitForStartingTask(r, app)
             \/ EnvironmentNotFound(r) \/ Sleep(r) \/ Timeout(r) \/ Respond(r)
      PROVE  Respected
  BY <1>3 DEF WaitForStartingTask, EnvironmentNotFound, Sleep, Timeout, Respond
<1>4. ASSUME NEW r \in Requests, Allocate(r) PROVE Respected
  <2>1. DOMAIN tasks \subseteq DOMAIN tasks'
    BY <1>4 DEF Allocate
  <2> QED
    BY <2>1
<1>5. ASSUME NEW t \in DOMAIN tasks, FreeTask(t) PROVE Respected
  <2>1. DOMAIN tasks' = DOMAIN tasks \ {t}
    BY <1>5 DEF FreeTask, UnsafeFreeTasks, Forget
  <2> QED
    BY <1>5, <2>1 DEF RightlyGone
<1>6. ASSUME Tick \/ \E t \in DOMAIN tasks, n \in Renewals : KeepTaskAlive(t, n)
      PROVE  Respected
  <2>1. DOMAIN tasks' = DOMAIN tasks
    BY <1>6 DEF Tick, KeepTaskAlive
  <2> QED
    BY <2>1
<1>7. ASSUME OnExpirationTimer PROVE Respected
  <2>1. DOMAIN tasks' = DOMAIN tasks \ UnsafeSweepOrphans
    BY <1>7 DEF OnExpirationTimer, MarkZombies
  <2>2. DOMAIN servants' = AliveServants
    BY <1>7 DEF OnExpirationTimer, Release
  <2> QED
    BY <2>1, <2>2 DEF UnsafeSweepOrphans, RightlyGone
<1>8. Next => Respected
  BY <1>1, <1>2, <1>3, <1>4, <1>5, <1>6, <1>7 DEF Next
<1>9. RegistryInv /\ BookkeeperOfRegistered /\ Next => Buried
  BY ZombieStep DEF RegistryInv
<1>10. [Next]_vars /\ RegistryInv /\ BookkeeperOfRegistered
         => [Respected /\ Buried]_vars
  BY <1>8, <1>9
<1> QED
  BY <1>10, RegistryInvariance, BookkeeperCorrect, PTL
  DEF Spec, LeaseRespected

-----------------------------------------------------------------------------
(* What a grant is given for.                                                 *)

(* Sets of naturals have a least member.                                      *)
Precedes == {pair \in Nat \X Nat : pair[1] < pair[2]}

LEMMA LeastNatural ==
    ASSUME NEW T \in SUBSET Nat, T # {}
    PROVE  \E m \in T : \A n \in T : m <= n
<1>1. IsWellFoundedOn(Precedes, Nat)
  BY NatLessThanWellFounded DEF OpToRel, Precedes
<1>2. PICK m \in T : \A n \in T : ~(<<n, m>> \in Precedes)
  BY <1>1, WFMin
<1>3. ASSUME NEW n \in T PROVE m <= n
  <2>1. ~(<<n, m>> \in Precedes) /\ m \in Nat /\ n \in Nat
    BY <1>2
  <2> QED
    BY <2>1 DEF Precedes
<1> QED
  BY <1>3

(* A finite set that is ordered by R has a first member: were there sets that *)
(* have none, one with the fewest members would have none even without one of *)
(* them.                                                                      *)
LEMMA FirstOfFinite ==
    ASSUME NEW S, IsFiniteSet(S), S # {}, NEW R,
           \A x, y \in S : <<x, y>> \in R \/ <<y, x>> \in R,
           \A x, y, z \in S : <<x, y>> \in R /\ <<y, z>> \in R => <<x, z>> \in R
    PROVE  \E m \in S : \A n \in S : <<m, n>> \in R
<1> DEFINE NoFirst(T) == ~ \E m \in T : \A y \in T : <<m, y>> \in R
           Bad == {n \in Nat : \E T \in SUBSET S :
                     T # {} /\ Cardinality(T) = n /\ NoFirst(T)}
<1>1. ASSUME Bad # {} PROVE FALSE
  <2>1. PICK n \in Bad : \A k \in Bad : n <= k
    BY <1>1, LeastNatural
  <2>2. PICK T \in SUBSET S : T # {} /\ Cardinality(T) = n /\ NoFirst(T)
    BY <2>1
  <2>3. PICK x : x \in T
    BY <2>2
  <2>4. IsFiniteSet(T) /\ IsFiniteSet(T \ {x})
    BY FS_Subset
  <2>5. /\ Cardinality(T \ {x}) = Cardinality(T) - 1
        /\ Cardinality(T) \in Nat /\ Cardinality(T \ {x}) \in Nat
    BY <2>3, <2>4, FS_RemoveElement, FS_CardinalityType
  <2>6. Cardinality(T \ {x}) \notin Bad
    <3>1. ~(n <= Cardinality(T \ {x}))
      BY <2>2, <2>5
    <3> QED
      BY <2>1, <3>1
  <2>7. CASE T \ {x} = {}
    BY <2>2, <2>3, <2>7
  <2>8. CASE T \ {x} # {}
    <3>1. PICK m \in T \ {x} : \A y \in T \ {x} : <<m, y>> \in R
      BY <2>5, <2>6, <2>8
    <3>2. <<m, x>> \in R \/ <<x, m>> \in R
      BY <2>3
    <3> QED
      BY <2>2, <2>3, <3>1, <3>2
  <2> QED
    BY <2>7, <2>8
<1>2. Cardinality(S) \notin Bad /\ Cardinality(S) \in Nat
  BY <1>1, FS_CardinalityType
<1> QED
  BY <1>2

(* Fractions a/p, b/q and d/r, compared as cross products.                    *)
LEMMA CrossTransitive ==
    ASSUME NEW a \in Nat, NEW b \in Nat, NEW d \in Nat,
           NEW p \in Nat \ {0}, NEW q \in Nat \ {0}, NEW r \in Nat \ {0},
           a * q <= b * p, b * r <= d * q
    PROVE  /\ a * r <= d * p
           /\ a * q < b * p \/ b * r < d * q => a * r < d * p
<1>1. ASSUME NEW x \in Nat, NEW y \in Nat, NEW k \in Nat \ {0}
      PROVE  (x <= y <=> x * k <= y * k) /\ (x < y <=> x * k < y * k)
  OBVIOUS
<1>2. /\ a * q \in Nat /\ b * p \in Nat /\ b * r \in Nat /\ d * q \in Nat
      /\ a * r \in Nat /\ d * p \in Nat
  OBVIOUS
<1>3. /\ (a * q) * r = (a * r) * q /\ (b * p) * r = (b * r) * p
      /\ (d * q) * p = (d * p) * q
  OBVIOUS
<1>4. (a * q) * r <= (b * p) * r /\ (b * r) * p <= (d * q) * p
  BY <1>1, <1>2
<1>5. (a * r) * q <= (d * p) * q
  BY <1>2, <1>3, <1>4
<1>6. a * r <= d * p
  BY <1>1, <1>2, <1>5
<1>7. ASSUME a * q < b * p \/ b * r < d * q PROVE a * r < d * p
  <2>1. (a * q) * r < (b * p) * r \/ (b * r) * p < (d * q) * p
    BY <1>1, <1>2, <1>7
  <2>2. (a * r) * q < (d * p) * q
    BY <1>2, <1>3, <1>4, <2>1
  <2> QED
    BY <1>1, <1>2, <2>2
<1> QED
  BY <1>6, <1>7

(* A servant that is free has room, by its limit and by its capacity.         *)
LEMMA FreeHasRoom ==
    ASSUME TypeOK, NEW app, NEW d \in UnsafeEnumerateFreeServants(app)
    PROVE  /\ d \in DOMAIN servants
           /\ servants[d].running_tasks \in Nat
           /\ GetCapacityAvailable(d) \in Nat \ {0}
           /\ servants[d].running_tasks < GetCapacityAvailable(d)
           /\ servants[d].running_tasks < servants[d].personality.max_tasks
           /\ ~servants[d].personality.low_memory
<1>1. d \in DOMAIN servants /\ servants[d].running_tasks < GetCapacityAvailable(d)
  BY DEF UnsafeEnumerateFreeServants, UnsafeEnumerateEligibleServants
<1>2. servants[d].running_tasks \in Nat /\ servants[d].personality \in PersonalityType
  BY <1>1 DEF TypeOK, ServantDescType
<1>3. PICK p \in PersonalityType : p = servants[d].personality
  BY <1>2
<1>4. ~p.low_memory
  BY <1>1, <1>2, <1>3 DEF GetCapacityAvailable
<1> DEFINE foreign == AtLeastZero(p.current_load - servants[d].running_tasks)
           room == AtLeastZero(p.num_processors - foreign)
<1>5. /\ p.max_tasks \in Nat /\ p.current_load \in Nat /\ p.num_processors \in Nat
  BY DEF PersonalityType
<1>6. foreign \in Nat /\ room \in Nat
  BY <1>2, <1>5 DEF AtLeastZero
<1>7. GetCapacityAvailable(d) = AtMost(p.max_tasks, room)
  BY <1>3, <1>4 DEF GetCapacityAvailable
<1> HIDE DEF foreign, room
<1>8. GetCapacityAvailable(d) \in Nat /\ GetCapacityAvailable(d) <= p.max_tasks
  BY <1>5, <1>6, <1>7 DEF AtMost
<1> QED
  BY <1>1, <1>2, <1>3, <1>4, <1>5, <1>8

(* Of servants that are free the pick is one: running_tasks / capacity, and   *)
(* then the place in the vector, order them.                                  *)
LEMMA PickIsOne ==
    ASSUME TypeOK, NEW app, NEW ds \in SUBSET UnsafeEnumerateFreeServants(app), ds # {}
    PROVE  \E d \in ds : UnsafeTryPickServantFor(ds) = {d}
<1> DEFINE load(d) == servants[d].running_tasks
           room(d) == GetCapacityAvailable(d)
           Before(d, e) == \/ load(d) * room(e) < load(e) * room(d)
                           \/ load(d) * room(e) = load(e) * room(d) /\ d <= e
           R == {pair \in ds \X ds : Before(pair[1], pair[2])}
<1>1. \A d \in ds : d \in Nat /\ load(d) \in Nat /\ room(d) \in Nat \ {0}
  <2>1. \A d \in ds : d \in DOMAIN servants /\ load(d) \in Nat /\ room(d) \in Nat \ {0}
    BY FreeHasRoom
  <2> QED
    BY <2>1 DEF TypeOK
<1>2. IsFiniteSet(ds)
  <2>1. IsFiniteSet(0 .. (next_desc - 1))
    BY FS_Interval DEF TypeOK
  <2>2. ds \subseteq 0 .. (next_desc - 1)
    BY FreeHasRoom DEF TypeOK
  <2> QED
    BY <2>1, <2>2, FS_Subset
<1>3. UnsafeTryPickServantFor(ds) = {d \in ds : \A e \in ds : Before(d, e)}
  BY DEF UnsafeTryPickServantFor
<1>4. \A d, e \in ds : <<d, e>> \in R <=> Before(d, e)
  OBVIOUS
<1> HIDE DEF load, room, R
<1>p. \A d, e \in ds : load(d) * room(e) \in Nat
  BY <1>1
<1>5. \A d, e \in ds : Before(d, e) \/ Before(e, d)
  BY <1>1, <1>p
<1>6. ASSUME NEW d \in ds, NEW e \in ds, Before(d, e), Before(e, d) PROVE d = e
  <2>1. PICK x \in Nat, y \in Nat : x = load(d) * room(e) /\ y = load(e) * room(d)
    BY <1>p
  <2>2. d \in Nat /\ e \in Nat
    BY <1>1
  <2>3. (x < y \/ (x = y /\ d <= e)) /\ (y < x \/ (y = x /\ e <= d))
    BY <1>6, <2>1
  <2> QED
    BY <2>1, <2>2, <2>3
<1>7. ASSUME NEW c \in ds, NEW d \in ds, NEW e \in ds, Before(c, d), Before(d, e)
      PROVE  Before(c, e)
  <2>1. load(c) * room(d) <= load(d) * room(c) /\ load(d) * room(e) <= load(e) * room(d)
    BY <1>p, <1>7
  <2>2. /\ load(c) * room(e) <= load(e) * room(c)
        /\ (\/ load(c) * room(d) < load(d) * room(c)
            \/ load(d) * room(e) < load(e) * room(d))
             => load(c) * room(e) < load(e) * room(c)
    BY <1>1, <2>1, CrossTransitive
  <2>3. CASE \/ load(c) * room(d) < load(d) * room(c)
             \/ load(d) * room(e) < load(e) * room(d)
    BY <2>2, <2>3
  <2>4. CASE c <= d /\ d <= e
    <3>1. c <= e
      BY <1>1, <2>4
    <3> QED
      BY <1>p, <2>2, <3>1
  <2> QED
    BY <1>7, <1>p, <2>3, <2>4
<1>8. PICK d \in ds : \A e \in ds : <<d, e>> \in R
  <2>1. \A x, y \in ds : <<x, y>> \in R \/ <<y, x>> \in R
    BY <1>4, <1>5
  <2>2. \A x, y, z \in ds : <<x, y>> \in R /\ <<y, z>> \in R => <<x, z>> \in R
    BY <1>4, <1>7
  <2> QED
    BY <1>2, <2>1, <2>2, FirstOfFinite
<1>9. \A e \in ds : Before(d, e)
  BY <1>4, <1>8
<1> HIDE DEF Before
<1> QED
  BY <1>3, <1>6, <1>9

(* The servants in front of which a requestor's own stands: there is one.     *)
OneServantPerHost ==
    \A l, m \in Locations : HostOf[l] = HostOf[m] => l = m

(* UnsafePickServantFor, whatever is free.                                    *)
LEMMA PickShape ==
    ASSUME TypeOK, NEW app, NEW requestor,
           UnsafeEnumerateFreeServants(app) # {}
    PROVE  LET free == UnsafeEnumerateFreeServants(app)
           IN  \E d \in free : UnsafePickServantFor(free, requestor) = {d}
<1> DEFINE free == UnsafeEnumerateFreeServants(app)
           local == {d \in free :
                HostOf[servants[d].personality.observed_location] = requestor}
           self == {d \in local : \A e \in local : d <= e}
           others == free \ self
           dedicated == {d \in others :
                /\ servants[d].personality.dedicated
                /\ servants[d].running_tasks * 2
                     < servants[d].personality.num_processors}
           pick == UnsafePickServantFor(free, requestor)
<1>1. pick = IF dedicated # {} THEN UnsafeTryPickServantFor(dedicated)
             ELSE IF others # {} THEN UnsafeTryPickServantFor(others)
             ELSE self
  BY DEF UnsafePickServantFor
<1>2. dedicated \in SUBSET free /\ others \in SUBSET free /\ self \in SUBSET free
  OBVIOUS
<1>3. \A d \in free : d \in Nat
  BY FreeHasRoom DEF TypeOK
<1>4. \A d, e \in self : d = e
  BY <1>3
<1>5. others = {} => self = free
  BY <1>2
<1> HIDE DEF dedicated, others, self, pick
<1>6. CASE dedicated # {}
  <2>1. \E d \in dedicated : UnsafeTryPickServantFor(dedicated) = {d}
    BY <1>2, <1>6, PickIsOne
  <2> QED
    BY <1>1, <1>2, <1>6, <2>1 DEF pick
<1>7. CASE dedicated = {} /\ others # {}
  <2>1. \E d \in others : UnsafeTryPickServantFor(others) = {d}
    BY <1>2, <1>7, PickIsOne
  <2> QED
    BY <1>1, <1>2, <1>7, <2>1 DEF pick
<1>8. CASE dedicated = {} /\ others = {}
  <2>1. PICK d : d \in self
    BY <1>5, <1>8
  <2>2. self = {d}
    BY <1>4, <2>1
  <2> QED
    BY <1>1, <1>2, <1>8, <2>1, <2>2 DEF pick
<1> QED
  BY <1>6, <1>7, <1>8

(* A pick is the least utilized of those it is made from.                     *)
LEMMA PickIsLeast ==
    ASSUME NEW ds, NEW d \in UnsafeTryPickServantFor(ds), TypeOK, NEW app,
           ds \subseteq UnsafeEnumerateFreeServants(app)
    PROVE  /\ d \in ds
           /\ \A e \in ds :
                 servants[d].running_tasks * GetCapacityAvailable(e) <=
                   servants[e].running_tasks * GetCapacityAvailable(d)
<1>1. d \in ds
  BY DEF UnsafeTryPickServantFor
<1>2. ASSUME NEW e \in ds
      PROVE  servants[d].running_tasks * GetCapacityAvailable(e) <=
               servants[e].running_tasks * GetCapacityAvailable(d)
  <2>1. /\ servants[d].running_tasks \in Nat /\ servants[e].running_tasks \in Nat
        /\ GetCapacityAvailable(d) \in Nat /\ GetCapacityAvailable(e) \in Nat
    BY <1>1, FreeHasRoom
  <2>2. PICK x \in Nat, y \in Nat :
          /\ x = servants[d].running_tasks * GetCapacityAvailable(e)
          /\ y = servants[e].running_tasks * GetCapacityAvailable(d)
    BY <2>1
  <2>3. x < y \/ (x = y /\ d <= e)
    BY <2>2 DEF UnsafeTryPickServantFor
  <2> QED
    BY <2>2, <2>3
<1> QED
  BY <1>1, <1>2

(* UnsafePickServantFor prefers others to the requestor's own servant, among  *)
(* them the dedicated that are idle enough, and among those the least         *)
(* utilized.                                                                  *)
LEMMA PickFollowsPolicy ==
    ASSUME OneServantPerHost, TypeOK, RegistrySound, NEW app, NEW d,
           d \in UnsafePickServantFor(UnsafeEnumerateFreeServants(app),
                                      app.requestor)
    PROVE  LET free  == UnsafeEnumerateFreeServants(app)
               Own(e) == HostOf[servants[e].personality.observed_location]
                           = app.requestor
               Idle(e) == /\ servants[e].personality.dedicated
                          /\ 2 * servants[e].running_tasks <
                               servants[e].personality.num_processors
               strangers == {e \in free : ~Own(e)}
               idle == {e \in strangers : Idle(e)}
               rivals == IF idle # {} THEN idle
                         ELSE IF strangers # {} THEN strangers ELSE free
           IN  /\ d \in free
               /\ d \in rivals
               /\ \A e \in rivals :
                     servants[d].running_tasks * GetCapacityAvailable(e) <=
                       servants[e].running_tasks * GetCapacityAvailable(d)
<1> DEFINE free == UnsafeEnumerateFreeServants(app)
           Own(e) == HostOf[servants[e].personality.observed_location]
                       = app.requestor
           local == {e \in free : Own(e)}
           self == {e \in local : \A f \in local : e <= f}
           others == free \ self
           dedicated == {e \in others :
                /\ servants[e].personality.dedicated
                /\ servants[e].running_tasks * 2
                     < servants[e].personality.num_processors}
           Idle(e) == /\ servants[e].personality.dedicated
                      /\ 2 * servants[e].running_tasks <
                           servants[e].personality.num_processors
           strangers == {e \in free : ~Own(e)}
           idle == {e \in strangers : Idle(e)}
           rivals == IF idle # {} THEN idle
                     ELSE IF strangers # {} THEN strangers ELSE free
           Least == \A e \in rivals :
                       servants[d].running_tasks * GetCapacityAvailable(e) <=
                         servants[e].running_tasks * GetCapacityAvailable(d)
<1>1. \A e \in free : /\ e \in DOMAIN servants /\ e \in Nat
                      /\ servants[e].running_tasks \in Nat
                      /\ GetCapacityAvailable(e) \in Nat
                      /\ servants[e].personality.observed_location \in Locations
  <2>1. \A e \in free : /\ e \in DOMAIN servants
                        /\ servants[e].running_tasks \in Nat
                        /\ GetCapacityAvailable(e) \in Nat
    BY FreeHasRoom
  <2>2. \A e \in DOMAIN servants :
          e \in Nat /\ servants[e].personality.observed_location \in Locations
    BY DEF TypeOK, ServantDescType, PersonalityType
  <2> QED
    BY <2>1, <2>2
<1>2. \A e, f \in local : e = f
  <2> SUFFICES ASSUME NEW e \in local, NEW f \in local PROVE e = f
    OBVIOUS
  <2>1. servants[e].personality.observed_location =
          servants[f].personality.observed_location
    BY <1>1 DEF OneServantPerHost
  <2> QED
    BY <1>1, <2>1 DEF RegistrySound
<1>3. self = local
  <2>1. ASSUME NEW e \in local, NEW f \in local PROVE e <= f
    BY <1>1, <1>2
  <2> QED
    BY <2>1
<1>4. others = strangers
  BY <1>3
<1>5. dedicated = idle
  <2>1. \A e \in free : servants[e].running_tasks * 2
                          = 2 * servants[e].running_tasks
    BY <1>1
  <2> QED
    BY <1>4, <2>1
<1>6. UnsafePickServantFor(free, app.requestor) =
        IF dedicated # {} THEN UnsafeTryPickServantFor(dedicated)
        ELSE IF others # {} THEN UnsafeTryPickServantFor(others) ELSE self
  BY DEF UnsafePickServantFor
<1>7. d \in IF idle # {} THEN UnsafeTryPickServantFor(idle)
            ELSE IF strangers # {} THEN UnsafeTryPickServantFor(strangers)
            ELSE local
  BY <1>3, <1>4, <1>5, <1>6
<1>8. idle \subseteq free /\ strangers \subseteq free /\ local \subseteq free
  OBVIOUS
<1>9. strangers = {} => free = local
  OBVIOUS
<1>10. idle # {} => strangers # {}
  OBVIOUS
<1> HIDE DEF idle, strangers, local, self, others, dedicated, free
<1>11. CASE idle # {}
  <2>1. rivals = idle /\ d \in UnsafeTryPickServantFor(idle)
    BY <1>7, <1>11
  <2>2. d \in rivals /\ Least
    BY <1>8, <2>1, PickIsLeast DEF free
  <2> QED
    BY <1>8, <2>1, <2>2 DEF idle, strangers, free
<1>12. CASE idle = {} /\ strangers # {}
  <2>1. rivals = strangers /\ d \in UnsafeTryPickServantFor(strangers)
    BY <1>7, <1>12
  <2>2. d \in rivals /\ Least
    BY <1>8, <2>1, PickIsLeast DEF free
  <2> QED
    BY <1>8, <2>1, <2>2 DEF idle, strangers, free
<1>13. CASE idle = {} /\ strangers = {}
  <2>1. rivals = free /\ d \in free
    BY <1>7, <1>9, <1>13
  <2>2. \A e \in free : e = d
    BY <1>2, <1>9, <1>13, <2>1
  <2>3. servants[d].running_tasks * GetCapacityAvailable(d) \in Nat
    BY <1>1, <2>1
  <2>4. d \in rivals /\ Least
    BY <2>1, <2>2, <2>3
  <2> QED
    BY <2>1, <2>4 DEF idle, strangers, free
<1> QED
  BY <1>11, <1>12, <1>13

(* The FLARE_CHECKs of WaitForStartingNewTask and UnsafePickServantFor hold   *)
(* in every state a caller can find.                                          *)
LEMMA ChecksHold == TypeOK => PickChecks
<1> SUFFICES ASSUME TypeOK, NEW r \in Requests, Calling(r)
             PROVE  LET free == UnsafeEnumerateFreeServants(requests[r].app)
                        pick == UnsafePickServantFor(free,
                                  requests[r].app.requestor)
                    IN  /\ free # {} => \E d \in free : pick = {d}
                        /\ \A d \in free :
                              /\ servants[d].personality.max_tasks >
                                   servants[d].running_tasks
                              /\ GetCapacityAvailable(d) # 0
  BY DEF PickChecks
<1>1. PICK app, requestor : app = requests[r].app
                            /\ requestor = requests[r].app.requestor
  OBVIOUS
<1>2. UnsafeEnumerateFreeServants(app) # {} =>
        \E d \in UnsafeEnumerateFreeServants(app) :
            UnsafePickServantFor(UnsafeEnumerateFreeServants(app), requestor)
              = {d}
  BY PickShape
<1>3. ASSUME NEW d \in UnsafeEnumerateFreeServants(app)
      PROVE  /\ servants[d].personality.max_tasks > servants[d].running_tasks
             /\ GetCapacityAvailable(d) # 0
  <2>1. /\ servants[d].personality \in PersonalityType
        /\ d \in DOMAIN servants
    BY FreeHasRoom DEF TypeOK, ServantDescType
  <2>2. servants[d].personality.max_tasks \in Nat
    BY <2>1 DEF PersonalityType
  <2> QED
    BY <2>2, FreeHasRoom
<1> QED
  BY <1>1, <1>2, <1>3

(* Every grant is made as the code's checks and its policy require: the pick  *)
(* exists whenever a servant is free and is exactly one; it has room by its   *)
(* limit and by its capacity; the requestor's own servant is the last resort, *)
(* an idle enough dedicated one the first; and it is the least utilized of    *)
(* its class.                                                                 *)
THEOREM PickSoundCorrect == ASSUME OneServantPerHost PROVE Spec => PickSound
<1> DEFINE Chosen(t, r) ==
             LET d     == tasks'[t].servant
                 app   == requests[r].app
                 free  == UnsafeEnumerateFreeServants(app)
                 Own(e) == HostOf[servants[e].personality.observed_location]
                             = app.requestor
                 Idle(e) == /\ servants[e].personality.dedicated
                            /\ 2 * servants[e].running_tasks <
                                 servants[e].personality.num_processors
                 strangers == {e \in free : ~Own(e)}
                 idle == {e \in strangers : Idle(e)}
                 rivals == IF idle # {} THEN idle
                           ELSE IF strangers # {} THEN strangers ELSE free
             IN  /\ servants'[d].running_tasks <=
                      servants[d].personality.max_tasks
                 /\ ~servants[d].personality.low_memory
                 /\ d \in rivals
                 /\ \A e \in rivals :
                       servants[d].running_tasks * GetCapacityAvailable(e) <=
                         servants[e].running_tasks * GetCapacityAvailable(d)
           Policy == \A t \in DOMAIN tasks' \ DOMAIN tasks, r \in Requests :
                        requests'[r] # requests[r] => Chosen(t, r)
<1>1. ASSUME TypeOK, RegistrySound, NEW s \in Requests, Allocate(s)
      PROVE  Policy
  <2> SUFFICES ASSUME NEW t \in DOMAIN tasks' \ DOMAIN tasks,
                      NEW r \in Requests, requests'[r] # requests[r]
               PROVE  Chosen(t, r)
    OBVIOUS
  <2>1. r = s
    BY <1>1 DEF Allocate, TypeOK
  <2>2. PICK app : app = requests[s].app
    OBVIOUS
  <2>3. PICK d \in UnsafePickServantFor(
                      UnsafeEnumerateFreeServants(requests[s].app),
                      requests[s].app.requestor) :
          /\ servants' = [servants EXCEPT ![d].running_tasks = @ + 1]
          /\ tasks' = [i \in DOMAIN tasks \union {next_task_id} |->
                IF i = next_task_id
                  THEN [servant |-> d, expires_at |-> requests[s].app.lease,
                        zombie |-> FALSE,
                        is_prefetch |-> (requests[s].phase = "prefetch")]
                  ELSE tasks[i]]
    BY <1>1 DEF Allocate
  <2>4. tasks'[t].servant = d
    BY <2>3
  <2>5. /\ d \in UnsafePickServantFor(UnsafeEnumerateFreeServants(app),
                                      app.requestor)
        /\ d \in UnsafeEnumerateFreeServants(app)
    BY <1>1, <2>2, <2>3, PickFollowsPolicy
  <2>6. /\ d \in DOMAIN servants /\ servants[d].running_tasks \in Nat
        /\ servants[d].running_tasks < servants[d].personality.max_tasks
        /\ ~servants[d].personality.low_memory
    BY <1>1, <2>5, FreeHasRoom
  <2>7. servants[d] \in ServantDescType
    BY <1>1, <2>6 DEF TypeOK
  <2>8. servants'[d].running_tasks = servants[d].running_tasks + 1
    BY <2>3, <2>6, <2>7 DEF ServantDescType
  <2>9. servants[d].personality.max_tasks \in Nat
    BY <2>7 DEF ServantDescType, PersonalityType
  <2>10. servants'[d].running_tasks <= servants[d].personality.max_tasks
    BY <2>6, <2>8, <2>9
  <2> QED
    BY <1>1, <2>1, <2>2, <2>4, <2>5, <2>6, <2>10, PickFollowsPolicy
<1>2. ASSUME DOMAIN tasks' \subseteq DOMAIN tasks PROVE Policy
  BY <1>2
<1>3. ASSUME NEW h \in HeartbeatReqs, NEW running \in SUBSET IssuedIds,
             Heartbeat(h, running)
      PROVE  DOMAIN tasks' \subseteq DOMAIN tasks
  BY <1>3 DEF Heartbeat
<1>4. ASSUME NEW b \in heartbeats, NotifyServantRunningTasks(b)
      PROVE  DOMAIN tasks' \subseteq DOMAIN tasks
  BY <1>4 DEF NotifyServantRunningTasks, UnsafeFreeTasks, Forget
<1>5. ASSUME NEW r \in Requests,
             \/ \E app \in Applications : WaitForStartingTask(r, app)
             \/ EnvironmentNotFound(r) \/ Sleep(r) \/ Timeout(r) \/ Respond(r)
      PROVE  DOMAIN tasks' \subseteq DOMAIN tasks
  BY <1>5 DEF WaitForStartingTask, EnvironmentNotFound, Sleep, Timeout, Respond
<1>6. ASSUME NEW t \in DOMAIN tasks,
             FreeTask(t) \/ \E n \in Renewals : KeepTaskAlive(t, n)
      PROVE  DOMAIN tasks' \subseteq DOMAIN tasks
  BY <1>6 DEF FreeTask, UnsafeFreeTasks, Forget, KeepTaskAlive
<1>7. ASSUME Tick \/ OnExpirationTimer PROVE DOMAIN tasks' \subseteq DOMAIN tasks
  BY <1>7 DEF Tick, OnExpirationTimer, MarkZombies
<1> HIDE DEF Policy
<1>8. TypeOK /\ RegistrySound /\ Next => Policy
  BY <1>1, <1>2, <1>3, <1>4, <1>5, <1>6, <1>7 DEF Next
<1>9. Spec => []PickChecks
  BY TypeCorrect, ChecksHold, PTL
<1>10. Spec => PickPolicy
  <2>1. TypeOK /\ RegistrySound /\ [Next]_vars => [Policy]_vars
    BY <1>8
  <2>2. Spec => [][Policy]_vars
    BY <2>1, TypeCorrect, RegistryCorrect, PTL DEF Spec
  <2> QED
    BY <2>2, PTL DEF PickPolicy, Policy, Chosen
<1> QED
  BY <1>9, <1>10, PTL DEF PickSound
=============================================================================
