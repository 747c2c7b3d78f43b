----------------------- MODULE TaskGrantKeeperProofs ------------------------
(* What holds of TaskGrantKeeper for every set of environments and tasks.     *)
EXTENDS TaskGrantKeeper, FiniteSetTheorems, SequenceTheorems, TLAPS

USE KeeperAssumption

(* What the scheduler granted to a call under way is in no queue, in no hands *)
(* and in no other call.                                                      *)
CallsApart ==
    \A e \in Envs : \A i \in 1 .. Len(granted[e]) :
        /\ \A t \in Tasks : held[t] # granted[e][i]
        /\ \A f \in Envs : \A j \in 1 .. Len(remaining[f]) :
              remaining[f][j].grant_id # granted[e][i]
        /\ \A f \in Envs : \A j \in 1 .. Len(granted[f]) :
              granted[f][j] = granted[e][i] => e = f /\ i = j

(* The call's own reckoning is conservative already.                          *)
CallsConservative ==
    \A e \in Envs : \A i \in 1 .. Len(granted[e]) :
        call[e].expires_at >= 0 =>
            leases[granted[e][i]] >= call[e].expires_at + Tolerance

(* A call is made on an empty queue, which stays empty until it returns.      *)
OneBatch ==
    \A e \in Envs :
        /\ fetcher[e] = "calling" => remaining[e] = <<>>
        /\ fetcher[e] # "calling" => granted[e] = <<>>
        /\ call[e].immediate_reqs \in 0 .. Cardinality(Tasks)
        /\ Len(granted[e]) <= call[e].immediate_reqs + 1
        /\ call[e].expires_at <= ExpiresIn - Tolerance

KeeperInv ==
    /\ TypeOK
    /\ WaitersExact
    /\ HandedOnce /\ CallsApart
    /\ ConservativeExpiry /\ CallsConservative
    /\ OneBatch /\ QueueBounded

(* Initially nothing is queued, granted or held.                              *)
LEMMA KeeperInit == Init => KeeperInv
<1> SUFFICES ASSUME Init PROVE KeeperInv
    OBVIOUS
<1>1. TypeOK
  <2>1. TasksOK
      BY DEF Init, TasksOK, NoGrant
  <2>2. FetchersOK
      BY DEF Init, FetchersOK, NoCall
  <2>3. <<>> \in Seq(GrantDescType) /\ <<>> \in Seq(Int)
      OBVIOUS
  <2>4. remaining \in [Envs -> Seq(GrantDescType)] /\ leases \in Seq(Int)
      BY <2>3 DEF Init
  <2>5. waiters \in [Envs -> Int]
      BY DEF Init
  <2> QED  BY <2>1, <2>2, <2>4, <2>5, Zenon DEF Init, TypeOK
<1>2. WaitersExact
  <2>1. \A e \in Envs : WaitingFor(e) = {}
      BY DEF Init, WaitingFor
  <2> QED  BY <2>1, FS_EmptySet DEF Init, WaitersExact
<1>3. Cardinality(Tasks) \in Nat
    BY FS_CardinalityType
<1>4. HandedOnce /\ CallsApart /\ ConservativeExpiry /\ CallsConservative
    BY DEF Init, HandedOnce, CallsApart, ConservativeExpiry, CallsConservative,
           NoGrant
<1>5. OneBatch /\ QueueBounded
    BY <1>3 DEF Init, OneBatch, QueueBounded, NoCall
<1> QED  BY <1>1, <1>2, <1>4, <1>5 DEF KeeperInv

-----------------------------------------------------------------------------
(* Types.                                                                     *)

(* A type part survives what leaves its variables alone.                      *)
LEMMA TypesUntouched ==
    ASSUME TypeOK
    PROVE  /\ UNCHANGED <<tasks, held, leases>> => TasksOK'
           /\ UNCHANGED <<fetcher, call, granted, leases, keepers>> => FetchersOK'
           /\ UNCHANGED <<remaining, leases>> =>
                 (remaining \in [Envs -> Seq(GrantDescType)])'
           /\ UNCHANGED <<keepers, waiters, leases, stopVars>> =>
                 /\ keepers' \subseteq Envs /\ waiters' \in [Envs -> Int]
                 /\ leases' \in Seq(Int) /\ leaving' \in BOOLEAN
                 /\ stopper' \in {"none", "stopping", "stopped", "joined"}
BY DEF TypeOK, TasksOK, FetchersOK, GrantDescType, Ids, stopVars

(* Where a task goes without a grant changing hands.                          *)
LEMMA TaskMoves ==
    ASSUME TypeOK, NEW t \in Tasks,
           NEW p \in {"idle", "looping", "entered", "waiting", "notified"},
           tasks[t].at # "granted",
           tasks' = At(t, p), UNCHANGED <<held, leases>>
    PROVE  TasksOK'
BY DEF TypeOK, TasksOK, At, Ids

(* A function on 1 .. n is a sequence.                                        *)
LEMMA FunctionIsSequence ==
    ASSUME NEW S, NEW n \in Nat, NEW f \in [1 .. n -> S]
    PROVE  f \in Seq(S) /\ Len(f) = n
BY SeqDef, LenProperties

(* A queue without its first k + 1 grants.                                    *)
LEMMA DropShape ==
    ASSUME NEW S, NEW q \in Seq(S), NEW k \in Nat, k < Len(q)
    PROVE  LET s == SubSeq(q, k + 1, Len(q))
           IN  /\ Head(s) = q[k + 1] /\ q[k + 1] \in S
               /\ Tail(s) \in Seq(S) /\ Len(Tail(s)) = Len(q) - k - 1
               /\ \A i \in 1 .. Len(Tail(s)) : Tail(s)[i] = q[i + k + 1]
<1> DEFINE s == SubSeq(q, k + 1, Len(q))
<1>1. /\ s \in Seq(S) /\ Len(s) = Len(q) - k
      /\ \A i \in 1 .. Len(s) : s[i] = q[i + k]
    OBVIOUS
<1>2. q[k + 1] \in S
    OBVIOUS
<1> HIDE DEF s
<1>3. Len(s) \in Nat /\ Len(s) > 0 /\ 1 \in 1 .. Len(s)
    BY <1>1
<1>4. s # <<>> /\ Head(s) = s[1] /\ s[1] = q[k + 1]
    BY <1>1, <1>3
<1>5. /\ Tail(s) \in Seq(S) /\ Len(Tail(s)) = Len(s) - 1
      /\ \A i \in 1 .. Len(Tail(s)) : Tail(s)[i] = s[i + 1]
    BY <1>1, <1>3, <1>4
<1>6. \A i \in 1 .. Len(Tail(s)) : Tail(s)[i] = q[i + k + 1]
    BY <1>1, <1>3, <1>5
<1> QED  BY <1>1, <1>2, <1>4, <1>5, <1>6 DEF s

(* Taking a grant from a queue: the rest of the queue is what it was.         *)
LEMMA TakeShape ==
    ASSUME TypeOK, NEW t \in Tasks, NEW k \in Nat, NEW e,
           e = tasks[t].env,
           k < Len(remaining[e]),
           TakeGrant(t, SubSeq(remaining[e], k + 1, Len(remaining[e])))
    PROVE  /\ e \in Envs
           /\ remaining[e][k + 1] \in GrantDescType
           /\ held' = [held EXCEPT ![t] = remaining[e][k + 1].grant_id]
           /\ \A f \in Envs \ {e} : remaining'[f] = remaining[f]
           /\ Len(remaining'[e]) = Len(remaining[e]) - k - 1
           /\ \A i \in 1 .. Len(remaining'[e]) :
                 remaining'[e][i] = remaining[e][i + k + 1]
           /\ remaining' \in [Envs -> Seq(GrantDescType)]
<1> DEFINE q == remaining[e]
           s == SubSeq(q, k + 1, Len(q))
<1>1. e \in Envs /\ q \in Seq(GrantDescType) /\ t \in Tasks
    BY DEF TypeOK, TasksOK
<1>2. /\ Head(s) = q[k + 1] /\ q[k + 1] \in GrantDescType
      /\ Tail(s) \in Seq(GrantDescType) /\ Len(Tail(s)) = Len(q) - k - 1
      /\ \A i \in 1 .. Len(Tail(s)) : Tail(s)[i] = q[i + k + 1]
    BY <1>1, DropShape
<1>3. remaining' = [remaining EXCEPT ![e] = Tail(s)]
    BY DEF TakeGrant, Pop
<1>4. held' = [held EXCEPT ![t] = q[k + 1].grant_id]
    BY <1>2 DEF TakeGrant
<1> HIDE DEF s
<1>5. remaining'[e] = Tail(s)
    BY <1>1, <1>3 DEF TypeOK
<1> QED
    BY <1>1, <1>2, <1>3, <1>4, <1>5 DEF TypeOK

(* A batch of n fresh grants: the scheduler's ids go on from where they were. *)
LEMMA GrantsShape ==
    ASSUME TypeOK, NEW e \in Envs, NEW n \in Nat, SchedulerGrants(e, n)
    PROVE  /\ leases' \in Seq(Int) /\ Len(leases') = Len(leases) + n
           /\ \A g \in 1 .. Len(leases) : leases'[g] = leases[g]
           /\ \A g \in (Len(leases) + 1) .. Len(leases') : leases'[g] = ExpiresIn
           /\ \A f \in Envs \ {e} : granted'[f] = granted[f]
           /\ granted'[e] \in Seq(Ids') /\ Len(granted'[e]) = n
           /\ \A i \in 1 .. n : granted'[e][i] = Len(leases) + i
           /\ Ids \subseteq Ids' /\ granted' \in [Envs -> Seq(Ids')]
<1> DEFINE fresh == [i \in 1 .. n |-> ExpiresIn]
           ids == [i \in 1 .. n |-> Len(leases) + i]
<1>1. fresh \in Seq(Int) /\ Len(fresh) = n /\ \A i \in 1 .. n : fresh[i] = ExpiresIn
    OBVIOUS
<1>2. leases \in Seq(Int) /\ leases' = leases \o fresh
    BY DEF TypeOK, SchedulerGrants
<1> HIDE DEF fresh
<1>3. /\ leases' \in Seq(Int) /\ Len(leases') = Len(leases) + n
      /\ \A g \in 1 .. Len(leases) : leases'[g] = leases[g]
      /\ \A g \in (Len(leases) + 1) .. Len(leases') :
            leases'[g] = fresh[g - Len(leases)]
  <2>1. Len(leases) \in Nat /\ Len(fresh) = n
      BY <1>1, <1>2
  <2>2. /\ leases \o fresh \in Seq(Int)
        /\ Len(leases \o fresh) = Len(leases) + Len(fresh)
        /\ \A g \in 1 .. Len(leases) + Len(fresh) : (leases \o fresh)[g] =
              IF g <= Len(leases) THEN leases[g] ELSE fresh[g - Len(leases)]
      BY <1>1, <1>2, ConcatProperties, Zenon
  <2> DEFINE both == leases \o fresh
  <2> HIDE DEF both
  <2>3. /\ both \in Seq(Int) /\ Len(both) = Len(leases) + n
        /\ \A g \in 1 .. Len(leases) + n : both[g] =
              IF g <= Len(leases) THEN leases[g] ELSE fresh[g - Len(leases)]
      BY <2>1, <2>2, Zenon DEF both
  <2>4. /\ \A g \in 1 .. Len(leases) : both[g] = leases[g]
        /\ \A g \in (Len(leases) + 1) .. (Len(leases) + n) :
              both[g] = fresh[g - Len(leases)]
      BY <2>1, <2>3
  <2>5. leases' = both
      BY <1>2 DEF both
  <2> QED  BY <2>3, <2>4, <2>5, Zenon
<1>4. \A g \in (Len(leases) + 1) .. Len(leases') : leases'[g] = ExpiresIn
    BY <1>1, <1>2, <1>3
<1>5. Ids \subseteq Ids'
    BY <1>2, <1>3 DEF Ids
<1>6. ids \in Seq(Ids') /\ Len(ids) = n /\ \A i \in 1 .. n : ids[i] = Len(leases) + i
  <2>1. \A i \in 1 .. n : Len(leases) + i \in Ids'
      BY <1>2, <1>3 DEF Ids
  <2> QED  BY <2>1
<1>7. granted \in [Envs -> Seq(Ids)] /\ granted' = [granted EXCEPT ![e] = ids]
    BY DEF TypeOK, FetchersOK, SchedulerGrants
<1> HIDE DEF ids
<1>8. granted \in [Envs -> Seq(Ids')]
  <2>1. \A q \in Seq(Ids) : q \in Seq(Ids')
      BY <1>5
  <2> QED  BY <1>7, <2>1
<1>9. /\ \A f \in Envs \ {e} : granted'[f] = granted[f]
      /\ granted'[e] = ids /\ granted' \in [Envs -> Seq(Ids')]
    BY <1>6, <1>7, <1>8
<1> QED  BY <1>3, <1>4, <1>5, <1>6, <1>9

(* A response: the batch comes into the queue, which was empty.               *)
LEMMA FetchShape ==
    ASSUME TypeOK, OneBatch, NEW e \in Envs, FetchSucceeds(e)
    PROVE  /\ remaining' \in [Envs -> Seq(GrantDescType)]
           /\ \A f \in Envs \ {e} : remaining'[f] = remaining[f]
           /\ Len(remaining'[e]) = Len(granted[e])
           /\ \A i \in 1 .. Len(granted[e]) :
                 /\ remaining'[e][i].grant_id = granted[e][i]
                 /\ remaining'[e][i].expires_at = call[e].expires_at
<1> DEFINE batch == [i \in 1 .. Len(granted[e]) |->
              [grant_id |-> granted[e][i], expires_at |-> Expiry(e)]]
<1>1. granted[e] \in Seq(Ids) /\ call[e].expires_at \in Int
    BY DEF TypeOK, FetchersOK
<1>2. \A i \in 1 .. Len(granted[e]) : granted[e][i] \in Ids
    BY <1>1
<1>3. /\ batch \in Seq(GrantDescType) /\ Len(batch) = Len(granted[e])
      /\ \A i \in 1 .. Len(granted[e]) :
            /\ batch[i].grant_id = granted[e][i]
            /\ batch[i].expires_at = call[e].expires_at
    BY <1>1, <1>2 DEF GrantDescType, Expiry
<1>4. remaining[e] = <<>>
    BY DEF OneBatch, FetchSucceeds
<1>5. remaining' = [remaining EXCEPT ![e] = remaining[e] \o batch]
    BY DEF FetchSucceeds
<1>6. <<>> \o batch = batch
  <2> HIDE DEF batch
  <2> QED  BY <1>3
<1> HIDE DEF batch
<1>7. remaining' = [remaining EXCEPT ![e] = batch]
    BY <1>4, <1>5, <1>6
<1>8. remaining \in [Envs -> Seq(GrantDescType)]
    BY DEF TypeOK
<1> QED  BY <1>3, <1>7, <1>8

(* A tick: every queue keeps its length and its ids.                          *)
LEMMA TickShape ==
    ASSUME TypeOK, Tick
    PROVE  /\ leases' \in Seq(Int) /\ Len(leases') = Len(leases)
           /\ \A g \in 1 .. Len(leases) : leases'[g] = Countdown(leases[g])
           /\ remaining' \in [Envs -> Seq(GrantDescType)]
           /\ \A e \in Envs :
                 /\ Len(remaining'[e]) = Len(remaining[e])
                 /\ \A i \in 1 .. Len(remaining[e]) :
                       /\ remaining'[e][i].grant_id = remaining[e][i].grant_id
                       /\ remaining'[e][i].expires_at =
                             Countdown(remaining[e][i].expires_at)
<1>1. /\ leases \in Seq(Int)
      /\ leases' = [g \in 1 .. Len(leases) |-> Countdown(leases[g])]
    BY DEF TypeOK, Tick
<1>2. \A n \in Int : Countdown(n) \in Int
    BY DEF Countdown
<1>3. /\ leases' \in Seq(Int) /\ Len(leases') = Len(leases)
      /\ \A g \in 1 .. Len(leases) : leases'[g] = Countdown(leases[g])
  <2>1. Len(leases) \in Nat /\ \A g \in 1 .. Len(leases) : leases[g] \in Int
      BY <1>1
  <2>2. leases' \in [1 .. Len(leases) -> Int]
      BY <1>1, <1>2, <2>1, Zenon
  <2> QED  BY <1>1, <2>1, <2>2, FunctionIsSequence
<1>4. ASSUME NEW q \in Seq(GrantDescType)
      PROVE  LET r == [i \in 1 .. Len(q) |->
                         [q[i] EXCEPT !.expires_at = Countdown(@)]]
             IN  /\ r \in Seq(GrantDescType) /\ Len(r) = Len(q)
                 /\ \A i \in 1 .. Len(q) :
                       /\ r[i].grant_id = q[i].grant_id
                       /\ r[i].expires_at = Countdown(q[i].expires_at)
  <2>1. ASSUME NEW g \in GrantDescType
        PROVE  LET h == [g EXCEPT !.expires_at = Countdown(@)]
               IN  /\ h \in GrantDescType /\ h.grant_id = g.grant_id
                   /\ h.expires_at = Countdown(g.expires_at)
      BY <1>2 DEF GrantDescType
  <2>2. \A i \in 1 .. Len(q) : q[i] \in GrantDescType
      OBVIOUS
  <2> DEFINE r == [i \in 1 .. Len(q) |->
                     [q[i] EXCEPT !.expires_at = Countdown(@)]]
  <2>3. \A i \in 1 .. Len(q) :
           /\ r[i] \in GrantDescType /\ r[i].grant_id = q[i].grant_id
           /\ r[i].expires_at = Countdown(q[i].expires_at)
      BY <2>1, <2>2, Zenon
  <2>4. r \in [1 .. Len(q) -> GrantDescType]
      BY <2>3, Zenon
  <2>5. Len(q) \in Nat
      OBVIOUS
  <2> HIDE DEF r
  <2>6. r \in Seq(GrantDescType) /\ Len(r) = Len(q)
      BY <2>4, <2>5, FunctionIsSequence
  <2> QED  BY <2>3, <2>6 DEF r
<1>5. /\ remaining \in [Envs -> Seq(GrantDescType)]
      /\ remaining' = [e \in Envs |-> [i \in 1 .. Len(remaining[e]) |->
            [remaining[e][i] EXCEPT !.expires_at = Countdown(@)]]]
    BY DEF TypeOK, Tick
<1>6. \A e \in Envs :
         /\ remaining'[e] \in Seq(GrantDescType)
         /\ Len(remaining'[e]) = Len(remaining[e])
         /\ \A i \in 1 .. Len(remaining[e]) :
               /\ remaining'[e][i].grant_id = remaining[e][i].grant_id
               /\ remaining'[e][i].expires_at =
                     Countdown(remaining[e][i].expires_at)
    BY <1>4, <1>5
<1>7. remaining' \in [Envs -> Seq(GrantDescType)]
    BY <1>5, <1>6
<1> QED  BY <1>3, <1>6, <1>7

(* Counting a task in or out.                                                 *)
LEMMA WaitersTyped ==
    ASSUME TypeOK, NEW t \in Tasks
    PROVE  LET e == tasks[t].env
           IN  /\ [waiters EXCEPT ![e] = @ + 1] \in [Envs -> Int]
               /\ [waiters EXCEPT ![e] = @ - 1] \in [Envs -> Int]
BY DEF TypeOK, TasksOK

(* The two ways through Get: with the grant after k expired ones, or to wait. *)
GetTakes(t, k) ==
    /\ k < Len(remaining[tasks[t].env])
    /\ remaining[tasks[t].env][k + 1].expires_at >= 0
    /\ TakeGrant(t, SubSeq(remaining[tasks[t].env], k + 1,
                           Len(remaining[tasks[t].env])))
    /\ UNCHANGED <<waiters, fetcher>>

GetWaits(t) ==
    /\ remaining' = [remaining EXCEPT ![tasks[t].env] = <<>>]
    /\ tasks' = At(t, "waiting")
    /\ waiters' = [waiters EXCEPT ![tasks[t].env] = @ + 1]
    /\ fetcher' = [fetcher EXCEPT ![tasks[t].env] = WakeFetcher(tasks[t].env)]
    /\ UNCHANGED held

LEMMA GetSplit ==
    ASSUME TypeOK, NEW t \in Tasks, Get(t)
    PROVE  /\ tasks[t].env \in Envs /\ tasks[t].at = "entered"
           /\ fetcher[tasks[t].env] \notin {"parking", "backoff"}
           /\ UNCHANGED <<keepers, call, granted, leases, stopVars>>
           /\ GetWaits(t) \/ \E k \in Nat : GetTakes(t, k)
BY DEF Get, DropExpired, GetTakes, GetWaits, TypeOK, TasksOK, Locked

(* TakeAfterWaiting takes the first grant.                                    *)
LEMMA TakeSplit ==
    ASSUME TypeOK, NEW t \in Tasks, TakeAfterWaiting(t)
    PROVE  /\ tasks[t].env \in Envs /\ 0 < Len(remaining[tasks[t].env])
           /\ TakeGrant(t, SubSeq(remaining[tasks[t].env], 0 + 1,
                                  Len(remaining[tasks[t].env])))
<1> DEFINE q == remaining[tasks[t].env]
<1>1. tasks[t].env \in Envs /\ q \in Seq(GrantDescType) /\ q # <<>>
    BY DEF TakeAfterWaiting, TypeOK, TasksOK
<1>2. 0 < Len(q) /\ SubSeq(q, 0 + 1, Len(q)) = q
    BY <1>1, SubSeqFull, LenProperties
<1> QED  BY <1>1, <1>2 DEF TakeAfterWaiting

(* A task that takes a grant.                                                 *)
LEMMA TakeTyped ==
    ASSUME TypeOK, NEW t \in Tasks, NEW k \in Nat,
           k < Len(remaining[tasks[t].env]),
           TakeGrant(t, SubSeq(remaining[tasks[t].env], k + 1,
                               Len(remaining[tasks[t].env]))),
           UNCHANGED leases
    PROVE  TasksOK' /\ (remaining \in [Envs -> Seq(GrantDescType)])'
<1> DEFINE g == remaining[tasks[t].env][k + 1].grant_id
<1>1. /\ remaining' \in [Envs -> Seq(GrantDescType)]
      /\ held' = [held EXCEPT ![t] = g]
      /\ remaining[tasks[t].env][k + 1] \in GrantDescType
    BY TakeShape
<1>2. g \in Ids /\ tasks' = At(t, "granted")
    BY <1>1 DEF TakeGrant, GrantDescType
<1> HIDE DEF g
<1>3. TasksOK'
  <2>1. /\ tasks' \in [Tasks -> [at: {"idle", "looping", "entered", "waiting",
                                   "notified", "granted"}, env: Envs]]
        /\ \A u \in Tasks : tasks'[u].at =
              IF u = t THEN "granted" ELSE tasks[u].at
      BY <1>2 DEF TypeOK, TasksOK, At
  <2>2. /\ held' \in [Tasks -> Ids \union {NoGrant}] /\ g # NoGrant
        /\ \A u \in Tasks : held'[u] = IF u = t THEN g ELSE held[u]
      BY <1>1, <1>2 DEF TypeOK, TasksOK, Ids, NoGrant
  <2>3. \A u \in Tasks : held'[u] # NoGrant <=> tasks'[u].at = "granted"
      BY <2>1, <2>2 DEF TypeOK, TasksOK
  <2>4. Ids' = Ids
      BY DEF Ids
  <2> QED  BY <2>1, <2>2, <2>3, <2>4, Zenon DEF TasksOK
<1> QED  BY <1>1, <1>3 DEF GrantDescType, Ids

(* Where a fetcher goes without its call changing.                            *)
LEMMA FetcherMoves ==
    ASSUME TypeOK, NEW e \in keepers,
           NEW p \in {"loop", "parking", "asleep", "calling", "backoff", "done"},
           fetcher' = [fetcher EXCEPT ![e] = p],
           UNCHANGED <<keepers, call, granted, leases>>
    PROVE  FetchersOK'
BY DEF TypeOK, FetchersOK, Ids

(* Every step keeps the types.                                                *)
LEMMA TypeStep ==
    ASSUME KeeperInv, [Next]_vars
    PROVE  TypeOK'
<1> USE DEF KeeperInv
<1>1. ASSUME NEW t \in Tasks, NEW e \in Envs, StartNewServantTask(t, e)
      PROVE  TypeOK'
  <2>1. TasksOK'
      BY <1>1 DEF StartNewServantTask, TypeOK, TasksOK, Ids
  <2> QED
      BY <1>1, <2>1, TypesUntouched
      DEF StartNewServantTask, TypeOK, keeperVars, fetcherVars
<1>2. ASSUME NEW t \in Tasks, Abort(t)
      PROVE  TypeOK'
  <2>1. TasksOK'
      BY <1>2, TaskMoves DEF Abort
  <2> QED
      BY <1>2, <2>1, TypesUntouched DEF Abort, TypeOK, keeperVars, fetcherVars
<1>3. ASSUME NEW t \in Tasks, Free(t)
      PROVE  TypeOK'
  <2>1. TasksOK'
      BY <1>3 DEF Free, TypeOK, TasksOK, Ids, At, NoGrant
  <2> QED
      BY <1>3, <2>1, TypesUntouched DEF Free, TypeOK, keeperVars, fetcherVars
<1>4. ASSUME NEW t \in Tasks, FindKeeper(t)
      PROVE  TypeOK'
  <2>1. TasksOK'
      BY <1>4, TaskMoves DEF FindKeeper
  <2>2. tasks[t].env \in Envs
      BY DEF TypeOK, TasksOK
  <2>3. FetchersOK'
      BY <1>4, <2>2 DEF FindKeeper, StartFetcher, TypeOK, FetchersOK, Ids
  <2>4. /\ keepers' \subseteq Envs /\ waiters' \in [Envs -> Int]
        /\ leases' \in Seq(Int)
      BY <1>4, <2>2 DEF FindKeeper, TypeOK
  <2> QED
      BY <1>4, <2>1, <2>3, <2>4, TypesUntouched, Zenon
      DEF FindKeeper, TypeOK, stopVars
<1>5. ASSUME NEW t \in Tasks, Get(t)
      PROVE  TypeOK'
  <2>1. /\ tasks[t].env \in Envs /\ tasks[t].at = "entered"
        /\ UNCHANGED <<keepers, call, granted, leases, stopVars>>
        /\ GetWaits(t) \/ \E k \in Nat : GetTakes(t, k)
      BY <1>5, GetSplit
  <2>2. ASSUME NEW k \in Nat, GetTakes(t, k)
        PROVE  TypeOK'
    <3>1. TasksOK' /\ (remaining \in [Envs -> Seq(GrantDescType)])'
        BY <2>1, <2>2, TakeTyped DEF GetTakes
    <3> QED
        BY <2>1, <2>2, <3>1, TypesUntouched DEF TypeOK, GetTakes
  <2>3. CASE GetWaits(t)
    <3>1. TasksOK'
        BY <2>1, <2>3, TaskMoves DEF GetWaits
    <3>2. FetchersOK'
        BY <2>1, <2>3 DEF GetWaits, WakeFetcher, TypeOK, FetchersOK, Ids
    <3>3. waiters' \in [Envs -> Int]
        BY <2>3, WaitersTyped DEF GetWaits
    <3>4. (remaining \in [Envs -> Seq(GrantDescType)])'
      <4>1. <<>> \in Seq(GrantDescType) /\ GrantDescType' = GrantDescType
          BY <2>1 DEF GrantDescType, Ids
      <4>2. remaining' \in [Envs -> Seq(GrantDescType)]
          BY <2>1, <2>3, <4>1 DEF GetWaits, TypeOK
      <4> QED  BY <4>1, <4>2
    <3> QED
        BY <2>1, <3>1, <3>2, <3>3, <3>4, Zenon DEF TypeOK, stopVars
  <2> QED  BY <2>1, <2>2, <2>3
<1>6. ASSUME NEW t \in Tasks, TakeAfterWaiting(t)
      PROVE  TypeOK'
  <2>1. TasksOK' /\ (remaining \in [Envs -> Seq(GrantDescType)])'
      BY <1>6, TakeSplit, TakeTyped DEF TakeAfterWaiting
  <2>2. waiters' \in [Envs -> Int]
      BY <1>6, WaitersTyped DEF TakeAfterWaiting, LeaveWaiters
  <2>3. FetchersOK'
      BY <1>6, TypesUntouched DEF TakeAfterWaiting, fetcherVars
  <2> QED
      BY <1>6, <2>1, <2>2, <2>3, Zenon DEF TakeAfterWaiting, TypeOK, stopVars
<1>7. ASSUME NEW t \in Tasks, WaitOn(t)
      PROVE  TypeOK'
  <2>1. TasksOK'
      BY <1>7, TaskMoves DEF WaitOn
  <2> QED
      BY <1>7, <2>1, TypesUntouched DEF WaitOn, TypeOK, keeperVars, fetcherVars
<1>8. ASSUME NEW t \in Tasks, TimeOut(t)
      PROVE  TypeOK'
  <2>1. TasksOK'
      BY <1>8, TaskMoves DEF TimeOut
  <2>2. waiters' \in [Envs -> Int]
      BY <1>8 DEF TimeOut, LeaveWaiters, TypeOK, TasksOK
  <2>3. FetchersOK' /\ (remaining \in [Envs -> Seq(GrantDescType)])'
      BY <1>8, TypesUntouched DEF TimeOut, fetcherVars
  <2> QED
      BY <1>8, <2>1, <2>2, <2>3, Zenon DEF TimeOut, TypeOK, stopVars
<1>9. ASSUME NEW e \in Envs, FetcherChecks(e)
      PROVE  TypeOK'
  <2>1. e \in keepers /\ UNCHANGED <<keepers, granted, leases>>
      BY <1>9 DEF FetcherChecks, TypeOK, FetchersOK, keeperVars
  <2>2. CASE UNCHANGED call
      BY <1>9, <2>1, <2>2, FetcherMoves, TypesUntouched
      DEF FetcherChecks, TypeOK, keeperVars
  <2>3. CASE /\ fetcher' = [fetcher EXCEPT ![e] = "calling"]
             /\ call' = [call EXCEPT ![e] = NewCall(e)]
    <3>1. NewCall(e) \in [expires_at: Int, immediate_reqs: Int]
        BY DEF NewCall, TypeOK
    <3> HIDE DEF NewCall
    <3>2. FetchersOK'
        BY <2>1, <2>3, <3>1 DEF TypeOK, FetchersOK, Ids
    <3> QED
        BY <1>9, <3>2, TypesUntouched DEF FetcherChecks, TypeOK, keeperVars
  <2> QED  BY <1>9, <2>2, <2>3 DEF FetcherChecks
<1>10. ASSUME NEW e \in Envs, FetcherParks(e) \/ FetcherRetries(e)
       PROVE  TypeOK'
  <2>1. e \in keepers
      BY <1>10 DEF FetcherParks, FetcherRetries, TypeOK, FetchersOK
  <2>2. FetchersOK'
      BY <1>10, <2>1, FetcherMoves DEF FetcherParks, FetcherRetries, keeperVars
  <2> QED
      BY <1>10, <2>2, TypesUntouched
      DEF FetcherParks, FetcherRetries, TypeOK, keeperVars
<1>11. ASSUME NEW e \in Envs, NEW n \in Nat, SchedulerGrants(e, n)
       PROVE  TypeOK'
  <2>1. /\ leases' \in Seq(Int) /\ Ids \subseteq Ids'
        /\ granted' \in [Envs -> Seq(Ids')]
      BY <1>11, GrantsShape
  <2>2. TasksOK'
      BY <1>11, <2>1 DEF SchedulerGrants, TypeOK, TasksOK
  <2>3. FetchersOK'
      BY <1>11, <2>1 DEF SchedulerGrants, TypeOK, FetchersOK, keeperVars
  <2>4. (remaining \in [Envs -> Seq(GrantDescType)])'
    <3>1. GrantDescType \subseteq GrantDescType'
        BY <2>1 DEF GrantDescType
    <3>2. \A q \in Seq(GrantDescType) : q \in Seq(GrantDescType')
        BY <3>1, SeqMonotonic
    <3> QED
        BY <1>11, <3>2 DEF SchedulerGrants, TypeOK, keeperVars
  <2> QED
      BY <1>11, <2>1, <2>2, <2>3, <2>4, Zenon
      DEF SchedulerGrants, TypeOK, keeperVars, stopVars
<1>12. ASSUME NEW e \in Envs, FetchSucceeds(e)
       PROVE  TypeOK'
  <2>1. (remaining \in [Envs -> Seq(GrantDescType)])'
      BY <1>12, FetchShape DEF FetchSucceeds, GrantDescType, Ids
  <2>2. FetchersOK'
      BY <1>12 DEF FetchSucceeds, TypeOK, FetchersOK, Ids, NoCall
  <2>3. TasksOK'
      BY <1>12 DEF FetchSucceeds, NotifyAvailable, TypeOK, TasksOK, Ids
  <2> QED
      BY <1>12, <2>1, <2>2, <2>3, Zenon DEF FetchSucceeds, TypeOK, stopVars
<1>13. ASSUME NEW e \in Envs, FetchFails(e)
       PROVE  TypeOK'
  <2>1. FetchersOK'
      BY <1>13 DEF FetchFails, TypeOK, FetchersOK, Ids, NoCall, keeperVars
  <2> QED
      BY <1>13, <2>1, TypesUntouched DEF FetchFails, TypeOK, keeperVars
<1>14. CASE Stop \/ Join
  <2>1. TasksOK' /\ FetchersOK' /\ (remaining \in [Envs -> Seq(GrantDescType)])'
      BY <1>14, TypesUntouched DEF Stop, Join, keeperVars, fetcherVars
  <2> QED
      BY <1>14, <2>1, Zenon DEF Stop, Join, TypeOK, keeperVars
<1>15. CASE StopNotifies
  <2>1. FetchersOK'
      BY <1>15 DEF StopNotifies, WakeFetcher, TypeOK, FetchersOK, Ids, keeperVars
  <2>2. TasksOK' /\ (remaining \in [Envs -> Seq(GrantDescType)])'
      BY <1>15, TypesUntouched DEF StopNotifies, keeperVars
  <2> QED
      BY <1>15, <2>1, <2>2, Zenon DEF StopNotifies, TypeOK, keeperVars
<1>16. CASE Tick
  <2>1. /\ leases' \in Seq(Int) /\ Ids' = Ids
        /\ remaining' \in [Envs -> Seq(GrantDescType)]
      BY <1>16, TickShape DEF Ids
  <2>2. TasksOK' /\ (remaining \in [Envs -> Seq(GrantDescType)])'
      BY <1>16, <2>1 DEF Tick, TypeOK, TasksOK, GrantDescType
  <2>3. \A n \in Int : Countdown(n) \in Int
      BY DEF Countdown
  <2>4. call' \in [Envs -> [expires_at: Int, immediate_reqs: Int]]
      BY <1>16, <2>3 DEF Tick, TypeOK, FetchersOK
  <2>5. FetchersOK'
      BY <1>16, <2>1, <2>4 DEF Tick, TypeOK, FetchersOK
  <2> QED
      BY <1>16, <2>1, <2>2, <2>5, Zenon DEF Tick, TypeOK, stopVars
<1>17. CASE UNCHANGED vars
    BY <1>17, TypesUntouched DEF vars, stopVars, TypeOK
<1>18. Cardinality(Tasks) \in Nat
    BY FS_CardinalityType
<1> QED
    BY <1>1, <1>2, <1>3, <1>4, <1>5, <1>6, <1>7, <1>8, <1>9, <1>10, <1>11,
       <1>12, <1>13, <1>14, <1>15, <1>16, <1>17, <1>18 DEF Next

-----------------------------------------------------------------------------
(* Counting the waiters.                                                      *)

LEMMA MoveCounts ==
    ASSUME TypeOK, NEW t \in Tasks, NEW p, tasks' = At(t, p), NEW f \in Envs
    PROVE  WaitingFor(f)' =
              IF f = tasks[t].env /\ p \in {"waiting", "notified"}
                THEN WaitingFor(f) \union {t} ELSE WaitingFor(f) \ {t}
<1>1. \A u \in Tasks : /\ tasks'[u].env = tasks[u].env
                       /\ tasks'[u].at = IF u = t THEN p ELSE tasks[u].at
    BY DEF TypeOK, TasksOK, At
<1> QED  BY <1>1 DEF WaitingFor

LEMMA WaitersUntouched ==
    ASSUME WaitersExact, UNCHANGED waiters,
           \A f \in Envs : WaitingFor(f)' = WaitingFor(f)
    PROVE  WaitersExact'
BY DEF WaitersExact

LEMMA WaitersStep ==
    ASSUME KeeperInv, [Next]_vars
    PROVE  WaitersExact'
<1> USE DEF KeeperInv
<1>0. \A f \in Envs : /\ IsFiniteSet(WaitingFor(f))
                      /\ Cardinality(WaitingFor(f)) \in Nat
    BY FS_Subset, FS_CardinalityType DEF WaitingFor
(* Every move out of, or within, the places that do not count.                *)
<1>1. ASSUME NEW t \in Tasks, NEW p \in {"idle", "looping", "entered", "granted"},
             tasks[t].at \notin {"waiting", "notified"},
             tasks' = At(t, p), UNCHANGED waiters
      PROVE  WaitersExact'
    BY <1>1, MoveCounts, WaitersUntouched DEF WaitingFor
(* A task gives up waiting, one way or the other.                             *)
<1>2. ASSUME NEW t \in Tasks, NEW p \in {"looping", "granted"},
             tasks[t].at \in {"waiting", "notified"},
             tasks' = At(t, p), waiters' = LeaveWaiters(tasks[t].env)
      PROVE  WaitersExact'
  <2>0. PICK e \in Envs : e = tasks[t].env
      BY DEF TypeOK, TasksOK
  <2>1. t \in WaitingFor(e)
      BY <1>2, <2>0 DEF WaitingFor
  <2>2. waiters' = [waiters EXCEPT ![e] = waiters[e] - 1]
      BY <1>2, <2>0 DEF LeaveWaiters
  <2>3. \A f \in Envs : WaitingFor(f)' = WaitingFor(f) \ {t}
      BY <1>2, MoveCounts
  <2>4. Cardinality(WaitingFor(e)') = Cardinality(WaitingFor(e)) - 1
      BY <1>0, <2>1, <2>3, FS_RemoveElement
  <2>5. \A f \in Envs \ {e} : WaitingFor(f)' = WaitingFor(f)
      BY <2>0, <2>3 DEF WaitingFor
  <2>6. waiters \in [Envs -> Int] /\ \A f \in Envs :
           waiters'[f] = IF f = e THEN waiters[e] - 1 ELSE waiters[f]
      BY <2>1, <2>2 DEF TypeOK
  <2>7. waiters'[e] = Cardinality(WaitingFor(e)')
      BY <1>0, <2>1, <2>4, <2>6 DEF WaitersExact
  <2> QED  BY <2>5, <2>6, <2>7 DEF WaitersExact
<1>3. ASSUME NEW t \in Tasks, GetWaits(t), tasks[t].at = "entered"
      PROVE  WaitersExact'
  <2>0. PICK e \in Envs : e = tasks[t].env
      BY DEF TypeOK, TasksOK
  <2>1. t \notin WaitingFor(e)
      BY <1>3, <2>0 DEF WaitingFor
  <2>2. waiters' = [waiters EXCEPT ![e] = waiters[e] + 1]
      BY <1>3, <2>0 DEF GetWaits
  <2>3. /\ WaitingFor(e)' = WaitingFor(e) \union {t}
        /\ \A f \in Envs \ {e} : WaitingFor(f)' = WaitingFor(f) \ {t}
      BY <1>3, <2>0, MoveCounts DEF GetWaits
  <2>4. Cardinality(WaitingFor(e)') = Cardinality(WaitingFor(e)) + 1
      BY <1>0, <2>1, <2>3, FS_AddElement
  <2>5. \A f \in Envs \ {e} : WaitingFor(f)' = WaitingFor(f)
      BY <1>3, <2>0, <2>3 DEF WaitingFor
  <2>6. waiters \in [Envs -> Int] /\ \A f \in Envs :
           waiters'[f] = IF f = e THEN waiters[e] + 1 ELSE waiters[f]
      BY <2>1, <2>2 DEF TypeOK
  <2>7. waiters'[e] = Cardinality(WaitingFor(e)')
      BY <1>0, <2>1, <2>4, <2>6 DEF WaitersExact
  <2> QED  BY <2>5, <2>6, <2>7 DEF WaitersExact
<1>4. ASSUME NEW t \in Tasks, NEW e \in Envs, StartNewServantTask(t, e)
      PROVE  WaitersExact'
  <2>1. \A f \in Envs : WaitingFor(f)' = WaitingFor(f)
      BY <1>4 DEF StartNewServantTask, WaitingFor, TypeOK, TasksOK
  <2> QED  BY <1>4, <2>1, WaitersUntouched DEF StartNewServantTask, keeperVars
<1>5. ASSUME NEW t \in Tasks, Abort(t) \/ Free(t) \/ FindKeeper(t)
      PROVE  WaitersExact'
    BY <1>1, <1>5 DEF Abort, Free, FindKeeper, keeperVars
<1>6. ASSUME NEW t \in Tasks, Get(t)
      PROVE  WaitersExact'
    BY <1>1, <1>3, <1>6, GetSplit DEF GetTakes, TakeGrant
<1>7. ASSUME NEW t \in Tasks, TakeAfterWaiting(t) \/ TimeOut(t)
      PROVE  WaitersExact'
    BY <1>2, <1>7 DEF TakeAfterWaiting, TakeGrant, TimeOut
<1>8. ASSUME NEW t \in Tasks, WaitOn(t)
      PROVE  WaitersExact'
  <2>1. \A f \in Envs : WaitingFor(f)' = WaitingFor(f)
      BY <1>8, MoveCounts DEF WaitOn, WaitingFor
  <2> QED  BY <1>8, <2>1, WaitersUntouched DEF WaitOn, keeperVars
<1>9. ASSUME NEW e \in Envs, FetchSucceeds(e)
      PROVE  WaitersExact'
  <2>1. \A t \in Tasks : /\ tasks'[t].env = tasks[t].env
                         /\ tasks'[t].at \in {"waiting", "notified"} <=>
                               tasks[t].at \in {"waiting", "notified"}
      BY <1>9 DEF FetchSucceeds, NotifyAvailable, TypeOK, TasksOK
  <2>2. \A f \in Envs : WaitingFor(f)' = WaitingFor(f)
      BY <2>1 DEF WaitingFor
  <2> QED  BY <1>9, <2>2, WaitersUntouched DEF FetchSucceeds
<1>10. CASE UNCHANGED <<tasks, waiters>>
    BY <1>10, WaitersUntouched DEF WaitingFor
<1>11. ASSUME NEW e \in Envs,
              \/ FetcherChecks(e) \/ FetcherParks(e) \/ FetcherRetries(e)
              \/ \E n \in 1 .. Cardinality(Tasks) + 1 : SchedulerGrants(e, n)
              \/ FetchFails(e)
       PROVE  UNCHANGED <<tasks, waiters>>
    BY <1>11 DEF FetcherChecks, FetcherParks, FetcherRetries, SchedulerGrants,
                 FetchFails, keeperVars
<1>12. Stop \/ StopNotifies \/ Join \/ Tick \/ UNCHANGED vars
          => UNCHANGED <<tasks, waiters>>
    BY DEF Stop, StopNotifies, Join, Tick, keeperVars, vars
<1> QED
    BY <1>4, <1>5, <1>6, <1>7, <1>8, <1>9, <1>10, <1>11, <1>12 DEF Next

-----------------------------------------------------------------------------
(* Who has which grant.                                                       *)

Apart == HandedOnce /\ CallsApart

(* Every id that is about has been made by the scheduler.                     *)
LEMMA IdsMade ==
    ASSUME TypeOK
    PROVE  /\ \A t \in Tasks : held[t] \in Ids \union {NoGrant}
           /\ \A e \in Envs : \A i \in 1 .. Len(remaining[e]) :
                 remaining[e][i].grant_id \in Ids
           /\ \A e \in Envs : \A i \in 1 .. Len(granted[e]) : granted[e][i] \in Ids
           /\ NoGrant \notin Ids /\ Len(leases) \in Nat
           /\ \A e \in Envs : Len(remaining[e]) \in Nat /\ Len(granted[e]) \in Nat
<1>1. \A e \in Envs : \A i \in 1 .. Len(remaining[e]) :
         remaining[e][i] \in GrantDescType
    BY DEF TypeOK
<1>2. \A e \in Envs : \A i \in 1 .. Len(remaining[e]) :
         remaining[e][i].grant_id \in Ids
    BY <1>1 DEF GrantDescType
<1>3. \A e \in Envs : granted[e] \in Seq(Ids) /\ remaining[e] \in Seq(GrantDescType)
    BY DEF TypeOK, FetchersOK
<1>4. \A e \in Envs : \A i \in 1 .. Len(granted[e]) : granted[e][i] \in Ids
    BY <1>3
<1>5. \A e \in Envs : Len(remaining[e]) \in Nat /\ Len(granted[e]) \in Nat
    BY <1>3
<1>6. Len(leases) \in Nat
    BY DEF TypeOK
<1>7. NoGrant \notin Ids
    BY <1>6 DEF NoGrant, Ids
<1>8. \A t \in Tasks : held[t] \in Ids \union {NoGrant}
    BY DEF TypeOK, TasksOK
<1> QED  BY <1>2, <1>4, <1>5, <1>6, <1>7, <1>8

(* The queue of e without its first k + 1 grants, the others as they are.     *)
Shifted(e, k) ==
    /\ \A f \in Envs \ {e} : remaining'[f] = remaining[f]
    /\ Len(remaining'[e]) = Len(remaining[e]) - k - 1
    /\ \A i \in 1 .. Len(remaining'[e]) :
          remaining'[e][i] = remaining[e][i + k + 1]

LEMMA TakeQueues ==
    ASSUME TypeOK, NEW t \in Tasks, NEW k \in Nat,
           k < Len(remaining[tasks[t].env]),
           TakeGrant(t, SubSeq(remaining[tasks[t].env], k + 1,
                               Len(remaining[tasks[t].env]))),
           NEW e \in Envs, e = tasks[t].env
    PROVE  /\ Shifted(e, k) /\ k + 1 \in 1 .. Len(remaining[e])
           /\ held' = [held EXCEPT ![t] = remaining[e][k + 1].grant_id]
<1>1. /\ k < Len(remaining[e])
      /\ TakeGrant(t, SubSeq(remaining[e], k + 1, Len(remaining[e])))
    BY Zenon
<1>2. held' = [held EXCEPT ![t] = remaining[e][k + 1].grant_id]
    BY <1>1, TakeShape
<1>3. \A f \in Envs \ {e} : remaining'[f] = remaining[f]
    BY <1>1, TakeShape
<1>4. Len(remaining'[e]) = Len(remaining[e]) - k - 1
  <2> DEFINE s == SubSeq(remaining[e], k + 1, Len(remaining[e]))
  <2>1. remaining[e] \in Seq(GrantDescType)
      BY DEF TypeOK
  <2>2. /\ Len(Tail(s)) = Len(remaining[e]) - k - 1
        /\ Tail(s) \in Seq(GrantDescType)
      BY <1>1, <2>1, DropShape
  <2>3. remaining' = [remaining EXCEPT ![e] = Tail(s)]
      BY DEF TakeGrant, Pop
  <2> HIDE DEF s
  <2>4. remaining'[e] = Tail(s)
      BY <2>3 DEF TypeOK
  <2> QED  BY <2>2, <2>4
<1>5. \A i \in 1 .. Len(remaining'[e]) :
         remaining'[e][i] = remaining[e][i + k + 1]
    BY <1>1, TakeShape
<1>6. k + 1 \in 1 .. Len(remaining[e])
    BY <1>1, IdsMade
<1> QED  BY <1>2, <1>3, <1>4, <1>5, <1>6 DEF Shifted

(* What is in a queue then was in it before.                                  *)
LEMMA ShiftedKeeps ==
    ASSUME TypeOK, NEW e \in Envs, NEW k \in Nat, Shifted(e, k),
           NEW f \in Envs
    PROVE  /\ Len(remaining'[f]) <= Len(remaining[f])
           /\ \A i \in 1 .. Len(remaining'[f]) :
                 \E a \in 1 .. Len(remaining[f]) :
                    remaining'[f][i] = remaining[f][a]
<1>1. Len(remaining[f]) \in Nat
    BY IdsMade
<1>2. CASE f = e
  <2>1. Len(remaining'[f]) = Len(remaining[f]) - k - 1
      BY <1>2 DEF Shifted
  <2>2. ASSUME NEW i \in 1 .. Len(remaining'[f])
        PROVE  \E a \in 1 .. Len(remaining[f]) : remaining'[f][i] = remaining[f][a]
    <3>1. i + k + 1 \in 1 .. Len(remaining[f])
        BY <1>1, <2>1
    <3>2. remaining'[f][i] = remaining[f][i + k + 1]
        BY <1>2 DEF Shifted
    <3> QED  BY <3>1, <3>2
  <2>3. Len(remaining'[f]) <= Len(remaining[f])
      BY <1>1, <2>1
  <2> QED  BY <2>2, <2>3
<1>3. CASE f # e
  <2>1. remaining'[f] = remaining[f]
      BY <1>3 DEF Shifted
  <2> QED  BY <1>1, <2>1
<1> QED  BY <1>2, <1>3

(* One grant leaves the queue of e for the hands of t; k go before it.        *)
LEMMA TakeApart ==
    ASSUME TypeOK, Apart, NEW t \in Tasks, NEW k \in Nat,
           k < Len(remaining[tasks[t].env]),
           TakeGrant(t, SubSeq(remaining[tasks[t].env], k + 1,
                               Len(remaining[tasks[t].env]))),
           UNCHANGED granted
    PROVE  Apart'
<1>1. PICK e \in Envs : e = tasks[t].env
    BY DEF TypeOK, TasksOK
<1> DEFINE Old(f, i) == IF f = e THEN i + k + 1 ELSE i
           g == remaining[e][k + 1].grant_id
<1>2. Shifted(e, k) /\ held' = [held EXCEPT ![t] = g]
    BY <1>1, TakeQueues
<1>3. ASSUME NEW f \in Envs, NEW i \in 1 .. Len(remaining'[f])
      PROVE  /\ Old(f, i) \in 1 .. Len(remaining[f])
             /\ remaining'[f][i] = remaining[f][Old(f, i)]
             /\ f = e => Old(f, i) # k + 1
             /\ i \in Int
  <2>1. Len(remaining[f]) \in Nat
      BY IdsMade
  <2>2. CASE f = e
      BY <1>2, <2>1, <2>2 DEF Shifted
  <2>3. CASE f # e
    <3>1. remaining'[f] = remaining[f]
        BY <1>2, <2>3 DEF Shifted
    <3> QED  BY <2>1, <2>3, <3>1
  <2> QED  BY <2>2, <2>3
<1>4. ASSUME NEW f \in Envs, NEW i \in Int, NEW j \in Int, Old(f, i) = Old(f, j)
      PROVE  i = j
  <2>1. CASE f = e
      BY <1>4, <2>1
  <2>2. CASE f # e
      BY <1>4, <2>2
  <2> QED  BY <2>1, <2>2
<1>5. \A u \in Tasks : held'[u] = IF u = t THEN g ELSE held[u]
    BY <1>2 DEF TypeOK, TasksOK
<1>6. k + 1 \in 1 .. Len(remaining[e])
    BY <1>1, TakeQueues
<1> HIDE DEF Old
<1>7. HandedOnce'
  <2>1. \A u \in Tasks \ {t} : held[u] # g
      BY <1>6 DEF Apart, HandedOnce
  <2>2. \A u, v \in Tasks : held'[u] = held'[v] /\ held'[u] # NoGrant => u = v
      BY <1>5, <2>1 DEF Apart, HandedOnce
  <2>3. ASSUME NEW f \in Envs, NEW i \in 1 .. Len(remaining'[f])
        PROVE  /\ \A u \in Tasks : held'[u] # remaining'[f][i].grant_id
               /\ \A h \in Envs : \A j \in 1 .. Len(remaining'[h]) :
                     remaining'[f][i].grant_id = remaining'[h][j].grant_id
                       => f = h /\ i = j
    <3>1. remaining[f][Old(f, i)].grant_id # g
        BY <1>3, <1>6 DEF Apart, HandedOnce
    <3>2. \A u \in Tasks : held[u] # remaining[f][Old(f, i)].grant_id
        BY <1>3 DEF Apart, HandedOnce
    <3>3. ASSUME NEW h \in Envs, NEW j \in 1 .. Len(remaining'[h]),
                 remaining'[f][i].grant_id = remaining'[h][j].grant_id
          PROVE  f = h /\ i = j
      <4>1. PICK a \in 1 .. Len(remaining[f]) :
               a = Old(f, i) /\ remaining'[f][i] = remaining[f][a]
          BY <1>3
      <4>2. PICK b \in 1 .. Len(remaining[h]) :
               b = Old(h, j) /\ remaining'[h][j] = remaining[h][b]
          BY <1>3
      <4>3. remaining[f][a].grant_id = remaining[h][b].grant_id
          BY <3>3, <4>1, <4>2
      <4>4. f = h /\ a = b
          BY <4>3 DEF Apart, HandedOnce
      <4>5. i \in Int /\ j \in Int
          BY <1>3
      <4> QED  BY <1>4, <4>1, <4>2, <4>4, <4>5
    <3> QED  BY <1>3, <1>5, <3>1, <3>2, <3>3
  <2> QED  BY <2>2, <2>3 DEF HandedOnce
<1>8. CallsApart'
  <2>1. ASSUME NEW f \in Envs, NEW i \in 1 .. Len(granted[f])
        PROVE  /\ \A u \in Tasks : held'[u] # granted[f][i]
               /\ \A h \in Envs : \A j \in 1 .. Len(remaining'[h]) :
                     remaining'[h][j].grant_id # granted[f][i]
    <3>1. g # granted[f][i]
        BY <1>6 DEF Apart, CallsApart
    <3>2. \A u \in Tasks : held'[u] # granted[f][i]
        BY <1>5, <3>1 DEF Apart, CallsApart
    <3>3. ASSUME NEW h \in Envs, NEW j \in 1 .. Len(remaining'[h])
          PROVE  remaining'[h][j].grant_id # granted[f][i]
      <4>1. PICK b \in 1 .. Len(remaining[h]) : remaining'[h][j] = remaining[h][b]
          BY <1>3
      <4> QED  BY <4>1 DEF Apart, CallsApart
    <3> QED  BY <3>2, <3>3
  <2>2. \A f \in Envs : \A i \in 1 .. Len(granted[f]) :
           \A h \in Envs : \A j \in 1 .. Len(granted[h]) :
              granted[h][j] = granted[f][i] => f = h /\ i = j
      BY DEF Apart, CallsApart
  <2>3. granted' = granted
      OBVIOUS
  <2> QED  BY <2>1, <2>2, <2>3, Zenon DEF CallsApart
<1> QED  BY <1>7, <1>8 DEF Apart

(* Fewer grants about, none new.                                              *)
LEMMA ShrinkApart ==
    ASSUME Apart,
           \A e \in Envs : \/ remaining'[e] = remaining[e]
                           \/ Len(remaining'[e]) = 0,
           \A e \in Envs : granted'[e] = granted[e] \/ Len(granted'[e]) = 0,
           \A t \in Tasks : held'[t] = held[t] \/ held'[t] = NoGrant,
           NoGrant \notin Ids, TypeOK
    PROVE  Apart'
<1>1. \A e \in Envs : \A i \in 1 .. Len(remaining'[e]) :
         i \in 1 .. Len(remaining[e]) /\ remaining'[e][i] = remaining[e][i]
    BY IdsMade
<1>2. \A e \in Envs : \A i \in 1 .. Len(granted'[e]) :
         i \in 1 .. Len(granted[e]) /\ granted'[e][i] = granted[e][i]
    BY IdsMade
<1>3. HandedOnce'
  <2>1. \A t, u \in Tasks : held'[t] = held'[u] /\ held'[t] # NoGrant => t = u
      BY DEF Apart, HandedOnce
  <2>2. ASSUME NEW e \in Envs, NEW i \in 1 .. Len(remaining'[e])
        PROVE  /\ \A t \in Tasks : held'[t] # remaining'[e][i].grant_id
               /\ \A f \in Envs : \A j \in 1 .. Len(remaining'[f]) :
                     remaining'[e][i].grant_id = remaining'[f][j].grant_id
                       => e = f /\ i = j
    <3>1. i \in 1 .. Len(remaining[e]) /\ remaining'[e][i] = remaining[e][i]
        BY <1>1
    <3>2. remaining[e][i].grant_id # NoGrant
        BY <3>1, IdsMade
    <3>3. \A t \in Tasks : held[t] # remaining[e][i].grant_id
        BY <3>1 DEF Apart, HandedOnce
    <3>4. \A f \in Envs : \A j \in 1 .. Len(remaining[f]) :
             remaining[e][i].grant_id = remaining[f][j].grant_id => e = f /\ i = j
        BY <3>1 DEF Apart, HandedOnce
    <3> QED  BY <1>1, <3>1, <3>2, <3>3, <3>4
  <2> QED  BY <2>1, <2>2, Zenon DEF HandedOnce
<1>4. CallsApart'
  <2>1. ASSUME NEW e \in Envs, NEW i \in 1 .. Len(granted'[e])
        PROVE  /\ \A t \in Tasks : held'[t] # granted'[e][i]
               /\ \A f \in Envs : \A j \in 1 .. Len(remaining'[f]) :
                     remaining'[f][j].grant_id # granted'[e][i]
               /\ \A f \in Envs : \A j \in 1 .. Len(granted'[f]) :
                     granted'[f][j] = granted'[e][i] => e = f /\ i = j
    <3>1. i \in 1 .. Len(granted[e]) /\ granted'[e][i] = granted[e][i]
        BY <1>2
    <3>2. granted[e][i] # NoGrant
        BY <3>1, IdsMade
    <3>3. \A t \in Tasks : held[t] # granted[e][i]
        BY <3>1 DEF Apart, CallsApart
    <3>4. \A f \in Envs : \A j \in 1 .. Len(remaining[f]) :
             remaining[f][j].grant_id # granted[e][i]
        BY <3>1 DEF Apart, CallsApart
    <3>5. \A f \in Envs : \A j \in 1 .. Len(granted[f]) :
             granted[f][j] = granted[e][i] => e = f /\ i = j
        BY <3>1 DEF Apart, CallsApart
    <3>6. \A t \in Tasks : held'[t] # granted'[e][i]
        BY <3>1, <3>2, <3>3
    <3>7. \A f \in Envs : \A j \in 1 .. Len(remaining'[f]) :
             remaining'[f][j].grant_id # granted'[e][i]
        BY <1>1, <3>1, <3>4
    <3>8. \A f \in Envs : \A j \in 1 .. Len(granted'[f]) :
             granted'[f][j] = granted'[e][i] => e = f /\ i = j
        BY <1>2, <3>1, <3>5
    <3> QED  BY <3>6, <3>7, <3>8
  <2> QED  BY <2>1, Zenon DEF CallsApart
<1> QED  BY <1>3, <1>4 DEF Apart

LEMMA ApartStep ==
    ASSUME KeeperInv, [Next]_vars
    PROVE  Apart'
<1> USE DEF KeeperInv
<1>0. Apart
    BY DEF Apart
<1>1. ASSUME NEW t \in Tasks, Get(t)
      PROVE  Apart'
  <2>1. ASSUME NEW k \in Nat, GetTakes(t, k)
        PROVE  Apart'
      BY <1>0, <1>1, <2>1, GetSplit, TakeApart DEF GetTakes
  <2>2. CASE GetWaits(t)
    <3>1. \A e \in Envs : remaining'[e] = remaining[e] \/ Len(remaining'[e]) = 0
        BY <1>1, <2>2, GetSplit DEF GetWaits, TypeOK
    <3> QED  BY <1>0, <1>1, <2>2, <3>1, GetSplit, IdsMade, ShrinkApart DEF GetWaits
  <2> QED  BY <1>1, <2>1, <2>2, GetSplit
<1>2. ASSUME NEW t \in Tasks, TakeAfterWaiting(t)
      PROVE  Apart'
    BY <1>0, <1>2, TakeSplit, TakeApart DEF TakeAfterWaiting, fetcherVars
<1>3. ASSUME NEW t \in Tasks, Free(t)
      PROVE  Apart'
  <2>1. \A u \in Tasks : held'[u] = held[u] \/ held'[u] = NoGrant
      BY <1>3 DEF Free, TypeOK, TasksOK
  <2> QED
      BY <1>0, <1>3, <2>1, IdsMade, ShrinkApart DEF Free, keeperVars, fetcherVars
<1>4. ASSUME NEW e \in Envs, NEW n \in Nat, SchedulerGrants(e, n)
      PROVE  Apart'
  <2>1. /\ \A f \in Envs \ {e} : granted'[f] = granted[f]
        /\ Len(granted'[e]) = n
        /\ \A i \in 1 .. n : granted'[e][i] = Len(leases) + i
      BY <1>4, GrantsShape
  <2>2. UNCHANGED <<remaining, held>>
      BY <1>4 DEF SchedulerGrants, keeperVars
  <2>3. \A i \in 1 .. n : granted'[e][i] \notin Ids \union {NoGrant}
      BY <2>1, IdsMade DEF Ids, NoGrant
  <2>4. \A i, j \in 1 .. n : granted'[e][i] = granted'[e][j] => i = j
      BY <2>1, IdsMade
  <2>5. ASSUME NEW f \in Envs, NEW i \in 1 .. Len(granted'[f])
        PROVE  /\ \A t \in Tasks : held[t] # granted'[f][i]
               /\ \A h \in Envs : \A j \in 1 .. Len(remaining[h]) :
                     remaining[h][j].grant_id # granted'[f][i]
               /\ \A h \in Envs : \A j \in 1 .. Len(granted'[h]) :
                     granted'[h][j] = granted'[f][i] => f = h /\ i = j
    <3>1. CASE f = e
      <4>1. i \in 1 .. n /\ granted'[f][i] \notin Ids \union {NoGrant}
          BY <2>1, <2>3, <3>1
      <4>2. \A h \in Envs \ {e} : \A j \in 1 .. Len(granted'[h]) :
               granted'[h][j] # granted'[f][i]
          BY <2>1, <4>1, IdsMade
      <4>3. \A j \in 1 .. Len(granted'[e]) :
               granted'[e][j] = granted'[f][i] => i = j
          BY <2>1, <2>4, <3>1, <4>1
      <4> QED  BY <3>1, <4>1, <4>2, <4>3, IdsMade
    <3>2. CASE f # e
      <4>1. granted'[f] = granted[f] /\ i \in 1 .. Len(granted[f])
          BY <2>1, <3>2
      <4>2. granted[f][i] \in Ids
          BY <4>1, IdsMade
      <4>3. \A j \in 1 .. Len(granted'[e]) : granted'[e][j] # granted'[f][i]
          BY <2>1, <2>3, <4>1, <4>2
      <4>4. \A h \in Envs \ {e} : \A j \in 1 .. Len(granted'[h]) :
               granted'[h][j] = granted'[f][i] => f = h /\ i = j
          BY <2>1, <4>1 DEF CallsApart
      <4>5. /\ \A t \in Tasks : held[t] # granted[f][i]
            /\ \A h \in Envs : \A j \in 1 .. Len(remaining[h]) :
                  remaining[h][j].grant_id # granted[f][i]
          BY <4>1 DEF CallsApart
      <4>6. \A h \in Envs : \A j \in 1 .. Len(granted'[h]) :
               granted'[h][j] = granted'[f][i] => f = h /\ i = j
        <5> TAKE h \in Envs
        <5>1. CASE h = e
            BY <4>3, <5>1
        <5>2. CASE h # e
            BY <4>4, <5>2
        <5> QED  BY <5>1, <5>2
      <4> QED  BY <4>1, <4>5, <4>6, Zenon
    <3> QED  BY <3>1, <3>2
  <2>6. CallsApart'
    <3>1. remaining' = remaining /\ held' = held
        BY <2>2
    <3>2. \A f \in Envs : \A i \in 1 .. Len(granted'[f]) :
             /\ \A t \in Tasks : held'[t] # granted'[f][i]
             /\ \A h \in Envs : \A j \in 1 .. Len(remaining'[h]) :
                   remaining'[h][j].grant_id # granted'[f][i]
             /\ \A h \in Envs : \A j \in 1 .. Len(granted'[h]) :
                   granted'[h][j] = granted'[f][i] => f = h /\ i = j
        BY <2>5, <3>1
    <3> QED  BY <3>2, Zenon DEF CallsApart
  <2>7. HandedOnce'
      BY <2>2 DEF HandedOnce
  <2> QED  BY <2>6, <2>7 DEF Apart
<1>5. ASSUME NEW e \in Envs, FetchSucceeds(e)
      PROVE  Apart'
  <2>1. /\ \A f \in Envs \ {e} : remaining'[f] = remaining[f]
        /\ Len(remaining'[e]) = Len(granted[e])
        /\ \A i \in 1 .. Len(granted[e]) :
              remaining'[e][i].grant_id = granted[e][i]
      BY <1>5, FetchShape
  <2>2. /\ \A f \in Envs \ {e} : granted'[f] = granted[f]
        /\ Len(granted'[e]) = 0 /\ UNCHANGED held
      BY <1>5 DEF FetchSucceeds, TypeOK, FetchersOK
  <2>3. ASSUME NEW f \in Envs, NEW i \in 1 .. Len(remaining'[f])
        PROVE  /\ \A t \in Tasks : held[t] # remaining'[f][i].grant_id
               /\ \A h \in Envs : \A j \in 1 .. Len(remaining'[h]) :
                     remaining'[f][i].grant_id = remaining'[h][j].grant_id
                       => f = h /\ i = j
               /\ \A h \in Envs : \A j \in 1 .. Len(granted'[h]) :
                     remaining'[f][i].grant_id # granted'[h][j]
    <3>1. CASE f = e
      <4>1. i \in 1 .. Len(granted[e]) /\ remaining'[f][i].grant_id = granted[e][i]
          BY <2>1, <3>1
      <4>2. /\ \A t \in Tasks : held[t] # granted[e][i]
            /\ \A h \in Envs : \A j \in 1 .. Len(remaining[h]) :
                  remaining[h][j].grant_id # granted[e][i]
            /\ \A h \in Envs : \A j \in 1 .. Len(granted[h]) :
                  granted[h][j] = granted[e][i] => e = h /\ i = j
          BY <4>1 DEF CallsApart
      <4>3. ASSUME NEW h \in Envs, NEW j \in 1 .. Len(remaining'[h]),
                   granted[e][i] = remaining'[h][j].grant_id
            PROVE  f = h /\ i = j
        <5>1. CASE h = e
          <6>1. j \in 1 .. Len(granted[e]) /\ granted[e][j] = granted[e][i]
              BY <2>1, <4>3, <5>1
          <6> QED  BY <3>1, <4>2, <5>1, <6>1
        <5>2. CASE h # e
          <6>1. remaining'[h] = remaining[h]
              BY <2>1, <5>2
          <6> QED  BY <4>2, <4>3, <6>1
        <5> QED  BY <5>1, <5>2
      <4>4. ASSUME NEW h \in Envs, NEW j \in 1 .. Len(granted'[h])
            PROVE  granted[e][i] # granted'[h][j]
        <5>1. h # e
            BY <2>2
        <5>2. granted'[h] = granted[h]
            BY <2>2, <5>1
        <5> QED  BY <4>2, <5>1, <5>2
      <4> QED  BY <4>1, <4>2, <4>3, <4>4
    <3>2. CASE f # e
      <4>1. remaining'[f] = remaining[f] /\ i \in 1 .. Len(remaining[f])
          BY <2>1, <3>2
      <4>2. /\ \A t \in Tasks : held[t] # remaining[f][i].grant_id
            /\ \A h \in Envs : \A j \in 1 .. Len(remaining[h]) :
                  remaining[f][i].grant_id = remaining[h][j].grant_id
                    => f = h /\ i = j
          BY <4>1 DEF HandedOnce
      <4>3. \A h \in Envs : \A j \in 1 .. Len(granted[h]) :
               remaining[f][i].grant_id # granted[h][j]
          BY <4>1 DEF CallsApart
      <4>4. ASSUME NEW h \in Envs, NEW j \in 1 .. Len(remaining'[h]),
                   remaining[f][i].grant_id = remaining'[h][j].grant_id
            PROVE  f = h /\ i = j
        <5>1. CASE h = e
          <6>1. j \in 1 .. Len(granted[e])
                  /\ remaining[f][i].grant_id = granted[e][j]
              BY <2>1, <4>4, <5>1
          <6> QED  BY <4>3, <6>1
        <5>2. CASE h # e
          <6>1. remaining'[h] = remaining[h]
              BY <2>1, <5>2
          <6> QED  BY <4>2, <4>4, <6>1
        <5> QED  BY <5>1, <5>2
      <4>5. ASSUME NEW h \in Envs, NEW j \in 1 .. Len(granted'[h])
            PROVE  remaining[f][i].grant_id # granted'[h][j]
        <5>1. granted'[h] = granted[h]
            BY <2>2
        <5> QED  BY <4>3, <5>1
      <4> QED  BY <4>1, <4>2, <4>4, <4>5
    <3> QED  BY <3>1, <3>2
  <2>4. held' = held
      BY <2>2
  <2>5. HandedOnce'
    <3>1. \A t, u \in Tasks : held'[t] = held'[u] /\ held'[t] # NoGrant => t = u
        BY <2>4 DEF HandedOnce
    <3>2. \A f \in Envs : \A i \in 1 .. Len(remaining'[f]) :
             /\ \A t \in Tasks : held'[t] # remaining'[f][i].grant_id
             /\ \A h \in Envs : \A j \in 1 .. Len(remaining'[h]) :
                   remaining'[f][i].grant_id = remaining'[h][j].grant_id
                     => f = h /\ i = j
        BY <2>3, <2>4
    <3> QED  BY <3>1, <3>2, Zenon DEF HandedOnce
  <2>6. ASSUME NEW f \in Envs, NEW i \in 1 .. Len(granted'[f])
        PROVE  /\ \A t \in Tasks : held'[t] # granted'[f][i]
               /\ \A h \in Envs : \A j \in 1 .. Len(remaining'[h]) :
                     remaining'[h][j].grant_id # granted'[f][i]
               /\ \A h \in Envs : \A j \in 1 .. Len(granted'[h]) :
                     granted'[h][j] = granted'[f][i] => f = h /\ i = j
    <3>1. f # e
        BY <2>2
    <3>2. granted'[f] = granted[f] /\ i \in 1 .. Len(granted[f])
        BY <2>2, <3>1
    <3>3. \A t \in Tasks : held'[t] # granted'[f][i]
        BY <2>4, <3>2 DEF CallsApart
    <3>4. \A h \in Envs : \A j \in 1 .. Len(remaining'[h]) :
             remaining'[h][j].grant_id # granted'[f][i]
        BY <2>3
    <3>5. \A h \in Envs : \A j \in 1 .. Len(granted[h]) :
             granted[h][j] = granted[f][i] => f = h /\ i = j
        BY <3>2 DEF CallsApart
    <3>6. ASSUME NEW h \in Envs, NEW j \in 1 .. Len(granted'[h]),
                 granted'[h][j] = granted'[f][i]
          PROVE  f = h /\ i = j
      <4>1. h # e
          BY <2>2
      <4>2. granted'[h] = granted[h]
          BY <2>2, <4>1
      <4> QED  BY <3>2, <3>5, <3>6, <4>2
    <3> QED  BY <3>3, <3>4, <3>6
  <2>7. CallsApart'
      BY <2>6, Zenon DEF CallsApart
  <2> QED  BY <2>5, <2>7 DEF Apart
<1>6. ASSUME NEW e \in Envs, FetchFails(e)
      PROVE  Apart'
  <2>1. \A f \in Envs : granted'[f] = granted[f] \/ Len(granted'[f]) = 0
      BY <1>6 DEF FetchFails, TypeOK, FetchersOK
  <2> QED
      BY <1>0, <1>6, <2>1, IdsMade, ShrinkApart DEF FetchFails, keeperVars
<1>7. CASE Tick
  <2>1. /\ \A e \in Envs :
              /\ Len(remaining'[e]) = Len(remaining[e])
              /\ \A i \in 1 .. Len(remaining[e]) :
                    remaining'[e][i].grant_id = remaining[e][i].grant_id
        /\ UNCHANGED <<granted, held>>
      BY <1>7, TickShape DEF Tick
  <2> QED  BY <2>1 DEF Apart, HandedOnce, CallsApart
<1>8. CASE UNCHANGED <<remaining, granted, held>>
    BY <1>0, <1>8 DEF Apart, HandedOnce, CallsApart
<1>9. ASSUME NEW t \in Tasks,
             \/ \E e \in Envs : StartNewServantTask(t, e)
             \/ Abort(t) \/ FindKeeper(t) \/ WaitOn(t) \/ TimeOut(t)
      PROVE  UNCHANGED <<remaining, granted, held>>
    BY <1>9 DEF StartNewServantTask, Abort, FindKeeper, WaitOn, TimeOut,
                keeperVars, fetcherVars
<1>10. ASSUME NEW e \in Envs,
              FetcherChecks(e) \/ FetcherParks(e) \/ FetcherRetries(e)
       PROVE  UNCHANGED <<remaining, granted, held>>
    BY <1>10 DEF FetcherChecks, FetcherParks, FetcherRetries, keeperVars
<1>11. Stop \/ StopNotifies \/ Join \/ UNCHANGED vars
          => UNCHANGED <<remaining, granted, held>>
    BY DEF Stop, StopNotifies, Join, keeperVars, fetcherVars, vars
<1>12. Cardinality(Tasks) \in Nat
    BY FS_CardinalityType
<1> QED
    BY <1>1, <1>2, <1>3, <1>4, <1>5, <1>6, <1>7, <1>8, <1>9, <1>10, <1>11,
       <1>12 DEF Next

-----------------------------------------------------------------------------
(* How long a grant is good for.                                              *)

Conservative == ConservativeExpiry /\ CallsConservative

(* The two lists of facts survive what only shortens queues and batches.      *)
LEMMA ConservativeKept ==
    ASSUME Conservative, TypeOK,
           \A e \in Envs : \A i \in 1 .. Len(remaining'[e]) :
              \E a \in 1 .. Len(remaining[e]) : remaining'[e][i] = remaining[e][a],
           \A e \in Envs : \/ Len(granted'[e]) = 0
                           \/ granted'[e] = granted[e] /\ call'[e] = call[e],
           UNCHANGED leases
    PROVE  Conservative'
<1>1. ConservativeExpiry'
  <2> SUFFICES ASSUME NEW e \in Envs, NEW i \in 1 .. Len(remaining'[e]),
                      remaining'[e][i].expires_at >= 0
               PROVE  leases[remaining'[e][i].grant_id] >=
                         remaining'[e][i].expires_at + Tolerance
      BY DEF ConservativeExpiry
  <2>1. PICK a \in 1 .. Len(remaining[e]) : remaining'[e][i] = remaining[e][a]
      OBVIOUS
  <2> QED  BY <2>1 DEF Conservative, ConservativeExpiry
<1>2. CallsConservative'
  <2> SUFFICES ASSUME NEW e \in Envs, NEW i \in 1 .. Len(granted'[e]),
                      call'[e].expires_at >= 0
               PROVE  leases[granted'[e][i]] >= call'[e].expires_at + Tolerance
      BY DEF CallsConservative
  <2>1. granted'[e] = granted[e] /\ call'[e] = call[e]
      OBVIOUS
  <2> QED  BY <2>1 DEF Conservative, CallsConservative
<1> QED  BY <1>1, <1>2 DEF Conservative

LEMMA ExpiryStep ==
    ASSUME KeeperInv, [Next]_vars
    PROVE  Conservative'
<1> USE DEF KeeperInv
<1>0. Conservative
    BY DEF Conservative
<1>1. ASSUME \A e \in Envs : Len(remaining'[e]) = 0 \/ remaining'[e] = remaining[e],
             \A e \in Envs : \/ Len(granted'[e]) = 0
                             \/ granted'[e] = granted[e] /\ call'[e] = call[e],
             UNCHANGED leases
      PROVE  Conservative'
  <2>1. \A e \in Envs : \A i \in 1 .. Len(remaining'[e]) :
           \E a \in 1 .. Len(remaining[e]) : remaining'[e][i] = remaining[e][a]
      BY <1>1
  <2> QED  BY <1>0, <1>1, <2>1, ConservativeKept
<1>2. ASSUME NEW t \in Tasks, NEW k \in Nat,
             k < Len(remaining[tasks[t].env]),
             TakeGrant(t, SubSeq(remaining[tasks[t].env], k + 1,
                                 Len(remaining[tasks[t].env]))),
             UNCHANGED <<granted, call, leases>>
      PROVE  Conservative'
  <2>1. PICK e \in Envs : e = tasks[t].env
      BY DEF TypeOK, TasksOK
  <2>2. Shifted(e, k)
      BY <1>2, <2>1, TakeQueues
  <2> QED  BY <1>0, <1>2, <2>2, ShiftedKeeps, ConservativeKept
<1>3. ASSUME NEW t \in Tasks, Get(t)
      PROVE  Conservative'
  <2>1. ASSUME NEW k \in Nat, GetTakes(t, k)
        PROVE  Conservative'
      BY <1>2, <1>3, <2>1, GetSplit DEF GetTakes
  <2>2. CASE GetWaits(t)
    <3>1. \A e \in Envs : Len(remaining'[e]) = 0 \/ remaining'[e] = remaining[e]
        BY <1>3, <2>2, GetSplit DEF GetWaits, TypeOK
    <3> QED  BY <1>1, <1>3, <3>1, GetSplit
  <2> QED  BY <1>3, <2>1, <2>2, GetSplit
<1>4. ASSUME NEW t \in Tasks, TakeAfterWaiting(t)
      PROVE  Conservative'
    BY <1>2, <1>4, TakeSplit DEF TakeAfterWaiting, fetcherVars
<1>5. ASSUME NEW e \in Envs, FetcherChecks(e)
      PROVE  Conservative'
  <2>1. UNCHANGED <<remaining, granted, leases>>
      BY <1>5 DEF FetcherChecks, keeperVars
  <2>2. Len(granted[e]) = 0
      BY <1>5 DEF FetcherChecks, OneBatch
  <2>3. \A f \in Envs \ {e} : call'[f] = call[f]
      BY <1>5 DEF FetcherChecks, TypeOK, FetchersOK
  <2> QED  BY <1>1, <2>1, <2>2, <2>3
<1>6. ASSUME NEW e \in Envs, FetchFails(e)
      PROVE  Conservative'
  <2>1. \A f \in Envs : \/ Len(granted'[f]) = 0
                        \/ granted'[f] = granted[f] /\ call'[f] = call[f]
      BY <1>6 DEF FetchFails, TypeOK, FetchersOK
  <2> QED  BY <1>1, <1>6, <2>1 DEF FetchFails, keeperVars
<1>7. ASSUME NEW e \in Envs, NEW n \in Nat, SchedulerGrants(e, n)
      PROVE  Conservative'
  <2>1. /\ \A g \in Ids : leases'[g] = leases[g]
        /\ \A f \in Envs \ {e} : granted'[f] = granted[f]
        /\ Len(granted'[e]) = n
      BY <1>7, GrantsShape DEF Ids
  <2>2. UNCHANGED <<remaining, call>>
      BY <1>7 DEF SchedulerGrants, keeperVars
  <2>3. ConservativeExpiry'
    <3>1. \A f \in Envs : \A i \in 1 .. Len(remaining[f]) :
             leases'[remaining[f][i].grant_id] = leases[remaining[f][i].grant_id]
        BY <2>1, IdsMade
    <3> QED  BY <2>2, <3>1 DEF ConservativeExpiry
  <2>4. ASSUME NEW f \in Envs, NEW i \in 1 .. Len(granted'[f]),
               call[f].expires_at >= 0
        PROVE  leases'[granted'[f][i]] >= call[f].expires_at + Tolerance
    <3>1. CASE f = e
      <4>1. leases'[granted'[f][i]] = ExpiresIn
        <5>1. Len(leases) \in Nat
            BY IdsMade
        <5>2. i \in 1 .. n /\ granted'[f][i] = Len(leases) + i
            BY <1>7, <2>1, <3>1, GrantsShape
        <5>3. \A g \in (Len(leases) + 1) .. (Len(leases) + n) :
                 leases'[g] = ExpiresIn
            BY <1>7, GrantsShape
        <5> QED  BY <5>1, <5>2, <5>3
      <4>2. call[f].expires_at \in Int /\ call[f].expires_at <= ExpiresIn - Tolerance
          BY DEF OneBatch, TypeOK, FetchersOK
      <4> QED  BY <4>1, <4>2
    <3>2. CASE f # e
      <4>1. granted'[f] = granted[f]
          BY <2>1, <3>2
      <4>2. granted[f][i] \in Ids /\ i \in 1 .. Len(granted[f])
          BY <4>1, IdsMade
      <4> QED  BY <2>1, <2>4, <4>1, <4>2 DEF CallsConservative
    <3> QED  BY <3>1, <3>2
  <2>5. CallsConservative'
    <3>1. call' = call
        BY <2>2
    <3> QED  BY <2>4, <3>1, Zenon DEF CallsConservative
  <2> QED  BY <2>3, <2>5 DEF Conservative
<1>8. ASSUME NEW e \in Envs, FetchSucceeds(e)
      PROVE  Conservative'
  <2>1. UNCHANGED leases
      BY <1>8 DEF FetchSucceeds
  <2>2. \A f \in Envs : \/ Len(granted'[f]) = 0
                        \/ granted'[f] = granted[f] /\ call'[f] = call[f]
      BY <1>8 DEF FetchSucceeds, TypeOK, FetchersOK
  <2>3. CallsConservative'
    <3> SUFFICES ASSUME NEW f \in Envs, NEW i \in 1 .. Len(granted'[f]),
                        call'[f].expires_at >= 0
                 PROVE  leases[granted'[f][i]] >= call'[f].expires_at + Tolerance
        BY <2>1 DEF CallsConservative
    <3>1. granted'[f] = granted[f] /\ call'[f] = call[f]
        BY <2>2
    <3> QED  BY <3>1 DEF CallsConservative
  <2>4. ASSUME NEW f \in Envs, NEW i \in 1 .. Len(remaining'[f]),
               remaining'[f][i].expires_at >= 0
        PROVE  leases[remaining'[f][i].grant_id] >=
                  remaining'[f][i].expires_at + Tolerance
    <3>1. CASE f = e
      <4>1. /\ i \in 1 .. Len(granted[e])
            /\ remaining'[f][i].grant_id = granted[e][i]
            /\ remaining'[f][i].expires_at = call[e].expires_at
          BY <1>8, <3>1, FetchShape
      <4> QED  BY <2>4, <4>1 DEF CallsConservative
    <3>2. CASE f # e
      <4>1. remaining'[f] = remaining[f]
          BY <1>8, <3>2, FetchShape
      <4> QED  BY <2>4, <4>1 DEF ConservativeExpiry
    <3> QED  BY <3>1, <3>2
  <2>5. ConservativeExpiry'
      BY <2>1, <2>4 DEF ConservativeExpiry
  <2> QED  BY <2>3, <2>5 DEF Conservative
<1>9. CASE Tick
  <2>0. \A m, n \in Int : n >= 0 /\ m >= n + Tolerance
           => /\ Countdown(n) \in Int /\ Countdown(m) \in Int
              /\ Countdown(n) >= 0 => Countdown(m) >= Countdown(n) + Tolerance
      BY DEF Countdown
  <2>1. \A n \in Int : Countdown(n) >= 0 => n >= 0
      BY DEF Countdown
  <2>2. \A g \in Ids : leases'[g] = Countdown(leases[g]) /\ leases[g] \in Int
      BY <1>9, TickShape DEF Ids, TypeOK
  <2>3. ASSUME NEW e \in Envs, NEW i \in 1 .. Len(remaining'[e]),
               remaining'[e][i].expires_at >= 0
        PROVE  leases'[remaining'[e][i].grant_id] >=
                  remaining'[e][i].expires_at + Tolerance
    <3>1. /\ i \in 1 .. Len(remaining[e])
          /\ remaining'[e][i].grant_id = remaining[e][i].grant_id
          /\ remaining'[e][i].expires_at = Countdown(remaining[e][i].expires_at)
        BY <1>9, TickShape
    <3>2. PICK g \in Ids : g = remaining[e][i].grant_id
        BY <3>1, IdsMade
    <3>3. PICK n \in Int : n = remaining[e][i].expires_at
      <4>1. remaining[e] \in Seq(GrantDescType)
          BY DEF TypeOK
      <4>2. remaining[e][i] \in GrantDescType
          BY <3>1, <4>1
      <4> QED  BY <4>2 DEF GrantDescType
    <3>4. Countdown(n) >= 0
        BY <2>3, <3>1, <3>3
    <3>5. n >= 0 /\ leases[g] >= n + Tolerance
        BY <2>1, <3>1, <3>2, <3>3, <3>4 DEF ConservativeExpiry
    <3>6. Countdown(leases[g]) >= Countdown(n) + Tolerance
        BY <2>0, <2>2, <3>4, <3>5
    <3>7. leases'[g] = Countdown(leases[g])
        BY <2>2
    <3> QED  BY <3>1, <3>2, <3>3, <3>6, <3>7
  <2>4. ConservativeExpiry'
      BY <2>3 DEF ConservativeExpiry
  <2>5. ASSUME NEW e \in Envs, NEW i \in 1 .. Len(granted[e]),
               call'[e].expires_at >= 0
        PROVE  leases'[granted[e][i]] >= call'[e].expires_at + Tolerance
    <3>1. call'[e].expires_at = Countdown(call[e].expires_at)
              /\ call[e].expires_at \in Int
      <4>1. fetcher[e] = "calling"
          BY DEF OneBatch
      <4> QED  BY <1>9, <4>1 DEF Tick, TypeOK, FetchersOK
    <3>2. PICK g \in Ids : g = granted[e][i]
        BY IdsMade
    <3>3. PICK n \in Int : n = call[e].expires_at
        BY <3>1
    <3>4. Countdown(n) >= 0
        BY <2>5, <3>1, <3>3
    <3>5. n >= 0 /\ leases[g] >= n + Tolerance
        BY <2>1, <3>2, <3>3, <3>4 DEF CallsConservative
    <3>6. Countdown(leases[g]) >= Countdown(n) + Tolerance
        BY <2>0, <2>2, <3>4, <3>5
    <3>7. leases'[g] = Countdown(leases[g])
        BY <2>2
    <3> QED  BY <3>1, <3>2, <3>3, <3>6, <3>7
  <2>6. CallsConservative'
    <3>1. granted' = granted
        BY <1>9 DEF Tick
    <3> QED  BY <2>5, <3>1, Zenon DEF CallsConservative
  <2> QED  BY <2>4, <2>6 DEF Conservative
<1>10. CASE UNCHANGED <<remaining, granted, call, leases>>
    BY <1>0, <1>10 DEF Conservative, ConservativeExpiry, CallsConservative
<1>11. ASSUME NEW t \in Tasks,
              \/ \E e \in Envs : StartNewServantTask(t, e)
              \/ Abort(t) \/ Free(t) \/ FindKeeper(t) \/ WaitOn(t) \/ TimeOut(t)
       PROVE  UNCHANGED <<remaining, granted, call, leases>>
    BY <1>11 DEF StartNewServantTask, Abort, Free, FindKeeper, WaitOn, TimeOut,
                 keeperVars, fetcherVars
<1>12. ASSUME NEW e \in Envs, FetcherParks(e) \/ FetcherRetries(e)
       PROVE  UNCHANGED <<remaining, granted, call, leases>>
    BY <1>12 DEF FetcherParks, FetcherRetries, keeperVars
<1>13. Stop \/ StopNotifies \/ Join \/ UNCHANGED vars
          => UNCHANGED <<remaining, granted, call, leases>>
    BY DEF Stop, StopNotifies, Join, keeperVars, fetcherVars, vars
<1>14. Cardinality(Tasks) \in Nat
    BY FS_CardinalityType
<1> QED
    BY <1>3, <1>4, <1>5, <1>6, <1>7, <1>8, <1>9, <1>10, <1>11, <1>12, <1>13,
       <1>14 DEF Next

-----------------------------------------------------------------------------
(* How many grants there are in a queue.                                      *)

Batches == OneBatch /\ QueueBounded

(* The bounds survive shorter queues and batches and settled calls.           *)
LEMMA BatchesKept ==
    ASSUME TypeOK, Batches,
           \A e \in Envs : fetcher'[e] = "calling" <=> fetcher[e] = "calling",
           \A e \in Envs : /\ Len(remaining'[e]) <= Len(remaining[e])
                           /\ remaining'[e] \in Seq(GrantDescType'),
           UNCHANGED <<call, granted>>
    PROVE  Batches'
<1>1. Cardinality(Tasks) \in Nat
    BY FS_CardinalityType
<1>2. OneBatch'
  <2>1. \A e \in Envs : remaining[e] = <<>> => remaining'[e] = <<>>
    <3> SUFFICES ASSUME NEW e \in Envs, remaining[e] = <<>>
                 PROVE  remaining'[e] = <<>>
        OBVIOUS
    <3>1. Len(remaining[e]) = 0 /\ Len(remaining'[e]) \in Nat
        BY LenProperties
    <3>2. Len(remaining'[e]) = 0
        BY <3>1
    <3> QED  BY <3>2, EmptySeq
  <2> QED  BY <2>1 DEF Batches, OneBatch
<1>3. QueueBounded'
  <2> SUFFICES ASSUME NEW e \in Envs
               PROVE  Len(remaining'[e]) <= Cardinality(Tasks) + 1
      BY DEF QueueBounded
  <2>1. Len(remaining'[e]) \in Nat /\ Len(remaining[e]) \in Nat
      BY IdsMade, LenProperties
  <2>2. Len(remaining[e]) <= Cardinality(Tasks) + 1
      BY DEF Batches, QueueBounded
  <2> QED  BY <1>1, <2>1, <2>2
<1> QED  BY <1>2, <1>3 DEF Batches

LEMMA BatchStep ==
    ASSUME KeeperInv, [Next]_vars
    PROVE  Batches'
<1> USE DEF KeeperInv
<1>0. Batches /\ TypeOK /\ Cardinality(Tasks) \in Nat
    BY FS_CardinalityType DEF Batches
<1>1. \A e \in Envs : remaining'[e] \in Seq(GrantDescType')
    BY TypeStep DEF TypeOK
<1>2. ASSUME NEW t \in Tasks, NEW k \in Nat,
             k < Len(remaining[tasks[t].env]),
             TakeGrant(t, SubSeq(remaining[tasks[t].env], k + 1,
                                 Len(remaining[tasks[t].env]))),
             UNCHANGED <<fetcher, granted, call>>
      PROVE  Batches'
  <2>1. PICK e \in Envs : e = tasks[t].env
      BY DEF TypeOK, TasksOK
  <2>2. Shifted(e, k)
      BY <1>2, <2>1, TakeQueues
  <2>3. \A f \in Envs : Len(remaining'[f]) <= Len(remaining[f])
      BY <2>2, ShiftedKeeps
  <2> QED  BY <1>0, <1>1, <1>2, <2>3, BatchesKept
<1>3. ASSUME NEW t \in Tasks, Get(t)
      PROVE  Batches'
  <2>1. ASSUME NEW k \in Nat, GetTakes(t, k)
        PROVE  Batches'
      BY <1>2, <1>3, <2>1, GetSplit DEF GetTakes
  <2>2. CASE GetWaits(t)
    <3>1. \A e \in Envs : remaining'[e] = <<>> \/ remaining'[e] = remaining[e]
        BY <1>3, <2>2, GetSplit DEF GetWaits, TypeOK
    <3>2. \A e \in Envs : Len(remaining'[e]) <= Len(remaining[e])
        BY <3>1, IdsMade
    <3>3. \A e \in Envs : fetcher'[e] = "calling" <=> fetcher[e] = "calling"
        BY <1>3, <2>2, GetSplit
        DEF GetWaits, WakeFetcher, TypeOK, FetchersOK
    <3> QED  BY <1>0, <1>1, <1>3, <3>2, <3>3, GetSplit, BatchesKept
  <2> QED  BY <1>3, <2>1, <2>2, GetSplit
<1>4. ASSUME NEW t \in Tasks, TakeAfterWaiting(t)
      PROVE  Batches'
    BY <1>2, <1>4, TakeSplit DEF TakeAfterWaiting, fetcherVars
(* Steps that leave queues, batches and calls alone, and the fetcher out of   *)
(* "calling".                                                                 *)
<1>5. ASSUME UNCHANGED <<remaining, granted, call>>,
             \A e \in Envs : fetcher'[e] = "calling" <=> fetcher[e] = "calling"
      PROVE  Batches'
  <2>1. \A e \in Envs : Len(remaining'[e]) <= Len(remaining[e])
      BY <1>5, IdsMade
  <2> QED  BY <1>0, <1>1, <1>5, <2>1, BatchesKept
<1>6. ASSUME NEW e \in Envs, FetcherChecks(e)
      PROVE  Batches'
  <2>1. UNCHANGED <<remaining, granted>> /\ fetcher[e] = "loop"
      BY <1>6 DEF FetcherChecks, keeperVars
  <2>2. CASE /\ NeedMore(e)
             /\ fetcher' = [fetcher EXCEPT ![e] = "calling"]
             /\ call' = [call EXCEPT ![e] = NewCall(e)]
    <3>1. waiters[e] \in 0 .. Cardinality(Tasks)
      <4>1. WaitingFor(e) \subseteq Tasks
          BY DEF WaitingFor
      <4>2. Cardinality(WaitingFor(e)) \in Nat
              /\ Cardinality(WaitingFor(e)) <= Cardinality(Tasks)
          BY <4>1, FS_Subset, FS_CardinalityType
      <4> QED  BY <1>0, <4>2 DEF WaitersExact
    <3>2. granted[e] = <<>> /\ remaining[e] = <<>>
        BY <2>1, <2>2 DEF OneBatch, NeedMore
    <3>3. /\ call'[e].immediate_reqs = waiters[e]
          /\ call'[e].expires_at = ExpiresIn - Tolerance
          /\ \A f \in Envs \ {e} : call'[f] = call[f]
        BY <2>2 DEF NewCall, TypeOK, FetchersOK
    <3>4. \A f \in Envs \ {e} : fetcher'[f] = fetcher[f]
        BY <2>2 DEF TypeOK, FetchersOK
    <3>5. Len(granted[e]) <= call'[e].immediate_reqs + 1
        BY <3>1, <3>2, <3>3
    <3>6. OneBatch'
      <4> SUFFICES ASSUME NEW f \in Envs
                   PROVE  /\ fetcher'[f] = "calling" => remaining[f] = <<>>
                          /\ fetcher'[f] # "calling" => granted[f] = <<>>
                          /\ call'[f].immediate_reqs \in 0 .. Cardinality(Tasks)
                          /\ Len(granted[f]) <= call'[f].immediate_reqs + 1
                          /\ call'[f].expires_at <= ExpiresIn - Tolerance
          BY <2>1 DEF OneBatch
      <4>1. CASE f = e
          BY <3>1, <3>2, <3>3, <3>5, <4>1
      <4>2. CASE f # e
          BY <3>3, <3>4, <4>2 DEF OneBatch
      <4> QED  BY <4>1, <4>2
    <3> QED  BY <2>1, <3>6 DEF Batches, QueueBounded
  <2>3. CASE /\ \/ fetcher' = [fetcher EXCEPT ![e] = "done"]
                \/ fetcher' = [fetcher EXCEPT ![e] = "parking"]
             /\ UNCHANGED call
      BY <1>5, <2>1, <2>3 DEF TypeOK, FetchersOK
  <2> QED  BY <1>6, <2>2, <2>3 DEF FetcherChecks
<1>7. ASSUME NEW e \in Envs, FetcherParks(e) \/ FetcherRetries(e)
      PROVE  Batches'
    BY <1>5, <1>7 DEF FetcherParks, FetcherRetries, keeperVars, TypeOK, FetchersOK
<1>8. ASSUME NEW e \in Envs, NEW n \in Nat, SchedulerGrants(e, n)
      PROVE  Batches'
  <2>1. /\ \A f \in Envs \ {e} : granted'[f] = granted[f]
        /\ Len(granted'[e]) = n
      BY <1>8, GrantsShape
  <2>2. /\ fetcher[e] = "calling" /\ n <= call[e].immediate_reqs + 1
        /\ UNCHANGED <<remaining, fetcher, call>>
      BY <1>8 DEF SchedulerGrants, keeperVars
  <2>3. OneBatch'
    <3> SUFFICES ASSUME NEW f \in Envs
                 PROVE  /\ fetcher[f] = "calling" => remaining[f] = <<>>
                        /\ fetcher[f] # "calling" => granted'[f] = <<>>
                        /\ call[f].immediate_reqs \in 0 .. Cardinality(Tasks)
                        /\ Len(granted'[f]) <= call[f].immediate_reqs + 1
                        /\ call[f].expires_at <= ExpiresIn - Tolerance
        BY <2>2 DEF OneBatch
    <3>1. CASE f = e
        BY <2>1, <2>2, <3>1 DEF OneBatch
    <3>2. CASE f # e
        BY <2>1, <3>2 DEF OneBatch
    <3> QED  BY <3>1, <3>2
  <2> QED  BY <2>2, <2>3 DEF Batches, QueueBounded
(* A call that is over, one way or the other.                                 *)
<1>9. ASSUME NEW e \in Envs, NEW p \in {"loop", "backoff"},
             granted' = [granted EXCEPT ![e] = <<>>],
             fetcher' = [fetcher EXCEPT ![e] = p],
             call' = [call EXCEPT ![e] = NoCall],
             \A f \in Envs \ {e} : remaining'[f] = remaining[f]
      PROVE  OneBatch'
  <2>1. /\ granted'[e] = <<>> /\ fetcher'[e] # "calling"
        /\ call'[e].immediate_reqs = 0 /\ call'[e].expires_at = 0
      BY <1>9 DEF NoCall, TypeOK, FetchersOK
  <2>2. \A f \in Envs \ {e} : /\ granted'[f] = granted[f]
                               /\ fetcher'[f] = fetcher[f]
                               /\ call'[f] = call[f]
      BY <1>9 DEF TypeOK, FetchersOK
  <2>3. Len(granted'[e]) = 0
      BY <2>1
  <2> SUFFICES ASSUME NEW f \in Envs
               PROVE  /\ fetcher'[f] = "calling" => remaining'[f] = <<>>
                      /\ fetcher'[f] # "calling" => granted'[f] = <<>>
                      /\ call'[f].immediate_reqs \in 0 .. Cardinality(Tasks)
                      /\ Len(granted'[f]) <= call'[f].immediate_reqs + 1
                      /\ call'[f].expires_at <= ExpiresIn - Tolerance
      BY DEF OneBatch
  <2>4. CASE f = e
      BY <1>0, <2>1, <2>3, <2>4
  <2>5. CASE f # e
      BY <1>9, <2>2, <2>5 DEF OneBatch
  <2> QED  BY <2>4, <2>5
<1>10. ASSUME NEW e \in Envs, FetchSucceeds(e)
       PROVE  Batches'
  <2>1. \A f \in Envs \ {e} : remaining'[f] = remaining[f]
      BY <1>10, FetchShape
  <2>2. OneBatch'
      BY <1>9, <1>10, <2>1 DEF FetchSucceeds
  <2>3. Len(remaining'[e]) <= Cardinality(Tasks) + 1
    <3>1. Len(remaining'[e]) = Len(granted[e])
        BY <1>10, FetchShape
    <3>2. /\ Len(granted[e]) <= call[e].immediate_reqs + 1
          /\ call[e].immediate_reqs \in 0 .. Cardinality(Tasks)
        BY DEF OneBatch
    <3>3. Len(granted[e]) \in Nat
        BY IdsMade
    <3> QED  BY <1>0, <3>1, <3>2, <3>3
  <2>4. QueueBounded'
      BY <2>1, <2>3 DEF QueueBounded
  <2> QED  BY <2>2, <2>4 DEF Batches
<1>11. ASSUME NEW e \in Envs, FetchFails(e)
       PROVE  Batches'
  <2>1. UNCHANGED remaining
      BY <1>11 DEF FetchFails, keeperVars
  <2>2. OneBatch'
      BY <1>9, <1>11, <2>1 DEF FetchFails
  <2> QED  BY <2>1, <2>2 DEF Batches, QueueBounded
<1>12. CASE Tick
  <2>1. \A e \in Envs : Len(remaining'[e]) = Len(remaining[e])
      BY <1>12, TickShape
  <2>2. \A e \in Envs : remaining[e] = <<>> => remaining'[e] = <<>>
      BY <1>1, <2>1, EmptySeq
  <2>3. \A e \in Envs :
           /\ call'[e].immediate_reqs = call[e].immediate_reqs
           /\ call'[e].expires_at <= ExpiresIn - Tolerance
    <3>1. \A e \in Envs : /\ call[e].expires_at \in Int
                          /\ call[e].expires_at <= ExpiresIn - Tolerance
        BY DEF OneBatch, TypeOK, FetchersOK
    <3>2. \A n \in Int : n <= ExpiresIn - Tolerance
             => Countdown(n) <= ExpiresIn - Tolerance
        BY DEF Countdown
    <3>3. \A e \in Envs :
             /\ call'[e].immediate_reqs = call[e].immediate_reqs
             /\ \/ call'[e].expires_at = call[e].expires_at
                \/ call'[e].expires_at = Countdown(call[e].expires_at)
        BY <1>12 DEF Tick, TypeOK, FetchersOK
    <3> QED  BY <3>1, <3>2, <3>3
  <2>4. UNCHANGED <<fetcher, granted>>
      BY <1>12 DEF Tick
  <2>5. OneBatch'
      BY <2>2, <2>3, <2>4 DEF OneBatch
  <2> QED  BY <2>1, <2>5 DEF Batches, QueueBounded
<1>13. CASE StopNotifies
    BY <1>5, <1>13 DEF StopNotifies, WakeFetcher, keeperVars
<1>14. ASSUME NEW t \in Tasks, FindKeeper(t)
       PROVE  Batches'
    BY <1>5, <1>14 DEF FindKeeper, StartFetcher, TypeOK, TasksOK, FetchersOK
<1>15. ASSUME NEW t \in Tasks,
              \/ \E e \in Envs : StartNewServantTask(t, e)
              \/ Abort(t) \/ Free(t) \/ WaitOn(t) \/ TimeOut(t)
       PROVE  UNCHANGED <<remaining, granted, call, fetcher>>
    BY <1>15 DEF StartNewServantTask, Abort, Free, WaitOn, TimeOut, keeperVars,
                 fetcherVars
<1>16. Stop \/ Join \/ UNCHANGED vars
          => UNCHANGED <<remaining, granted, call, fetcher>>
    BY DEF Stop, Join, keeperVars, fetcherVars, vars
<1>17. UNCHANGED <<remaining, granted, call, fetcher>> => Batches'
    BY <1>5
<1> QED
    BY <1>0, <1>3, <1>4, <1>6, <1>7, <1>8, <1>10, <1>11, <1>12, <1>13, <1>14,
       <1>15, <1>16, <1>17 DEF Next

-----------------------------------------------------------------------------
(* Every step keeps the invariant.                                            *)
LEMMA KeeperStep == KeeperInv /\ [Next]_vars => KeeperInv'
<1> SUFFICES ASSUME KeeperInv, [Next]_vars PROVE KeeperInv'
    OBVIOUS
<1> QED
    BY TypeStep, WaitersStep, ApartStep, ExpiryStep, BatchStep, Zenon
    DEF KeeperInv, Apart, Conservative, Batches

LEMMA KeeperInvariant == Spec => []KeeperInv
BY KeeperInit, KeeperStep, PTL DEF Spec

(* The state of the keeper of task_grant_keeper.cc is always well formed.     *)
THEOREM KeeperTypeCorrect == Spec => []TypeOK
<1>1. KeeperInv => TypeOK
    BY DEF KeeperInv
<1> QED  BY <1>1, KeeperInvariant, PTL

(* Get's `waiters' counts the tasks that wait, however they stop waiting:     *)
(* FLARE_CHECK_GE(--keeper->waiters, 0) cannot fire.                          *)
THEOREM WaitersCorrect == Spec => []WaitersExact
<1>1. KeeperInv => WaitersExact
    BY DEF KeeperInv
<1> QED  BY <1>1, KeeperInvariant, PTL

(* Get never gives the same grant to two tasks, nor leaves it queued.         *)
THEOREM HandedOnceCorrect == Spec => []HandedOnce
<1>1. KeeperInv => HandedOnce
    BY DEF KeeperInv
<1> QED  BY <1>1, KeeperInvariant, PTL

(* GrantFetcherProc's reckoning of a lease, from before its RPC and less the  *)
(* tolerance, never outlasts the scheduler's.                                 *)
THEOREM ExpiryCorrect == Spec => []ConservativeExpiry
<1>1. KeeperInv => ConservativeExpiry
    BY DEF KeeperInv
<1> QED  BY <1>1, KeeperInvariant, PTL

(* GrantFetcherProc fetches a batch only into an empty queue, so a queue is   *)
(* at most one batch.                                                         *)
THEOREM QueueCorrect == Spec => []QueueBounded
<1>1. KeeperInv => QueueBounded
    BY DEF KeeperInv
<1> QED  BY <1>1, KeeperInvariant, PTL

(* The keeper's lock never protects anything but consistent books: types,     *)
(* waiters, the length of the queue and the reckoned leases.                  *)
THEOREM QueueConsistentCorrect == Spec => []QueueConsistent
<1>1. KeeperInv => QueueConsistent
    BY DEF KeeperInv, QueueConsistent
<1> QED  BY <1>1, KeeperInvariant, PTL

-----------------------------------------------------------------------------
(* What a grant is worth when Get hands it out.                               *)

(* Only Get takes a task from "entered" to "granted".                         *)
LEMMA OnlyGetHands ==
    ASSUME TypeOK, [Next]_vars, NEW t \in Tasks,
           tasks[t].at = "entered", tasks'[t].at = "granted"
    PROVE  Get(t)
<1>1. ASSUME NEW u \in Tasks, NEW p, tasks' = At(u, p)
      PROVE  u = t
    BY <1>1 DEF At, TypeOK, TasksOK
<1>2. tasks' # tasks
    OBVIOUS
<1>3. ASSUME NEW e \in Envs
      PROVE  ~FetchSucceeds(e)
    BY DEF FetchSucceeds, NotifyAvailable, TypeOK, TasksOK
<1>4. ASSUME NEW u \in Tasks, NEW e \in Envs
      PROVE  ~StartNewServantTask(u, e)
    BY DEF StartNewServantTask, TypeOK, TasksOK
<1>5. ASSUME NEW u \in Tasks,
             \/ Abort(u) \/ Free(u) \/ FindKeeper(u) \/ TakeAfterWaiting(u)
             \/ WaitOn(u) \/ TimeOut(u)
      PROVE  FALSE
  <2>1. u = t
      BY <1>1, <1>5 DEF Abort, Free, FindKeeper, TakeAfterWaiting, WaitOn,
                        TimeOut, TakeGrant
  <2>2. FindKeeper(t)
      BY <1>5, <2>1 DEF Abort, Free, TakeAfterWaiting, WaitOn, TimeOut
  <2> QED  BY <2>2 DEF FindKeeper
<1>6. ASSUME NEW u \in Tasks, Get(u)
      PROVE  u = t
    BY <1>1, <1>6 DEF Get, TakeGrant
<1>7. ASSUME \/ \E e \in Envs :
                   \/ FetcherChecks(e) \/ FetcherParks(e) \/ FetcherRetries(e)
                   \/ \E n \in 1 .. Cardinality(Tasks) + 1 : SchedulerGrants(e, n)
                   \/ FetchFails(e)
             \/ Stop \/ StopNotifies \/ Join \/ Tick \/ UNCHANGED vars
      PROVE  UNCHANGED tasks
    BY <1>7 DEF FetcherChecks, FetcherParks, FetcherRetries, SchedulerGrants,
                FetchFails, Stop, StopNotifies, Join, Tick, vars
<1> QED  BY <1>2, <1>3, <1>4, <1>5, <1>6, <1>7 DEF Next

LEMMA GetHandsAlive ==
    ASSUME KeeperInv, [Next]_vars, NEW t \in Tasks,
           tasks[t].at = "entered", tasks'[t].at = "granted"
    PROVE  leases[held'[t]] >= Tolerance
<1> USE DEF KeeperInv
<1>1. Get(t)
    BY OnlyGetHands
<1>2. ~GetWaits(t)
    BY DEF GetWaits, At, TypeOK, TasksOK
<1>3. PICK k \in Nat : GetTakes(t, k)
    BY <1>1, <1>2, GetSplit
<1>4. PICK e \in Envs : e = tasks[t].env
    BY DEF TypeOK, TasksOK
<1>5. /\ k + 1 \in 1 .. Len(remaining[e])
      /\ held' = [held EXCEPT ![t] = remaining[e][k + 1].grant_id]
    BY <1>3, <1>4, TakeQueues DEF GetTakes
<1>6. held'[t] = remaining[e][k + 1].grant_id
    BY <1>5 DEF TypeOK, TasksOK
<1>7. /\ remaining[e][k + 1].expires_at >= 0
      /\ remaining[e][k + 1].expires_at \in Int
  <2>1. remaining[e] \in Seq(GrantDescType)
      BY DEF TypeOK
  <2>2. remaining[e][k + 1] \in GrantDescType
      BY <1>5, <2>1
  <2> QED  BY <1>3, <1>4, <2>2 DEF GetTakes, GrantDescType
<1>8. leases[held'[t]] \in Int
  <2>1. held'[t] \in 1 .. Len(leases)
      BY <1>5, <1>6, IdsMade DEF Ids
  <2> QED  BY <2>1 DEF TypeOK
<1>9. leases[held'[t]] >= remaining[e][k + 1].expires_at + Tolerance
    BY <1>5, <1>6, <1>7 DEF ConservativeExpiry
<1> QED  BY <1>7, <1>8, <1>9

(* What Get takes from its stock, the scheduler goes on honouring for the     *)
(* tolerance at least, however long the grant was queued.                     *)
THEOREM HandedAliveCorrect == Spec => HandedAlive
<1> DEFINE Alive == \A t \in Tasks :
              tasks[t].at = "entered" /\ tasks'[t].at = "granted" =>
                  leases[held'[t]] >= Tolerance
<1>1. KeeperInv /\ [Next]_vars => [Alive]_vars
    BY GetHandsAlive
<1> QED  BY <1>1, KeeperInvariant, PTL DEF Spec, HandedAlive
=============================================================================
