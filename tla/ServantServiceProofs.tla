------------------------ MODULE ServantServiceProofs ------------------------
(* Proofs about the servant's RPC service, its compiler registry, its tasks   *)
(* and the tokens it shares with scheduler and delegates (ServantService),    *)
(* for every set of compilers, every rollout interval, every number of        *)
(* rotations, lost messages, delegates and upgrades.                          *)
EXTENDS ServantService, SequenceTheorems, WellFoundedInduction, TLAPS

-----------------------------------------------------------------------------
(* Types.                                                                     *)

Rollout(t) == <<t, t + 1, t + 2>>
Rollouts == {Rollout(t) : t \in 1..(scope.rollouts + 1)}

Answers == [tokens : SUBSET Tokens, age : Ages]

TaskType ==
  [env : Digests, path : Paths, source : Sources, write_cache : BOOLEAN,
   status : {"running", "done"}, exit_code : {None, 0, 1},
   by : Digests \cup {None}, cached : BOOLEAN, swapped : BOOLEAN,
   references : 1..scope.references]

ScopeTyped == scope \in Scope

RegistryTyped ==
  /\ files \in [Paths -> Digests \cup {None}]
  /\ changed \subseteq Paths /\ changes \in 0..scope.changes
  /\ registry.environments = DOMAIN registry.compiler_paths
  /\ registry.environments \subseteq Digests
  /\ \A d \in registry.environments : registry.compiler_paths[d] \in Paths

TokensTyped ==
  /\ rotation \in [tokens : Rollouts, left : 0..(scope.interval + 1)]
  /\ replies \subseteq Answers /\ verifier \in Answers
  /\ config \in [token : Tokens \cup {0}, age : Ages]

BeatsTyped ==
  /\ known \in [envs : SUBSET Digests, serving : BOOLEAN, left : 0..Expiry]
  /\ requests \subseteq [envs : SUBSET Digests, expires : {0, Expiry}]
  /\ pulse \in {"beating", "stopped"} /\ lost \in 0..scope.lost

TaskTyped == task # None => task \in TaskType

-----------------------------------------------------------------------------
(* Tokens.  What was learnt some ticks ago is what is active now, or what was *)
(* active before a rotation that is no older than that.                       *)
Active == rotation.tokens[2]

Heard(token, age) ==
  \/ token = Active
  \/ token + 1 = Active /\ scope.interval + 1 - rotation.left <= age

AnswerHeard(r) ==
  r.age <= scope.interval =>
    \E token \in Tokens : /\ r.tokens = {token - 1, token, token + 1}
                          /\ Heard(token, r.age)

TokensHeard ==
  /\ config.age <= scope.interval => Heard(config.token, config.age)
  /\ \A r \in replies \cup {verifier} : AnswerHeard(r)

-----------------------------------------------------------------------------
(* Compilers.  A path the registry knows has not been touched since the last  *)
(* rescan or still holds what it held; a running task was told where its      *)
(* compiler is and knows whether it is there no more.                         *)
RegistryRight ==
  \A d \in registry.environments :
    \/ files[registry.compiler_paths[d]] = d
    \/ registry.compiler_paths[d] \in changed

TaskRight ==
  task # None /\ task.status = "running" =>
    /\ files[task.path] = task.env \/ task.swapped
    /\ task.write_cache = VerifyTaskCachability(task.source)

ServantInv ==
  /\ ScopeTyped /\ RegistryTyped /\ TokensTyped /\ BeatsTyped /\ TaskTyped
  /\ TokensHeard /\ RegistryRight /\ TaskRight /\ GenuineOutput

-----------------------------------------------------------------------------
(* The operators.                                                             *)

(* Of the places where a digest is found there is a first one.                *)
Precedes == {pair \in Nat \X Nat : pair[1] < pair[2]}

LEMMA FirstPlace ==
  ASSUME NEW places \in SUBSET Nat, places # {}
  PROVE  \E i \in places : \A j \in places : i <= j
<1>1. IsWellFoundedOn(Precedes, Nat)
  BY NatLessThanWellFounded DEF OpToRel, Precedes
<1>2. PICK i \in places : \A j \in places : ~(<<j, i>> \in Precedes)
  BY <1>1, WFMin
<1>3. ASSUME NEW j \in places PROVE i <= j
  <2>1. ~(<<j, i>> \in Precedes) /\ i \in Nat /\ j \in Nat
    BY <1>2
  <2> QED
    BY <2>1 DEF Precedes
<1> QED
  BY <1>3

(* AddEnvironmentTo files a digest under a path that held it.                 *)
LEMMA FiledWhereFound ==
  ASSUME NEW d \in Installed
  PROVE  AddEnvironmentTo(d) \in Paths /\ files[AddEnvironmentTo(d)] = d
<1> DEFINE places == {i \in DOMAIN ScanOrder : files[ScanOrder[i]] = d}
<1>1. places # {} /\ places \subseteq Nat
  BY ServantConstants DEF Installed, Paths, ToSet
<1>2. PICK first \in places : \A j \in places : first <= j
  BY <1>1, FirstPlace
<1>3. (CHOOSE i \in places : \A j \in places : i <= j) \in places
  BY <1>2
<1> QED
  BY <1>3 DEF AddEnvironmentTo, Paths, ToSet

(* A rotation takes three tokens in a row to the next three.                  *)
LEMMA RotatedRollout ==
  ASSUME NEW t \in Nat PROVE Rotated(Rollout(t)) = Rollout(t + 1)
<1> DEFINE s == Append(<<t + 1, t + 2>>, t + 3)
<1>1. Tail(<<t, t + 1, t + 2>>) = <<t + 1, t + 2>> /\ (t + 2) + 1 = t + 3
  OBVIOUS
<1>2. Len(<<t + 1, t + 2>>) = 2 /\ <<t + 1, t + 2>> \in Seq(Int)
  OBVIOUS
<1>3. /\ s \in Seq(Int) /\ Len(s) = 3
      /\ s[1] = t + 1 /\ s[2] = t + 2 /\ s[3] = t + 3
  BY <1>2, AppendProperties
<1>4. Rollout(t + 1) \in Seq(Int) /\ Len(Rollout(t + 1)) = 3
  BY DEF Rollout
<1>5. \A i \in 1..3 : s[i] = Rollout(t + 1)[i]
  BY <1>3 DEF Rollout
<1>6. s = Rollout(t + 1)
  BY <1>3, <1>4, <1>5, SeqEqual
<1> QED
  BY <1>1, <1>6 DEF Rotated, Rollout

(* The tokens after a question, and what the rotation does to what was heard. *)
LEMMA RotationTyped ==
  ASSUME ScopeTyped, TokensTyped
  PROVE  DetermineActiveServingDaemonTokens
           \in [tokens : Rollouts, left : 0..(scope.interval + 1)]
<1>1. scope.interval \in Nat /\ scope.rollouts \in Nat
  BY DEF ScopeTyped, Scope
<1>2. PICK t \in 1..(scope.rollouts + 1) : rotation.tokens = Rollout(t)
  BY DEF TokensTyped, Rollouts
<1>3. CASE rotation.left = 0 /\ rotation.tokens[3] < scope.rollouts + 3
  <2>1. rotation.tokens[3] = t + 2
    BY <1>2 DEF Rollout
  <2>2. t + 1 \in 1..(scope.rollouts + 1)
    BY <1>1, <1>3, <2>1
  <2>3. Rotated(rotation.tokens) = Rollout(t + 1)
    BY <1>2, RotatedRollout
  <2>4. Rotated(rotation.tokens) \in Rollouts
    BY <2>2, <2>3 DEF Rollouts
  <2>5. scope.interval + 1 \in 0..(scope.interval + 1)
    BY <1>1
  <2> QED
    BY <1>3, <2>4, <2>5 DEF DetermineActiveServingDaemonTokens
<1>4. CASE ~(rotation.left = 0 /\ rotation.tokens[3] < scope.rollouts + 3)
  BY <1>4 DEF DetermineActiveServingDaemonTokens, TokensTyped
<1> QED
  BY <1>3, <1>4

LEMMA RotationTells ==
  ASSUME ScopeTyped, TokensTyped
  PROVE  LET active == DetermineActiveServingDaemonTokens
         IN  \/ active = rotation
             \/ /\ rotation.left = 0
                /\ active.left = scope.interval + 1
                /\ active.tokens[2] = Active + 1
<1>1. PICK t \in 1..(scope.rollouts + 1) : rotation.tokens = Rollout(t)
  BY DEF TokensTyped, Rollouts
<1>2. scope.rollouts \in Nat
  BY DEF ScopeTyped, Scope
<1>3. Rotated(rotation.tokens)[2] = Active + 1
  <2>1. Rotated(rotation.tokens) = Rollout(t + 1)
    BY <1>1, RotatedRollout
  <2> QED
    BY <1>1, <2>1 DEF Rollout, Active
<1> QED
  BY <1>3 DEF DetermineActiveServingDaemonTokens

(* The answer of GetConfig and that of a heartbeat, when they are given.      *)
LEMMA AnswersTyped ==
  ASSUME ScopeTyped,
         NEW active \in [tokens : Rollouts, left : 0..(scope.interval + 1)]
  PROVE  /\ GetConfig(active.tokens) \in Tokens
         /\ ToSet(active.tokens) =
              {active.tokens[2] - 1, active.tokens[2], active.tokens[2] + 1}
         /\ ToSet(active.tokens) \subseteq Tokens
<1>1. scope.rollouts \in Nat
  BY DEF ScopeTyped, Scope
<1>2. PICK t \in 1..(scope.rollouts + 1) : active.tokens = Rollout(t)
  BY DEF Rollouts
<1>3. /\ Rollout(t)[2] = t + 1
      /\ ToSet(Rollout(t)) = {t, t + 1, t + 2}
  <2>1. DOMAIN Rollout(t) = {1, 2, 3}
    BY DEF Rollout
  <2>2. Rollout(t)[1] = t /\ Rollout(t)[2] = t + 1 /\ Rollout(t)[3] = t + 2
    BY DEF Rollout
  <2> QED
    BY <2>1, <2>2 DEF ToSet
<1> QED
  BY <1>1, <1>2, <1>3 DEF GetConfig, Tokens

-----------------------------------------------------------------------------
(* The steps, by what they write.                                             *)

ScanOrChange ==
  \/ OnCompilerRescanTimer
  \/ \E p \in Paths, d \in scope.digests \cup {None} : ChangeCompiler(p, d)

TokenTraffic ==
  \/ OnFetchConfig \/ FetchFails
  \/ \E req \in requests : HandleHeartbeat(req)
  \/ \E reply \in replies : UpdateAcceptableTokens(reply) \/ ReplyLost(reply)
  \/ Tick

Beats == Heartbeat \/ Stop \/ \E req \in requests : HeartbeatLost(req)

TaskCalls ==
  \/ \E env \in Digests, source \in Sources : QueueCxxCompilationTask(env, source)
  \/ ReferenceTask
  \/ \E exit \in {0, 1} : OnCompletion(exit)
  \/ FreeTask

LEMMA StepKinds ==
  /\ Next <=> ScanOrChange \/ TokenTraffic \/ Beats \/ TaskCalls
  /\ ScanOrChange => UNCHANGED <<scope, tokenVars, beatVars, lost>>
  /\ TokenTraffic => UNCHANGED <<scope, registryVars, pulse, task>>
  /\ Beats => UNCHANGED <<scope, registryVars, tokenVars, known, replies, task>>
  /\ TaskCalls => UNCHANGED <<scope, registryVars, tokenVars, beatVars, lost>>
<1>1. Next <=> ScanOrChange \/ TokenTraffic \/ Beats \/ TaskCalls
  BY DEF Next, ScanOrChange, TokenTraffic, Beats, TaskCalls
<1>2. ScanOrChange => UNCHANGED <<scope, tokenVars, beatVars, lost>>
  BY DEF ScanOrChange, OnCompilerRescanTimer, ChangeCompiler, beatVars
<1>3. TokenTraffic => UNCHANGED <<scope, registryVars, pulse, task>>
  BY DEF TokenTraffic, OnFetchConfig, FetchFails, HandleHeartbeat,
         UpdateAcceptableTokens, ReplyLost, Tick, beatVars
<1>4. Beats => UNCHANGED <<scope, registryVars, tokenVars, known, replies, task>>
  BY DEF Beats, Heartbeat, Stop, HeartbeatLost
<1>5. TaskCalls => UNCHANGED <<scope, registryVars, tokenVars, beatVars, lost>>
  BY DEF TaskCalls, QueueCxxCompilationTask, ReferenceTask, OnCompletion, FreeTask
<1> QED
  BY <1>1, <1>2, <1>3, <1>4, <1>5

LEMMA ServantStart == Init => ServantInv
<1> SUFFICES ASSUME Init PROVE ServantInv
  OBVIOUS
<1>1. ScopeTyped /\ scope.interval \in Nat /\ scope.rollouts \in Nat
                 /\ scope.digests \subseteq Digests /\ scope.changes \in Nat
                 /\ scope.lost \in Nat
  BY ServantConstants DEF Init, ScopeTyped, Scope
<1>2. RegistryTyped /\ RegistryRight
  <2>1. files \in [Paths -> Digests \cup {None}] /\ changed = {} /\ changes = 0
    BY <1>1 DEF Init
  <2>2. registry = [compiler_paths |-> Scan, environments |-> DOMAIN Scan]
    BY DEF Init, UpdateEnvironment
  <2>3. DOMAIN Scan = Installed /\ Installed \subseteq Digests
    BY <2>1 DEF Scan, Installed
  <2>4. \A d \in Installed : Scan[d] \in Paths /\ files[Scan[d]] = d
    BY FiledWhereFound DEF Scan
  <2> QED
    BY <1>1, <2>1, <2>2, <2>3, <2>4 DEF RegistryTyped, RegistryRight
<1>3. TokensTyped
  <2>1. Rollout(1) = <<1, 2, 3>> /\ 1 \in 1..(scope.rollouts + 1)
    BY <1>1 DEF Rollout
  <2>2. <<1, 2, 3>> \in Rollouts
    BY <2>1 DEF Rollouts
  <2>3. scope.interval + 1 \in 0..(scope.interval + 1)
    BY <1>1
  <2> QED
    BY <2>2, <2>3 DEF Init, TokensTyped, Answers, Ages
<1>4. BeatsTyped
  BY <1>1, ServantConstants DEF Init, BeatsTyped
<1>5. TokensHeard
  BY <1>1 DEF Init, TokensHeard, AnswerHeard
<1>6. TaskTyped /\ TaskRight /\ GenuineOutput
  BY DEF Init, TaskTyped, TaskRight, GenuineOutput
<1> QED
  BY <1>1, <1>2, <1>3, <1>4, <1>5, <1>6 DEF ServantInv

(* What the registry knows.                                                   *)
LEMMA RegistryStep ==
  ASSUME ScopeTyped, RegistryTyped, RegistryRight, [Next]_vars
  PROVE  RegistryTyped' /\ RegistryRight'
<1>1. ASSUME OnCompilerRescanTimer PROVE RegistryTyped' /\ RegistryRight'
  <2>1. registry' = [compiler_paths |-> Scan, environments |-> DOMAIN Scan]
    BY <1>1 DEF OnCompilerRescanTimer, UpdateEnvironment
  <2>2. UNCHANGED <<scope, files, changes>> /\ changed' = {}
    BY <1>1 DEF OnCompilerRescanTimer
  <2>3. DOMAIN Scan = Installed /\ Installed \subseteq Digests
    BY DEF Scan, Installed, RegistryTyped
  <2>4. \A d \in Installed : Scan[d] \in Paths /\ files[Scan[d]] = d
    BY FiledWhereFound DEF Scan
  <2> HIDE DEF Scan
  <2> QED
    BY <2>1, <2>2, <2>3, <2>4 DEF RegistryTyped, RegistryRight
<1>2. ASSUME NEW p \in Paths, NEW d \in scope.digests \cup {None},
             ChangeCompiler(p, d)
      PROVE  RegistryTyped' /\ RegistryRight'
  <2>1. /\ UNCHANGED <<scope, registry>>
        /\ files' = [files EXCEPT ![p] = d] /\ changed' = changed \cup {p}
        /\ changes < scope.changes /\ changes' = changes + 1
    BY <1>2 DEF ChangeCompiler
  <2>2. d \in Digests \cup {None} /\ scope.changes \in Nat
    BY DEF ScopeTyped, Scope, RegistryTyped
  <2>3. RegistryTyped'
    BY <2>1, <2>2 DEF RegistryTyped
  <2>4. \A q \in Paths : q # p => files'[q] = files[q]
    BY <2>1 DEF RegistryTyped
  <2>5. RegistryRight'
    BY <2>1, <2>4 DEF RegistryTyped, RegistryRight
  <2> QED
    BY <2>3, <2>5
<1>3. ASSUME UNCHANGED <<scope, registryVars>> PROVE RegistryTyped' /\ RegistryRight'
  BY <1>3 DEF registryVars, RegistryTyped, RegistryRight
<1> QED
  BY <1>1, <1>2, <1>3, StepKinds DEF ScanOrChange, vars

(* What was heard stays true through the scheduler's rotation: a second one   *)
(* comes a rollout interval after the first, when what was heard before both  *)
(* is too old to count.                                                       *)
LEMMA HeardAfterRotation ==
  ASSUME ScopeTyped, TokensTyped,
         rotation' \in {rotation, DetermineActiveServingDaemonTokens},
         scope' = scope, NEW token \in Nat, NEW age \in Ages,
         age <= scope.interval, Heard(token, age)
  PROVE  Heard(token, age)'
<1>1. scope.interval \in Nat /\ rotation.left \in 0..(scope.interval + 1)
      /\ age \in Nat
  BY DEF ScopeTyped, Scope, TokensTyped, Ages
<1>2. CASE rotation' = rotation
  BY <1>2 DEF Heard, Active
<1>3. CASE /\ rotation.left = 0
           /\ rotation'.left = scope.interval + 1
           /\ rotation'.tokens[2] = Active + 1
  <2>1. token = Active
    BY <1>1, <1>3 DEF Heard
  <2>2. scope'.interval + 1 - rotation'.left = 0
    BY <1>1, <1>3
  <2> QED
    BY <1>1, <1>3, <2>1, <2>2 DEF Heard, Active
<1> QED
  BY <1>2, <1>3, RotationTells

LEMMA AnswersAfterRotation ==
  ASSUME ScopeTyped, TokensTyped, TokensHeard,
         rotation' \in {rotation, DetermineActiveServingDaemonTokens},
         scope' = scope
  PROVE  /\ \A r \in replies \cup {verifier} : AnswerHeard(r)'
         /\ \A token \in Nat, age \in Ages :
               token = config.token /\ age = config.age /\ age <= scope.interval
                 => Heard(token, age)'
<1>1. \A r \in replies \cup {verifier} : r.age \in Ages
  BY DEF TokensTyped, Answers
<1>2. config.token \in Nat /\ config.age \in Ages /\ Tokens \subseteq Nat
  BY DEF TokensTyped, Tokens
<1>3. ASSUME NEW r \in replies \cup {verifier} PROVE AnswerHeard(r)'
  <2> SUFFICES ASSUME r.age <= scope.interval
               PROVE  \E token \in Tokens :
                         /\ r.tokens = {token - 1, token, token + 1}
                         /\ Heard(token, r.age)'
    BY DEF AnswerHeard, Tokens
  <2>1. PICK token \in Tokens : /\ r.tokens = {token - 1, token, token + 1}
                                /\ Heard(token, r.age)
    BY DEF TokensHeard, AnswerHeard
  <2>2. Heard(token, r.age)'
    <3>1. PICK age \in Ages : age = r.age
      BY <1>1
    <3>2. Heard(token, age)'
      BY <1>2, <2>1, <3>1, HeardAfterRotation
    <3> QED
      BY <3>1, <3>2
  <2> QED
    BY <2>1, <2>2
<1>4. ASSUME NEW token \in Nat, NEW age \in Ages,
             token = config.token, age = config.age, age <= scope.interval
      PROVE  Heard(token, age)'
  <2>1. Heard(token, age)
    BY <1>4 DEF TokensHeard
  <2> QED
    BY <1>4, <2>1, HeardAfterRotation
<1> QED
  BY <1>3, <1>4

(* The tokens of the scheduler, of a delegate and of the servant.             *)
LEMMA TokensStep ==
  ASSUME ScopeTyped, TokensTyped, TokensHeard, [Next]_vars
  PROVE  TokensTyped' /\ TokensHeard'
<1> DEFINE active == DetermineActiveServingDaemonTokens
           Rotations == [tokens : Rollouts, left : 0..(scope.interval + 1)]
<1>1. scope.interval \in Nat /\ scope.rollouts \in Nat
  BY DEF ScopeTyped, Scope
<1>2. active \in Rotations /\ rotation \in Rotations
  BY RotationTyped DEF TokensTyped
<1>3. 0 \in Ages /\ (\A age \in Ages : age \in Nat) /\ Tokens \subseteq Nat
  BY <1>1 DEF Ages, Tokens
<1>4. ASSUME scope' = scope
      PROVE  Rollouts' = Rollouts /\ Tokens' = Tokens /\ Ages' = Ages
                                  /\ Answers' = Answers
  BY <1>4 DEF Rollouts, Tokens, Ages, Answers
<1>5. ASSUME OnFetchConfig PROVE TokensTyped' /\ TokensHeard'
  <2>1. /\ UNCHANGED <<scope, replies, verifier>> /\ rotation' = active
        /\ config' = [token |-> GetConfig(active.tokens), age |-> 0]
    BY <1>5 DEF OnFetchConfig, beatVars
  <2>2. GetConfig(active.tokens) \in Tokens
    BY <1>2, AnswersTyped
  <2>3. TokensTyped'
    BY <1>2, <1>3, <1>4, <2>1, <2>2 DEF TokensTyped
  <2>4. Heard(config.token, config.age)'
    BY <2>1 DEF Heard, Active, GetConfig
  <2>5. TokensHeard'
    BY <2>1, <2>4, AnswersAfterRotation DEF TokensHeard
  <2> QED
    BY <2>3, <2>5
<1>6. ASSUME FetchFails PROVE TokensTyped' /\ TokensHeard'
  <2>1. UNCHANGED <<scope, replies, verifier, config>> /\ rotation' \in {rotation, active}
    BY <1>6 DEF FetchFails, beatVars
  <2>2. TokensTyped'
    BY <1>2, <1>4, <2>1 DEF TokensTyped
  <2>3. (config.age <= scope.interval => Heard(config.token, config.age))'
    <3>1. PICK token \in Nat, age \in Ages : token = config.token /\ age = config.age
      BY <1>3 DEF TokensTyped
    <3>2. age <= scope.interval => Heard(token, age)'
      BY <2>1, <3>1, AnswersAfterRotation
    <3> QED
      BY <2>1, <3>1, <3>2 DEF Heard
  <2>4. TokensHeard'
    BY <2>1, <2>3, AnswersAfterRotation DEF TokensHeard
  <2> QED
    BY <2>2, <2>4
<1>7. ASSUME NEW req \in requests, HandleHeartbeat(req)
      PROVE  TokensTyped' /\ TokensHeard'
  <2>1. /\ UNCHANGED <<scope, verifier, config>> /\ rotation' = active
        /\ replies' = replies \cup {[tokens |-> ToSet(active.tokens), age |-> 0]}
    BY <1>7 DEF HandleHeartbeat
  <2>2. /\ ToSet(active.tokens) \subseteq Tokens
        /\ ToSet(active.tokens) =
             {active.tokens[2] - 1, active.tokens[2], active.tokens[2] + 1}
        /\ active.tokens[2] \in Tokens
    BY <1>2, AnswersTyped DEF GetConfig
  <2>3. TokensTyped'
    BY <1>2, <1>3, <1>4, <2>1, <2>2 DEF TokensTyped, Answers
  <2>4. (config.age <= scope.interval => Heard(config.token, config.age))'
    <3>1. PICK token \in Nat, age \in Ages : token = config.token /\ age = config.age
      BY <1>3 DEF TokensTyped
    <3>2. age <= scope.interval => Heard(token, age)'
      BY <2>1, <3>1, AnswersAfterRotation
    <3> QED
      BY <2>1, <3>1, <3>2 DEF Heard
  <2>5. ASSUME NEW r, r = [tokens |-> ToSet(active.tokens), age |-> 0]
        PROVE  AnswerHeard(r)'
    <3>1. PICK token \in Tokens : token = active.tokens[2]
      BY <2>2
    <3>2. r.tokens = {token - 1, token, token + 1} /\ Heard(token, r.age)'
      BY <2>1, <2>2, <2>5, <3>1 DEF Heard, Active
    <3> QED
      BY <1>4, <2>1, <3>2 DEF AnswerHeard
  <2>6. TokensHeard'
    BY <2>1, <2>4, <2>5, AnswersAfterRotation DEF TokensHeard
  <2> QED
    BY <2>3, <2>6
<1>8. ASSUME NEW reply \in replies, UpdateAcceptableTokens(reply) \/ ReplyLost(reply)
      PROVE  TokensTyped' /\ TokensHeard'
  <2>1. /\ UNCHANGED <<scope, rotation, config>>
        /\ replies' \subseteq replies /\ verifier' \in {verifier, reply}
    BY <1>8 DEF UpdateAcceptableTokens, ReplyLost, tokenVars
  <2>2. TokensTyped'
    BY <1>4, <2>1 DEF TokensTyped
  <2>3. TokensHeard'
    BY <2>1 DEF TokensHeard, AnswerHeard, Heard, Active, Tokens
  <2> QED
    BY <2>2, <2>3
<1>9. ASSUME Tick PROVE TokensTyped' /\ TokensHeard'
  <2>1. /\ scope' = scope
        /\ rotation' = [rotation EXCEPT !.left = IF @ = 0 THEN 0 ELSE @ - 1]
        /\ verifier' = [verifier EXCEPT !.age = Older(@)]
        /\ config' = [config EXCEPT !.age = Older(@)]
        /\ replies' = {[r EXCEPT !.age = Older(@)] : r \in replies}
    BY <1>9 DEF Tick
  <2>2. \A age \in Ages : Older(age) \in Ages
    BY <1>1 DEF Older, Ages
  <2>3. TokensTyped'
    <3>1. rotation' \in Rotations
      BY <1>1, <1>2, <2>1
    <3>2. \A r \in Answers : [r EXCEPT !.age = Older(@)] \in Answers
      BY <2>2 DEF Answers
    <3>3. config' \in [token : Tokens \cup {0}, age : Ages]
      BY <2>1, <2>2 DEF TokensTyped
    <3>4. replies' \subseteq Answers /\ verifier' \in Answers
      BY <2>1, <3>2 DEF TokensTyped
    <3> QED
      BY <1>4, <2>1, <3>1, <3>3, <3>4 DEF TokensTyped
  <2>4. ASSUME NEW token \in Nat, NEW age \in Ages, Older(age) <= scope.interval,
               age <= scope.interval => Heard(token, age)
        PROVE  Heard(token, Older(age))'
    <3>1. age <= scope.interval /\ Older(age) = age + 1 /\ age \in Nat
      BY <1>1, <1>3, <2>4 DEF Older
    <3>2. rotation.left \in Nat /\ rotation'.tokens = rotation.tokens
      BY <1>2, <2>1
    <3>3. CASE token = Active
      BY <3>2, <3>3 DEF Heard, Active
    <3>4. CASE token + 1 = Active /\ scope.interval + 1 - rotation.left <= age
      <4>1. rotation.left # 0
        BY <1>1, <2>4, <3>1, <3>4
      <4>2. rotation'.left = rotation.left - 1
        BY <1>2, <2>1, <4>1
      <4>3. scope'.interval + 1 - rotation'.left <= Older(age)
        BY <1>1, <2>1, <3>1, <3>2, <3>4, <4>2
      <4>4. Active' = Active
        BY <3>2 DEF Active
      <4> QED
        BY <3>4, <4>3, <4>4, <2>1 DEF Heard, Older
    <3> QED
      BY <2>4, <3>1, <3>3, <3>4 DEF Heard
  <2>5. ASSUME NEW r \in Answers, AnswerHeard(r), NEW q,
               q = [r EXCEPT !.age = Older(@)]
        PROVE  AnswerHeard(q)'
    <3> SUFFICES ASSUME q.age <= scope.interval
                 PROVE  \E token \in Tokens :
                           /\ q.tokens = {token - 1, token, token + 1}
                           /\ Heard(token, q.age)'
      BY <1>4, <2>1 DEF AnswerHeard
    <3>1. r.age \in Ages /\ q.age = Older(r.age) /\ q.tokens = r.tokens
      BY <2>5 DEF Answers
    <3>2. r.age <= scope.interval
      BY <1>1, <1>3, <3>1 DEF Older
    <3>3. PICK token \in Tokens : /\ r.tokens = {token - 1, token, token + 1}
                                  /\ Heard(token, r.age)
      BY <2>5, <3>2 DEF AnswerHeard
    <3>4. PICK age \in Ages : age = r.age
      BY <3>1
    <3>5. Heard(token, Older(age))'
      BY <1>3, <2>4, <3>1, <3>3, <3>4
    <3> QED
      BY <2>1, <3>1, <3>3, <3>4, <3>5 DEF Older, Heard
  <2>6. (config.age <= scope.interval => Heard(config.token, config.age))'
    <3>1. PICK token \in Nat, age \in Ages : token = config.token /\ age = config.age
      BY <1>3 DEF TokensTyped
    <3>2. config'.token = token /\ config'.age = Older(age)
      BY <2>1, <3>1 DEF TokensTyped
    <3>3. Older(age) <= scope.interval => Heard(token, Older(age))'
      BY <2>4, <3>1 DEF TokensHeard
    <3> QED
      BY <2>1, <3>2, <3>3 DEF Heard, Older
  <2>7. verifier \in Answers /\ replies \subseteq Answers
    BY DEF TokensTyped
  <2>8. \A r \in replies' \cup {verifier'} : AnswerHeard(r)'
    BY <2>1, <2>5, <2>7 DEF TokensHeard
  <2> QED
    BY <2>3, <2>6, <2>8 DEF TokensHeard
<1>10. ASSUME UNCHANGED <<scope, tokenVars, replies>>
       PROVE  TokensTyped' /\ TokensHeard'
  <2>1. TokensTyped'
    BY <1>4, <1>10 DEF tokenVars, TokensTyped
  <2>2. TokensHeard'
    BY <1>10 DEF tokenVars, TokensHeard, AnswerHeard, Heard, Active, Tokens
  <2> QED
    BY <2>1, <2>2
<1> QED
  BY <1>5, <1>6, <1>7, <1>8, <1>9, <1>10, StepKinds
  DEF TokenTraffic, vars, beatVars

(* Heartbeats and what the scheduler believes.                                *)
LEMMA BeatsStep ==
  ASSUME ScopeTyped, RegistryTyped, BeatsTyped, [Next]_vars
  PROVE  BeatsTyped'
<1> DEFINE Messages == [envs : SUBSET Digests, expires : {0, Expiry}]
           Beliefs == [envs : SUBSET Digests, serving : BOOLEAN, left : 0..Expiry]
<1>1. scope.lost \in Nat /\ Expiry \in Nat
  BY ServantConstants DEF ScopeTyped, Scope
<1>2. Request(0) \in Messages /\ Request(Expiry) \in Messages
  BY DEF Request, RegistryTyped
<1>3. ASSUME Beats PROVE BeatsTyped'
  <2>1. CASE Heartbeat
    BY <1>2, <2>1 DEF Heartbeat, BeatsTyped
  <2>2. CASE Stop
    BY <1>2, <2>2 DEF Stop, BeatsTyped
  <2>3. ASSUME NEW req \in requests, HeartbeatLost(req) PROVE BeatsTyped'
    <3>1. lost + 1 \in 0..scope.lost
      BY <1>1, <2>3 DEF HeartbeatLost, BeatsTyped
    <3> QED
      BY <2>3, <3>1 DEF HeartbeatLost, BeatsTyped
  <2> QED
    BY <1>3, <2>1, <2>2, <2>3 DEF Beats
<1>4. ASSUME TokenTraffic PROVE BeatsTyped'
  <2>1. CASE OnFetchConfig
    BY <2>1 DEF OnFetchConfig, beatVars, BeatsTyped
  <2>2. CASE FetchFails
    <3>1. lost + 1 \in 0..scope.lost
      BY <1>1, <2>2 DEF FetchFails, BeatsTyped
    <3> QED
      BY <2>2, <3>1 DEF FetchFails, beatVars, BeatsTyped
  <2>3. ASSUME NEW req \in requests, HandleHeartbeat(req) PROVE BeatsTyped'
    <3>1. known' = Believed(req) /\ requests' = requests \ {req}
          /\ UNCHANGED <<scope, pulse, lost>>
      BY <2>3 DEF HandleHeartbeat
    <3>2. req.envs \in SUBSET Digests /\ req.expires \in 0..Expiry
      BY <1>1 DEF BeatsTyped
    <3>3. Believed(req) \in Beliefs
      BY <3>2 DEF Believed
    <3> QED
      BY <3>1, <3>3 DEF BeatsTyped
  <2>4. ASSUME NEW reply \in replies, UpdateAcceptableTokens(reply)
        PROVE  BeatsTyped'
    BY <2>4 DEF UpdateAcceptableTokens, BeatsTyped
  <2>5. ASSUME NEW reply \in replies, ReplyLost(reply) PROVE BeatsTyped'
    <3>1. lost + 1 \in 0..scope.lost
      BY <1>1, <2>5 DEF ReplyLost, BeatsTyped
    <3> QED
      BY <2>5, <3>1 DEF ReplyLost, BeatsTyped
  <2>6. CASE Tick
    <3>1. PICK k \in Beliefs : k = known
      BY DEF BeatsTyped
    <3>2. known' = IF k.left = 0 THEN [envs |-> {}, serving |-> FALSE, left |-> 0]
                   ELSE [k EXCEPT !.left = @ - 1]
      BY <2>6, <3>1 DEF Tick
    <3>3. known' \in Beliefs
      BY <1>1, <3>2
    <3> QED
      BY <2>6, <3>3 DEF Tick, BeatsTyped
  <2> QED
    BY <1>4, <2>1, <2>2, <2>3, <2>4, <2>5, <2>6 DEF TokenTraffic
<1>5. ASSUME UNCHANGED <<scope, beatVars, lost>> PROVE BeatsTyped'
  BY <1>5 DEF beatVars, BeatsTyped
<1> QED
  BY <1>3, <1>4, <1>5, StepKinds DEF vars

(* The task: what its compiler was when it was prepared is what runs, unless  *)
(* the ghost says that somebody replaced it.                                  *)
LEMMA TaskStep ==
  ASSUME ScopeTyped, RegistryTyped, RegistryRight, TaskTyped, TaskRight,
         GenuineOutput, [Next]_vars
  PROVE  TaskTyped' /\ TaskRight' /\ GenuineOutput'
<1> DEFINE Good == TaskTyped' /\ TaskRight' /\ GenuineOutput'
<1>1. scope.references \in Nat
  BY DEF ScopeTyped, Scope
<1>2. \A source \in Sources : VerifyTaskCachability(source) \in BOOLEAN
  BY ServantConstants DEF VerifyTaskCachability, SourceKinds
<1>3. ASSUME NEW p \in Paths, NEW d \in scope.digests \cup {None},
             ChangeCompiler(p, d)
      PROVE  Good
  <2>1. /\ scope' = scope /\ files' = [files EXCEPT ![p] = d]
        /\ task' = IF task # None /\ task.path = p
                   THEN [task EXCEPT !.swapped = @ \/ task.status = "running"]
                   ELSE task
    BY <1>3 DEF ChangeCompiler
  <2>2. CASE task = None
    BY <2>1, <2>2 DEF TaskTyped, TaskRight, GenuineOutput
  <2>3. CASE task # None
    <3>1. PICK k \in TaskType : k = task
      BY <2>3 DEF TaskTyped
    <3>2. k.path \in Paths /\ k.swapped \in BOOLEAN
      BY DEF TaskType
    <3>3. CASE k.path = p
      <4>1. PICK swapped \in BOOLEAN :
              swapped <=> (k.swapped \/ k.status = "running")
        BY <3>2
      <4>2. task' = [k EXCEPT !.swapped = (k.swapped \/ k.status = "running")]
        BY <2>1, <2>3, <3>1, <3>3
      <4>3. (k.swapped \/ k.status = "running") \in BOOLEAN
        OBVIOUS
      <4>4. task' \in TaskType
        BY <4>2, <4>3 DEF TaskType
      <4>5. /\ task'.status = k.status /\ task'.path = k.path /\ task'.env = k.env
            /\ task'.exit_code = k.exit_code /\ task'.by = k.by
            /\ task'.cached = k.cached /\ task'.source = k.source
            /\ task'.write_cache = k.write_cache
            /\ k.status = "running" => task'.swapped
            /\ k.swapped => task'.swapped
        BY <4>2, <3>2 DEF TaskType
      <4>6. TaskTyped'
        BY <2>1, <4>4 DEF TaskTyped, TaskType
      <4>7. TaskRight'
        BY <2>3, <3>1, <4>5 DEF TaskRight, VerifyTaskCachability
      <4>8. GenuineOutput'
        BY <2>3, <3>1, <4>5 DEF GenuineOutput
      <4> QED
        BY <4>6, <4>7, <4>8
    <3>4. CASE k.path # p
      <4>1. task' = task /\ files'[k.path] = files[k.path]
        BY <2>1, <3>1, <3>2, <3>4 DEF RegistryTyped
      <4> QED
        BY <2>1, <3>1, <4>1
        DEF TaskTyped, TaskType, TaskRight, GenuineOutput, VerifyTaskCachability
    <3> QED
      BY <3>3, <3>4
  <2> QED
    BY <2>2, <2>3
<1>4. ASSUME NEW env \in Digests, NEW source \in Sources,
             QueueCxxCompilationTask(env, source)
      PROVE  Good
  <2>1. /\ UNCHANGED <<scope, registryVars>> /\ scope.references > 0
        /\ task' = Prepared(env, source) /\ env \in registry.environments
    BY <1>4 DEF QueueCxxCompilationTask, RegistryTyped
  <2>2. PICK path \in Paths : path = registry.compiler_paths[env]
    BY <2>1 DEF RegistryTyped
  <2>3. task' = [env |-> env, path |-> path, source |-> source,
                 write_cache |-> VerifyTaskCachability(source),
                 status |-> "running", exit_code |-> None, by |-> None,
                 cached |-> FALSE, swapped |-> path \in changed, references |-> 1]
    BY <2>1, <2>2 DEF Prepared
  <2>4. 1 \in 1..scope.references
    BY <1>1, <2>1
  <2>5. task' \in TaskType
    BY <1>2, <2>3, <2>4 DEF TaskType
  <2>6. files[path] = env \/ path \in changed
    BY <2>1, <2>2 DEF RegistryRight
  <2>7. TaskRight'
    <3>1. /\ task'.path = path /\ task'.env = env /\ task'.source = source
          /\ task'.write_cache = VerifyTaskCachability(source)
          /\ path \in changed => task'.swapped
      BY <2>3
    <3>2. VerifyTaskCachability(task.source)' = VerifyTaskCachability(source)
      BY <3>1 DEF VerifyTaskCachability
    <3> QED
      BY <2>1, <2>6, <3>1, <3>2 DEF TaskRight, registryVars
  <2>8. GenuineOutput'
    BY <2>3 DEF GenuineOutput
  <2> QED
    BY <2>1, <2>5, <2>7, <2>8 DEF TaskTyped, TaskType
<1>5. ASSUME ReferenceTask \/ FreeTask PROVE Good
  <2>1. UNCHANGED <<scope, registryVars>> /\ task # None
    BY <1>5 DEF ReferenceTask, FreeTask
  <2>2. PICK k \in TaskType : k = task
    BY <2>1 DEF TaskTyped
  <2>3. CASE task' = None
    BY <2>3 DEF TaskTyped, TaskRight, GenuineOutput
  <2>4. ASSUME NEW n \in 1..scope.references, task' = [k EXCEPT !.references = n]
        PROVE  Good
    <3>1. task' \in TaskType
      BY <2>4 DEF TaskType
    <3>2. /\ task'.status = k.status /\ task'.path = k.path /\ task'.env = k.env
          /\ task'.exit_code = k.exit_code /\ task'.by = k.by
          /\ task'.cached = k.cached /\ task'.source = k.source
          /\ task'.write_cache = k.write_cache /\ task'.swapped = k.swapped
      BY <2>4 DEF TaskType
    <3>3. TaskTyped'
      BY <2>1, <3>1 DEF TaskTyped, TaskType
    <3>4. TaskRight'
      BY <2>1, <2>2, <3>2 DEF TaskRight, registryVars, VerifyTaskCachability
    <3>5. GenuineOutput'
      BY <2>1, <2>2, <3>2 DEF GenuineOutput
    <3> QED
      BY <3>3, <3>4, <3>5
  <2>5. k.references \in 1..scope.references
    BY DEF TaskType
  <2>6. CASE ReferenceTask
    <3>1. /\ task' = [k EXCEPT !.references = k.references + 1]
          /\ k.references < scope.references
      BY <2>2, <2>6 DEF ReferenceTask
    <3>2. k.references + 1 \in 1..scope.references
      BY <1>1, <2>5, <3>1
    <3> QED
      BY <2>4, <3>1, <3>2
  <2>7. CASE FreeTask /\ k.references # 1
    <3>1. task' = [k EXCEPT !.references = k.references - 1]
      BY <2>2, <2>7 DEF FreeTask
    <3>2. k.references - 1 \in 1..scope.references
      BY <1>1, <2>5, <2>7
    <3> QED
      BY <2>4, <3>1, <3>2
  <2>8. CASE FreeTask /\ k.references = 1
    BY <2>2, <2>3, <2>8 DEF FreeTask
  <2> QED
    BY <1>5, <2>6, <2>7, <2>8
<1>6. ASSUME NEW exit \in {0, 1}, OnCompletion(exit) PROVE Good
  <2>1. /\ UNCHANGED <<scope, registryVars>>
        /\ task # None /\ task.status = "running"
        /\ files[task.path] = None => exit # 0
    BY <1>6 DEF OnCompletion
  <2>2. PICK k \in TaskType : k = task
    BY <2>1 DEF TaskTyped
  <2>3. PICK by \in Digests \cup {None} : by = files[k.path]
    BY DEF TaskType, RegistryTyped
  <2>4. PICK cached \in BOOLEAN : cached <=> (k.write_cache /\ exit = 0)
    BY DEF TaskType
  <2>5. task' = [k EXCEPT !.status = "done", !.exit_code = exit, !.by = by,
                          !.cached = cached]
    <3>1. cached = (k.write_cache /\ exit = 0)
      BY <2>4
    <3>2. task' = [k EXCEPT !.status = "done", !.exit_code = exit, !.by = by,
                            !.cached = (k.write_cache /\ exit = 0)]
      BY <1>6, <2>2, <2>3 DEF OnCompletion, FillsCache
    <3> QED
      BY <3>1, <3>2
  <2>6. task' \in TaskType
    BY <2>5 DEF TaskType
  <2>7. /\ task'.status = "done" /\ task'.exit_code = exit /\ task'.by = by
        /\ task'.cached = cached /\ task'.env = k.env /\ task'.source = k.source
        /\ task'.swapped = k.swapped
    BY <2>5 DEF TaskType
  <2>8. /\ by = k.env \/ k.swapped
        /\ k.write_cache => k.source.allow /\ (k.source.overridden \/ ~k.source.macros)
    BY <2>1, <2>2, <2>3 DEF TaskRight, VerifyTaskCachability
  <2>9. GenuineOutput'
    BY <2>4, <2>7, <2>8 DEF GenuineOutput
  <2>10. TaskTyped' /\ TaskRight'
    BY <2>1, <2>6, <2>7 DEF TaskTyped, TaskType, TaskRight
  <2> QED
    BY <2>9, <2>10
<1>7. ASSUME UNCHANGED <<scope, files, task>> PROVE Good
  BY <1>7 DEF TaskTyped, TaskType, TaskRight, GenuineOutput, VerifyTaskCachability
<1>8. ASSUME OnCompilerRescanTimer PROVE Good
  BY <1>7, <1>8 DEF OnCompilerRescanTimer
<1>9. ASSUME TokenTraffic \/ Beats \/ UNCHANGED vars PROVE Good
  BY <1>7, <1>9, StepKinds DEF vars, registryVars
<1> HIDE DEF Good
<1>10. Good
  BY <1>3, <1>4, <1>5, <1>6, <1>8, <1>9, StepKinds DEF ScanOrChange, TaskCalls
<1> QED
  BY <1>10 DEF Good

-----------------------------------------------------------------------------
LEMMA ServantInvariant == Spec => []ServantInv
<1>1. ASSUME ServantInv, [Next]_vars PROVE ServantInv'
  <2>1. scope' = scope
    BY <1>1, StepKinds DEF vars
  <2>2. ScopeTyped'
    BY <1>1, <2>1 DEF ServantInv, ScopeTyped
  <2> QED
    BY <1>1, <2>2, RegistryStep, TokensStep, BeatsStep, TaskStep DEF ServantInv
<1> QED
  BY <1>1, ServantStart, PTL DEF Spec

(* A delegate whose token and a servant whose tokens left the scheduler less  *)
(* than a rollout interval ago understand each other: each remembers what is  *)
(* active or what was just before, and a servant accepts both neighbours of   *)
(* what it remembers.  However many rotations, in whatever order answers      *)
(* come, whatever is lost.                                                    *)
THEOREM TokensUnderstoodCorrect == Spec => []TokensUnderstood
<1>1. ServantInv => TypeOK
  <2> SUFFICES ASSUME ServantInv PROVE TypeOK
    OBVIOUS
  <2>1. scope.rollouts \in Nat
    BY DEF ServantInv, ScopeTyped, Scope
  <2>2. rotation.tokens \in [1..3 -> Tokens]
    <3>1. PICK t \in 1..(scope.rollouts + 1) : rotation.tokens = <<t, t + 1, t + 2>>
      BY DEF ServantInv, TokensTyped, Rollouts, Rollout
    <3>2. t \in Tokens /\ t + 1 \in Tokens /\ t + 2 \in Tokens
      BY <2>1 DEF Tokens
    <3> QED
      BY <3>1, <3>2
  <2>3. rotation.left \in 0..(scope.interval + 1)
    BY DEF ServantInv, TokensTyped
  <2>4. \A r \in replies \cup {verifier} : r.tokens \subseteq Tokens /\ r.age \in Ages
    BY DEF ServantInv, TokensTyped, Answers
  <2>5. config.token \in Tokens \cup {0} /\ config.age \in Ages
    BY DEF ServantInv, TokensTyped
  <2>6. task # None => task.references \in 1..scope.references
    BY DEF ServantInv, TaskTyped, TaskType
  <2>7. known.envs \subseteq Digests /\ known.left \in 0..Expiry
        /\ pulse \in {"beating", "stopped"} /\ lost \in 0..scope.lost
    BY DEF ServantInv, BeatsTyped
  <2> QED
    BY <2>2, <2>3, <2>4, <2>5, <2>6, <2>7 DEF TypeOK, ServantInv, RegistryTyped
<1>2. ServantInv => FreshTokensAccepted
  <2> SUFFICES ASSUME ServantInv, config.age <= scope.interval,
                      verifier.age <= scope.interval
               PROVE  config.token \in verifier.tokens
    BY DEF FreshTokensAccepted, IsTokenAcceptable
  <2>1. PICK token \in Tokens : /\ verifier.tokens = {token - 1, token, token + 1}
                                /\ token = Active \/ token + 1 = Active
    BY DEF ServantInv, TokensHeard, AnswerHeard, Heard
  <2>2. config.token = Active \/ config.token + 1 = Active
    BY DEF ServantInv, TokensHeard, Heard
  <2>3. config.token \in Int /\ token \in Int
    BY DEF ServantInv, TokensTyped, Tokens
  <2> QED
    BY <2>1, <2>2, <2>3
<1> QED
  BY <1>1, <1>2, ServantInvariant, PTL DEF TokensUnderstood

(* A successful result, answered or cached, comes from the compiler that the  *)
(* delegate asked for, unless somebody replaced the executable after the      *)
(* registry's last look; what is cached does not tell when it was made.       *)
THEOREM GenuineOutputCorrect == Spec => []GenuineOutput
  BY ServantInvariant, PTL DEF ServantInv
=============================================================================
