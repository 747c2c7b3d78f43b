--------------------------- MODULE ServantService ---------------------------
(***************************************************************************)
(* The servant's RPC service and what stands behind it: the registry of    *)
(* compilers found on this machine (daemon/cloud/compiler_registry.cc), the *)
(* compilation task (daemon/cloud/remote_task.cc and                        *)
(* remote_task/cxx_compilation_task.cc), the heartbeat that tells the       *)
(* scheduler what this servant offers and brings back the tokens it must    *)
(* accept (daemon/cloud/daemon_service_impl.cc), the scheduler's rotation   *)
(* of those tokens (scheduler/scheduler_service_impl.cc) and the delegate   *)
(* that fetches one of them (daemon/local/config_keeper.cc).                *)
(*                                                                         *)
(* The execution engine and the scheduler's dispatcher are modules of their *)
(* own; here the engine is one slot that may refuse a task, and the         *)
(* scheduler's table is the one record it keeps of this servant.            *)
(***************************************************************************)
EXTENDS Integers, Sequences, FiniteSets, SequencesExt

CONSTANTS
  None,             \* no compiler, no task, no result
  Digests,          \* digests (contents) a compiler's executable can have
  ScanOrder,        \* the paths a rescan looks at, in its order, each once
  Sources,          \* the sources submitted: see SourceKinds
  Expiry,           \* how long the scheduler believes a heartbeat, in ticks
  Scopes            \* bounds, see Scope

Scope == [digests : SUBSET Digests,  \* compilers that exist
          interval : Nat,            \* FLAGS_serving_daemon_token_rollout_interval
          rollouts : Nat,            \* bound: token rotations
          changes : Nat,             \* bound: compilers touched
          references : Nat,          \* bound: delegates holding the task
          inflight : Nat,            \* bound: heartbeats, and answers, under way
          lost : Nat]                \* bound: heartbeats or fetches that fail

Paths == ToSet(ScanOrder)

\* What the servant looks at in a submission: whether the delegate lets it be
\* cached, whether __TIME__ & co. occur in the source, whether the command line
\* defines all of them.
SourceKinds == [allow : BOOLEAN, macros : BOOLEAN, overridden : BOOLEAN]

ASSUME ServantConstants ==
  /\ None \notin Digests
  /\ ScanOrder \in Seq(Paths) /\ IsInjective(ScanOrder)
  /\ Sources \subseteq SourceKinds
  /\ Expiry \in Nat
  /\ Scopes \subseteq Scope

VARIABLES
  scope,      \* the bounds of this behaviour; they never change
  files,      \* per path, the digest of the compiler there, or None
  changed,    \* ghost: the paths touched since the last rescan
  changes,    \* how often a path was touched
  registry,   \* CompilerRegistry: compiler_paths_ and environments_
  rotation,   \* SchedulerServiceImpl: the three tokens and the time left
  known,      \* the scheduler's record of this servant
  requests,   \* heartbeats on their way to the scheduler
  replies,    \* answers on their way back
  verifier,   \* token_verifier_ of the servant
  config,     \* serving_daemon_token_ of the delegate
  task,       \* the task in the execution engine, or None
  pulse,      \* "beating" | "stopped": whether the pacemaker timer is set
  lost

registryVars == <<files, changed, changes, registry>>
tokenVars == <<rotation, verifier, config>>
beatVars == <<known, requests, replies, pulse>>
vars == <<scope, registryVars, tokenVars, beatVars, task, lost>>

-----------------------------------------------------------------------------
(* The compiler registry *)

NoCompilers == [compiler_paths |-> [d \in {} |-> None], environments |-> {}]

\* What the scan finds: a path without an executable compiler adds nothing.
Installed == {files[p] : p \in Paths} \ {None}

\* AddEnvironmentTo: of several paths with the same digest the first one wins.
AddEnvironmentTo(digest) ==
  LET places == {i \in DOMAIN ScanOrder : files[ScanOrder[i]] = digest}
  IN ScanOrder[CHOOSE i \in places : \A j \in places : i <= j]

Scan == [d \in Installed |-> AddEnvironmentTo(d)]

\* Mutant: what was known is kept, new compilers are added to it.
OnlyAdd(old, found) ==
  LET all == [d \in DOMAIN found \cup old.environments |->
                IF d \in old.environments THEN old.compiler_paths[d] ELSE found[d]]
  IN [compiler_paths |-> all, environments |-> DOMAIN all]

\* UpdateEnvironment replaces both tables.
UpdateEnvironment(old, found) ==
  [compiler_paths |-> found, environments |-> DOMAIN found]

\* The rescan holds the registry's lock from its first look at the file
\* system to the update.
OnCompilerRescanTimer ==
  /\ registry' = UpdateEnvironment(registry, Scan)
  /\ changed' = {}
  /\ UNCHANGED <<scope, files, changes, tokenVars, beatVars, task, lost>>

\* External: somebody installs, upgrades or removes a compiler.
ChangeCompiler(path, digest) ==
  /\ changes < scope.changes
  /\ files[path] # digest
  /\ files' = [files EXCEPT ![path] = digest]
  /\ changed' = changed \cup {path}
  /\ changes' = changes + 1
  /\ task' = IF task # None /\ task.path = path
             THEN [task EXCEPT !.swapped = @ \/ task.status = "running"]
             ELSE task
  /\ UNCHANGED <<scope, registry, tokenVars, beatVars, lost>>

-----------------------------------------------------------------------------
(* Tokens *)

Tokens == 1..(scope.rollouts + 3)

\* The age, in ticks, of what was learnt from the scheduler; a ghost.
Ages == 0..(scope.interval + 1)
Older(age) == IF age > scope.interval THEN age ELSE age + 1

Rotated(tokens) == Append(Tail(tokens), tokens[3] + 1)

\* DetermineActiveServingDaemonTokens: a rotation that is due happens when
\* somebody asks, once however late the question comes.
DetermineActiveServingDaemonTokens ==
  IF rotation.left = 0 /\ rotation.tokens[3] < scope.rollouts + 3
  THEN [tokens |-> Rotated(rotation.tokens), left |-> scope.interval + 1]
  ELSE rotation

\* Mutant: delegates get the token being rolled out.
Newest(tokens) == tokens[3]

\* GetConfig gives delegates the second token, the active one.
GetConfig(tokens) == tokens[2]

\* ConfigKeeper::OnFetchConfig.
OnFetchConfig ==
  LET active == DetermineActiveServingDaemonTokens
  IN /\ rotation' = active
     /\ config' = [token |-> GetConfig(active.tokens), age |-> 0]
     /\ UNCHANGED <<scope, registryVars, verifier, beatVars, task, lost>>

\* The RPC fails, before or after the scheduler has seen it.
FetchFails ==
  /\ lost < scope.lost
  /\ lost' = lost + 1
  /\ rotation' \in {rotation, DetermineActiveServingDaemonTokens}
  /\ UNCHANGED <<scope, registryVars, verifier, config, beatVars, task>>

\* TokenVerifier::Verify under the servant's token_lock_.
IsTokenAcceptable(token) == token \in verifier.tokens

-----------------------------------------------------------------------------
(* Heartbeats *)

Request(expires) == [envs |-> registry.environments, expires |-> expires]

\* Mutant: the timer is not killed by Stop.
StillBeating ==
  /\ Cardinality(requests) < scope.inflight
  /\ requests' = requests \cup {Request(Expiry)}
  /\ UNCHANGED <<scope, registryVars, tokenVars, known, replies, pulse, task,
                 lost>>

\* The pacemaker's callback up to the RPC. Callbacks of a slow scheduler
\* overlap.
Heartbeat ==
  /\ pulse = "beating"
  /\ Cardinality(requests) < scope.inflight
  /\ requests' = requests \cup {Request(Expiry)}
  /\ UNCHANGED <<scope, registryVars, tokenVars, known, replies, pulse,
                 task, lost>>

\* Stop: the timer is killed, then one last heartbeat that expires at once.
Stop ==
  /\ pulse = "beating"
  /\ pulse' = "stopped"
  /\ requests' = requests \cup {Request(0)}
  /\ UNCHANGED <<scope, registryVars, tokenVars, known, replies, task,
                 lost>>

\* A servant that is about to leave stays in the table but gets no tasks.
Believed(req) ==
  [envs |-> req.envs, serving |-> req.expires # 0, left |-> req.expires]

\* SchedulerServiceImpl::Heartbeat with TaskDispatcher::KeepServantAlive.
HandleHeartbeat(req) ==
  LET active == DetermineActiveServingDaemonTokens
  IN /\ Cardinality(replies) < scope.inflight
     /\ requests' = requests \ {req}
     /\ known' = Believed(req)
     /\ rotation' = active
     /\ replies' = replies \cup {[tokens |-> ToSet(active.tokens), age |-> 0]}
     /\ UNCHANGED <<scope, registryVars, verifier, config, pulse, task,
                    lost>>

\* The request does not arrive.
HeartbeatLost(req) ==
  /\ lost < scope.lost
  /\ lost' = lost + 1
  /\ requests' = requests \ {req}
  /\ UNCHANGED <<scope, registryVars, tokenVars, known, replies, pulse,
                 task>>

\* The answer does not arrive: the tokens stay as they are.
ReplyLost(reply) ==
  /\ lost < scope.lost
  /\ lost' = lost + 1
  /\ replies' = replies \ {reply}
  /\ UNCHANGED <<scope, registryVars, tokenVars, known, requests, pulse, task>>

\* UpdateAcceptableTokens: whatever the answer says, however old it is.
UpdateAcceptableTokens(reply) ==
  /\ replies' = replies \ {reply}
  /\ verifier' = reply
  /\ UNCHANGED <<scope, registryVars, rotation, config, known, requests,
                 pulse, task, lost>>

-----------------------------------------------------------------------------
(* Tasks *)

\* Mutant: what the delegate allows is enough.
NotScanned(source) == source.allow

\* VerifyTaskCachability: the scan of the source runs beside the compiler and
\* is awaited before its result is used.
VerifyTaskCachability(source) ==
  source.allow /\ (source.overridden \/ ~source.macros)

\* CxxCompilationTask::Prepare fixes the path of the compiler.
Prepared(env, source) ==
  LET path == registry.compiler_paths[env]
  IN [env |-> env, path |-> path, source |-> source,
      write_cache |-> VerifyTaskCachability(source),
      status |-> "running", exit_code |-> None, by |-> None, cached |-> FALSE,
      swapped |-> path \in changed, references |-> 1]

\* QueueCxxCompilationTask from a delegate.  What the scheduler knows of this
\* servant by now is not asked: the delegate's grant may be older.
QueueCxxCompilationTask(env, source) ==
  /\ IsTokenAcceptable(config.token)
  /\ env \in DOMAIN registry.compiler_paths
  /\ task = None /\ scope.references > 0
  /\ task' = Prepared(env, source)
  /\ UNCHANGED <<scope, registryVars, tokenVars, beatVars, lost>>

\* ReferenceTask from a delegate that found the task running here.
ReferenceTask ==
  /\ IsTokenAcceptable(config.token)
  /\ task # None /\ task.references < scope.references
  /\ task' = [task EXCEPT !.references = @ + 1]
  /\ UNCHANGED <<scope, registryVars, tokenVars, beatVars, lost>>

\* GetCacheKey and the exit code decide whether the cache is filled.
FillsCache(exit) == task.write_cache /\ exit = 0

\* RemoteTask::OnCompletion: the compiler found at the path now has run; the
\* result is kept for the delegates and, when it may be, written to the cache.
OnCompletion(exit) ==
  /\ task # None /\ task.status = "running"
  /\ files[task.path] = None => exit # 0
  /\ task' = [task EXCEPT !.status = "done", !.exit_code = exit,
                          !.by = files[task.path], !.cached = FillsCache(exit)]
  /\ UNCHANGED <<scope, registryVars, tokenVars, beatVars, lost>>

\* FreeTask: the last reference takes the task away, running or not.
FreeTask ==
  /\ IsTokenAcceptable(config.token)
  /\ task # None
  /\ task' = IF task.references = 1 THEN None
             ELSE [task EXCEPT !.references = @ - 1]
  /\ UNCHANGED <<scope, registryVars, tokenVars, beatVars, lost>>

-----------------------------------------------------------------------------
(* Time *)

\* External: the clocks advance; the dispatcher's expiration timer removes a
\* servant whose time is over (TaskDispatcher::OnExpirationTimer).
Tick ==
  /\ rotation' = [rotation EXCEPT !.left = IF @ = 0 THEN 0 ELSE @ - 1]
  /\ known' = IF known.left = 0 THEN [envs |-> {}, serving |-> FALSE, left |-> 0]
              ELSE [known EXCEPT !.left = @ - 1]
  /\ verifier' = [verifier EXCEPT !.age = Older(@)]
  /\ config' = [config EXCEPT !.age = Older(@)]
  /\ replies' = {[r EXCEPT !.age = Older(@)] : r \in replies}
  /\ UNCHANGED <<scope, registryVars, requests, pulse, task, lost>>

-----------------------------------------------------------------------------

\* The registry scans in its constructor. The servant accepts no token before
\* its first heartbeat is answered; the delegate has none before its first
\* fetch.
Init ==
  /\ scope \in Scopes
  /\ files \in [Paths -> scope.digests \cup {None}]
  /\ changed = {} /\ changes = 0
  /\ registry = UpdateEnvironment(NoCompilers, Scan)
  /\ rotation = [tokens |-> <<1, 2, 3>>, left |-> scope.interval + 1]
  /\ known = [envs |-> {}, serving |-> FALSE, left |-> 0]
  /\ requests = {} /\ replies = {}
  /\ verifier = [tokens |-> {}, age |-> scope.interval + 1]
  /\ config = [token |-> 0, age |-> scope.interval + 1]
  /\ task = None
  /\ pulse = "beating" /\ lost = 0

Next ==
  \/ OnCompilerRescanTimer
  \/ \E p \in Paths, d \in scope.digests \cup {None} : ChangeCompiler(p, d)
  \/ OnFetchConfig \/ FetchFails
  \/ Heartbeat \/ Stop
  \/ \E req \in requests : HandleHeartbeat(req) \/ HeartbeatLost(req)
  \/ \E reply \in replies : UpdateAcceptableTokens(reply) \/ ReplyLost(reply)
  \/ \E env \in Digests, source \in Sources : QueueCxxCompilationTask(env, source)
  \/ ReferenceTask
  \/ \E exit \in {0, 1} : OnCompletion(exit)
  \/ FreeTask
  \/ Tick

\* Timers fire, the network answers (a request is not lost for ever: the bound),
\* and time passes.
Fairness ==
  /\ WF_vars(OnCompilerRescanTimer)
  /\ WF_vars(Heartbeat)
  /\ WF_vars(\E req \in requests : HandleHeartbeat(req))
  /\ WF_vars(\E reply \in replies : UpdateAcceptableTokens(reply))
  /\ WF_vars(Tick)

Spec == Init /\ [][Next]_vars
FairSpec == Spec /\ Fairness

-----------------------------------------------------------------------------
(* Properties *)

TypeOK ==
  /\ files \in [Paths -> Digests \cup {None}]
  /\ changed \subseteq Paths /\ changes \in 0..scope.changes
  /\ registry.environments = DOMAIN registry.compiler_paths
  /\ registry.environments \subseteq Digests
  /\ \A d \in registry.environments : registry.compiler_paths[d] \in Paths
  /\ rotation.tokens \in [1..3 -> Tokens] /\ rotation.left \in 0..(scope.interval + 1)
  /\ known.envs \subseteq Digests /\ known.left \in 0..Expiry
  /\ \A r \in replies \cup {verifier} : r.tokens \subseteq Tokens /\ r.age \in Ages
  /\ config.token \in Tokens \cup {0} /\ config.age \in Ages
  /\ task # None => task.references \in 1..scope.references
  /\ pulse \in {"beating", "stopped"} /\ lost \in 0..scope.lost

\* A delegate whose token, and a servant whose list of tokens, left the
\* scheduler less than a rollout interval ago understand each other, whatever
\* rotations happened since either of them asked, and in whatever order the
\* answers arrived (scheduler_service_impl.h: an expiring, an active and a
\* being rolled-out token).
FreshTokensAccepted ==
  config.age <= scope.interval /\ verifier.age <= scope.interval
    => IsTokenAcceptable(config.token)

\* The servant's books are well formed and its tokens are understood.
TokensUnderstood == TypeOK /\ FreshTokensAccepted

\* A result that says the compilation succeeded, answered or cached, was made
\* by the compiler the delegate asked for, unless the executable was replaced
\* in place after the registry's last look at it; and what is cached says
\* nothing about when it was made.
GenuineOutput ==
  task # None /\ task.status = "done" =>
    /\ task.exit_code = 0 => task.by = task.env \/ task.swapped
    /\ task.cached =>
         /\ task.exit_code = 0
         /\ task.source.allow
         /\ task.source.macros => task.source.overridden

\* After Stop the scheduler ends up sending nobody here, even when a heartbeat
\* that promised more time is handled after the last one.
StoppedIsForgotten == <>[](pulse = "stopped" => ~known.serving)

\* While the servant lives, the scheduler comes to know the compilers that are
\* installed, and in the end believes nothing else of it (or, when heartbeats
\* come late, nothing at all): no heartbeat or rescan leaves a stale list for
\* good.
CompilersAdvertised ==
  /\ []<>(pulse = "stopped" \/ known.envs = Installed)
  /\ <>[](pulse = "stopped" \/ known.envs \in {{}, Installed})
=============================================================================
