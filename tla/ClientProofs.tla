---------------------------- MODULE ClientProofs ----------------------------
(* Proofs about what happens on a developer's machine.                        *)
(*                                                                            *)
(* The compiler wrapper and the daemon's quota of local tasks                 *)
(* (CompilerClient, LocalTaskMonitor), for every set of processes, every      *)
(* max_tasks_ and every bound on lost calls: nobody works without a           *)
(* permission, the machine is never overwhelmed, nobody sleeps who could be   *)
(* let through, and what a wrapper reports as a failure a local compiler      *)
(* found.                                                                     *)
(*                                                                            *)
(* The files that wrappers share (SharedFiles), for every number of wrappers, *)
(* builds, upgrades, restarts and kills: no digest of a compiler that is      *)
(* gone, no half-written library.                                             *)
(*                                                                            *)
(* What a wrapper writes and reads (WrapperIo), for every request, answer and *)
(* pipe: a call to the daemon and the output of a program arrive whole.       *)
EXTENDS CompilerClient, WrapperIo, SharedFiles, FiniteSetTheorems,
        SequenceTheorems, WellFoundedInduction, TLAPS

(* The daemon has let p through, whether p has heard of it or not.            *)
Told(p) == client[p].at = "waiting" /\ waiter[p].at = "granted"
Holds(p) == Working(p) \/ Told(p)

(* Whoever was let through is on record: RunsWithPermission, and the same     *)
(* while the answer is on its way.                                            *)
OnRecord == \A p \in Pids : Holds(p) => p \in granted

(* The handler judges a process by what the process is about to run.          *)
JudgedAsAsked ==
    \A p \in Pids : client[p].at = "waiting" => waiter[p].light = Light(p)

(* A bound on permissions, not just on the processes that work; a grant that  *)
(* nobody heard of counts.                                                    *)
Heavy == {p \in Pids : Holds(p) /\ ~Light(p)}
WithinBounds ==
    /\ Cardinality(granted) <= MaxTasks + Overprovision
    /\ Cardinality(Heavy) <= MaxTasks

(* What runs under a rewrite's permission never decides the exit code.        *)
ExitCodes ==
    \A p \in Pids : client[p].at = "releasing" /\ client[p].then = "failed"
                      => client[p].for # "rewrite"

(* Only a file that was preprocessed for the cloud is sent there.             *)
ForTheCloud ==
    \A p \in Pids :
      /\ client[p].at \in {"submit", "report", "resubmit", "wait"}
           => client[p].for = "rewrite"
      /\ client[p].at = "releasing" /\ client[p].then = "submit"
           => client[p].for = "rewrite"

ClientInv ==
    /\ TypeOK /\ OnRecord /\ JudgedAsAsked /\ WithinBounds /\ NoLostWakeup
    /\ ExitCodes /\ ForTheCloud

USE MonitorAssumption, ClientAssumption

Processes == [at : Places, for : Purposes, light : BOOLEAN, left : 0 .. Retries,
              then : {"submit", "local", "gone", "failed"}]

(* Initially nobody has asked for anything.                                   *)
LEMMA ClientInit == Init => ClientInv
<1> SUFFICES ASSUME Init PROVE ClientInv
    OBVIOUS
<1>1. TypeOK
    BY DEF Init, MonitorInit, TypeOK, NoWaiter, Waiters, Process, Places, Purposes
<1>2. OnRecord /\ JudgedAsAsked /\ NoLostWakeup /\ ExitCodes
    BY DEF Init, MonitorInit, OnRecord, Holds, Told, Working, JudgedAsAsked,
           NoLostWakeup, ExitCodes, NoWaiter, Process
<1>3. Heavy = {}
    BY DEF Init, Heavy, Holds, Told, Working, Process
<1>4. WithinBounds
    BY <1>3, FS_EmptySet DEF Init, MonitorInit, WithinBounds
<1>5. ForTheCloud
    BY DEF Init, ForTheCloud, Process
<1> QED  BY <1>1, <1>2, <1>4, <1>5 DEF ClientInv

-----------------------------------------------------------------------------
(* Types.  A step of a process replaces that process by another record, and   *)
(* one of the daemon rewrites handlers.                                       *)

LEMMA GotoTyped ==
    ASSUME TypeOK, NEW p \in Pids, NEW place \in Places, Goto(p, place)
    PROVE  client' \in [Pids -> Processes]
<1>1. PICK c \in Processes : c = client[p]
    BY DEF TypeOK, Processes
<1>2. [c EXCEPT !.at = place] \in Processes
    BY DEF Processes
<1>3. Process(place) \in Processes
    BY DEF Process, Processes, Places, Purposes
<1>4. client \in [Pids -> Processes]
    BY DEF TypeOK, Processes
<1> QED  BY <1>1, <1>2, <1>3, <1>4 DEF Goto

LEMMA AcquireTyped ==
    ASSUME TypeOK, NEW p \in Pids, NEW purpose \in Purposes, Acquire(p, purpose)
    PROVE  client' \in [Pids -> Processes]
<1>1. PICK c \in Processes : c = client[p]
    BY DEF TypeOK, Processes
<1>2. PICK at \in Places, then \in {"submit", "local", "gone", "failed"} :
        at = "call" /\ then = "gone"
    BY DEF Places
<1>3. [c EXCEPT !.at = at, !.for = purpose, !.then = then] \in Processes
    BY DEF Processes
<1>4. client' = [client EXCEPT ![p] = [c EXCEPT !.at = at, !.for = purpose,
                                                !.then = then]]
    BY <1>1, <1>2 DEF Acquire, TypeOK
<1> QED  BY <1>3, <1>4 DEF TypeOK, Processes

LEMMA RefusedTyped ==
    ASSUME TypeOK, NEW p \in Pids, Refused(p)
    PROVE  client' \in [Pids -> Processes]
<1>1. CASE client[p].for # "try"
    BY <1>1, GotoTyped DEF Refused, Places
<1>2. CASE client[p].for = "try" /\ ~MayRetry(client[p].left)
    BY <1>2, AcquireTyped DEF Refused, Purposes
<1>3. CASE client[p].for = "try" /\ MayRetry(client[p].left)
  <2>1. client[p].left - 1 \in 0 .. Retries
      BY <1>3 DEF TypeOK, MayRetry
  <2>2. client' = [client EXCEPT ![p].at = "call", ![p].for = "rewrite",
                                 ![p].left = client[p].left - 1]
      BY <1>3 DEF Refused
  <2> QED  BY <2>1, <2>2 DEF TypeOK, Processes, Places, Purposes
<1> QED  BY <1>1, <1>2, <1>3

(* Everybody who sleeps is woken, and nothing else changes.                   *)
LEMMA Woken ==
    ASSUME TypeOK
    PROVE  /\ NotifyAll(waiter) \in [Pids -> Waiters]
           /\ \A p \in Pids : /\ NotifyAll(waiter)[p].at # "asleep"
                              /\ NotifyAll(waiter)[p].light = waiter[p].light
                              /\ NotifyAll(waiter)[p].at = "granted"
                                   <=> waiter[p].at = "granted"
  BY DEF TypeOK, NotifyAll, Waiters

LEMMA LookTyped ==
    ASSUME TypeOK, NEW p \in Pids, WaitForRunningNewTaskPermission(p)
    PROVE  granted' \subseteq Pids /\ waiter' \in [Pids -> Waiters]
  BY DEF TypeOK, WaitForRunningNewTaskPermission, FirstLook, LastLook, Grant, Waiters

LEMMA TypeStep == TypeOK /\ [Next]_vars => TypeOK'
<1> SUFFICES ASSUME TypeOK, [Next]_vars PROVE TypeOK'
    OBVIOUS
<1> DEFINE Goal == client' \in [Pids -> Processes] /\ granted' \subseteq Pids
                   /\ waiter' \in [Pids -> Waiters]
<1>0. Goal => TypeOK'
    BY DEF TypeOK, Processes
<1>t. client \in [Pids -> Processes] /\ granted \subseteq Pids
      /\ waiter \in [Pids -> Waiters]
    BY DEF TypeOK, Processes
<1>n. NoWaiter \in Waiters
    BY DEF NoWaiter, Waiters
<1>1. ASSUME NEW p \in Pids, NEW r \in BOOLEAN, NEW l \in BOOLEAN, Entry(p, r, l)
      PROVE  Goal
  <2>1. PICK c \in Processes : c = client[p]
      BY <1>t
  <2>2. PICK at \in Places, for \in Purposes :
          client' = [client EXCEPT ![p] = [c EXCEPT !.at = at, !.light = l,
                                                    !.for = for]]
    <3>1. PICK at \in Places, for \in Purposes :
            /\ at = "call"
            /\ for = IF IsCompilerInvocationDistributable(p) /\ r
                       THEN "rewrite" ELSE "local"
        BY DEF Places, Purposes
    <3> QED  BY <1>1, <1>t, <2>1, <3>1 DEF Entry
  <2>3. [c EXCEPT !.at = at, !.light = l, !.for = for] \in Processes
      BY DEF Processes
  <2> QED  BY <1>1, <1>t, <2>2, <2>3 DEF Entry, monitorVars
<1>2. ASSUME NEW p \in Pids, CallAcquireQuota(p) PROVE Goal
  <2>1. Light(p) \in BOOLEAN
      BY <1>t DEF Light, IsLightweightTask, Processes
  <2>2. [at |-> "awake", light |-> Light(p)] \in Waiters
      BY <2>1 DEF Waiters
  <2>3. client' \in [Pids -> Processes]
      BY <1>2, GotoTyped DEF CallAcquireQuota, Places
  <2> QED  BY <1>2, <1>t, <2>2, <2>3 DEF CallAcquireQuota, AcquireQuota
<1>3. ASSUME NEW p \in Pids, Granted(p) PROVE Goal
    BY <1>3, <1>t, <1>n, GotoTyped DEF Granted, Places
<1>4. ASSUME NEW p \in Pids, NotGranted(p) \/ GrantLost(p) PROVE Goal
    BY <1>4, <1>t, <1>n, RefusedTyped DEF NotGranted, GrantLost
<1>5. ASSUME NEW p \in Pids, Release(p) \/ ReleaseLost(p) PROVE Goal
  <2>1. client[p].then \in Places \cup {"local"}
      BY <1>t DEF Processes, Places
  <2>2. client' \in [Pids -> Processes]
    <3>1. CASE client[p].then = "local"
        BY <1>5, <3>1, AcquireTyped DEF Release, ReleaseLost, Purposes
    <3>2. CASE client[p].then # "local"
        BY <1>5, <3>2, <2>1, GotoTyped DEF Release, ReleaseLost
    <3> QED  BY <3>1, <3>2
  <2> QED  BY <1>5, <1>t, <2>2, Woken
           DEF Release, ReleaseLost, DropTaskPermission, monitorVars
<1>6. ASSUME NEW p \in Pids, RewriteFile(p) \/ RunCompilationNativelyUsingQuota(p)
      PROVE  Goal
  <2>0. CASE CheckFails(p)
      BY <1>6, <1>t, <2>0, GotoTyped DEF CheckFails, Places, RewriteFile,
         RunCompilationNativelyUsingQuota, monitorVars
  <2> SUFFICES ASSUME ~CheckFails(p) PROVE Goal
      BY <2>0
  <2>1. PICK then \in {"submit", "local", "gone", "failed"} :
          client' = [client EXCEPT ![p].at = "releasing", ![p].then = then]
      BY <1>6 DEF RewriteFile, RunCompilationNativelyUsingQuota
  <2>2. PICK c \in Processes : c = client[p]
      BY <1>t
  <2>3. PICK at \in Places : at = "releasing"
      BY DEF Places
  <2>4. client' = [client EXCEPT ![p] = [c EXCEPT !.at = at, !.then = then]]
      BY <1>t, <2>1, <2>2, <2>3
  <2>5. [c EXCEPT !.at = at, !.then = then] \in Processes
      BY DEF Processes
  <2> QED  BY <1>6, <1>t, <2>4, <2>5
           DEF RewriteFile, RunCompilationNativelyUsingQuota, monitorVars
<1>7. ASSUME NEW p \in Pids,
             Submit(p) \/ SetFileDigest(p) \/ Resubmit(p) \/ WaitForCompilationTask(p)
      PROVE  Goal
  <2>1. \/ \E place \in Places : Goto(p, place)
        \/ \E purpose \in Purposes : Acquire(p, purpose)
    <3>1. /\ "wait" \in Places /\ "report" \in Places /\ "resubmit" \in Places
          /\ "gone" \in Places /\ "aborted" \in Places
          /\ "try" \in Purposes /\ "local" \in Purposes
        BY DEF Places, Purposes
    <3> QED  BY <1>7, <3>1 DEF Submit, SetFileDigest, Resubmit,
                 WaitForCompilationTask, FailedOnCloud, ErrorOnCloud, CheckFails
  <2> QED  BY <1>7, <1>t, <2>1, GotoTyped, AcquireTyped
           DEF Submit, SetFileDigest, Resubmit, WaitForCompilationTask, monitorVars
<1>8. ASSUME NEW p \in Pids, Kill(p) PROVE Goal
    BY <1>8, <1>t, GotoTyped DEF Kill, Places, monitorVars
<1>9. ASSUME NEW p \in Pids, HandleAcquire(p) PROVE Goal
    BY <1>9, <1>t, LookTyped DEF HandleAcquire
<1>10. ASSUME NEW p \in Pids, NobodyListens(p) PROVE Goal
    BY <1>10, <1>t, <1>n DEF NobodyListens
<1>11. ASSUME CheckAlive PROVE Goal
    BY <1>11, <1>t, Woken DEF CheckAlive, OnAliveProcessCheck
<1>12. CASE UNCHANGED vars
    BY <1>12 DEF vars, TypeOK
<1> QED  BY <1>0, <1>1, <1>2, <1>3, <1>4, <1>5, <1>6, <1>7, <1>8, <1>9, <1>10,
            <1>11, <1>12 DEF Next, ClientStep
-----------------------------------------------------------------------------
(* Permissions.  Most steps of a process leave it without any: the next two   *)
(* lemmas say what that is, and that it is all that has to be known of them.  *)

LeavesWithout(p) ==
    /\ \A q \in Pids \ {p} : client'[q] = client[q]
    /\ client'[p].at \notin {"working", "waiting"}
    /\ client'[p].at = "releasing" /\ client'[p].then = "failed"
         => client'[p].for # "rewrite"

LEMMA EntryEdit ==
    ASSUME TypeOK, NEW p \in Pids, NEW r \in BOOLEAN, NEW l \in BOOLEAN, Entry(p, r, l)
    PROVE  client'[p].at = "call" /\ \A q \in Pids \ {p} : client'[q] = client[q]
<1>1. PICK for : client' = [client EXCEPT ![p].at = "call", ![p].light = l,
                                          ![p].for = for]
    BY DEF Entry
<1> QED  BY <1>1 DEF TypeOK

LEMMA CanLeave ==
    ASSUME TypeOK, NEW p \in Pids,
           \/ \E r, l \in BOOLEAN : Entry(p, r, l)
           \/ NotGranted(p) \/ GrantLost(p) \/ Release(p) \/ ReleaseLost(p)
           \/ RewriteFile(p) \/ RunCompilationNativelyUsingQuota(p)
           \/ Submit(p) \/ SetFileDigest(p) \/ Resubmit(p)
           \/ WaitForCompilationTask(p) \/ Kill(p)
    PROVE  LeavesWithout(p)
<1>t. client \in [Pids -> Processes]
    BY DEF TypeOK, Processes
<1>1. ASSUME NEW r \in BOOLEAN, NEW l \in BOOLEAN, Entry(p, r, l)
      PROVE  LeavesWithout(p)
    BY <1>1, EntryEdit DEF LeavesWithout
<1>2. ASSUME NEW place, Goto(p, place), place \notin {"working", "waiting", "releasing"}
      PROVE  LeavesWithout(p)
    BY <1>2, <1>t DEF Goto, LeavesWithout, Process, Processes
<1>3. ASSUME NEW purpose, Acquire(p, purpose) PROVE LeavesWithout(p)
    BY <1>3, <1>t DEF Acquire, LeavesWithout, Processes
<1>4. CASE NotGranted(p) \/ GrantLost(p)
  <2>1. Refused(p)
      BY <1>4 DEF NotGranted, GrantLost
  <2>2. CASE client[p].for = "try" /\ MayRetry(client[p].left)
      BY <1>t, <2>1, <2>2 DEF Refused, LeavesWithout, Processes
  <2> QED  BY <2>1, <2>2, <1>2, <1>3 DEF Refused
<1>5. CASE Release(p) \/ ReleaseLost(p)
  <2>1. client[p].then \in {"submit", "local", "gone", "failed"}
      BY <1>t DEF Processes
  <2> QED  BY <1>5, <2>1, <1>2, <1>3 DEF Release, ReleaseLost
<1>a. CASE CheckFails(p)
    BY <1>a, <1>2 DEF CheckFails
<1>6. CASE RewriteFile(p) \/ RunCompilationNativelyUsingQuota(p)
  <2>1. CASE ~CheckFails(p)
      BY <1>6, <1>t, <2>1
         DEF RewriteFile, RunCompilationNativelyUsingQuota, LeavesWithout, Processes
  <2> QED  BY <1>a, <2>1
<1>7. CASE Submit(p) \/ SetFileDigest(p) \/ Resubmit(p) \/ WaitForCompilationTask(p)
    BY <1>7, <1>a, <1>2, <1>3
       DEF Submit, SetFileDigest, Resubmit, WaitForCompilationTask,
           FailedOnCloud, ErrorOnCloud
<1>8. CASE Kill(p)
    BY <1>8, <1>2 DEF Kill
<1> QED  BY <1>1, <1>4, <1>5, <1>6, <1>7, <1>8

(* Finitely many processes, so finitely many permissions.                     *)
LEMMA FiniteSets ==
    ASSUME TypeOK
    PROVE  /\ IsFiniteSet(granted) /\ Cardinality(granted) \in Nat
           /\ IsFiniteSet(Heavy) /\ Cardinality(Heavy) \in Nat
<1>1. granted \subseteq Pids /\ Heavy \subseteq Pids
    BY DEF TypeOK, Heavy
<1> QED  BY <1>1, FS_Subset, FS_CardinalityType

(* Nobody is let through who was not, and no holder loses its permission.     *)
LEMMA NobodyNew ==
    ASSUME TypeOK, OnRecord, WithinBounds, TypeOK',
           granted' \subseteq granted,
           \A q \in Pids : Holds(q)' => Holds(q) /\ (Light(q)' <=> Light(q))
                                        /\ (q \in granted => q \in granted')
    PROVE  OnRecord' /\ WithinBounds'
<1>1. OnRecord'
    BY DEF OnRecord
<1>2. Heavy' \subseteq Heavy
    BY DEF Heavy
<1>3. Cardinality(Heavy') <= Cardinality(Heavy) /\ Cardinality(Heavy') \in Nat
    BY <1>2, FiniteSets, FS_Subset, FS_CardinalityType
<1>4. Cardinality(granted') <= Cardinality(granted) /\ Cardinality(granted') \in Nat
    BY FiniteSets, FS_Subset, FS_CardinalityType
<1>5. Cardinality(granted) \in Nat /\ Cardinality(Heavy) \in Nat
    BY FiniteSets
<1> QED  BY <1>1, <1>3, <1>4, <1>5 DEF WithinBounds

LEMMA HoldingStep ==
    ASSUME TypeOK, OnRecord, JudgedAsAsked, WithinBounds, ExitCodes, TypeOK',
           [Next]_vars
    PROVE  OnRecord' /\ JudgedAsAsked' /\ WithinBounds' /\ ExitCodes'
<1>t. client \in [Pids -> Processes] /\ waiter \in [Pids -> Waiters]
    BY DEF TypeOK, Processes
<1>1. ASSUME NEW p \in Pids, LeavesWithout(p), granted' \subseteq granted,
             granted \ {p} \subseteq granted',
             \A q \in Pids \ {p} : /\ waiter'[q].at = "granted" => waiter[q].at = "granted"
                                   /\ waiter'[q].light = waiter[q].light
      PROVE  OnRecord' /\ JudgedAsAsked' /\ WithinBounds' /\ ExitCodes'
  <2>1. \A q \in Pids : Holds(q)' => Holds(q) /\ (Light(q)' <=> Light(q))
                                     /\ (q \in granted => q \in granted')
      BY <1>1 DEF LeavesWithout, Holds, Told, Working, Light, IsLightweightTask
  <2>2. OnRecord' /\ WithinBounds'
      BY <1>1, <2>1, NobodyNew
  <2>3. JudgedAsAsked' /\ ExitCodes'
      BY <1>1 DEF LeavesWithout, JudgedAsAsked, ExitCodes, Light, IsLightweightTask
  <2> QED  BY <2>2, <2>3
<1>2. ASSUME NEW p \in Pids,
             \/ \E r, l \in BOOLEAN : Entry(p, r, l)
             \/ ReleaseLost(p) \/ RewriteFile(p) \/ RunCompilationNativelyUsingQuota(p)
             \/ Submit(p) \/ SetFileDigest(p) \/ Resubmit(p)
             \/ WaitForCompilationTask(p) \/ Kill(p)
      PROVE  OnRecord' /\ JudgedAsAsked' /\ WithinBounds' /\ ExitCodes'
  <2>1. UNCHANGED <<granted, waiter>>
      BY <1>2 DEF Entry, ReleaseLost, RewriteFile, RunCompilationNativelyUsingQuota,
                  Submit, SetFileDigest, Resubmit, WaitForCompilationTask, Kill,
                  monitorVars
  <2>2. LeavesWithout(p)
      BY <1>2, CanLeave
  <2> QED  BY <1>1, <2>1, <2>2
<1>3. ASSUME NEW p \in Pids, NotGranted(p) \/ GrantLost(p)
      PROVE  OnRecord' /\ JudgedAsAsked' /\ WithinBounds' /\ ExitCodes'
  <2>1. granted' = granted /\ \A q \in Pids \ {p} : waiter'[q] = waiter[q]
      BY <1>3, <1>t DEF NotGranted, GrantLost
  <2>2. LeavesWithout(p)
      BY <1>3, CanLeave
  <2> QED  BY <1>1, <2>1, <2>2
<1>4. ASSUME NEW p \in Pids, Release(p)
      PROVE  OnRecord' /\ JudgedAsAsked' /\ WithinBounds' /\ ExitCodes'
  <2>1. /\ granted' = granted \ {p}
        /\ \A q \in Pids : /\ waiter'[q].at = "granted" => waiter[q].at = "granted"
                           /\ waiter'[q].light = waiter[q].light
      BY <1>4, Woken DEF Release, DropTaskPermission
  <2>2. LeavesWithout(p)
      BY <1>4, CanLeave
  <2> QED  BY <1>1, <2>1, <2>2
<1>5. ASSUME NEW p \in Pids, CallAcquireQuota(p)
      PROVE  OnRecord' /\ JudgedAsAsked' /\ WithinBounds' /\ ExitCodes'
  <2>1. /\ client'[p].at = "waiting" /\ client'[p].for = client[p].for
        /\ client'[p].light = client[p].light
        /\ \A q \in Pids \ {p} : client'[q] = client[q] /\ waiter'[q] = waiter[q]
        /\ waiter'[p] = [at |-> "awake", light |-> Light(p)]
        /\ granted' = granted
      BY <1>5, <1>t DEF CallAcquireQuota, AcquireQuota, Goto, Processes, Ends
  <2>2. \A q \in Pids : Holds(q)' => Holds(q) /\ (Light(q)' <=> Light(q))
                                     /\ (q \in granted => q \in granted')
      BY <2>1 DEF Holds, Told, Working, Light, IsLightweightTask
  <2>3. OnRecord' /\ WithinBounds'
      BY <2>1, <2>2, NobodyNew
  <2>4. ExitCodes' /\ \A q \in Pids : Light(q)' = Light(q)
      BY <2>1 DEF ExitCodes, Light, IsLightweightTask
  <2>5. waiter'[p].light = Light(p)
      BY <2>1
  <2>6. JudgedAsAsked'
      BY <2>1, <2>4, <2>5 DEF JudgedAsAsked
  <2> QED  BY <2>3, <2>4, <2>6
<1>6. ASSUME NEW p \in Pids, Granted(p)
      PROVE  OnRecord' /\ JudgedAsAsked' /\ WithinBounds' /\ ExitCodes'
  <2>1. /\ client'[p].at = "working" /\ client'[p].for = client[p].for
        /\ client'[p].light = client[p].light
        /\ \A q \in Pids \ {p} : client'[q] = client[q] /\ waiter'[q] = waiter[q]
        /\ granted' = granted /\ Told(p)
      BY <1>6, <1>t DEF Granted, Goto, Processes, Told, Ends
  <2>2. \A q \in Pids : Holds(q)' => Holds(q) /\ (Light(q)' <=> Light(q))
                                     /\ (q \in granted => q \in granted')
      BY <2>1 DEF Holds, Told, Working, Light, IsLightweightTask
  <2>3. OnRecord' /\ WithinBounds'
      BY <2>1, <2>2, NobodyNew
  <2>4. JudgedAsAsked' /\ ExitCodes'
      BY <2>1 DEF JudgedAsAsked, ExitCodes, Light, IsLightweightTask
  <2> QED  BY <2>3, <2>4
<1>7. ASSUME NEW p \in Pids, HandleAcquire(p)
      PROVE  OnRecord' /\ JudgedAsAsked' /\ WithinBounds' /\ ExitCodes'
  <2>1. /\ client' = client
        /\ \A q \in Pids \ {p} : waiter'[q] = waiter[q]
        /\ waiter'[p].light = waiter[p].light
      BY <1>7, <1>t DEF HandleAcquire, WaitForRunningNewTaskPermission, FirstLook,
                        LastLook, Grant, Waiters
  <2>2. JudgedAsAsked' /\ ExitCodes'
      BY <2>1 DEF JudgedAsAsked, ExitCodes, Light, IsLightweightTask
  <2>3. CASE granted' = granted /\ waiter'[p].at # "granted"
    <3>1. \A q \in Pids : Holds(q)' => Holds(q) /\ (Light(q)' <=> Light(q))
                                       /\ (q \in granted => q \in granted')
        BY <2>1, <2>3 DEF Holds, Told, Working, Light, IsLightweightTask
    <3> QED  BY <2>2, <2>3, <3>1, NobodyNew
  <2>4. CASE MayStart(waiter[p].light) /\ granted' = granted \cup {p}
    <3>1. OnRecord'
        BY <2>1, <2>4 DEF OnRecord, Holds, Told, Working
    <3>2. /\ Cardinality(granted') \in Nat /\ Cardinality(granted) \in Nat
          /\ Cardinality(granted') <= Cardinality(granted) + 1
      <4>1. Cardinality(granted \cup {p}) =
              IF p \in granted THEN Cardinality(granted) ELSE Cardinality(granted) + 1
          BY FiniteSets, FS_AddElement
      <4> QED  BY <2>4, <4>1, FiniteSets
    <3>3. Cardinality(granted') <= MaxTasks + Overprovision
        BY <2>4, <3>2 DEF MayStart
    <3>4. Cardinality(Heavy') <= MaxTasks
      <4>1. \A q \in Pids \ {p} : Holds(q)' <=> Holds(q)
          BY <2>1 DEF Holds, Told, Working
      <4>2. \A q \in Pids : Light(q)' <=> Light(q)
          BY <2>1 DEF Light, IsLightweightTask
      <4>3. CASE Heavy' \subseteq Heavy
        <5>1. Cardinality(Heavy') <= Cardinality(Heavy) /\ Cardinality(Heavy') \in Nat
            BY <4>3, FiniteSets, FS_Subset, FS_CardinalityType
        <5>2. Cardinality(Heavy) \in Nat
            BY FiniteSets
        <5> QED  BY <5>1, <5>2 DEF WithinBounds
      <4>4. CASE ~(Heavy' \subseteq Heavy)
        <5>1. p \in Heavy' /\ p \notin Heavy
            BY <4>1, <4>2, <4>4 DEF Heavy
        <5>2. client[p].at = "waiting" /\ ~Light(p)
            BY <5>1, <2>1, <4>2 DEF Heavy, Holds, Told, Working
        <5>3. Cardinality(granted) < MaxTasks
            BY <5>2, <2>4, <3>2 DEF JudgedAsAsked, MayStart
        <5>4. Heavy \subseteq granted
            BY DEF Heavy, OnRecord
        <5>5. Cardinality(Heavy) <= Cardinality(granted) /\ Cardinality(Heavy) \in Nat
            BY <5>4, FiniteSets, FS_Subset
        <5>6. Heavy' \subseteq Heavy \cup {p}
            BY <4>1, <4>2 DEF Heavy
        <5>7. /\ IsFiniteSet(Heavy \cup {p})
              /\ Cardinality(Heavy \cup {p}) = Cardinality(Heavy) + 1
            BY <5>1, FiniteSets, FS_AddElement
        <5>8. Cardinality(Heavy') <= Cardinality(Heavy) + 1 /\ Cardinality(Heavy') \in Nat
            BY <5>6, <5>7, FS_Subset, FS_CardinalityType
        <5> QED  BY <5>3, <5>5, <5>8, <3>2
      <4> QED  BY <4>3, <4>4
    <3> QED  BY <2>2, <3>1, <3>3, <3>4 DEF WithinBounds
  <2> QED  BY <1>7, <1>t, <2>3, <2>4
           DEF HandleAcquire, WaitForRunningNewTaskPermission, FirstLook, LastLook,
               Grant, Waiters
<1>8. ASSUME UNCHANGED client, granted' \subseteq granted,
             granted \cap Alive \subseteq granted',
             \A q \in Pids : client[q].at = "waiting" =>
               /\ waiter'[q].at = "granted" => waiter[q].at = "granted"
               /\ waiter'[q].light = waiter[q].light
      PROVE  OnRecord' /\ JudgedAsAsked' /\ WithinBounds' /\ ExitCodes'
  <2>1. \A q \in Pids : Holds(q)' => Holds(q) /\ (Light(q)' <=> Light(q))
                                     /\ (q \in granted => q \in granted')
      BY <1>8 DEF Holds, Told, Working, Light, IsLightweightTask, Alive, Ends
  <2>2. OnRecord' /\ WithinBounds'
      BY <1>8, <2>1, NobodyNew
  <2>3. JudgedAsAsked' /\ ExitCodes'
      BY <1>8 DEF JudgedAsAsked, ExitCodes, Light, IsLightweightTask
  <2> QED  BY <2>2, <2>3
<1>9. ASSUME NEW p \in Pids, NobodyListens(p)
      PROVE  OnRecord' /\ JudgedAsAsked' /\ WithinBounds' /\ ExitCodes'
  <2>1. \A q \in Pids : client[q].at = "waiting" => waiter'[q] = waiter[q]
      BY <1>9, <1>t DEF NobodyListens, Alive, Ends
  <2>2. UNCHANGED client /\ granted' = granted
      BY <1>9 DEF NobodyListens
  <2> QED  BY <1>8, <2>1, <2>2
<1>10. ASSUME CheckAlive
       PROVE  OnRecord' /\ JudgedAsAsked' /\ WithinBounds' /\ ExitCodes'
  <2>1. /\ UNCHANGED client /\ granted' = granted \cap Alive
        /\ \A q \in Pids : /\ waiter'[q].at = "granted" => waiter[q].at = "granted"
                           /\ waiter'[q].light = waiter[q].light
      BY <1>10, Woken DEF CheckAlive, OnAliveProcessCheck, IsProcessAlive
  <2> QED  BY <1>8, <2>1
<1>11. CASE UNCHANGED vars
    BY <1>11, <1>8 DEF vars
<1> QED  BY <1>2, <1>3, <1>4, <1>5, <1>6, <1>7, <1>9, <1>10, <1>11 DEF Next, ClientStep

-----------------------------------------------------------------------------
(* Sleepers.  Permissions only become free where everybody is woken.          *)
LEMMA WakeupStep ==
    ASSUME TypeOK, NoLostWakeup, TypeOK', [Next]_vars
    PROVE  NoLostWakeup'
<1>t. waiter \in [Pids -> Waiters]
    BY DEF TypeOK
<1>1. ASSUME NEW p \in Pids, granted' = granted,
             \A q \in Pids \ {p} : waiter'[q] = waiter[q], waiter'[p].at # "asleep"
      PROVE  NoLostWakeup'
    BY <1>1 DEF NoLostWakeup, MayStart
<1>2. ASSUME UNCHANGED <<granted, waiter>> PROVE NoLostWakeup'
    BY <1>2 DEF NoLostWakeup, MayStart
<1>3. ASSUME waiter' = NotifyAll(waiter) PROVE NoLostWakeup'
    BY <1>3, Woken DEF NoLostWakeup
<1>4. ASSUME NEW p \in Pids, HandleAcquire(p) PROVE NoLostWakeup'
  <2>1. \A q \in Pids \ {p} : waiter'[q] = waiter[q]
      BY <1>4, <1>t DEF HandleAcquire, WaitForRunningNewTaskPermission, FirstLook,
                        LastLook, Grant
  <2>2. CASE granted' = granted /\ waiter'[p].at # "asleep"
      BY <1>1, <2>1, <2>2
  <2>3. CASE granted' = granted /\ waiter'[p].at = "asleep"
             /\ ~MayStart(waiter[p].light) /\ waiter'[p].light = waiter[p].light
      BY <2>1, <2>3 DEF NoLostWakeup, MayStart
  <2>4. CASE granted' = granted \cup {p} /\ waiter'[p].at = "granted"
    <3>1. /\ Cardinality(granted') \in Nat /\ Cardinality(granted) \in Nat
          /\ Cardinality(granted) <= Cardinality(granted')
      <4>1. Cardinality(granted \cup {p}) =
              IF p \in granted THEN Cardinality(granted) ELSE Cardinality(granted) + 1
          BY FiniteSets, FS_AddElement
      <4> QED  BY <2>4, <4>1, FiniteSets
    <3> QED  BY <2>1, <2>4, <3>1 DEF NoLostWakeup, MayStart
  <2> QED  BY <1>4, <1>t, <2>2, <2>3, <2>4
           DEF HandleAcquire, WaitForRunningNewTaskPermission, FirstLook, LastLook,
               Grant, Waiters
<1>5. ASSUME NEW p \in Pids,
             CallAcquireQuota(p) \/ Granted(p) \/ NotGranted(p) \/ GrantLost(p)
             \/ NobodyListens(p)
      PROVE  NoLostWakeup'
    BY <1>5, <1>t, <1>1 DEF CallAcquireQuota, AcquireQuota, Granted, NotGranted,
                            GrantLost, NobodyListens, NoWaiter
<1>6. ASSUME NEW p \in Pids, Release(p) PROVE NoLostWakeup'
  <2>1. CASE p \in granted
      BY <1>6, <2>1, <1>3 DEF Release, DropTaskPermission
  <2>2. CASE p \notin granted
      BY <1>6, <2>2, <1>2 DEF Release, DropTaskPermission
  <2> QED  BY <2>1, <2>2
<1>7. ASSUME CheckAlive PROVE NoLostWakeup'
    BY <1>7, <1>3 DEF CheckAlive, OnAliveProcessCheck
<1>8. ASSUME NEW p \in Pids,
             \/ \E r, l \in BOOLEAN : Entry(p, r, l)
             \/ ReleaseLost(p) \/ RewriteFile(p) \/ RunCompilationNativelyUsingQuota(p)
             \/ Submit(p) \/ SetFileDigest(p) \/ Resubmit(p)
             \/ WaitForCompilationTask(p) \/ Kill(p)
      PROVE  NoLostWakeup'
    BY <1>8, <1>2 DEF Entry, ReleaseLost, RewriteFile, RunCompilationNativelyUsingQuota,
                      Submit, SetFileDigest, Resubmit, WaitForCompilationTask, Kill,
                      monitorVars
<1>9. CASE UNCHANGED vars
    BY <1>9, <1>2 DEF vars
<1> QED  BY <1>4, <1>5, <1>6, <1>7, <1>8, <1>9 DEF Next, ClientStep

-----------------------------------------------------------------------------
(* What the cloud is asked for, a preprocessor made.                          *)
LEMMA CloudStep ==
    ASSUME TypeOK, ForTheCloud, [Next]_vars
    PROVE  ForTheCloud'
<1>t. client \in [Pids -> Processes]
    BY DEF TypeOK, Processes
<1> DEFINE Fits(c) == /\ c.at \in {"submit", "report", "resubmit", "wait"}
                           => c.for = "rewrite"
                      /\ c.at = "releasing" /\ c.then = "submit"
                           => c.for = "rewrite"
<1>f. \A p \in Pids : Fits(client[p])
    BY DEF ForTheCloud
<1>1. ASSUME NEW p \in Pids, \A q \in Pids \ {p} : client'[q] = client[q],
             Fits(client'[p])
      PROVE  ForTheCloud'
    BY <1>1, <1>f DEF ForTheCloud
<1>2. ASSUME NEW p \in Pids, NEW place, Goto(p, place),
             \/ place \notin {"submit", "report", "resubmit", "wait", "releasing"}
             \/ client[p].for = "rewrite"
      PROVE  ForTheCloud'
  <2>1. CASE place \in Ends
      BY <1>1, <1>2, <1>t, <2>1 DEF Goto, Ends, Process, Processes
  <2>2. CASE place \notin Ends
    <3>1. client' = [client EXCEPT ![p].at = place]
        BY <1>2, <1>t, <2>2 DEF Goto, Processes
    <3>2. /\ client'[p].at = place /\ client'[p].for = client[p].for
          /\ \A q \in Pids \ {p} : client'[q] = client[q]
        BY <1>t, <3>1 DEF Processes
    <3> QED  BY <1>1, <1>2, <3>2
  <2> QED  BY <2>1, <2>2
<1>3. ASSUME NEW p \in Pids, NEW purpose, Acquire(p, purpose) PROVE ForTheCloud'
  <2>1. client'[p].at = "call" /\ \A q \in Pids \ {p} : client'[q] = client[q]
      BY <1>3, <1>t DEF Acquire, Processes
  <2> QED  BY <1>1, <2>1
<1>4. ASSUME NEW p \in Pids, NotGranted(p) \/ GrantLost(p) PROVE ForTheCloud'
  <2>1. Refused(p)
      BY <1>4 DEF NotGranted, GrantLost
  <2>2. CASE client[p].for = "try" /\ MayRetry(client[p].left)
    <3>1. client'[p].at = "call" /\ \A q \in Pids \ {p} : client'[q] = client[q]
        BY <1>t, <2>1, <2>2 DEF Refused, Processes
    <3> QED  BY <1>1, <3>1
  <2> QED  BY <2>1, <2>2, <1>2, <1>3 DEF Refused
<1>5. ASSUME NEW p \in Pids, Release(p) \/ ReleaseLost(p) PROVE ForTheCloud'
  <2>1. client[p].at = "releasing" /\ Fits(client[p])
        /\ client[p].then \in {"submit", "local", "gone", "failed"}
      BY <1>5, <1>t, <1>f DEF Release, ReleaseLost, Processes
  <2>2. CASE client[p].then = "local"
      BY <1>5, <2>2, <1>3 DEF Release, ReleaseLost
  <2>3. CASE client[p].then # "local"
    <3>1. Goto(p, client[p].then)
        BY <1>5, <2>3 DEF Release, ReleaseLost
    <3> QED  BY <1>2, <2>1, <2>3, <3>1
  <2> QED  BY <2>2, <2>3
<1>6. ASSUME NEW p \in Pids, RewriteFile(p) \/ RunCompilationNativelyUsingQuota(p)
      PROVE  ForTheCloud'
  <2>1. CASE CheckFails(p)
      BY <1>2, <2>1 DEF CheckFails
  <2>2. CASE RewriteFile(p) /\ ~CheckFails(p)
    <3>1. client'[p].for = "rewrite" /\ \A q \in Pids \ {p} : client'[q] = client[q]
        BY <1>t, <2>2 DEF RewriteFile, Processes
    <3> QED  BY <1>1, <3>1
  <2>3. CASE RunCompilationNativelyUsingQuota(p) /\ ~CheckFails(p)
    <3>1. /\ client'[p].at = "releasing" /\ client'[p].then # "submit"
          /\ \A q \in Pids \ {p} : client'[q] = client[q]
        BY <1>t, <2>3 DEF RunCompilationNativelyUsingQuota, Processes
    <3> QED  BY <1>1, <3>1
  <2> QED  BY <1>6, <2>1, <2>2, <2>3
<1>7. ASSUME NEW p \in Pids,
             Submit(p) \/ SetFileDigest(p) \/ Resubmit(p) \/ WaitForCompilationTask(p)
      PROVE  ForTheCloud'
  <2>1. client[p].for = "rewrite"
      BY <1>7, <1>f DEF Submit, SetFileDigest, Resubmit, WaitForCompilationTask
  <2>2. \/ \E place : Goto(p, place)
        \/ \E purpose : Acquire(p, purpose)
      BY <1>7 DEF Submit, SetFileDigest, Resubmit, WaitForCompilationTask,
         FailedOnCloud, ErrorOnCloud, CheckFails
  <2> QED  BY <2>1, <2>2, <1>2, <1>3
<1>8. ASSUME NEW p \in Pids, NEW r \in BOOLEAN, NEW l \in BOOLEAN, Entry(p, r, l)
      PROVE  ForTheCloud'
    BY <1>8, <1>1, EntryEdit
<1>9. ASSUME NEW p \in Pids, Kill(p) \/ CallAcquireQuota(p) \/ Granted(p)
      PROVE  ForTheCloud'
    BY <1>9, <1>2 DEF Kill, CallAcquireQuota, Granted
<1>10. ASSUME UNCHANGED client PROVE ForTheCloud'
    BY <1>10 DEF ForTheCloud
<1> QED  BY <1>4, <1>5, <1>6, <1>7, <1>8, <1>9, <1>10
         DEF Next, ClientStep, HandleAcquire, NobodyListens, CheckAlive, vars

LEMMA ClientInvariant == Spec => []ClientInv
<1>1. ASSUME ClientInv, [Next]_vars PROVE ClientInv'
  <2>1. TypeOK'
      BY <1>1, TypeStep DEF ClientInv
  <2> QED  BY <1>1, <2>1, HoldingStep, WakeupStep, CloudStep DEF ClientInv
<1> QED  BY <1>1, ClientInit, PTL DEF Spec

(* The workers are holders, so the bounds on permissions bound them.          *)
LEMMA InvImpliesSound == ClientInv => PermissionsSound
<1> SUFFICES ASSUME ClientInv PROVE PermissionsSound
    OBVIOUS
<1> USE DEF ClientInv
<1>1. RunsWithPermission
    BY DEF RunsWithPermission, OnRecord, Holds
<1>2. {p \in Pids : Working(p) /\ ~Light(p)} \subseteq Heavy
    BY DEF Heavy, Holds
<1>3. {p \in Pids : Working(p)} \subseteq granted
    BY <1>1 DEF RunsWithPermission
<1>4. /\ Cardinality({p \in Pids : Working(p) /\ ~Light(p)}) <= Cardinality(Heavy)
      /\ Cardinality({p \in Pids : Working(p) /\ ~Light(p)}) \in Nat
    BY <1>2, FiniteSets, FS_Subset, FS_CardinalityType
<1>5. /\ Cardinality({p \in Pids : Working(p)}) <= Cardinality(granted)
      /\ Cardinality({p \in Pids : Working(p)}) \in Nat
    BY <1>3, FiniteSets, FS_Subset, FS_CardinalityType
<1>6. NotOverwhelmed
    BY <1>4, <1>5, FiniteSets DEF NotOverwhelmed, WithinBounds
<1> QED  BY <1>1, <1>6 DEF PermissionsSound

(* However processes come, are killed, and lose the call that frees a         *)
(* permission or the answer that grants one, nobody runs a preprocessor or a  *)
(* compiler without a permission of local_task_monitor.cc, heavy work stays   *)
(* within max_tasks_ and all work within what lightweight tasks may add, and  *)
(* no handler sleeps on permission_cv_ that could be let through.             *)
THEOREM PermissionsCorrect == Spec => []PermissionsSound
  BY ClientInvariant, InvImpliesSound, PTL

(* A step of one process ends no other, and only few steps end their own with *)
(* an error.                                                                  *)
ErrorEnds == {"failed", "aborted"}

LEMMA OtherPlaces ==
    ASSUME TypeOK, NEW p \in Pids, NEW q \in Pids,
           client'[p].at \in ErrorEnds, client'[p].at # client[p].at
    PROVE  /\ \A place : Goto(q, place) => p = q /\ place = client'[p].at
           /\ \A purpose : ~Acquire(q, purpose)
           /\ ~Refused(q)
           /\ \A r, l \in BOOLEAN : ~Entry(q, r, l)
           /\ \A then : client' # [client EXCEPT ![q].at = "releasing",
                                                ![q].then = then]
<1>t. client \in [Pids -> Processes]
    BY DEF TypeOK, Processes
<1>1. ASSUME NEW place, Goto(q, place) PROVE p = q /\ place = client'[p].at
    BY <1>1, <1>t DEF Goto, Process, Processes, Ends, ErrorEnds
<1>2. ASSUME NEW purpose, Acquire(q, purpose) PROVE FALSE
    BY <1>2, <1>t DEF Acquire, Processes, ErrorEnds
<1>3. ASSUME Refused(q) PROVE FALSE
  <2>1. CASE client[q].for = "try" /\ MayRetry(client[q].left)
      BY <1>t, <1>3, <2>1 DEF Refused, Processes, ErrorEnds
  <2>2. "call" \notin ErrorEnds
      BY DEF ErrorEnds
  <2> QED  BY <1>1, <1>2, <1>3, <2>1, <2>2 DEF Refused
<1>4. ASSUME NEW r \in BOOLEAN, NEW l \in BOOLEAN, Entry(q, r, l) PROVE FALSE
    BY <1>4, EntryEdit DEF ErrorEnds
<1>5. ASSUME NEW then, client' = [client EXCEPT ![q].at = "releasing",
                                                ![q].then = then]
      PROVE  FALSE
    BY <1>5, <1>t DEF Processes, ErrorEnds
<1> QED  BY <1>1, <1>2, <1>3, <1>4, <1>5

(* The steps that remain: of a process that gives its permission back, and    *)
(* those a CHECK of which fails.                                              *)
LEMMA ErrorSteps ==
    ASSUME ClientInv, NEW p \in Pids, Next,
           client'[p].at \in ErrorEnds, client'[p].at # client[p].at
    PROVE  \/ /\ client[p].at = "releasing" /\ client'[p].at = client[p].then
              /\ client[p].then # "local"
           \/ /\ client'[p].at = "aborted"
              /\ \/ Working(p)
                 \/ client[p].at \in {"submit", "report", "wait"}
<1> DEFINE Goal == \/ /\ client[p].at = "releasing" /\ client'[p].at = client[p].then
                      /\ client[p].then # "local"
                   \/ /\ client'[p].at = "aborted"
                      /\ \/ Working(p)
                         \/ client[p].at \in {"submit", "report", "wait"}
<1>t. TypeOK
    BY DEF ClientInv
<1>o. \A q \in Pids :
        /\ \A place : Goto(q, place) => p = q /\ place = client'[p].at
        /\ \A purpose : ~Acquire(q, purpose)
        /\ ~Refused(q)
        /\ \A r, l \in BOOLEAN : ~Entry(q, r, l)
        /\ \A then : client' # [client EXCEPT ![q].at = "releasing",
                                             ![q].then = then]
    BY <1>t, OtherPlaces
<1>e. \A place : place \notin ErrorEnds => \A q \in Pids : ~Goto(q, place)
    BY <1>o
<1>1. ASSUME NEW q \in Pids, NotGranted(q) \/ GrantLost(q) PROVE Goal
    BY <1>1, <1>o DEF NotGranted, GrantLost
<1>2. ASSUME NEW q \in Pids, Release(q) \/ ReleaseLost(q) PROVE Goal
    BY <1>2, <1>o DEF Release, ReleaseLost
<1>3. ASSUME NEW q \in Pids,
             RewriteFile(q) \/ RunCompilationNativelyUsingQuota(q)
      PROVE  Goal
  <2>1. CheckFails(q)
      BY <1>3, <1>o DEF RewriteFile, RunCompilationNativelyUsingQuota
  <2> QED  BY <1>3, <1>o, <2>1
           DEF CheckFails, RewriteFile, RunCompilationNativelyUsingQuota, Working
<1>4. ASSUME NEW q \in Pids,
             \/ Submit(q) \/ SetFileDigest(q) \/ Resubmit(q)
             \/ WaitForCompilationTask(q)
      PROVE  Goal
  <2>1. "wait" \notin ErrorEnds /\ "report" \notin ErrorEnds
        /\ "resubmit" \notin ErrorEnds /\ "gone" \notin ErrorEnds
      BY DEF ErrorEnds
  <2>2. CheckFails(q) /\ client[q].at \in {"submit", "report", "wait"}
      BY <1>4, <1>o, <1>e, <2>1 DEF Submit, SetFileDigest, Resubmit,
         WaitForCompilationTask, FailedOnCloud, ErrorOnCloud
  <2> QED  BY <1>o, <2>2 DEF CheckFails
<1>5. ASSUME NEW q \in Pids,
             \/ Kill(q) \/ CallAcquireQuota(q) \/ Granted(q)
             \/ \E r, l \in BOOLEAN : Entry(q, r, l)
      PROVE  Goal
  <2>1. "waiting" \notin ErrorEnds /\ "working" \notin ErrorEnds
        /\ "gone" \notin ErrorEnds
      BY DEF ErrorEnds
  <2> QED  BY <1>5, <1>o, <1>e, <2>1 DEF Kill, CallAcquireQuota, Granted
<1>6. ASSUME UNCHANGED client PROVE Goal
    BY <1>6
<1> QED  BY <1>1, <1>2, <1>3, <1>4, <1>5, <1>6
         DEF Next, ClientStep, HandleAcquire, NobodyListens, CheckAlive

(* An error code is what the compiler that ran here returned: neither what    *)
(* the cloud says nor a failed preprocessor is reported as one.  And a file   *)
(* that is to be compiled here is: nothing but the end of the compiler aborts *)
(* its wrapper, whatever became of the attempts to have the cloud compile it. *)
THEOREM FailuresCorrect == Spec => FailuresAreLocal
<1> DEFINE Honest(p) ==
             /\ Becomes(p, "failed")
                  => client[p].at = "releasing" /\ client[p].for # "rewrite"
             /\ Becomes(p, "aborted") /\ client[p].for = "local" => Working(p)
<1>1. ASSUME ClientInv, [Next]_vars PROVE [\A p \in Pids : Honest(p)]_vars
  <2> SUFFICES ASSUME NEW p \in Pids, Next PROVE Honest(p)
      BY <1>1 DEF vars
  <2>1. ASSUME Becomes(p, "failed")
        PROVE  client[p].at = "releasing" /\ client[p].for # "rewrite"
    <3>1. client'[p].at = "failed" /\ client'[p].at \in ErrorEnds
          /\ client'[p].at # client[p].at
        BY <2>1 DEF Becomes, ErrorEnds
    <3>2. client[p].at = "releasing" /\ client[p].then = "failed"
        BY <1>1, <3>1, ErrorSteps
    <3> QED  BY <1>1, <3>2 DEF ClientInv, ExitCodes
  <2>2. ASSUME Becomes(p, "aborted"), client[p].for = "local" PROVE Working(p)
    <3>1. client'[p].at = "aborted" /\ client'[p].at \in ErrorEnds
          /\ client'[p].at # client[p].at
        BY <2>2 DEF Becomes, ErrorEnds
    <3>2. client[p].then # "aborted"
        BY <1>1 DEF ClientInv, TypeOK
    <3>3. client[p].at \notin {"submit", "report", "wait"}
        BY <1>1, <2>2 DEF ClientInv, ForTheCloud
    <3>4. \/ client[p].at = "releasing" /\ client'[p].at = client[p].then
          \/ Working(p)
        BY <1>1, <3>1, <3>3, ErrorSteps
    <3> QED  BY <3>1, <3>2, <3>4
  <2> QED  BY <2>1, <2>2
<1>2. Spec => [][\A p \in Pids : Honest(p)]_vars
    BY <1>1, ClientInvariant, PTL DEF Spec
<1> QED  BY <1>2 DEF FailuresAreLocal
-----------------------------------------------------------------------------

(* The digests.  What lstat gives is no later than the compiler there is; a   *)
(* hash is taken after the look it is filed under, so the versions in between *)
(* are all it can be of, with the daemon as with each wrapper.                *)
Stages == {"start", "submit", "hash", "report", "resubmit", "accepted", "failed"}

DigestTyped ==
    /\ link \in BOOLEAN
    /\ compiler \in Nat \ {0} /\ desc \in Nat \ {0}
    /\ digests \in [desc : Nat, hash : Nat]
    /\ submitter \in [Submitters -> [at : Stages, desc : Nat, hash : Nat]]

LookTells ==
    /\ desc <= compiler
    /\ \A w \in Submitters : submitter[w].desc <= compiler

HashesLater ==
    /\ digests # Unknown => digests.hash \in digests.desc .. compiler
    /\ \A w \in Submitters :
         submitter[w].at \in {"report", "accepted"}
           => submitter[w].hash \in submitter[w].desc .. compiler

DigestInv == DigestTyped /\ LookTells /\ HashesLater

LEMMA DigestStart == DigestInit => DigestInv
  BY DEF DigestInit, DigestInv, DigestTyped, Stages, LookTells, HashesLater, Unknown

LEMMA DigestTypedStep == DigestTyped /\ [DigestNext]_digestVars => DigestTyped'
<1> SUFFICES ASSUME DigestTyped, [DigestNext]_digestVars PROVE DigestTyped'
    OBVIOUS
<1> USE DEF DigestTyped
<1> DEFINE Wrapper == [at : Stages, desc : Nat, hash : Nat]
<1>1. ASSUME NEW w \in Submitters, NEW s \in Wrapper,
             submitter' = [submitter EXCEPT ![w] = s]
      PROVE  submitter' \in [Submitters -> Wrapper]
    BY <1>1
<1>2. ASSUME NEW w \in Submitters, NEW at \in Stages,
             submitter' = [submitter EXCEPT ![w].at = at]
      PROVE  submitter' \in [Submitters -> Wrapper]
    BY <1>2
<1>3. ASSUME NEW w \in Submitters, GetMtimeAndSize(w) PROVE DigestTyped'
  <2>1. PICK at \in Stages : at = "submit"
      BY DEF Stages
  <2>2. PICK s \in Wrapper : s = submitter[w]
      OBVIOUS
  <2>3. submitter' = [submitter EXCEPT ![w] = [s EXCEPT !.at = at, !.desc = desc]]
      BY <1>3, <2>1, <2>2 DEF GetMtimeAndSize
  <2>4. [s EXCEPT !.at = at, !.desc = desc] \in Wrapper
      OBVIOUS
  <2> QED  BY <1>1, <1>3, <2>3, <2>4 DEF GetMtimeAndSize
<1>4. ASSUME NEW w \in Submitters, Prepare(w) PROVE DigestTyped'
  <2>1. PICK at \in Stages : at = "accepted"
      BY DEF Stages
  <2>2. PICK hash \in Nat :
          submitter' = [submitter EXCEPT ![w].at = at, ![w].hash = hash]
      BY <1>4, <2>1 DEF Prepare, TryGet
  <2>3. PICK s \in Wrapper : s = submitter[w]
      OBVIOUS
  <2>4. submitter' = [submitter EXCEPT ![w] = [s EXCEPT !.at = at, !.hash = hash]]
      BY <2>2, <2>3
  <2>5. [s EXCEPT !.at = at, !.hash = hash] \in Wrapper
      OBVIOUS
  <2> QED  BY <1>1, <1>4, <2>4, <2>5 DEF Prepare
<1>5. ASSUME NEW w \in Submitters, Rejected(w) PROVE DigestTyped'
  <2>1. PICK at \in Stages : at = IF submitter[w].at = "submit" THEN "hash" ELSE "failed"
      BY DEF Stages
  <2>2. submitter' = [submitter EXCEPT ![w].at = at]
      BY <1>5, <2>1 DEF Rejected
  <2> QED  BY <1>2, <1>5, <2>2 DEF Rejected
<1>6. ASSUME NEW w \in Submitters, Blake3Digest(w) PROVE DigestTyped'
  <2>1. PICK at \in Stages : at = "report"
      BY DEF Stages
  <2>2. PICK s \in Wrapper : s = submitter[w]
      OBVIOUS
  <2>3. submitter' = [submitter EXCEPT ![w] = [s EXCEPT !.at = at, !.hash = compiler]]
      BY <1>6, <2>1, <2>2 DEF Blake3Digest
  <2>4. [s EXCEPT !.at = at, !.hash = compiler] \in Wrapper
      OBVIOUS
  <2> QED  BY <1>1, <1>6, <2>3, <2>4 DEF Blake3Digest
<1>7. ASSUME NEW w \in Submitters, Set(w) PROVE DigestTyped'
  <2>1. {"resubmit", "failed"} \subseteq Stages
      BY DEF Stages
  <2>2. submitter' \in [Submitters -> Wrapper]
      BY <1>2, <1>7, <2>1 DEF Set
  <2> QED  BY <1>7, <2>2 DEF Set
<1>8. ASSUME NEW w \in Submitters, ReportLost(w) PROVE DigestTyped'
  <2>1. PICK at \in Stages : at = "failed"
      BY DEF Stages
  <2> QED  BY <1>2, <1>8, <2>1 DEF ReportLost
<1>9. CASE Upgrade
    BY <1>9 DEF Upgrade
<1>10. CASE DaemonRestarts
    BY <1>10 DEF DaemonRestarts, Unknown
<1>11. CASE UNCHANGED digestVars
    BY <1>11 DEF digestVars
<1> QED  BY <1>3, <1>4, <1>5, <1>6, <1>7, <1>8, <1>9, <1>10, <1>11 DEF DigestNext

LEMMA DigestStep == DigestInv /\ [DigestNext]_digestVars => DigestInv'
<1> SUFFICES ASSUME DigestInv, [DigestNext]_digestVars PROVE DigestInv'
    OBVIOUS
<1>t. DigestTyped /\ DigestTyped'
    BY DigestTypedStep DEF DigestInv
<1> SUFFICES (LookTells /\ HashesLater)'
    BY <1>t DEF DigestInv
<1>0. LookTells /\ HashesLater
    BY DEF DigestInv
<1> USE DEF LookTells, HashesLater, DigestTyped
<1>3. ASSUME NEW w \in Submitters, GetMtimeAndSize(w) PROVE (LookTells /\ HashesLater)'
    BY <1>0, <1>t, <1>3 DEF GetMtimeAndSize
<1>4. ASSUME NEW w \in Submitters, Prepare(w) PROVE (LookTells /\ HashesLater)'
    BY <1>0, <1>t, <1>4 DEF Prepare, TryGet
<1>5. ASSUME NEW w \in Submitters, Rejected(w) PROVE (LookTells /\ HashesLater)'
    BY <1>0, <1>t, <1>5 DEF Rejected
<1>6. ASSUME NEW w \in Submitters, Blake3Digest(w) PROVE (LookTells /\ HashesLater)'
    BY <1>0, <1>t, <1>6 DEF Blake3Digest
<1>7. ASSUME NEW w \in Submitters, Set(w) PROVE (LookTells /\ HashesLater)'
    BY <1>0, <1>t, <1>7 DEF Set
<1>8. ASSUME NEW w \in Submitters, ReportLost(w) PROVE (LookTells /\ HashesLater)'
    BY <1>0, <1>t, <1>8 DEF ReportLost
<1>9. CASE Upgrade
    BY <1>0, <1>t, <1>9 DEF Upgrade
<1>10. CASE DaemonRestarts
    BY <1>0, <1>t, <1>10 DEF DaemonRestarts, Unknown
<1>11. CASE UNCHANGED digestVars
    BY <1>0, <1>11 DEF digestVars, Unknown
<1> QED  BY <1>3, <1>4, <1>5, <1>6, <1>7, <1>8, <1>9, <1>10, <1>11 DEF DigestNext

LEMMA DigestsFresh == DigestSpec => []DigestFresh
<1>1. DigestInv => DigestFresh
    BY DEF DigestInv, HashesLater, DigestFresh
<1> QED  BY <1>1, DigestStart, DigestStep, PTL DEF DigestSpec

-----------------------------------------------------------------------------
(* The library.  Who opens, writes or renames the temporary file has the      *)
(* lock; what is renamed is whole, of a build that is about.                  *)
USE WrappersAssumption

Steps == {"start", "lock", "open", "write", "rename", "unlock", "check", "ready",
          "crashed", "killed"}

LibraryTyped ==
    /\ wrapper \in [Wrappers -> Steps]
    /\ writing.bytes \in Nat
    /\ writing = [build |-> writing.build, bytes |-> writing.bytes]

OneWriter ==
    \A w \in Wrappers : wrapper[w] \in {"open", "write", "rename", "unlock"} => lock = w

BeingWritten ==
    \A w \in Wrappers :
      /\ wrapper[w] \in {"write", "rename"} => writing.build = Build[w]
      /\ wrapper[w] = "rename" => writing.bytes = Payload(w) /\ writing.bytes > 0

Whole ==
    library # NoFile => \E v \in Wrappers : /\ library.build = Build[v]
                                            /\ library.bytes = Payload(v)

Extracted ==
    \A w \in Wrappers : wrapper[w] \in {"unlock", "check", "ready"} => library # NoFile

CrashesExplained ==
    \A w \in Wrappers : wrapper[w] = "crashed" =>
      \E v \in Wrappers : Payload(v) # Payload(w)

LibraryInv == /\ LibraryTyped /\ OneWriter /\ BeingWritten
              /\ Whole /\ Extracted /\ CrashesExplained

LEMMA LibraryStart == LibraryInit => LibraryInv
  BY DEF LibraryInit, LibraryInv, LibraryTyped, Steps, OneWriter, BeingWritten, Whole,
         Extracted, CrashesExplained, NoFile

LEMMA LibraryStep == LibraryInv /\ [LibraryNext]_libraryVars => LibraryInv'
<1> SUFFICES ASSUME LibraryInv, [LibraryNext]_libraryVars PROVE LibraryInv'
    OBVIOUS
<1> USE DEF LibraryInv, LibraryTyped, Steps, OneWriter, BeingWritten, Extracted, At
<1>1. ASSUME NEW w \in Wrappers, GetLibFakeRootPath(w) PROVE LibraryInv'
    BY <1>1 DEF GetLibFakeRootPath, RightSize, Whole, CrashesExplained
<1>2. ASSUME NEW w \in Wrappers, LockForExtraction(w) PROVE LibraryInv'
    BY <1>2 DEF LockForExtraction, Flock, Whole, CrashesExplained
<1>3. ASSUME NEW w \in Wrappers, OpenTemporary(w) PROVE LibraryInv'
    BY <1>3 DEF OpenTemporary, Whole, CrashesExplained
<1>4. ASSUME NEW w \in Wrappers, WriteAll(w) PROVE LibraryInv'
  <2>1. /\ writing'.build = writing.build /\ writing'.bytes = writing.bytes + 1
        /\ writing' = [build |-> writing'.build, bytes |-> writing'.bytes]
      BY <1>4 DEF WriteAll
  <2> QED  BY <1>4, <2>1 DEF WriteAll, Whole, CrashesExplained
<1>5. ASSUME NEW w \in Wrappers, Rename(w) PROVE LibraryInv'
  <2>1. library' # NoFile /\ library'.build = Build[w] /\ library'.bytes = Payload(w)
      BY <1>5 DEF Rename, NoFile
  <2> QED  BY <1>5, <2>1 DEF Rename, NoFile, Whole, CrashesExplained
<1>6. ASSUME NEW w \in Wrappers, UnlockForExtraction(w) PROVE LibraryInv'
    BY <1>6 DEF UnlockForExtraction, Whole, CrashesExplained
<1>7. ASSUME NEW w \in Wrappers, CheckExtracted(w) PROVE LibraryInv'
  <2>1. CASE RightSize(w)
      BY <1>7, <2>1 DEF CheckExtracted, RightSize, Whole, CrashesExplained
  <2>2. CASE ~RightSize(w)
    <3>1. \E v \in Wrappers : Payload(v) # Payload(w)
        BY <1>7, <2>2 DEF CheckExtracted, RightSize, Whole
    <3> QED  BY <1>7, <2>2, <3>1 DEF CheckExtracted, Whole, CrashesExplained
  <2> QED  BY <2>1, <2>2
<1>8. ASSUME NEW w \in Wrappers, KillWrapper(w) PROVE LibraryInv'
    BY <1>8 DEF KillWrapper, Whole, CrashesExplained
<1>9. CASE UNCHANGED libraryVars
    BY <1>9 DEF libraryVars, Whole, CrashesExplained
<1> QED  BY <1>1, <1>2, <1>3, <1>4, <1>5, <1>6, <1>7, <1>8, <1>9
         DEF LibraryNext, ExtractLibFakeRootTo

LEMMA LibrariesWhole == LibrarySpec => []LibraryWhole
<1>1. LibraryInv => LibraryWhole
    BY DEF LibraryInv, Whole, Extracted, CrashesExplained, LibraryWhole, Payload
<1> QED  BY <1>1, LibraryStart, LibraryStep, PTL DEF LibrarySpec

-----------------------------------------------------------------------------
(* Whatever wrappers of whatever builds do at a time, are killed in the       *)
(* middle of it, and find upgraded under them, be the compiler a file or a    *)
(* link: a task goes out with a digest its compiler has had since what lstat  *)
(* showed the wrapper was put there (file_digest_cache.cc, utility.cc), and   *)
(* no process can load a torn library (libfakeroot.cc).                       *)
THEOREM SharedCorrect == DigestSpec /\ LibrarySpec => []SharedSound
<1>1. DigestFresh /\ LibraryWhole => SharedSound
    BY DEF SharedSound
<1> QED  BY <1>1, DigestsFresh, LibrariesWhole, PTL

-----------------------------------------------------------------------------
(* A program on three pipes.                                                  *)

ChildTyped ==
    /\ parent \in [at : {"poll", "handle", "done", "aborted", "killed"},
                   revents : SUBSET Streams, bytes : [Streams -> Nat],
                   done : SUBSET Streams]
    /\ child \in [at : {"running", "exited", "signaled"},
                  closed : SUBSET Streams, bytes : [Streams -> Nat]]
    /\ pipe \in [in : Int, out : Int, err : Int]

(* An output is done when its writer is gone and its pipe is empty, and is    *)
(* never written again; the loop ends when all are done.                      *)
OutputsDone ==
    /\ \A s \in Outputs : s \in parent.done => s \in child.closed /\ pipe[s] = 0
    /\ \A s \in Outputs : s \in child.closed => child.at # "running"
    /\ parent.at \in {"done", "aborted"} => Outputs \subseteq parent.done

ChildInv == ChildTyped /\ OutputsDone /\ OutputComplete

LEMMA ChildStart == ChildInit => ChildInv
<1> SUFFICES ASSUME ChildInit PROVE ChildInv
  OBVIOUS
<1>1. ChildTyped
  BY DEF ChildInit, ChildTyped, Streams
<1>2. \A s \in Outputs : s \notin parent.done /\ s \in Streams
                         /\ parent.bytes[s] = 0 /\ child.bytes[s] = 0 /\ pipe[s] = 0
  BY DEF ChildInit, Outputs, Streams
<1> QED
  BY <1>1, <1>2 DEF ChildInit, ChildInv, OutputsDone, OutputComplete

(* What the loop does once it has looked at a stream.                         *)
LEMMA HandledStream ==
    ASSUME ChildTyped, NEW s \in Streams, NEW done \in BOOLEAN, NEW count \in Nat,
           Handled(s, done, count)
    PROVE  /\ parent'.at \in {"poll", parent.at}
           /\ parent'.done = IF done THEN parent.done \union {s} ELSE parent.done
           /\ parent'.bytes[s] = parent.bytes[s] + count
           /\ \A u \in Streams : u # s => parent'.bytes[u] = parent.bytes[u]
           /\ parent' \in [at : {"poll", "handle", "done", "aborted", "killed"},
                           revents : SUBSET Streams, bytes : [Streams -> Nat],
                           done : SUBSET Streams]
<1> DEFINE Ats == {"poll", "handle", "done", "aborted", "killed"}
<1>1. PICK q \in [at : Ats, revents : SUBSET Streams, bytes : [Streams -> Nat],
                  done : SUBSET Streams] : q = parent
  BY DEF ChildTyped
<1>2. PICK n : n = parent.bytes[s] + count
  OBVIOUS
<1>3. parent' = [parent EXCEPT !.revents = @ \ {s},
                              !.at = IF parent.revents = {s} THEN "poll" ELSE @,
                              !.done = IF done THEN @ \union {s} ELSE @,
                              !.bytes[s] = n]
  BY <1>2 DEF Handled
<1>4. PICK bytes : bytes = [q.bytes EXCEPT ![s] = n]
  OBVIOUS
<1>5. /\ bytes \in [Streams -> Nat] /\ bytes[s] = q.bytes[s] + count
      /\ \A u \in Streams : u # s => bytes[u] = q.bytes[u]
  BY <1>1, <1>2, <1>4
<1>6. PICK at \in Ats : at = IF q.revents = {s} THEN "poll" ELSE q.at
  BY <1>1
<1>7. PICK ended \in SUBSET Streams :
        ended = IF done THEN q.done \union {s} ELSE q.done
  BY <1>1
<1>8. PICK revents \in SUBSET Streams : revents = q.revents \ {s}
  BY <1>1
<1>9. parent' = [q EXCEPT !.revents = revents, !.at = at, !.done = ended,
                         !.bytes = bytes]
  BY <1>1, <1>3, <1>4, <1>6, <1>7, <1>8
<1>10. /\ parent' \in [at : Ats, revents : SUBSET Streams,
                        bytes : [Streams -> Nat], done : SUBSET Streams]
       /\ parent'.at = at /\ parent'.done = ended /\ parent'.bytes = bytes
  BY <1>1, <1>5, <1>9
<1> QED
  BY <1>1, <1>5, <1>6, <1>7, <1>10

(* Nothing is lost between the program, a pipe and the caller.                *)
LEMMA ChildStep == ChildInv /\ [ChildNext]_childVars => ChildInv'
<1> SUFFICES ASSUME ChildInv, [ChildNext]_childVars PROVE ChildInv'
  OBVIOUS
<1> USE DEF ChildInv
<1>1. ASSUME parent' \in [at : {"poll", "handle", "killed"},
                         revents : SUBSET Streams, bytes : [Streams -> Nat],
                         done : SUBSET Streams],
             parent'.bytes = parent.bytes,
             parent'.done \intersect Outputs = parent.done \intersect Outputs,
             UNCHANGED <<child, pipe>>
      PROVE  ChildInv'
  <2>1. ChildTyped'
    BY <1>1 DEF ChildTyped
  <2> QED
    BY <1>1, <2>1 DEF OutputsDone, OutputComplete
<1>2. PICK q \in [at : {"poll", "handle", "done", "aborted", "killed"},
                  revents : SUBSET Streams, bytes : [Streams -> Nat],
                  done : SUBSET Streams] : q = parent
  BY DEF ChildTyped
<1>3. PICK c \in [at : {"running", "exited", "signaled"},
                  closed : SUBSET Streams, bytes : [Streams -> Nat]] : c = child
  BY DEF ChildTyped
<1>4. PICK i \in Int, o \in Int, e \in Int : pipe = [in |-> i, out |-> o, err |-> e]
  BY DEF ChildTyped
<1>5. CASE Poll
  <2>1. PICK revents \in SUBSET Streams :
          parent' = [q EXCEPT !.at = "handle", !.revents = revents]
    BY <1>2, <1>5 DEF Poll, Watched
  <2>2. q.at = "poll" /\ UNCHANGED <<child, pipe>>
    BY <1>2, <1>5 DEF Poll
  <2> QED
    BY <1>1, <1>2, <2>1, <2>2
<1>6. ASSUME NEW count \in 1 .. PipeSize, WriteInput(count) PROVE ChildInv'
  <2>1. /\ parent.at = "handle" /\ UNCHANGED child
        /\ Handled("in", parent.bytes["in"] + count = InputSize, count)
        /\ pipe' = [pipe EXCEPT !.in = @ + count]
    BY <1>6 DEF WriteInput, Turn
  <2>2. count \in Nat /\ "in" \in Streams /\ "in" \notin Outputs
    BY ChildConstants DEF Streams, Outputs
  <2>3. PICK done \in BOOLEAN : done = (parent.bytes["in"] + count = InputSize)
    OBVIOUS
  <2>4. Handled("in", done, count)
    BY <2>1, <2>3, Zenon
  <2>5. /\ parent'.at \in {"poll", "handle"}
        /\ parent'.done \subseteq parent.done \union {"in"}
        /\ parent.done \subseteq parent'.done
        /\ \A u \in Streams : u # "in" => parent'.bytes[u] = parent.bytes[u]
        /\ parent' \in [at : {"poll", "handle", "done", "aborted", "killed"},
                        revents : SUBSET Streams, bytes : [Streams -> Nat],
                        done : SUBSET Streams]
    BY <2>1, <2>2, <2>4, HandledStream
  <2>6. pipe' = [in |-> i + count, out |-> o, err |-> e]
    BY <1>4, <2>1
  <2>7. \A s \in Outputs : parent'.bytes[s] = parent.bytes[s] /\ pipe'[s] = pipe[s]
    BY <1>2, <1>4, <2>2, <2>5, <2>6 DEF Outputs, Streams
  <2>8. ChildTyped'
    BY <2>1, <2>2, <2>5, <2>6 DEF ChildTyped
  <2> QED
    BY <2>1, <2>2, <2>5, <2>6, <2>7, <2>8 DEF OutputsDone, OutputComplete
<1>7. CASE InputRefused
  <2>1. CASE parent' = [parent EXCEPT !.at = "killed"]
    <3>1. parent' = [q EXCEPT !.at = "killed"]
      BY <1>2, <2>1
    <3>2. UNCHANGED <<child, pipe>>
      BY <1>7 DEF InputRefused
    <3> QED
      BY <1>1, <1>2, <3>1, <3>2
  <2>2. CASE Handled("in", TRUE, 0)
    <3>1. parent.at = "handle" /\ UNCHANGED <<child, pipe>>
      BY <1>7 DEF InputRefused, Turn
    <3>2. "in" \in Streams /\ "in" \notin Outputs
      BY DEF Streams, Outputs
    <3>3. /\ parent'.at \in {"poll", "handle"}
          /\ parent'.done = parent.done \union {"in"}
          /\ parent'.bytes["in"] = parent.bytes["in"] + 0
          /\ \A u \in Streams : u # "in" => parent'.bytes[u] = parent.bytes[u]
          /\ parent' \in [at : {"poll", "handle", "done", "aborted", "killed"},
                          revents : SUBSET Streams, bytes : [Streams -> Nat],
                          done : SUBSET Streams]
      BY <2>2, <3>1, <3>2, HandledStream
    <3>4. parent'.bytes = parent.bytes
      <4>1. parent.bytes \in [Streams -> Nat] /\ parent'.bytes \in [Streams -> Nat]
        BY <1>2, <3>3
      <4>2. parent.bytes["in"] \in Nat
        BY <3>2, <4>1
      <4>3. \A u \in Streams : parent'.bytes[u] = parent.bytes[u]
        BY <3>3, <4>2
      <4> QED
        BY <4>1, <4>3
    <3> QED
      BY <1>1, <3>1, <3>2, <3>3, <3>4
  <2> QED
    BY <1>7, <2>1, <2>2 DEF InputRefused
<1>8. ASSUME NEW s \in Outputs, NEW count \in 0 .. PipeSize, ReadOutput(s, count)
      PROVE  ChildInv'
  <2>1. /\ parent.at = "handle" /\ UNCHANGED child
        /\ Handled(s, EndOfOutput(s), count)
        /\ pipe' = [pipe EXCEPT ![s] = @ - count]
        /\ EndOfOutput(s) => count = 0
        /\ ~EndOfOutput(s) => count <= pipe[s]
    BY <1>8, ChildConstants DEF ReadOutput, Turn
  <2>2. count \in Nat /\ s \in Streams /\ EndOfOutput(s) \in BOOLEAN
    BY ChildConstants DEF Streams, Outputs, EndOfOutput
  <2>3. /\ parent'.at \in {"poll", "handle"}
        /\ parent'.done = IF EndOfOutput(s) THEN parent.done \union {s} ELSE parent.done
        /\ parent'.bytes[s] = parent.bytes[s] + count
        /\ \A u \in Streams : u # s => parent'.bytes[u] = parent.bytes[u]
        /\ parent' \in [at : {"poll", "handle", "done", "aborted", "killed"},
                        revents : SUBSET Streams, bytes : [Streams -> Nat],
                        done : SUBSET Streams]
    <3>1. PICK done \in BOOLEAN : done = EndOfOutput(s)
      BY <2>2
    <3>2. Handled(s, done, count)
      BY <2>1, <3>1, Zenon
    <3>3. /\ parent'.at \in {"poll", parent.at}
          /\ parent'.done = IF done THEN parent.done \union {s} ELSE parent.done
          /\ parent'.bytes[s] = parent.bytes[s] + count
          /\ \A u \in Streams : u # s => parent'.bytes[u] = parent.bytes[u]
          /\ parent' \in [at : {"poll", "handle", "done", "aborted", "killed"},
                          revents : SUBSET Streams, bytes : [Streams -> Nat],
                          done : SUBSET Streams]
      BY <2>2, <3>2, HandledStream
    <3>4. parent'.at \in {"poll", "handle"}
      BY <2>1, <3>3
    <3>5. parent'.done = IF EndOfOutput(s) THEN parent.done \union {s} ELSE parent.done
      BY <3>1, <3>3
    <3> QED
      BY <3>3, <3>4, <3>5
  <2>4. /\ pipe'[s] = pipe[s] - count /\ pipe'[s] \in Int /\ pipe[s] \in Int
        /\ \A u \in Outputs : u # s => pipe'[u] = pipe[u]
        /\ pipe' \in [in : Int, out : Int, err : Int]
    BY <1>4, <2>1, <2>2 DEF Outputs
  <2>5. parent'.bytes[s] = parent.bytes[s] + count /\ parent.bytes[s] \in Nat
        /\ \A u \in Outputs : u # s => parent'.bytes[u] = parent.bytes[u]
    BY <1>2, <2>2, <2>3 DEF Outputs, Streams
  <2>6. ChildTyped'
    BY <2>1, <2>3, <2>4 DEF ChildTyped
  <2>7. s \in parent.done => count = 0
    BY <2>1 DEF OutputsDone, EndOfOutput
  <2>8. OutputsDone'
    <3>1. ASSUME NEW u \in Outputs, u \in parent'.done
          PROVE  u \in child.closed /\ pipe'[u] = 0
      <4>1. CASE u # s
        BY <2>3, <2>4, <3>1, <4>1 DEF OutputsDone
      <4>2. CASE u = s
        <5>1. s \in child.closed /\ pipe[s] = 0 /\ count = 0
          BY <2>1, <2>3, <2>7, <3>1, <4>2 DEF OutputsDone, EndOfOutput
        <5> QED
          BY <2>4, <4>2, <5>1
      <4> QED
        BY <4>1, <4>2
    <3> QED
      BY <2>1, <2>3, <3>1 DEF OutputsDone
  <2>9. OutputComplete'
    BY <2>1, <2>3, <2>4, <2>5 DEF OutputComplete
  <2> QED
    BY <2>6, <2>8, <2>9
<1>9. CASE GetProgramExitCode
  <2>1. PICK at \in {"done", "aborted"} : parent' = [q EXCEPT !.at = at]
    BY <1>2, <1>9 DEF GetProgramExitCode
  <2>2. UNCHANGED <<child, pipe>> /\ Outputs \subseteq parent.done
    BY <1>9 DEF GetProgramExitCode, Watched, Streams, Outputs
  <2>3. parent'.done = parent.done /\ parent'.bytes = parent.bytes
    BY <1>2, <2>1
  <2>4. ChildTyped'
    BY <1>2, <2>1, <2>2 DEF ChildTyped
  <2>5. OutputsDone'
    BY <2>2, <2>3 DEF OutputsDone
  <2>6. \A s \in Outputs : parent.bytes[s] = child.bytes[s]
    BY <1>2, <1>3, <2>2 DEF OutputsDone, OutputComplete, Outputs, Streams
  <2> QED
    BY <2>2, <2>3, <2>4, <2>5, <2>6 DEF OutputComplete
<1>10. CASE ProgramReads
  <2>1. PICK bytes \in [Streams -> Nat] :
          /\ child' = [c EXCEPT !.bytes = bytes]
          /\ \A s \in Outputs : bytes[s] = c.bytes[s]
    <3>1. PICK n : n = c.bytes["in"] + 1
      OBVIOUS
    <3>2. PICK bytes : bytes = [c.bytes EXCEPT !["in"] = n]
      OBVIOUS
    <3>3. child' = [c EXCEPT !.bytes["in"] = n]
      BY <1>3, <1>10, <3>1 DEF ProgramReads
    <3>4. child' = [c EXCEPT !.bytes = bytes]
      BY <3>2, <3>3
    <3>5. bytes \in [Streams -> Nat]
      <4>1. "in" \in Streams
        BY DEF Streams, Outputs
      <4>2. c.bytes \in [Streams -> Nat] /\ n \in Nat
        BY <1>3, <3>1, <4>1
      <4> QED
        BY <3>2, <4>2
    <3>6. \A s \in Outputs : bytes[s] = c.bytes[s]
      BY <1>3, <3>2 DEF Outputs, Streams
    <3> QED
      BY <3>4, <3>6, <3>5
  <2>2. UNCHANGED parent /\ pipe' = [in |-> i - 1, out |-> o, err |-> e]
    BY <1>4, <1>10 DEF ProgramReads
  <2>3. \A s \in Outputs : pipe'[s] = pipe[s]
    BY <1>4, <2>2 DEF Outputs
  <2>4. child'.at = child.at /\ child'.closed = child.closed /\ child'.bytes = bytes
    BY <1>3, <2>1
  <2>5. ChildTyped'
    BY <1>3, <2>1, <2>2 DEF ChildTyped
  <2> QED
    BY <1>3, <2>1, <2>2, <2>3, <2>4, <2>5 DEF OutputsDone, OutputComplete
<1>11. ASSUME NEW s \in Outputs, ProgramWrites(s) PROVE ChildInv'
  <2>1. PICK bytes \in [Streams -> Nat] :
          /\ child' = [c EXCEPT !.bytes = bytes]
          /\ bytes[s] = c.bytes[s] + 1 /\ c.bytes[s] \in Nat
          /\ \A u \in Outputs : u # s => bytes[u] = c.bytes[u]
    <3>1. PICK n : n = c.bytes[s] + 1
      OBVIOUS
    <3>2. PICK bytes : bytes = [c.bytes EXCEPT ![s] = n]
      OBVIOUS
    <3>3. child' = [c EXCEPT !.bytes[s] = n]
      BY <1>3, <1>11, <3>1 DEF ProgramWrites
    <3>4. child' = [c EXCEPT !.bytes = bytes]
      BY <3>2, <3>3
    <3>5. bytes \in [Streams -> Nat]
      <4>1. s \in Streams
        BY DEF Streams, Outputs
      <4>2. c.bytes \in [Streams -> Nat] /\ n \in Nat
        BY <1>3, <3>1, <4>1
      <4> QED
        BY <3>2, <4>2
    <3>6. /\ bytes[s] = c.bytes[s] + 1 /\ c.bytes[s] \in Nat
          /\ \A u \in Outputs : u # s => bytes[u] = c.bytes[u]
      BY <1>3, <3>1, <3>2 DEF Outputs, Streams
    <3> QED
      BY <3>4, <3>6, <3>5
  <2>2. /\ UNCHANGED parent
        /\ pipe'[s] = pipe[s] + 1 /\ pipe[s] \in Int
        /\ \A u \in Outputs : u # s => pipe'[u] = pipe[u]
        /\ pipe' \in [in : Int, out : Int, err : Int]
    BY <1>4, <1>11 DEF ProgramWrites, Outputs
  <2>3. child'.at = child.at /\ child'.closed = child.closed /\ child'.bytes = bytes
    BY <1>3, <2>1
  <2>4. child.at = "running"
    BY <1>11 DEF ProgramWrites
  <2>5. ChildTyped'
    BY <1>3, <2>1, <2>2 DEF ChildTyped
  <2>6. s \notin parent.done /\ ~(parent.at \in {"done", "aborted"})
    BY <2>4 DEF OutputsDone, Outputs
  <2>7. OutputsDone'
    BY <2>2, <2>3, <2>6 DEF OutputsDone
  <2>8. \A u \in Outputs : parent.bytes[u] \in Nat
    BY <1>2 DEF Outputs, Streams
  <2> QED
    BY <1>3, <2>1, <2>2, <2>3, <2>5, <2>6, <2>7, <2>8 DEF OutputComplete
<1>12. CASE ProgramClosesInput
  <2>1. child' = [c EXCEPT !.closed = c.closed \union {"in"}] /\ UNCHANGED <<parent, pipe>>
    BY <1>3, <1>12 DEF ProgramClosesInput
  <2>2. /\ child'.at = child.at /\ child'.bytes = child.bytes
        /\ child'.closed = child.closed \union {"in"}
    BY <1>3, <2>1
  <2>3. ChildTyped'
    BY <1>3, <2>1 DEF ChildTyped, Streams
  <2> QED
    BY <2>1, <2>2, <2>3 DEF OutputsDone, OutputComplete, Outputs
<1>13. ASSUME NEW how \in {"exited", "signaled"}, ProgramEnds(how) PROVE ChildInv'
  <2>1. child' = [c EXCEPT !.at = how, !.closed = Streams] /\ UNCHANGED <<parent, pipe>>
    BY <1>3, <1>13 DEF ProgramEnds
  <2>2. child'.at = how /\ child'.bytes = child.bytes /\ child'.closed = Streams
    BY <1>3, <2>1
  <2>3. ChildTyped'
    BY <1>3, <2>1 DEF ChildTyped
  <2> QED
    BY <2>1, <2>2, <2>3 DEF OutputsDone, OutputComplete, Outputs, Streams
<1>14. CASE UNCHANGED childVars
  BY <1>14 DEF childVars, ChildTyped, OutputsDone, OutputComplete
<1> QED
  BY <1>5, <1>6, <1>7, <1>8, <1>9, <1>10, <1>11, <1>12, <1>13, <1>14
  DEF ChildNext, LoopStep, ProgramStep

(* Whoever runs a program through command.cc gets all that it wrote, although *)
(* it may end with its pipes full, refuse its input or be killed, and however *)
(* its reads and writes interleave with the poll loop's.                      *)
THEOREM OutputCorrect == ChildSpec => []OutputComplete
<1>1. ChildInv => OutputComplete
  BY DEF ChildInv
<1> QED
  BY <1>1, ChildStart, ChildStep, PTL DEF ChildSpec

-----------------------------------------------------------------------------
(* A call to the daemon, and both kinds of transfer together.                 *)

(* There is no greatest natural without a least one.                          *)
Precedes == {pair \in Nat \X Nat : pair[1] < pair[2]}

LEMMA LeastNatural ==
    ASSUME NEW T \in SUBSET Nat, T # {}
    PROVE  \E m \in T : \A n \in T : m <= n
<1>1. IsWellFoundedOn(Precedes, Nat)
  BY NatLessThanWellFounded DEF OpToRel, Precedes
<1>2. PICK m \in T : \A n \in T : ~(<<n, m>> \in Precedes)
  BY <1>1, WFMin
<1>3. ASSUME NEW n \in T PROVE m <= n
  <2>1. ~(<<n, m>> \in Precedes) /\ m \in Nat /\ n \in Nat
    BY <1>2
  <2> QED
    BY <2>1 DEF Precedes
<1> QED
  BY <1>3

(* The buffers of a request follow one another: the recursion that adds their *)
(* lengths is well defined.                                                   *)
LEMMA BeforeAdds ==
    /\ \A i \in 1 .. Len(Parts) + 1 : Before[i] \in Nat
    /\ Before[1] = 0
    /\ \A i \in 1 .. Len(Parts) : /\ Before[i + 1] = Before[i] + Parts[i]
                                  /\ Parts[i] \in Nat
<1> DEFINE N == Len(Parts)
           Adds(n, f) == /\ f[1] = 0
                         /\ \A i \in 2 .. n : f[i] = f[i - 1] + Parts[i - 1]
           Bad == {n \in Nat : n \in 1 .. N + 1
                               /\ ~ \E f \in [1 .. n -> Nat] : Adds(n, f)}
<1>1. N \in Nat /\ \A i \in 1 .. N : Parts[i] \in Nat
  BY CallConstants
<1> HIDE DEF N
<1>2. ASSUME Bad # {} PROVE FALSE
  <2>1. PICK n \in Bad : \A i \in Bad : n <= i
    BY <1>2, LeastNatural
  <2>2. CASE n = 1
    <3>1. [i \in 1 .. 1 |-> 0] \in [1 .. 1 -> Nat] /\ Adds(1, [i \in 1 .. 1 |-> 0])
      OBVIOUS
    <3> QED
      BY <2>1, <2>2, <3>1
  <2>3. CASE n # 1
    <3>1. n - 1 \in Nat /\ n - 1 \in 1 .. N + 1 /\ n - 1 \in 1 .. N /\ ~(n <= n - 1)
      BY <1>1, <2>1, <2>3
    <3>2. n - 1 \notin Bad
      BY <2>1, <3>1
    <3>3. PICK f \in [1 .. n - 1 -> Nat] : Adds(n - 1, f)
      BY <3>1, <3>2
    <3> DEFINE longer == [i \in 1 .. n |->
                            IF i = n THEN f[n - 1] + Parts[n - 1] ELSE f[i]]
    <3>4. f[n - 1] + Parts[n - 1] \in Nat
      BY <1>1, <3>1, <3>3
    <3>5. longer \in [1 .. n -> Nat]
      BY <3>3, <3>4
    <3>6. longer[1] = 0
      BY <2>1, <2>3, <3>3
    <3>7. ASSUME NEW i \in 2 .. n PROVE longer[i] = longer[i - 1] + Parts[i - 1]
      <4>1. longer[i - 1] = f[i - 1]
        BY <3>1
      <4>2. i # n => i \in 2 .. n - 1 /\ longer[i] = f[i]
        OBVIOUS
      <4>3. i = n => longer[i] = f[n - 1] + Parts[n - 1]
        BY <3>1
      <4> QED
        BY <3>3, <4>1, <4>2, <4>3
    <3> QED
      BY <2>1, <3>5, <3>6, <3>7
  <2> QED
    BY <2>2, <2>3
<1>3. PICK f \in [1 .. N + 1 -> Nat] : Adds(N + 1, f)
  <2>1. N + 1 \in Nat /\ N + 1 \in 1 .. N + 1
    BY <1>1
  <2>2. N + 1 \notin Bad
    <3>1. Bad = {}
      BY <1>2, Zenon
    <3> QED
      BY <3>1, Zenon
  <2> QED
    BY <2>1, <2>2
<1>4. f = [i \in 1 .. N + 1 |-> IF i = 1 THEN 0 ELSE f[i - 1] + Parts[i - 1]]
  <2>1. ASSUME NEW i \in 1 .. N + 1
        PROVE  f[i] = IF i = 1 THEN 0 ELSE f[i - 1] + Parts[i - 1]
    BY <1>1, <1>3
  <2> QED
    BY <1>3, <2>1
<1>5. Before = [i \in 1 .. N + 1 |->
                  IF i = 1 THEN 0 ELSE Before[i - 1] + Parts[i - 1]]
  BY <1>4, Zenon DEF Before, N
<1>6. Before[1] = 0
  BY <1>1, <1>5
<1>7. ASSUME NEW i \in 1 .. N PROVE Before[i + 1] = Before[i] + Parts[i]
  <2>1. i + 1 \in 1 .. N + 1 /\ i + 1 # 1 /\ i + 1 - 1 = i
    BY <1>1
  <2>2. \A j \in 1 .. N + 1 :
          Before[j] = IF j = 1 THEN 0 ELSE Before[j - 1] + Parts[j - 1]
    BY <1>5
  <2>3. Before[i + 1] = Before[i + 1 - 1] + Parts[i + 1 - 1]
    BY <2>1, <2>2
  <2> QED
    BY <2>1, <2>3
<1> DEFINE Odd == {n \in Nat : n \in 1 .. N + 1 /\ Before[n] \notin Nat}
<1>8. ASSUME Odd # {} PROVE FALSE
  <2>1. PICK n \in Odd : \A i \in Odd : n <= i
    BY <1>8, LeastNatural
  <2>2. n # 1
    BY <1>6, <2>1
  <2>3. n - 1 \in 1 .. N /\ n - 1 \in Nat /\ n - 1 \in 1 .. N + 1 /\ ~(n <= n - 1)
    BY <1>1, <2>1, <2>2
  <2>4. Before[n - 1] \in Nat /\ Parts[n - 1] \in Nat
    BY <1>1, <2>1, <2>3
  <2>5. Before[n - 1 + 1] = Before[n - 1] + Parts[n - 1] /\ n - 1 + 1 = n
    BY <1>7, <2>3
  <2> QED
    BY <2>1, <2>4, <2>5
<1> QED
  BY <1>1, <1>6, <1>7, <1>8 DEF N

LEMMA BeforeGrows ==
    ASSUME NEW i \in 1 .. Len(Parts) + 1, NEW j \in 1 .. Len(Parts) + 1, i <= j
    PROVE  Before[i] <= Before[j]
<1> DEFINE N == Len(Parts)
           Bad == {n \in Nat : n \in i .. N + 1 /\ ~(Before[i] <= Before[n])}
<1>1. N \in Nat
  BY CallConstants
<1>2. /\ \A n \in 1 .. N + 1 : Before[n] \in Nat
      /\ \A n \in 1 .. N : Before[n + 1] = Before[n] + Parts[n] /\ Parts[n] \in Nat
  BY BeforeAdds
<1>3. i \in 1 .. N + 1 /\ j \in i .. N + 1 /\ j \in Nat
  BY <1>1
<1> HIDE DEF N
<1>4. ASSUME Bad # {} PROVE FALSE
  <2>1. PICK n \in Bad : \A m \in Bad : n <= m
    BY <1>4, LeastNatural
  <2>2. n # i
    BY <1>2, <1>3, <2>1
  <2>3. n - 1 \in 1 .. N /\ n - 1 \in Nat /\ n - 1 \in i .. N + 1 /\ ~(n <= n - 1)
        /\ n - 1 + 1 = n
    BY <1>1, <1>3, <2>1, <2>2
  <2>4. Before[i] <= Before[n - 1]
    BY <2>1, <2>3
  <2>5. Before[n - 1 + 1] = Before[n - 1] + Parts[n - 1] /\ Parts[n - 1] \in Nat
        /\ Before[n - 1] \in Nat /\ Before[i] \in Nat
    BY <1>1, <1>2, <1>3, <2>3
  <2>6. Before[n] = Before[n - 1] + Parts[n - 1]
    BY <2>3, <2>5
  <2>7. Before[i] <= Before[n]
    BY <2>4, <2>5, <2>6
  <2> QED
    BY <2>1, <2>7
<1> QED
  BY <1>3, <1>4

(* Stretches of bytes that follow one another.                                *)
LEMMA StretchSeq ==
    ASSUME NEW from \in Nat, NEW n \in Nat
    PROVE  /\ Stretch(from, n) \in Seq(Nat)
           /\ Len(Stretch(from, n)) = n
           /\ \A k \in 1 .. n : Stretch(from, n)[k] = from + k
  BY DEF Stretch

Joined(s, t) == s \o t

LEMMA StretchExtends ==
    ASSUME NEW from \in Nat, NEW m \in Nat, NEW n \in Nat,
           NEW next \in Nat, next = from + m, NEW all \in Nat, all = m + n
    PROVE  Joined(Stretch(from, m), Stretch(next, n)) = Stretch(from, all)
<1>1. from + m \in Nat /\ m + n \in Nat
  OBVIOUS
<1>2. PICK s \in Seq(Nat) : /\ s = Stretch(from, m) /\ Len(s) = m
                           /\ \A k \in 1 .. m : s[k] = from + k
  BY StretchSeq
<1>3. PICK t \in Seq(Nat) : /\ t = Stretch(next, n) /\ Len(t) = n
                           /\ \A k \in 1 .. n : t[k] = from + m + k
  BY <1>1, StretchSeq
<1>4. PICK u \in Seq(Nat) : /\ u = Stretch(from, m + n) /\ Len(u) = m + n
                           /\ \A k \in 1 .. m + n : u[k] = from + k
  BY <1>1, StretchSeq
<1>5. /\ s \o t \in Seq(Nat) /\ Len(s \o t) = m + n
      /\ \A k \in 1 .. m + n :
           (s \o t)[k] = IF k <= m THEN s[k] ELSE t[k - m]
  <2>1. /\ s \o t \in Seq(Nat)
        /\ Len(s \o t) = Len(s) + Len(t)
        /\ \A i \in 1 .. Len(s) + Len(t) :
             (s \o t)[i] = IF i <= Len(s) THEN s[i] ELSE t[i - Len(s)]
    BY ConcatProperties
  <2> QED
    BY <1>2, <1>3, <2>1
<1>6. ASSUME NEW k \in 1 .. m + n PROVE (s \o t)[k] = from + k
  <2>1. CASE k <= m
    <3>0. k \in 1 .. m
      BY <2>1
    <3>1. (s \o t)[k] = s[k]
      BY <1>5, <2>1, Zenon
    <3> QED
      BY <1>2, <3>0, <3>1
  <2>2. CASE k > m
    <3>1. (s \o t)[k] = t[k - m] /\ k - m \in 1 .. n
      BY <1>5, <2>2
    <3>2. t[k - m] = from + m + (k - m)
      BY <1>3, <3>1
    <3>3. from + m + (k - m) = from + k
      OBVIOUS
    <3> QED
      BY <3>1, <3>2, <3>3
  <2>3. k <= m \/ k > m
    OBVIOUS
  <2> QED
    BY <2>1, <2>2, <2>3, Zenon
<1>7. s \o t = u
  BY <1>4, <1>5, <1>6, SeqEqual
<1> QED
  BY <1>2, <1>3, <1>4, <1>7 DEF Joined

LEMMA StretchBegins ==
    ASSUME NEW from \in Nat, NEW n \in Nat, NEW m \in 0 .. n
    PROVE  SubSeq(Stretch(from, n), 1, m) = Stretch(from, m)
<1>1. m \in Nat
  OBVIOUS
<1>2. /\ Stretch(from, n) \in Seq(Nat) /\ Len(Stretch(from, n)) = n
      /\ \A k \in 1 .. n : Stretch(from, n)[k] = from + k
  BY StretchSeq
<1>3. /\ Stretch(from, m) \in Seq(Nat) /\ Len(Stretch(from, m)) = m
      /\ \A k \in 1 .. m : Stretch(from, m)[k] = from + k
  BY <1>1, StretchSeq
<1> DEFINE first == SubSeq(Stretch(from, n), 1, m)
<1>4. first \in Seq(Nat) /\ Len(first) = m
      /\ \A k \in 1 .. m : first[k] = from + k
  BY <1>2
<1> HIDE DEF first
<1>5. first = Stretch(from, m)
  BY <1>1, <1>3, <1>4, SeqEqual
<1> QED
  BY <1>5 DEF first

(* What a round has not sent yet begins where the last write ended, whichever *)
(* buffer that is in.                                                         *)
LEMMA WritesTheRest ==
    ASSUME NEW iov, iov.first \in 1 .. Len(Parts), iov.last \in 1 .. Len(Parts),
           iov.first <= iov.last, NEW written \in Nat,
           written < Before[iov.last + 1] - Before[iov.first]
    PROVE  Writing(iov, written)
             = Stretch(Before[iov.first] + written,
                       Before[iov.last + 1] - Before[iov.first] - written)
<1> DEFINE N == Len(Parts)
<1>1. N \in Nat
  BY CallConstants
<1>2. PICK a \in 1 .. N, z \in 1 .. N : a = iov.first /\ z = iov.last /\ a <= z
  OBVIOUS
<1>3. /\ \A n \in 1 .. N + 1 : Before[n] \in Nat
      /\ \A n \in 1 .. N : Before[n + 1] = Before[n] + Parts[n] /\ Parts[n] \in Nat
  BY BeforeAdds
<1> DEFINE Over == {i \in Nat : i \in a .. z /\ Skipped(iov, i + 1) > written}
<1>4. z \in Over
  BY <1>1, <1>2 DEF Skipped
<1>5. PICK i \in Over : \A j \in Over : i <= j
  BY <1>4, LeastNatural
<1>6. i \in a .. z /\ i \in 1 .. N /\ i + 1 \in 1 .. N + 1
  BY <1>1, <1>2, <1>5
<1>7. ASSUME NEW j \in a .. i PROVE Skipped(iov, j) <= written
  <2>1. CASE j = a
    <3>1. Before[a] \in Nat
      BY <1>1, <1>2, <1>3
    <3> QED
      BY <1>2, <2>1, <3>1 DEF Skipped
  <2>2. CASE j # a
    <3>1. j - 1 \in a .. z /\ j - 1 \in Nat /\ ~(i <= j - 1) /\ j - 1 + 1 = j
      BY <1>2, <1>6, <2>2
    <3>2. j - 1 \notin Over
      BY <1>5, <3>1
    <3>3. ~(Skipped(iov, j) > written)
      BY <3>1, <3>2
    <3>4. j \in 1 .. N + 1 /\ a \in 1 .. N + 1
      BY <1>1, <1>2, <1>6
    <3>5. Skipped(iov, j) \in Int
      BY <1>2, <1>3, <3>4 DEF Skipped
    <3> QED
      BY <3>3, <3>5
  <2> QED
    BY <2>1, <2>2
<1> DEFINE Unsent(x) == /\ Skipped(iov, x + 1) > written
                        /\ \A j \in iov.first .. x : Skipped(iov, j) <= written
<1>8. i \in iov.first .. iov.last /\ Unsent(i)
  BY <1>2, <1>5, <1>6, <1>7
<1>9. PICK u : u = FirstUnsent(iov, written)
  OBVIOUS
<1>10. u \in iov.first .. iov.last /\ Unsent(u)
  <2>1. u = CHOOSE x \in iov.first .. iov.last : Unsent(x)
    BY <1>9, Zenon DEF FirstUnsent
  <2> HIDE DEF Unsent
  <2> QED
    BY <1>8, <2>1, Zenon
<1>11. /\ u \in 1 .. N /\ u + 1 \in 1 .. N + 1 /\ z + 1 \in 1 .. N + 1
       /\ a \in 1 .. N + 1 /\ u \in 1 .. N + 1 /\ u + 1 <= z + 1
  BY <1>1, <1>2, <1>10
<1>12. PICK ba \in Nat, bu \in Nat, bz \in Nat, pu \in Nat :
         ba = Before[a] /\ bu = Before[u] /\ bz = Before[z + 1] /\ pu = Parts[u]
  BY <1>3, <1>11
<1>13. Before[u + 1] = bu + pu
  BY <1>3, <1>11, <1>12
<1>14. bu - ba + pu > written /\ bu + pu <= bz
  <2>1. Skipped(iov, u + 1) > written
    BY <1>10
  <2>2. Before[u + 1] - ba > written
    BY <1>2, <1>12, <2>1 DEF Skipped
  <2>3. Before[u + 1] <= Before[z + 1]
    BY <1>11, BeforeGrows
  <2> QED
    BY <1>12, <1>13, <2>2, <2>3
<1>15. Skipped(iov, u) = bu - ba
  BY <1>2, <1>12 DEF Skipped
<1>16. PICK from \in Nat, rest \in Nat, others \in Nat, end \in Nat :
         /\ from = ba + written /\ end = bu + pu
         /\ rest = bu - ba + pu - written /\ others = bz - (bu + pu)
  BY <1>14
<1>17. Others(iov, u + 1) = Stretch(end, others)
  BY <1>2, <1>12, <1>13, <1>16 DEF Others
<1>18. Writing(iov, written) = Joined(Stretch(from, rest), Stretch(end, others))
  <2>0. bu - ba + pu - written = rest /\ bu + pu - rest = from
    BY <1>16
  <2>1. Skipped(iov, u) + Parts[u] - written = rest
        /\ Before[u] + Parts[u] - rest = from
    BY <1>12, <1>15, <2>0, Zenon
  <2>2. Writing(iov, written)
          = Joined(Stretch(Before[u] + Parts[u]
                             - (Skipped(iov, u) + Parts[u] - written),
                           Skipped(iov, u) + Parts[u] - written),
                   Others(iov, u + 1))
    BY <1>9, Zenon DEF Writing, Joined
  <2> QED
    BY <1>17, <2>1, <2>2
<1>19. PICK all \in Nat : all = rest + others
  OBVIOUS
<1>20. end = from + rest /\ all = bz - ba - written
  BY <1>16, <1>19
<1>21. Joined(Stretch(from, rest), Stretch(end, others)) = Stretch(from, all)
  BY <1>19, <1>20, StretchExtends
<1> QED
  BY <1>2, <1>12, <1>16, <1>18, <1>20, <1>21

LEMMA RequestSizeNatural == RequestSize \in Nat /\ Len(Parts) \in Nat \ {0}
<1>1. Len(Parts) \in Nat \ {0}
  BY CallConstants
<1>2. Len(Parts) + 1 \in 1 .. Len(Parts) + 1
  BY <1>1
<1> QED
  BY <1>1, <1>2, BeforeAdds DEF RequestSize

CallTyped ==
    /\ call \in [at : {"connect", "write", "status", "header", "body", "returned"},
                 iov : [first : Nat, last : Nat], next : Nat, bytes_written : Nat,
                 done : Nat, read : Nat, header : HeaderSizes,
                 result : {"none", "answered", "failed to connect",
                           "failed to write", "failed to read", "killed"}]
    /\ (call.at = "returned") <=> (call.result # "none")
    /\ answered \in Nat /\ alive \in BOOLEAN /\ late \in BOOLEAN

(* A round's buffers are some of the request's, and the round sends no more.  *)
RoundIsOfRequest ==
    /\ call.iov.first \in 1 .. Len(Parts) /\ call.iov.last \in 0 .. Len(Parts)
    /\ call.iov.first <= call.iov.last + 1
    /\ call.at = "write" => /\ call.next = call.iov.last + 1
                            /\ call.iov.last \in 1 .. Len(Parts)
    /\ call.bytes_written \in 0 .. RoundSize

(* What the daemon has got is the request as far as it has been written.      *)
SentSoFar ==
    /\ \E n \in 0 .. RequestSize : received = Stretch(0, n)
    /\ call.at = "connect" => received = Stretch(0, 0)
    /\ call.at = "write" =>
         received = Stretch(0, Before[call.iov.first] + call.bytes_written)
    /\ call.at \in {"status", "header", "body"} => received = WholeRequest
    /\ call.result = "answered" => received = WholeRequest

(* What was read is the answer as far as the reading has come.                *)
ReadSoFar ==
    /\ call.read <= answered /\ answered <= AnswerSize
    /\ call.at \in {"connect", "write"} => call.read = 0
    /\ call.at = "status" => call.read = call.done
    /\ call.at = "header" => call.read = StatusSize + call.done
    /\ call.at = "body" => call.read = StatusSize + call.header + call.done
    /\ call.result = "answered" => call.read = AnswerSize

CallInv == CallTyped /\ RoundIsOfRequest /\ SentSoFar /\ ReadSoFar

LEMMA CallStarts == CallInit => CallInv
<1> SUFFICES ASSUME CallInit PROVE CallInv
  OBVIOUS
<1>1. PICK header \in HeaderSizes :
        call = [at |-> "connect", iov |-> [first |-> 1, last |-> 0], next |-> 1,
                bytes_written |-> 0, done |-> 0, read |-> 0, header |-> header,
                result |-> "none"]
  BY DEF CallInit
<1>2. /\ received = <<>> /\ answered = 0 /\ alive = TRUE /\ late = FALSE
  BY DEF CallInit
<1>3. CallTyped
  BY <1>1, <1>2 DEF CallTyped
<1>4. RoundIsOfRequest
  <2>1. Before[1] = 0
    BY BeforeAdds
  <2>2. RoundSize = 0
    BY <1>1, <2>1 DEF RoundSize, Skipped
  <2> QED
    BY <1>1, <2>2, RequestSizeNatural DEF RoundIsOfRequest
<1>5. SentSoFar
  <2>1. Stretch(0, 0) = <<>>
    BY DEF Stretch
  <2> QED
    BY <1>1, <1>2, <2>1, RequestSizeNatural DEF SentSoFar
<1>6. ReadSoFar
  <2>1. header \in Nat /\ StatusSize \in Nat /\ BodySize \in Nat
    BY CallConstants
  <2> QED
    BY <1>1, <1>2, <2>1 DEF ReadSoFar, AnswerSize
<1> QED
  BY <1>3, <1>4, <1>5, <1>6 DEF CallInv

CallStates == {"connect", "write", "status", "header", "body", "returned"}
CallFails == {"failed to connect", "failed to write", "failed to read", "killed"}

(* A call that fails leaves everything as it is.                              *)
LEMMA FailureKeeps ==
    ASSUME CallInv, call.at # "returned", NEW result \in CallFails,
           call' = Return(result), UNCHANGED <<received, answered, alive, late>>
    PROVE  CallInv'
<1> USE DEF CallInv
<1>1. PICK q \in [at : CallStates, iov : [first : Nat, last : Nat], next : Nat,
                  bytes_written : Nat, done : Nat, read : Nat, header : HeaderSizes,
                  result : CallFails \union {"none", "answered"}] : q = call
  BY DEF CallTyped, CallStates, CallFails
<1>2. call' = [q EXCEPT !.at = "returned", !.result = result]
  BY <1>1 DEF Return
<1>3. /\ call'.at = "returned" /\ call'.result = result
      /\ call'.iov = call.iov /\ call'.bytes_written = call.bytes_written
      /\ call'.read = call.read /\ call'.header = call.header
      /\ result # "none" /\ result # "answered"
  BY <1>1, <1>2 DEF CallFails
<1>4. CallTyped'
  BY <1>1, <1>2, <1>3 DEF CallTyped, CallStates, CallFails
<1>5. RoundIsOfRequest'
  BY <1>3 DEF RoundIsOfRequest, RoundSize
<1>6. SentSoFar'
  BY <1>3 DEF SentSoFar
<1>7. ReadSoFar'
  BY <1>3 DEF ReadSoFar, AnswerSize
<1> QED
  BY <1>4, <1>5, <1>6, <1>7

(* A round that begins where the last one ended; behind the last one comes    *)
(* the answer.                                                                *)
LEMMA NextRoundKeeps ==
    ASSUME CallInv, call.at \in {"connect", "write"},
           NEW from \in 1 .. Len(Parts) + 1, received = Stretch(0, Before[from]),
           call' = NextRound(from), UNCHANGED <<received, answered, alive, late>>
    PROVE  CallInv'
<1> USE DEF CallInv
<1>1. PICK q \in [at : CallStates, iov : [first : Nat, last : Nat], next : Nat,
                  bytes_written : Nat, done : Nat, read : Nat, header : HeaderSizes,
                  result : CallFails \union {"none", "answered"}] : q = call
  BY DEF CallTyped, CallStates, CallFails
<1>2. PICK N \in Nat : N = Len(Parts) /\ N > 0
  BY RequestSizeNatural
<1>3. q.result = "none" /\ q.read = 0
  BY <1>1 DEF CallTyped, ReadSoFar
<1>4. \A n \in 1 .. N + 1 : Before[n] \in Nat
  BY <1>2, BeforeAdds
<1>5. CASE from > N
  <2>1. call' = [q EXCEPT !.at = "status", !.done = 0]
    BY <1>1, <1>2, <1>5 DEF NextRound
  <2>2. /\ call'.at = "status" /\ call'.done = 0 /\ call'.read = 0
        /\ call'.iov = call.iov /\ call'.bytes_written = call.bytes_written
        /\ call'.header = call.header /\ call'.result = "none"
    BY <1>1, <1>3, <2>1
  <2>3. CallTyped'
    BY <1>1, <2>1, <2>2 DEF CallTyped, CallStates, CallFails
  <2>4. RoundIsOfRequest'
    BY <2>2 DEF RoundIsOfRequest, RoundSize
  <2>5. from = N + 1
    BY <1>2, <1>5
  <2>6. received = WholeRequest
    BY <1>2, <2>5 DEF WholeRequest, RequestSize
  <2>7. SentSoFar'
    BY <2>2, <2>6 DEF SentSoFar
  <2>8. ReadSoFar'
    BY <2>2 DEF ReadSoFar, AnswerSize
  <2> QED
    BY <2>3, <2>4, <2>7, <2>8
<1>6. CASE ~(from > N)
  <2>0. PICK iovs \in Nat \ {0} : iovs = MaxIovs
    BY CallConstants
  <2>9. PICK end \in Nat : end = from + iovs - 1
    BY <1>2, <2>0
  <2>1. PICK to \in Nat : to = IF end < N THEN end ELSE N
    BY <1>2
  <2>2. from \in 1 .. N /\ to \in 1 .. N /\ from <= to /\ from \in Nat /\ to + 1 \in Nat
        /\ to + 1 \in 1 .. N + 1 /\ from \in 1 .. N + 1
    BY <1>2, <1>6, <2>0, <2>1, <2>9
  <2>3. call' = [q EXCEPT !.at = "write", !.iov = [first |-> from, last |-> to],
                          !.next = to + 1, !.bytes_written = 0]
    BY <1>1, <1>2, <1>6, <2>0, <2>1, <2>9 DEF NextRound
  <2>4. /\ call'.at = "write" /\ call'.iov = [first |-> from, last |-> to]
        /\ call'.next = to + 1 /\ call'.bytes_written = 0 /\ call'.read = 0
        /\ call'.header = call.header /\ call'.result = "none"
    BY <1>1, <1>3, <2>3
  <2>5. CallTyped'
    <3>1. PICK iov \in [first : Nat, last : Nat], next \in Nat :
            iov = [first |-> from, last |-> to] /\ next = to + 1
      BY <2>2
    <3>2. call' = [at |-> "write", iov |-> iov, next |-> next,
                   bytes_written |-> 0, done |-> q.done, read |-> q.read,
                   header |-> q.header, result |-> q.result]
      BY <1>1, <2>3, <3>1
    <3>3. call' \in [at : CallStates, iov : [first : Nat, last : Nat], next : Nat,
                     bytes_written : Nat, done : Nat, read : Nat,
                     header : HeaderSizes,
                     result : CallFails \union {"none", "answered"}]
      BY <1>1, <3>1, <3>2 DEF CallStates
    <3> QED
      BY <2>4, <3>3 DEF CallTyped, CallStates, CallFails
  <2>6. RoundIsOfRequest'
    <3>1. RoundSize' = Before[to + 1] - Before[from]
      BY <2>4 DEF RoundSize, Skipped
    <3>2. Before[from] <= Before[to + 1] /\ Before[from] \in Nat /\ Before[to + 1] \in Nat
      BY <1>2, <1>4, <2>2, BeforeGrows
    <3>3. 0 \in 0 .. (Before[to + 1] - Before[from])
      BY <3>2
    <3>4. 0 \in 0 .. RoundSize'
      BY <3>1, <3>3
    <3> QED
      BY <1>2, <2>2, <2>4, <3>4 DEF RoundIsOfRequest
  <2>7. SentSoFar'
    <3>1. Before[from] + 0 = Before[from]
      BY <1>4, <2>2
    <3> QED
      BY <2>4, <3>1 DEF SentSoFar
  <2>8. ReadSoFar'
    BY <2>4 DEF ReadSoFar, AnswerSize
  <2> QED
    BY <2>5, <2>6, <2>7, <2>8
<1> QED
  BY <1>5, <1>6

(* However much of what is left the kernel takes, it comes next.              *)
LEMMA WriteKeeps ==
    ASSUME CallInv, NEW count \in 1 .. RequestSize, WriteSome(count)
    PROVE  CallInv'
<1> USE DEF CallInv
<1>1. PICK q \in [at : CallStates, iov : [first : Nat, last : Nat], next : Nat,
                  bytes_written : Nat, done : Nat, read : Nat, header : HeaderSizes,
                  result : CallFails \union {"none", "answered"}] : q = call
  BY DEF CallTyped, CallStates, CallFails
<1>2. PICK N \in Nat : N = Len(Parts) /\ N > 0
  BY RequestSizeNatural
<1>3. /\ call.at = "write" /\ call.bytes_written # RoundSize
      /\ count \in 1 .. Len(Writing(call.iov, call.bytes_written))
      /\ received' = received \o
                       SubSeq(Writing(call.iov, call.bytes_written), 1, count)
      /\ call' = [call EXCEPT !.bytes_written = @ + count]
      /\ UNCHANGED <<answered, alive, late>>
  BY DEF WriteSome
<1>4. PICK a \in 1 .. N, z \in 1 .. N, w \in Nat :
        a = call.iov.first /\ z = call.iov.last /\ w = call.bytes_written /\ a <= z + 1
  BY <1>1, <1>2, <1>3 DEF RoundIsOfRequest
<1>5. /\ a \in 1 .. N + 1 /\ z + 1 \in 1 .. N + 1 /\ N + 1 \in 1 .. N + 1
      /\ z + 1 <= N + 1
  BY <1>2
<1>6. PICK ba \in Nat, bz \in Nat :
        /\ ba = Before[a] /\ bz = Before[z + 1] /\ ba <= bz /\ bz <= RequestSize
  <2>1. \A n \in 1 .. N + 1 : Before[n] \in Nat
    BY <1>2, BeforeAdds
  <2>2. Before[z + 1] <= Before[N + 1]
    BY <1>2, <1>5, BeforeGrows
  <2>3. Before[a] <= Before[z + 1]
    BY <1>2, <1>4, <1>5, BeforeGrows
  <2> QED
    BY <1>2, <1>5, <2>1, <2>2, <2>3 DEF RequestSize
<1>7. RoundSize = bz - ba /\ w < bz - ba
  <2>1. RoundSize = bz - ba
    BY <1>4, <1>6 DEF RoundSize, Skipped
  <2>2. w \in 0 .. RoundSize /\ w # RoundSize
    BY <1>3, <1>4 DEF RoundIsOfRequest
  <2> QED
    BY <1>6, <2>1, <2>2
<1>8. a <= z
  <2>1. a = z + 1 => ba = bz
    BY <1>6
  <2> QED
    BY <1>4, <1>6, <1>7, <2>1
<1>9. PICK left \in Nat, from \in Nat : left = bz - ba - w /\ from = ba + w
  BY <1>6, <1>7
<1>10. Writing(call.iov, call.bytes_written) = Stretch(from, left)
  <2>1. PICK iov : iov = call.iov
    OBVIOUS
  <2>2. w < Before[iov.last + 1] - Before[iov.first]
    BY <1>4, <1>6, <1>7, <2>1
  <2>3. iov.first \in 1 .. Len(Parts) /\ iov.last \in 1 .. Len(Parts)
        /\ iov.first <= iov.last
    BY <1>2, <1>4, <1>8, <2>1
  <2>4. Writing(iov, w) = Stretch(Before[iov.first] + w,
                                  Before[iov.last + 1] - Before[iov.first] - w)
    BY <2>2, <2>3, WritesTheRest
  <2> QED
    BY <1>4, <1>6, <1>9, <2>1, <2>4
<1>11. count \in 0 .. left /\ count \in Nat
  <2>1. Len(Stretch(from, left)) = left
    BY StretchSeq
  <2>2. count \in 1 .. left
    BY <1>3, <1>10, <2>1
  <2> QED
    BY <2>2
<1>12. received' = Stretch(0, from + count)
  <2>1. SubSeq(Writing(call.iov, call.bytes_written), 1, count) = Stretch(from, count)
    BY <1>10, <1>11, StretchBegins
  <2>2. received = Stretch(0, from)
    BY <1>3, <1>4, <1>6, <1>9 DEF SentSoFar
  <2>3. PICK start \in Nat : start = 0 /\ from = start + from
    OBVIOUS
  <2>4. PICK all \in Nat : all = from + count
    BY <1>11
  <2>5. Joined(Stretch(start, from), Stretch(from, count)) = Stretch(start, all)
    BY <1>11, <2>3, <2>4, StretchExtends
  <2> QED
    BY <1>3, <2>1, <2>2, <2>3, <2>4, <2>5 DEF Joined
<1>13. PICK more \in Nat : more = w + count
  BY <1>11
<1>14. call' = [q EXCEPT !.bytes_written = more]
  BY <1>1, <1>3, <1>4, <1>13
<1>15. /\ call'.at = "write" /\ call'.iov = call.iov /\ call'.next = call.next
       /\ call'.bytes_written = more /\ call'.read = call.read
       /\ call'.done = call.done /\ call'.header = call.header
       /\ call'.result = call.result
  BY <1>1, <1>3, <1>14
<1>16. CallTyped'
  BY <1>1, <1>3, <1>14, <1>15 DEF CallTyped, CallStates, CallFails
<1>17. RoundIsOfRequest'
  <2>1. RoundSize' = bz - ba
    BY <1>4, <1>6, <1>15 DEF RoundSize, Skipped
  <2>2. more \in 0 .. (bz - ba)
    BY <1>6, <1>7, <1>9, <1>11, <1>13
  <2>3. more \in 0 .. RoundSize'
    BY <2>1, <2>2
  <2> QED
    BY <1>3, <1>15, <2>3 DEF RoundIsOfRequest
<1>18. SentSoFar'
  <2>1. from + count = ba + more /\ from + count \in 0 .. RequestSize
    <3>1. PICK size \in Nat : size = RequestSize
      BY RequestSizeNatural
    <3>2. count \in Nat /\ count <= left
      BY <1>11
    <3>3. from + count <= bz /\ bz <= size
      BY <1>6, <1>7, <1>9, <3>1, <3>2
    <3> QED
      BY <1>9, <1>13, <3>1, <3>2, <3>3
  <2>2. call'.result = "none"
    BY <1>3, <1>15 DEF CallTyped
  <2>3. Before[call'.iov.first] + call'.bytes_written = from + count
    BY <1>4, <1>6, <1>15, <2>1
  <2>4. received' = Stretch(0, Before[call'.iov.first] + call'.bytes_written)
    BY <1>12, <2>3
  <2>5. \E n \in 0 .. RequestSize : received' = Stretch(0, n)
    BY <1>12, <2>1
  <2> QED
    BY <1>15, <2>2, <2>4, <2>5 DEF SentSoFar
<1>19. ReadSoFar'
  BY <1>3, <1>15 DEF ReadSoFar, AnswerSize
<1> QED
  BY <1>16, <1>17, <1>18, <1>19

(* Reading the answer.                                                        *)
LEMMA ReadingKeeps ==
    ASSUME CallInv, call.at \in {"status", "header", "body"},
           NEW at \in {"status", "header", "body"}, NEW done \in Nat, NEW read \in Nat,
           call' = [call EXCEPT !.at = at, !.done = done, !.read = read],
           read <= answered,
           at = "status" => read = done,
           at = "header" => read = StatusSize + done,
           at = "body" => read = StatusSize + call.header + done,
           UNCHANGED <<received, answered, alive, late>>
    PROVE  CallInv'
<1> USE DEF CallInv
<1>1. PICK q \in [at : CallStates, iov : [first : Nat, last : Nat], next : Nat,
                  bytes_written : Nat, done : Nat, read : Nat, header : HeaderSizes,
                  result : CallFails \union {"none", "answered"}] : q = call
  BY DEF CallTyped, CallStates, CallFails
<1>2. call' = [q EXCEPT !.at = at, !.done = done, !.read = read]
  BY <1>1
<1>3. /\ call'.at = at /\ call'.done = done /\ call'.read = read
      /\ call'.iov = call.iov /\ call'.bytes_written = call.bytes_written
      /\ call'.header = call.header /\ call'.result = call.result
  BY <1>1, <1>2
<1>4. call.result = "none"
  BY DEF CallTyped
<1>5. CallTyped'
  BY <1>1, <1>2, <1>3, <1>4 DEF CallTyped, CallStates, CallFails
<1>6. RoundIsOfRequest'
  BY <1>3 DEF RoundIsOfRequest, RoundSize
<1>7. SentSoFar'
  BY <1>3, <1>4 DEF SentSoFar
<1>8. ReadSoFar'
  BY <1>3, <1>4 DEF ReadSoFar, AnswerSize
<1> QED
  BY <1>5, <1>6, <1>7, <1>8

LEMMA StatusAndHeaderKeep ==
    ASSUME CallInv, NEW count \in 0 .. answered,
           ReadStatus(count) \/ ReadHeader(count) \/ ReadBody(count)
    PROVE  CallInv'
<1> USE DEF CallInv
<1>1. PICK q \in [at : CallStates, iov : [first : Nat, last : Nat], next : Nat,
                  bytes_written : Nat, done : Nat, read : Nat, header : HeaderSizes,
                  result : CallFails \union {"none", "answered"}] : q = call
  BY DEF CallTyped, CallStates, CallFails
<1>2. answered \in Nat /\ count \in Nat /\ count <= answered - q.read
      /\ UNCHANGED <<received, answered, alive, late>>
  <2>1. answered \in Nat
    BY DEF CallTyped
  <2>2. /\ count \in 0 .. (answered - call.read)
        /\ UNCHANGED <<received, answered, alive, late>>
    BY Zenon DEF ReadStatus, ReadHeader, ReadBody, Available
  <2> QED
    BY <1>1, <2>1, <2>2
<1>3. PICK done \in Nat, read \in Nat : done = q.done + count /\ read = q.read + count
  BY <1>1, <1>2
<1>4. PICK status \in Nat, header \in Nat : status = StatusSize /\ header = call.header
  BY <1>1, CallConstants
<1>5. ASSUME call.at \in {"status", "header", "body"},
             call' = [call EXCEPT !.done = @ + count, !.read = @ + count]
      PROVE  CallInv'
  <2>1. PICK at \in {"status", "header", "body"} : at = q.at
    BY <1>1, <1>5
  <2>2. call' = [q EXCEPT !.done = done, !.read = read]
    BY <1>1, <1>3, <1>5
  <2>3. call' = [q EXCEPT !.at = at, !.done = done, !.read = read]
    BY <1>1, <2>1, <2>2
  <2>4. read <= answered
    BY <1>1, <1>2, <1>3
  <2>5. /\ at = "status" => q.read = q.done
        /\ at = "header" => q.read = status + q.done
        /\ at = "body" => q.read = status + header + q.done
    BY <1>1, <1>4, <2>1 DEF ReadSoFar
  <2>6. /\ at = "status" => read = done
        /\ at = "header" => read = status + done
        /\ at = "body" => read = status + header + done
    BY <1>1, <1>3, <2>5
  <2>7. call' = [call EXCEPT !.at = at, !.done = done, !.read = read]
    BY <1>1, <2>3, Zenon
  <2> QED
    BY <1>2, <1>4, <1>5, <2>4, <2>6, <2>7, ReadingKeeps
<1>6. CASE ReadStatus(count) \/ ReadBody(count)
  BY <1>5, <1>6 DEF ReadStatus, ReadBody
<1>7. CASE ReadHeader(count)
  <2>1. call.at = "header"
    BY <1>7 DEF ReadHeader
  <2>2. CASE call' = Return("failed to read")
    <3>1. "failed to read" \in CallFails
      BY DEF CallFails
    <3> QED
      BY <1>2, <2>1, <2>2, <3>1, FailureKeeps
  <2>3. CASE call' = [call EXCEPT !.done = @ + count, !.read = @ + count]
    BY <1>5, <2>1, <2>3
  <2> QED
    BY <1>7, <2>2, <2>3 DEF ReadHeader
<1> QED
  BY <1>6, <1>7

(* The other steps of the reader: the next part of the answer, or giving up.  *)
LEMMA PartsReadKeep ==
    ASSUME CallInv, StatusRead \/ HeaderTimesOut \/ HeaderRead \/ BodyRead
    PROVE  CallInv'
<1> USE DEF CallInv
<1>1. PICK q \in [at : CallStates, iov : [first : Nat, last : Nat], next : Nat,
                  bytes_written : Nat, done : Nat, read : Nat, header : HeaderSizes,
                  result : CallFails \union {"none", "answered"}] : q = call
  BY DEF CallTyped, CallStates, CallFails
<1>2. /\ UNCHANGED <<received, answered, alive, late>> /\ answered \in Nat
      /\ call.at \in {"status", "header", "body"}
  BY DEF StatusRead, HeaderTimesOut, HeaderRead, BodyRead, CallTyped
<1>3. PICK status \in Nat, header \in Nat, body \in Nat :
        status = StatusSize /\ header = call.header /\ body = BodySize
  BY <1>1, CallConstants
<1>4. /\ q.read <= answered
      /\ q.at = "status" => q.read = q.done
      /\ q.at = "header" => q.read = status + q.done
      /\ q.at = "body" => q.read = status + header + q.done
  BY <1>1, <1>3 DEF ReadSoFar
<1>5. ASSUME call' = Return("failed to read") PROVE CallInv'
  <2>1. "failed to read" \in CallFails
    BY DEF CallFails
  <2>2. call.at # "returned"
    BY <1>2
  <2> QED
    BY <1>2, <1>5, <2>1, <2>2, FailureKeeps
<1>6. CASE StatusRead
  <2>1. CASE call.done = StatusSize /\ call' = [call EXCEPT !.at = "header", !.done = 0]
    <3>1. call' = [q EXCEPT !.at = "header", !.done = 0, !.read = q.read]
      BY <1>1, <2>1
    <3>4. q.at = "status" /\ q.done = status
      BY <1>1, <1>3, <1>6, <2>1 DEF StatusRead
    <3>2. q.read = status + 0 /\ q.read \in Nat
      BY <1>1, <1>3, <1>4, <3>4
    <3>3. call' = [call EXCEPT !.at = "header", !.done = 0, !.read = q.read]
      BY <1>1, <3>1, Zenon
    <3> QED
      BY <1>2, <1>3, <1>4, <3>2, <3>3, ReadingKeeps
  <2> QED
    BY <1>5, <1>6, <2>1 DEF StatusRead, AllRead
<1>7. CASE HeaderTimesOut
  BY <1>5, <1>7 DEF HeaderTimesOut
<1>8. CASE HeaderRead
  <2>1. q.at = "header" /\ q.done >= header /\ header \in Nat
    BY <1>1, <1>3, <1>8 DEF HeaderRead
  <2>2. PICK done \in Nat : done = q.done - header
    BY <1>1, <2>1
  <2>3. call' = [q EXCEPT !.at = "body", !.done = done, !.read = q.read]
    BY <1>1, <1>3, <1>8, <2>2 DEF HeaderRead
  <2>4. q.read = status + header + done /\ q.read \in Nat
    BY <1>1, <1>4, <2>1, <2>2
  <2>5. call' = [call EXCEPT !.at = "body", !.done = done, !.read = q.read]
    BY <1>1, <2>3, Zenon
  <2> QED
    BY <1>2, <1>3, <1>4, <2>4, <2>5, ReadingKeeps
<1>9. CASE BodyRead
  <2>1. CASE call.done = BodySize /\ call' = Return("answered")
    <3>1. call' = [q EXCEPT !.at = "returned", !.result = "answered"]
      BY <1>1, <2>1 DEF Return
    <3>2. /\ call'.at = "returned" /\ call'.result = "answered"
          /\ call'.iov = call.iov /\ call'.bytes_written = call.bytes_written
          /\ call'.read = call.read /\ call'.header = call.header
      BY <1>1, <3>1
    <3>3. CallTyped'
      BY <1>1, <1>2, <3>1, <3>2 DEF CallTyped, CallStates, CallFails
    <3>4. RoundIsOfRequest'
      BY <3>2 DEF RoundIsOfRequest, RoundSize
    <3>5. received = WholeRequest
      BY <1>2 DEF SentSoFar
    <3>6. SentSoFar'
      BY <1>2, <3>2, <3>5 DEF SentSoFar, WholeRequest
    <3>7. call.read = AnswerSize
      <4>1. q.at = "body" /\ q.done = body
        BY <1>1, <1>3, <1>9, <2>1 DEF BodyRead
      <4> QED
        BY <1>1, <1>3, <1>4, <4>1 DEF AnswerSize
    <3>8. ReadSoFar'
      BY <1>2, <3>2, <3>7 DEF ReadSoFar, AnswerSize
    <3> QED
      BY <3>3, <3>4, <3>6, <3>8
  <2> QED
    BY <1>5, <1>9, <2>1 DEF BodyRead, AllRead
<1> QED
  BY <1>6, <1>7, <1>8, <1>9

LEMMA CallSteps == CallInv /\ [CallNext]_callVars => CallInv'
<1> SUFFICES ASSUME CallInv, [CallNext]_callVars PROVE CallInv'
  OBVIOUS
<1>1. ASSUME NEW count \in 1 .. RequestSize, WriteSome(count) PROVE CallInv'
  BY <1>1, WriteKeeps
<1>2. CASE OpenConnectionTo
  <2>1. call.at = "connect" /\ UNCHANGED <<received, answered, alive, late>>
    BY <1>2 DEF OpenConnectionTo
  <2>2. CASE call' = Return("failed to connect")
    <3>1. "failed to connect" \in CallFails
      BY DEF CallFails
    <3> QED
      BY <2>1, <2>2, <3>1, FailureKeeps
  <2>3. CASE call' = NextRound(1)
    <3>1. 1 \in 1 .. Len(Parts) + 1
      BY RequestSizeNatural
    <3>2. received = Stretch(0, Before[1])
      BY <2>1, BeforeAdds DEF CallInv, SentSoFar
    <3> QED
      BY <2>1, <2>3, <3>1, <3>2, NextRoundKeeps
  <2> QED
    BY <1>2, <2>2, <2>3 DEF OpenConnectionTo
<1>3. CASE RoundWritten
  <2>1. /\ call.at = "write" /\ call.bytes_written = RoundSize
        /\ call' = NextRound(call.next) /\ UNCHANGED <<received, answered, alive, late>>
    BY <1>3 DEF RoundWritten
  <2>2. PICK N \in Nat : N = Len(Parts) /\ N > 0
    BY RequestSizeNatural
  <2>3. PICK a \in 1 .. N, z \in 1 .. N : a = call.iov.first /\ z = call.iov.last
    BY <2>1, <2>2 DEF CallInv, RoundIsOfRequest
  <2>4. a \in 1 .. N + 1 /\ z + 1 \in 1 .. N + 1
    BY <2>2
  <2>5. PICK ba \in Nat, bz \in Nat : ba = Before[a] /\ bz = Before[z + 1]
    BY <2>2, <2>4, BeforeAdds
  <2>6. call.bytes_written = bz - ba
    BY <2>1, <2>3, <2>5 DEF RoundSize, Skipped
  <2>7. ba + (bz - ba) = bz
    BY <2>5
  <2>8. received = Stretch(0, ba + (bz - ba))
    BY <2>1, <2>3, <2>5, <2>6 DEF CallInv, SentSoFar
  <2>9. received = Stretch(0, Before[z + 1])
    BY <2>5, <2>7, <2>8
  <2>10. PICK from \in 1 .. N + 1 : from = z + 1 /\ call.next = from
    BY <2>1, <2>3, <2>4 DEF CallInv, RoundIsOfRequest
  <2> QED
    BY <2>1, <2>2, <2>9, <2>10, NextRoundKeeps
<1>4. CASE WriteFails
  <2>1. /\ call.at # "returned" /\ UNCHANGED <<received, answered, alive, late>>
        /\ \/ call' = Return("failed to write") \/ call' = Return("killed")
    BY <1>4 DEF WriteFails
  <2>2. "failed to write" \in CallFails /\ "killed" \in CallFails
    BY DEF CallFails
  <2> QED
    BY <2>1, <2>2, FailureKeeps
<1>5. ASSUME NEW count \in 0 .. answered,
             ReadStatus(count) \/ ReadHeader(count) \/ ReadBody(count)
      PROVE  CallInv'
  BY <1>5, StatusAndHeaderKeep
<1>6. CASE StatusRead \/ HeaderTimesOut \/ HeaderRead \/ BodyRead
  BY <1>6, PartsReadKeep
<1>7. ASSUME UNCHANGED <<call, received>>, answered' \in Nat, answered <= answered',
             answered' <= AnswerSize, alive' \in BOOLEAN, late' \in BOOLEAN
      PROVE  CallInv'
  <2>1. CallTyped' /\ RoundIsOfRequest' /\ SentSoFar'
    BY <1>7 DEF CallInv, CallTyped, RoundIsOfRequest, RoundSize, SentSoFar
  <2>2. call.read \in Nat /\ answered \in Nat /\ call.read <= answered
    BY DEF CallInv, CallTyped, ReadSoFar
  <2>3. call.read <= answered'
    BY <1>7, <2>2
  <2>4. ReadSoFar'
    BY <1>7, <2>3 DEF CallInv, ReadSoFar, AnswerSize
  <2> QED
    BY <2>1, <2>4 DEF CallInv
<1>8. answered \in Nat /\ alive \in BOOLEAN /\ late \in BOOLEAN /\ answered <= AnswerSize
      /\ answered <= answered
  <2>1. answered \in Nat /\ alive \in BOOLEAN /\ late \in BOOLEAN
    BY DEF CallInv, CallTyped
  <2>2. answered <= AnswerSize
    BY Zenon DEF CallInv, ReadSoFar
  <2> QED
    BY <2>1, <2>2
<1>9. PICK size \in Nat : size = AnswerSize
  <2>1. call.header \in HeaderSizes
    BY DEF CallInv, CallTyped
  <2>2. PICK status \in Nat, header \in Nat, body \in Nat :
          status = StatusSize /\ header = call.header /\ body = BodySize
    BY <2>1, CallConstants
  <2>3. status + header + body \in Nat
    OBVIOUS
  <2> QED
    BY <2>2, <2>3 DEF AnswerSize
<1>10. ASSUME NEW count \in 1 .. AnswerSize, DaemonAnswers(count) PROVE CallInv'
  <2>1. count \in 1 .. (size - answered) /\ answered' = answered + count
        /\ UNCHANGED <<call, received, alive, late>>
    BY <1>9, <1>10 DEF DaemonAnswers
  <2>2. answered' \in Nat /\ answered <= answered' /\ answered' <= size
    BY <1>8, <1>9, <2>1
  <2> QED
    BY <1>7, <1>8, <1>9, <2>1, <2>2
<1>11. CASE DaemonCloses \/ DeadlinePasses \/ UNCHANGED callVars
  BY <1>7, <1>8, <1>11 DEF DaemonCloses, DeadlinePasses, callVars
<1> QED
  BY <1>1, <1>2, <1>3, <1>4, <1>5, <1>6, <1>10, <1>11 DEF CallNext, CallStep

(* What CallInv says of the daemon's side and of the caller's.                *)
LEMMA CallIntact == CallInv => CallTypeOK /\ RequestIntact /\ AnswerWhole
<1> SUFFICES ASSUME CallInv PROVE CallTypeOK /\ RequestIntact /\ AnswerWhole
  OBVIOUS
<1> USE DEF CallInv
<1>1. CallTypeOK
  <2>1. PICK q \in [at : CallStates, iov : [first : Nat, last : Nat], next : Nat,
                    bytes_written : Nat, done : Nat, read : Nat,
                    header : HeaderSizes,
                    result : CallFails \union {"none", "answered"}] : q = call
    BY DEF CallTyped, CallStates, CallFails
  <2>2. PICK size \in Nat : size = AnswerSize
    <3>1. PICK status \in Nat, header \in Nat, body \in Nat :
            status = StatusSize /\ header = call.header /\ body = BodySize
      BY <2>1, CallConstants
    <3>2. status + header + body \in Nat
      OBVIOUS
    <3> QED
      BY <3>1, <3>2 DEF AnswerSize
  <2>3. answered \in Nat /\ q.read <= answered /\ answered <= size
    <3>1. answered \in Nat
      BY DEF CallTyped
    <3>2. call.read <= answered /\ answered <= AnswerSize
      BY Zenon DEF ReadSoFar
    <3> QED
      BY <2>1, <2>2, <3>1, <3>2
  <2>4. call.read \in 0 .. answered /\ answered \in 0 .. AnswerSize
    BY <2>1, <2>2, <2>3
  <2>5. call.bytes_written \in 0 .. RoundSize
    BY Zenon DEF RoundIsOfRequest
  <2>6. (call.at = "returned") <=> (call.result # "none")
    BY DEF CallTyped
  <2>7. alive \in BOOLEAN /\ late \in BOOLEAN
    BY DEF CallTyped
  <2>8. /\ call.at \in {"connect", "write", "status", "header", "body", "returned"}
        /\ call.result \in {"none", "answered", "failed to connect",
                            "failed to write", "failed to read", "killed"}
    BY <2>1 DEF CallStates, CallFails
  <2> QED
    BY <2>4, <2>5, <2>6, <2>7, <2>8 DEF CallTypeOK
<1>2. RequestIntact
  <2>1. PICK size \in Nat : size = RequestSize
    BY RequestSizeNatural
  <2>2. PICK n \in 0 .. size : received = Stretch(0, n)
    BY <2>1 DEF SentSoFar
  <2>3. PICK start \in Nat : start = 0
    OBVIOUS
  <2>4. n \in Nat /\ n <= size /\ n \in 0 .. n
    BY <2>1, <2>2
  <2>5. Len(received) = n
    BY <2>2, <2>3, <2>4, StretchSeq
  <2>6. Len(WholeRequest) = size
    BY <2>1, <2>3, StretchSeq DEF WholeRequest
  <2>7. SubSeq(received, 1, n) = Stretch(start, n)
    BY <2>2, <2>3, <2>4, StretchBegins
  <2>8. SubSeq(WholeRequest, 1, n) = Stretch(start, n)
    BY <2>1, <2>2, <2>3, StretchBegins DEF WholeRequest
  <2>9. IsPrefix(received, WholeRequest)
    BY <2>4, <2>5, <2>6, <2>7, <2>8 DEF IsPrefix
  <2> QED
    BY <2>9 DEF RequestIntact, SentSoFar
<1>3. AnswerWhole
  BY DEF AnswerWhole, SentSoFar, ReadSoFar
<1> QED
  BY <1>1, <1>2, <1>3

(* No pipe holds more than it can, and nobody counts more than there is.      *)
ChildBounds ==
    /\ parent.bytes["in"] <= InputSize
    /\ \A s \in Outputs : child.bytes[s] <= OutputSize
    /\ \A s \in Streams : pipe[s] \in 0 .. PipeSize

LEMMA BoundsStart == ChildInit => ChildBounds
<1>1. InputSize \in Nat /\ OutputSize \in Nat /\ PipeSize \in Nat
  BY ChildConstants
<1> QED
  BY <1>1 DEF ChildInit, ChildBounds, Streams, Outputs

LEMMA HandledBytes ==
    ASSUME ChildTyped, NEW s \in Streams, NEW done \in BOOLEAN, NEW count \in Nat,
           Handled(s, done, count)
    PROVE  /\ parent'.bytes[s] = parent.bytes[s] + count
           /\ \A u \in Streams : u # s => parent'.bytes[u] = parent.bytes[u]
<1>1. PICK n : n = parent.bytes[s] + count
  OBVIOUS
<1>2. parent' = [parent EXCEPT !.revents = @ \ {s},
                              !.at = IF parent.revents = {s} THEN "poll" ELSE @,
                              !.done = IF done THEN @ \union {s} ELSE @,
                              !.bytes[s] = n]
  BY <1>1 DEF Handled
<1>3. PICK bytes \in [Streams -> Nat] : bytes = parent.bytes
  BY DEF ChildTyped
<1>4. parent'.bytes = [bytes EXCEPT ![s] = n]
  BY <1>2, <1>3 DEF ChildTyped
<1> QED
  BY <1>1, <1>3, <1>4

LEMMA BoundsStep == ChildInv /\ ChildBounds /\ [ChildNext]_childVars => ChildBounds'
<1> SUFFICES ASSUME ChildInv, ChildBounds, [ChildNext]_childVars PROVE ChildBounds'
  OBVIOUS
<1>1. PICK size \in Nat, output \in Nat, room \in Nat :
        size = InputSize /\ output = OutputSize /\ room = PipeSize
  BY ChildConstants
<1>2. ChildTyped
  BY DEF ChildInv
<1>3. PICK i \in Int, o \in Int, e \in Int : pipe = [in |-> i, out |-> o, err |-> e]
  BY <1>2 DEF ChildTyped
<1>4. PICK q \in [Streams -> Nat], c \in [Streams -> Nat] :
        q = parent.bytes /\ c = child.bytes
  BY <1>2 DEF ChildTyped
<1>5. Streams = {"in", "out", "err"} /\ Outputs = {"out", "err"}
  BY DEF Streams, Outputs
<1>6. /\ i \in 0 .. room /\ o \in 0 .. room /\ e \in 0 .. room
      /\ q["in"] <= size /\ c["out"] <= output /\ c["err"] <= output
      /\ q["in"] \in Nat /\ c["out"] \in Nat /\ c["err"] \in Nat
  BY <1>1, <1>3, <1>4, <1>5 DEF ChildBounds
<1>7. ASSUME parent'.bytes["in"] = parent.bytes["in"],
             child'.bytes = child.bytes, pipe' = pipe
      PROVE  ChildBounds'
  BY <1>7 DEF ChildBounds
<1>8. ASSUME NEW s \in Streams, NEW done \in BOOLEAN, NEW count \in Nat,
             Handled(s, done, count)
      PROVE  /\ parent'.bytes[s] = parent.bytes[s] + count
             /\ \A u \in Streams : u # s => parent'.bytes[u] = parent.bytes[u]
  BY <1>2, <1>8, HandledBytes
<1>9. CASE Poll
  <2>1. parent'.bytes = parent.bytes /\ UNCHANGED <<child, pipe>>
    BY <1>2, <1>9 DEF Poll, ChildTyped
  <2> QED
    BY <1>7, <2>1
<1>10. ASSUME NEW count \in 1 .. PipeSize, WriteInput(count) PROVE ChildBounds'
  <2>1. /\ Handled("in", parent.bytes["in"] + count = InputSize, count)
        /\ pipe' = [pipe EXCEPT !.in = @ + count] /\ UNCHANGED child
        /\ count \in 1 .. (PipeSize - pipe.in)
        /\ parent.bytes["in"] + count <= InputSize
    BY <1>10 DEF WriteInput
  <2>2. PICK done \in BOOLEAN : done = (parent.bytes["in"] + count = InputSize)
    OBVIOUS
  <2>3. Handled("in", done, count)
    BY <2>1, <2>2, Zenon
  <2>4. count \in Nat /\ "in" \in Streams /\ i + count \in 0 .. room
        /\ q["in"] + count <= size
    BY <1>1, <1>3, <1>4, <1>5, <1>6, <2>1
  <2>5. parent'.bytes["in"] = q["in"] + count
    BY <1>4, <1>8, <2>3, <2>4
  <2>6. pipe' = [in |-> i + count, out |-> o, err |-> e]
    BY <1>3, <2>1
  <2>7. \A s \in Streams : pipe'[s] \in 0 .. room
    BY <1>5, <1>6, <2>4, <2>6
  <2>8. \A s \in Outputs : child'.bytes[s] <= output
    BY <1>4, <1>5, <1>6, <2>1
  <2> QED
    BY <1>1, <2>4, <2>5, <2>7, <2>8 DEF ChildBounds
<1>11. CASE InputRefused
  <2>1. UNCHANGED <<child, pipe>>
    BY <1>11 DEF InputRefused
  <2>2. CASE parent' = [parent EXCEPT !.at = "killed"]
    <3>1. parent'.bytes = parent.bytes
      BY <1>2, <2>2 DEF ChildTyped
    <3> QED
      BY <1>7, <2>1, <3>1
  <2>3. CASE Handled("in", TRUE, 0)
    <3>1. parent'.bytes["in"] = q["in"] + 0
      BY <1>4, <1>5, <1>8, <2>3
    <3>2. parent'.bytes["in"] = parent.bytes["in"]
      BY <1>4, <1>6, <3>1
    <3> QED
      BY <1>7, <2>1, <3>2
  <2> QED
    BY <1>11, <2>2, <2>3 DEF InputRefused
<1>12. ASSUME NEW s \in Outputs, NEW count \in 0 .. PipeSize, ReadOutput(s, count)
       PROVE  ChildBounds'
  <2>1. /\ Handled(s, EndOfOutput(s), count)
        /\ pipe' = [pipe EXCEPT ![s] = @ - count] /\ UNCHANGED child
        /\ IF EndOfOutput(s) THEN count = 0 ELSE count \in 1 .. pipe[s]
    BY <1>12 DEF ReadOutput
  <2>2. PICK done \in BOOLEAN : done = EndOfOutput(s)
    BY DEF EndOfOutput
  <2>3. Handled(s, done, count)
    BY <2>1, <2>2, Zenon
  <2>4. count \in Nat /\ s \in Streams /\ s # "in" /\ "in" \in Streams
    BY <1>1, <1>5, <1>12
  <2>5. parent'.bytes["in"] = parent.bytes["in"]
    BY <1>8, <2>3, <2>4
  <2>6. PICK p \in Int : p = pipe[s] /\ p \in 0 .. room
    BY <1>3, <1>5, <1>6
  <2>7. p - count \in 0 .. room
    BY <2>1, <2>4, <2>6
  <2>8. /\ pipe'[s] = p - count
        /\ \A u \in Streams : u # s => pipe'[u] = pipe[u]
    BY <1>3, <1>5, <2>1, <2>6
  <2>9. \A u \in Streams : pipe'[u] \in 0 .. room
    BY <1>1, <2>7, <2>8 DEF ChildBounds
  <2> QED
    BY <1>1, <2>1, <2>5, <2>9 DEF ChildBounds
<1>13. CASE GetProgramExitCode
  <2>1. parent'.bytes = parent.bytes /\ UNCHANGED <<child, pipe>>
    BY <1>2, <1>13 DEF GetProgramExitCode, ChildTyped
  <2> QED
    BY <1>7, <2>1
<1>14. CASE ProgramReads
  <2>1. /\ child' = [child EXCEPT !.bytes["in"] = @ + 1]
        /\ pipe' = [pipe EXCEPT !.in = @ - 1] /\ pipe.in > 0 /\ UNCHANGED parent
    BY <1>14 DEF ProgramReads
  <2>2. \A s \in Outputs : child'.bytes[s] = child.bytes[s]
    BY <1>2, <1>5, <2>1 DEF ChildTyped
  <2>3. pipe' = [in |-> i - 1, out |-> o, err |-> e] /\ i - 1 \in 0 .. room
    BY <1>3, <1>6, <2>1
  <2>4. \A s \in Streams : pipe'[s] \in 0 .. room
    BY <1>5, <1>6, <2>3
  <2> QED
    BY <1>1, <2>1, <2>2, <2>4 DEF ChildBounds
<1>15. ASSUME NEW s \in Outputs, ProgramWrites(s) PROVE ChildBounds'
  <2>1. /\ child' = [child EXCEPT !.bytes[s] = @ + 1]
        /\ pipe' = [pipe EXCEPT ![s] = @ + 1] /\ UNCHANGED parent
        /\ child.bytes[s] < OutputSize /\ pipe[s] < PipeSize
    BY <1>15 DEF ProgramWrites
  <2>2. s \in Streams
    BY <1>5
  <2>3. /\ child'.bytes[s] = c[s] + 1 /\ c[s] + 1 <= output
        /\ \A u \in Outputs : u # s => child'.bytes[u] = child.bytes[u]
    BY <1>1, <1>2, <1>4, <1>5, <2>1, <2>2 DEF ChildTyped
  <2>4. PICK p \in Int : p = pipe[s] /\ p \in 0 .. room
    BY <1>3, <1>5, <1>6
  <2>5. p + 1 \in 0 .. room
    BY <1>1, <2>1, <2>4
  <2>6. /\ pipe'[s] = p + 1
        /\ \A u \in Streams : u # s => pipe'[u] = pipe[u]
    BY <1>3, <1>5, <2>1, <2>4
  <2>7. \A u \in Streams : pipe'[u] \in 0 .. room
    BY <1>1, <2>5, <2>6 DEF ChildBounds
  <2>8. \A u \in Outputs : child'.bytes[u] <= output
    BY <1>1, <2>3 DEF ChildBounds
  <2> QED
    BY <1>1, <2>1, <2>7, <2>8 DEF ChildBounds
<1>16. ASSUME NEW how, \/ ProgramEnds(how) \/ ProgramClosesInput PROVE ChildBounds'
  <2>1. UNCHANGED <<parent, pipe>>
    BY <1>16 DEF ProgramEnds, ProgramClosesInput
  <2>2. child'.bytes = child.bytes
    BY <1>2, <1>16 DEF ProgramEnds, ProgramClosesInput, ChildTyped
  <2> QED
    BY <1>7, <2>1, <2>2
<1>17. CASE UNCHANGED childVars
  BY <1>7, <1>17 DEF childVars
<1> QED
  BY <1>9, <1>10, <1>11, <1>12, <1>13, <1>14, <1>15, <1>16, <1>17
  DEF ChildNext, LoopStep, ProgramStep

LEMMA ChildIntact == ChildInv /\ ChildBounds => ChildTypeOK /\ OutputComplete
<1> SUFFICES ASSUME ChildInv, ChildBounds PROVE ChildTypeOK /\ OutputComplete
  OBVIOUS
<1>1. /\ parent.at \in {"poll", "handle", "done", "aborted", "killed"}
      /\ parent.done \subseteq Streams /\ parent.revents \subseteq Streams
      /\ child.closed \subseteq Streams
      /\ parent.bytes \in [Streams -> Nat] /\ child.bytes \in [Streams -> Nat]
  BY DEF ChildInv, ChildTyped
<1>2. /\ parent.bytes["in"] \in Nat
      /\ \A s \in Outputs : child.bytes[s] \in Nat
  BY <1>1 DEF Streams, Outputs
<1>3. PICK size \in Nat, output \in Nat : size = InputSize /\ output = OutputSize
  BY ChildConstants
<1>4. /\ parent.bytes["in"] \in 0 .. size
      /\ \A s \in Outputs : child.bytes[s] \in 0 .. output
      /\ \A s \in Streams : pipe[s] \in 0 .. PipeSize
  BY <1>2, <1>3 DEF ChildBounds
<1> QED
  BY <1>1, <1>3, <1>4 DEF ChildTypeOK, ChildInv

(* However the kernel cuts what the wrapper writes and reads, with any number *)
(* of buffers of any size, an answer of any size, any header limit and any    *)
(* pipes, and whoever dies or is late: the daemon gets the request in order   *)
(* and whole before an answer is read, an answer is the whole one             *)
(* (daemon_call.cc), and a program's output is complete (command.cc).         *)
THEOREM IoIntactCorrect == IoSpec => []IoIntact
<1> DEFINE Inv == CallInv /\ ChildInv /\ ChildBounds
           Step == \/ CallNext /\ UNCHANGED childVars
                   \/ ChildNext /\ UNCHANGED callVars
<1>1. CallInit /\ ChildInit => Inv
  BY CallStarts, ChildStart, BoundsStart
<1>2. Inv /\ [Step]_<<callVars, childVars>> => Inv'
  <2>1. [Step]_<<callVars, childVars>> =>
          [CallNext]_callVars /\ [ChildNext]_childVars
    OBVIOUS
  <2> QED
    BY <2>1, CallSteps, ChildStep, BoundsStep
<1>3. Inv => IoIntact
  BY CallIntact, ChildIntact DEF IoIntact
<1> QED
  BY <1>1, <1>2, <1>3, PTL DEF IoSpec
=============================================================================
