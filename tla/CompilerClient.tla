--------------------------- MODULE CompilerClient -----------------------------
(* The compiler wrapper: src/yadcc/client/cxx (yadcc-cxx.cc, rewrite_file.cc, *)
(* compilation_saas.cc) and client/common/task_quota.cc, with the part of the *)
(* delegate daemon it talks to: its quota of local tasks (LocalTaskMonitor),  *)
(* its digests of compilers and its tasks.                                    *)
(*                                                                            *)
(* Every process compiles one file.  It preprocesses it, has it compiled by   *)
(* the cloud, and compiles it here whenever that does not work out; whatever  *)
(* it runs here takes a permission of the daemon.  Processes are killed, and  *)
(* calls get lost: the call that frees a permission, or the answer that       *)
(* grants one.                                                                *)
EXTENDS LocalTaskMonitor

CONSTANTS
    Distributable,  \* the processes the cloud may compile for
    Retries,    \* retries_left at first
    MaxLost     \* bound: calls that get lost

ASSUME ClientAssumption ==
    Distributable \subseteq Pids /\ Retries \in Nat /\ MaxLost \in Nat

VARIABLES
    client,     \* the processes
    lost        \* calls lost so far

vars == <<granted, waiter, client, lost>>

(* What a permission is taken for: to preprocess, to compile here if the      *)
(* machine is free, to compile here.                                          *)
Purposes == {"rewrite", "try", "local"}

Places == {"start", "call", "waiting", "working", "releasing", "submit",
           "report", "resubmit", "wait", "gone", "failed", "aborted"}

Process(place) == [at |-> place, for |-> "local", light |-> FALSE,
                   left |-> Retries, then |-> "gone"]

(* "gone": killed, or done with exit code 0; "failed": with any other;        *)
(* "aborted": by a CHECK, or by an exception that nobody catches.             *)
Ends == {"gone", "failed", "aborted"}

Alive == {p \in Pids : client[p].at \notin Ends}

Goto(p, place) ==
    client' = [client EXCEPT ![p] = IF place \in Ends
                                      THEN Process(place)
                                      ELSE [@ EXCEPT !.at = place]]

Acquire(p, purpose) ==
    client' = [client EXCEPT ![p].at = "call", ![p].for = purpose,
                             ![p].then = "gone"]

(* By its arguments, which Entry draws.                                       *)
IsLightweightTask(p) == client[p].light

Light(p) == \/ client[p].for = "rewrite"
            \/ client[p].for = "local" /\ IsLightweightTask(p)

-----------------------------------------------------------------------------
(* Entry: what the cloud does not compile is compiled here, and so is a file  *)
(* in no known language.                                                      *)
IsCompilerInvocationDistributable(p) == p \in Distributable

Entry(p, rewritable, light) ==
    LET cloud == IsCompilerInvocationDistributable(p) /\ rewritable
    IN  /\ client[p].at = "start"
        /\ client' = [client EXCEPT ![p].at = "call", ![p].light = light,
                         ![p].for = IF cloud THEN "rewrite" ELSE "local"]
        /\ UNCHANGED <<monitorVars, lost>>

-----------------------------------------------------------------------------
(* TryAcquireTaskQuota, in a loop but for "try" (AcquireTaskQuota).           *)

CallAcquireQuota(p) ==
    /\ client[p].at = "call"
    /\ waiter[p].at = "none"
    /\ AcquireQuota(p, Light(p))
    /\ Goto(p, "waiting")
    /\ UNCHANGED lost

Granted(p) ==
    /\ client[p].at = "waiting"
    /\ waiter[p].at = "granted"
    /\ waiter' = [waiter EXCEPT ![p] = NoWaiter]
    /\ Goto(p, "working")
    /\ UNCHANGED <<granted, lost>>

MayRetry(left) == left > 0

(* What follows when no permission is to be had.  After "try", if there are   *)
(* retries left, the file is preprocessed once more for another attempt.      *)
Refused(p) ==
    IF client[p].for # "try" THEN Goto(p, "call")
    ELSE IF MayRetry(client[p].left)
      THEN client' = [client EXCEPT ![p].at = "call", ![p].for = "rewrite",
                                    ![p].left = @ - 1]
    ELSE Acquire(p, "local")

NotGranted(p) ==
    /\ client[p].at = "waiting"
    /\ waiter[p].at = "refused"
    /\ waiter' = [waiter EXCEPT ![p] = NoWaiter]
    /\ Refused(p)
    /\ UNCHANGED <<granted, lost>>

(* The daemon has granted it, and the process does not hear of it.            *)
GrantLost(p) ==
    /\ client[p].at = "waiting"
    /\ waiter[p].at = "granted"
    /\ lost < MaxLost
    /\ lost' = lost + 1
    /\ waiter' = [waiter EXCEPT ![p] = NoWaiter]
    /\ Refused(p)
    /\ UNCHANGED granted

(* ReleaseTaskQuota, when the shared_ptr goes; failure is ignored.            *)
Release(p) ==
    /\ client[p].at = "releasing"
    /\ DropTaskPermission(p)
    /\ IF client[p].then = "local" THEN Acquire(p, "local")
       ELSE Goto(p, client[p].then)
    /\ UNCHANGED lost

ReleaseLost(p) ==
    /\ client[p].at = "releasing"
    /\ lost < MaxLost
    /\ lost' = lost + 1
    /\ IF client[p].then = "local" THEN Acquire(p, "local")
       ELSE Goto(p, client[p].then)
    /\ UNCHANGED monitorVars

-----------------------------------------------------------------------------
(* abort(): nothing is compiled instead, and a permission is not given back.  *)
CheckFails(p) == Goto(p, "aborted")

(* RewriteFile: the preprocessor is run, perhaps twice.  What it gives is     *)
(* sent to the cloud unless it failed or the file is small.  A preprocessor   *)
(* that is killed by a signal (CHECK of GetProgramExitCode), or a library to  *)
(* preload that cannot be extracted, aborts the wrapper.                      *)
RewriteFile(p) ==
    /\ client[p].at = "working" /\ client[p].for = "rewrite"
    /\ \/ CheckFails(p)
       \/ \E next \in {"submit", "local"} :
            client' = [client EXCEPT ![p].at = "releasing", ![p].then = next]
    /\ UNCHANGED <<monitorVars, lost>>

(* The compiler is run here; its exit code is that of the wrapper, unless it  *)
(* has none.                                                                  *)
RunCompilationNativelyUsingQuota(p) ==
    /\ client[p].at = "working" /\ client[p].for # "rewrite"
    /\ \/ CheckFails(p)
       \/ \E end \in {"gone", "failed"} :
            client' = [client EXCEPT ![p].at = "releasing", ![p].then = end]
    /\ UNCHANGED <<monitorVars, lost>>

-----------------------------------------------------------------------------
(* CompileOnCloud.  It fails with a code below 0, or 127; then ...            *)
FailedOnCloud(p) == Acquire(p, "try")

(* SubmitCompilationTask.  A daemon that does not know the compiler (400), as *)
(* it is new, has been replaced or the daemon was restarted, is told its      *)
(* digest, once.  Any call may fail; a compiler that has been removed aborts  *)
(* (PCHECK of lstat), and so does one that cannot be read.                    *)
Submit(p) ==
    /\ client[p].at = "submit"
    /\ \/ Goto(p, "wait") \/ Goto(p, "report")
       \/ FailedOnCloud(p) \/ CheckFails(p)
    /\ UNCHANGED <<monitorVars, lost>>

SetFileDigest(p) ==
    /\ client[p].at = "report"
    /\ Goto(p, "resubmit") \/ FailedOnCloud(p) \/ CheckFails(p)
    /\ UNCHANGED <<monitorVars, lost>>

Resubmit(p) ==
    /\ client[p].at = "resubmit"
    /\ Goto(p, "wait") \/ FailedOnCloud(p)
    /\ UNCHANGED <<monitorVars, lost>>

(* Mutant: what the cloud calls an error is believed.                         *)
BelieveTheCloud(p) == Goto(p, "failed")

(* ... a compilation error found by the cloud is not believed either.         *)
ErrorOnCloud(p) == Acquire(p, "local")

(* WaitForCompilationTask: 503 makes it wait again; a task that is forgotten, *)
(* an answer that is not understood or cannot be patched are failures.  One   *)
(* with fewer files than it says (at), with a file that is not compressed     *)
(* (DecompressUsingZstd), or whose files cannot be written (WriteAll) aborts. *)
WaitForCompilationTask(p) ==
    /\ client[p].at = "wait"
    /\ \/ Goto(p, "gone") \/ ErrorOnCloud(p)
       \/ FailedOnCloud(p) \/ CheckFails(p)
    /\ UNCHANGED <<monitorVars, lost>>

-----------------------------------------------------------------------------
Kill(p) ==
    /\ p \in Alive
    /\ Goto(p, "gone")
    /\ UNCHANGED <<monitorVars, lost>>

(* The handler answers a process that is gone.                                *)
NobodyListens(p) ==
    /\ p \notin Alive
    /\ waiter[p].at \in {"granted", "refused"}
    /\ waiter' = [waiter EXCEPT ![p] = NoWaiter]
    /\ UNCHANGED <<granted, client, lost>>

IsProcessAlive == Alive

CheckAlive ==
    /\ OnAliveProcessCheck(IsProcessAlive)
    /\ UNCHANGED <<client, lost>>

HandleAcquire(p) ==
    /\ WaitForRunningNewTaskPermission(p)
    /\ UNCHANGED <<client, lost>>

Init ==
    /\ MonitorInit
    /\ client = [p \in Pids |-> Process("start")]
    /\ lost = 0

ClientStep(p) ==
    \/ CallAcquireQuota(p) \/ Granted(p) \/ NotGranted(p) \/ Release(p)
    \/ RewriteFile(p) \/ RunCompilationNativelyUsingQuota(p)
    \/ Submit(p) \/ SetFileDigest(p) \/ Resubmit(p) \/ WaitForCompilationTask(p)

Next ==
    \/ \E p \in Pids :
         \/ \E r \in BOOLEAN, l \in BOOLEAN : Entry(p, r, l)
         \/ ClientStep(p) \/ GrantLost(p) \/ ReleaseLost(p) \/ Kill(p)
         \/ HandleAcquire(p) \/ NobodyListens(p)
    \/ CheckAlive

Spec == Init /\ [][Next]_vars

(* A process that was started goes on, and so do the daemon's handlers and    *)
(* its timer.  That a task of the cloud is done some time is TaskCompletes of *)
(* DistributedTaskDispatcher.                                                 *)
Fairness ==
    /\ \A p \in Pids : /\ WF_vars(ClientStep(p))
                       /\ WF_vars(HandleAcquire(p))
                       /\ WF_vars(NobodyListens(p))
    /\ WF_vars(CheckAlive)

FairSpec == Spec /\ Fairness

-----------------------------------------------------------------------------
TypeOK ==
    /\ granted \subseteq Pids
    /\ waiter \in [Pids -> Waiters]
    /\ client \in [Pids -> [at : Places, for : Purposes, light : BOOLEAN,
                            left : 0 .. Retries,
                            then : {"submit", "local", "gone", "failed"}]]

Working(p) == client[p].at = "working"

(* Nobody runs a preprocessor or a compiler here without a permission, even   *)
(* if the permission was granted twice or an earlier one was never dropped.   *)
RunsWithPermission == \A p \in Pids : Working(p) => p \in granted

(* The machine is not overwhelmed: heavy tasks stay within max_tasks_, and    *)
(* all of them within what lightweight ones may add.                          *)
NotOverwhelmed ==
    /\ Cardinality({p \in Pids : Working(p) /\ ~Light(p)}) <= MaxTasks
    /\ Cardinality({p \in Pids : Working(p)}) <= MaxTasks + Overprovision

(* Nobody sleeps on permission_cv_ who could be let through: "Do NOT call     *)
(* `notify_one' here. Not all waiters are equal."                             *)
NoLostWakeup == \A p \in Pids : waiter[p].at = "asleep" => ~MayStart(waiter[p].light)

(* The daemon's grants and the processes agree: nobody works without one, the *)
(* machine is not overwhelmed, and nobody sleeps who could be let through.    *)
PermissionsSound == TypeOK /\ RunsWithPermission /\ NotOverwhelmed /\ NoLostWakeup

Becomes(p, end) == client'[p].at = end /\ client[p].at # end

(* An error code is what the compiler that ran on this machine returned,      *)
(* never the cloud's word; and a file that is to be compiled here, because    *)
(* the cloud found an error in it or cannot have it, is: nothing aborts its   *)
(* wrapper but the end of that compiler.  (Before that a wrapper may abort    *)
(* and compile nothing: see CheckFails.)                                      *)
FailuresAreLocal ==
    [][\A p \in Pids :
         /\ Becomes(p, "failed")
              => client[p].at = "releasing" /\ client[p].for # "rewrite"
         /\ Becomes(p, "aborted") /\ client[p].for = "local" => Working(p)]_vars

Ended == \A p \in Alive : client[p].at = "start"

(* Every compilation that was started ends, as long as no call gets lost.     *)
(* (A process is started once: what holds of all of them in the end is what   *)
(* each of them leads to.)                                                    *)
TerminatesUnlessLost == <>[](Ended \/ lost > 0)

(* The permission of a process that is gone is reclaimed, though it never     *)
(* gave it back (killed, aborted, the call lost) or was granted it after its  *)
(* death.                                                                     *)
PermissionReclaimed == <>[](granted \subseteq Alive)
=============================================================================
