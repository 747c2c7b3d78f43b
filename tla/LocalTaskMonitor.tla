--------------------------- MODULE LocalTaskMonitor ---------------------------
(* The delegate daemon's cap on what its machine runs at a time:              *)
(* src/yadcc/daemon/local/local_task_monitor.{h,cc}, called from the          *)
(* AcquireQuota and ReleaseQuota handlers of http_service_impl.cc.            *)
(*                                                                            *)
(* A waiter of permission_cv_ looks at its predicate when it comes, when it   *)
(* is woken and when its time is over; in between it sleeps, whatever the     *)
(* predicate has become.                                                      *)
EXTENDS Integers, FiniteSets

CONSTANTS
    Pids,           \* the processes of the machine's users
    MaxTasks,       \* max_tasks_
    Overprovision   \* lightweight_task_overprovisioning_

ASSUME MonitorAssumption ==
    IsFiniteSet(Pids) /\ MaxTasks \in Nat \ {0} /\ Overprovision \in Nat

VARIABLES
    granted,    \* permissions_granted_
    waiter      \* the AcquireQuota handler of each process

monitorVars == <<granted, waiter>>

NoWaiter == [at |-> "none", light |-> FALSE]

Waiters == [at : {"none", "awake", "asleep", "granted", "refused"},
            light : BOOLEAN]

MonitorInit ==
    /\ granted = {}
    /\ waiter = [p \in Pids |-> NoWaiter]

MayStart(light) ==
    Cardinality(granted) < MaxTasks + IF light THEN Overprovision ELSE 0

AcquireQuota(p, light) ==
    /\ waiter' = [waiter EXCEPT ![p] = [at |-> "awake", light |-> light]]
    /\ UNCHANGED granted

(* A process that has a permission already is allowed another blindly.        *)
Grant(p) ==
    /\ granted' = granted \union {p}
    /\ waiter' = [waiter EXCEPT ![p].at = "granted"]

FirstLook(p) ==
    /\ waiter[p].at = "awake"
    /\ IF MayStart(waiter[p].light) THEN Grant(p)
       ELSE /\ waiter' = [waiter EXCEPT ![p].at = "asleep"]
            /\ UNCHANGED granted

(* wait_for looks once more when its time is over.                            *)
LastLook(p) ==
    /\ waiter[p].at = "asleep"
    /\ IF MayStart(waiter[p].light) THEN Grant(p)
       ELSE /\ waiter' = [waiter EXCEPT ![p].at = "refused"]
            /\ UNCHANGED granted

WaitForRunningNewTaskPermission(p) == FirstLook(p) \/ LastLook(p)

(* Mutant: notify_one.                                                        *)
NotifyOne(w) ==
    IF \E p \in Pids : w[p].at = "asleep"
      THEN [w EXCEPT ![CHOOSE p \in Pids : w[p].at = "asleep"].at = "awake"]
      ELSE w

NotifyAll(w) ==
    [p \in Pids |-> IF w[p].at = "asleep" THEN [w[p] EXCEPT !.at = "awake"]
                    ELSE w[p]]

(* Mutant: the permission stays.                                              *)
KeepPermission(p) == UNCHANGED granted /\ waiter' = NotifyAll(waiter)

(* Dropping an unknown permission is ignored.                                 *)
DropTaskPermission(p) ==
    /\ granted' = granted \ {p}
    /\ waiter' = IF p \in granted THEN NotifyAll(waiter) ELSE waiter

(* Mutant: nothing is reclaimed.                                              *)
OnlyNotify(alive) == UNCHANGED granted /\ waiter' = NotifyAll(waiter)

OnAliveProcessCheck(alive) ==
    /\ granted' = granted \intersect alive
    /\ waiter' = NotifyAll(waiter)
=============================================================================
