------------------------------ MODULE Priority ------------------------------
(***************************************************************************)
(* set_priority() of thread_runner.c, and setpriority(), its model: a      *)
(* policy and a priority for a thread, checked before the kernel is asked. *)
(***************************************************************************)
EXTENDS Scheduler

CONSTANTS
  MaxPrio,    \* bound: stands for priority 99
  RTLimit     \* the highest priority the kernel grants the process

ASSUME PriorityAssumption == MaxPrio \in Nat \ {0}
ASSUME LimitAssumption    == RTLimit \in 0 .. MaxPrio

Attrs   == [policy : Policies, prio : 0 .. MaxPrio]
Plain   == [policy |-> "OTHER", prio |-> 0]
Highest == [policy |-> "FIFO", prio |-> MaxPrio]

\* sched_get_priority_min() and _max() of the policy.
Valid(a) == IF a.policy = "OTHER" THEN a.prio = 0 ELSE a.prio \in 1 .. MaxPrio

\* pthread_setschedparam() without the privilege is refused (EPERM).
Granted(a) == a.prio <= RTLimit

\* An invalid priority is reported and leaves the thread as it is, and so
\* does one the kernel refuses, and SCHED_DEADLINE: sched_setattr() is called
\* for process id + 1, which is not the thread.
SetPriority(t, a) ==
  IF a.policy # "DEADLINE" /\ Valid(a) /\ Granted(a) THEN SetAttr(t, a) ELSE UNCHANGED sched
============================================================================
