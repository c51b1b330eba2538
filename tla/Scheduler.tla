----------------------------- MODULE Scheduler -----------------------------
(***************************************************************************)
(* The part of the Linux scheduler thread_runner relies on: which threads  *)
(* run when there are fewer CPUs than runnable threads.                    *)
(*                                                                         *)
(* The kernel is external: this module has sched(7)'s rules for one set of *)
(* CPUs between which threads move freely.  A thread of higher real-time   *)
(* priority runs before one of lower; among equals the order of queue      *)
(* decides; a time slice moves a SCHED_RR or SCHED_OTHER thread behind its *)
(* equals and a SCHED_FIFO thread never.  SCHED_OTHER is priority 0.       *)
(***************************************************************************)
EXTENDS Integers, SequencesExt

CONSTANTS CPUCount    \* number of CPUs

ASSUME SchedulerAssumption == CPUCount \in Nat \ {0}

VARIABLES
  queue,      \* the runnable threads, running ones included, in order, each once
  attr        \* attr[t]: policy and priority of thread t

sched == <<queue, attr>>

Policies == {"FIFO", "RR", "OTHER"}

Runnable(t) == t \in ToSet(queue)

\* u has a CPU before t is considered.
Before(u, t) ==
  \E m, n \in DOMAIN queue :
    /\ queue[m] = u /\ queue[n] = t
    /\ \/ attr[u].prio > attr[t].prio
       \/ attr[u].prio = attr[t].prio /\ m < n

\* t has a CPU.
Runs(t) ==
  /\ Runnable(t)
  /\ Cardinality({u \in ToSet(queue) : Before(u, t)}) < CPUCount

\* The time slice of t ends and a thread of its priority waits for a CPU.
Tick(t) ==
  /\ Runs(t)
  /\ attr[t].policy \in {"RR", "OTHER"}
  /\ \E u \in ToSet(queue) : ~ Runs(u) /\ attr[u].prio = attr[t].prio
  /\ queue' = Append(RemoveFirst(queue, t), t)
  /\ UNCHANGED attr

\* The next queue when t blocks or ends, and when it becomes runnable.
Blocked(t) == RemoveFirst(queue, t)
Woken(t)   == Append(queue, t)

\* sched_setscheduler().  A runnable thread that changes priority joins its
\* new equals at either end: kernels differ.
SetAttr(t, a) ==
  /\ attr' = [attr EXCEPT ![t] = a]
  /\ IF Runnable(t) /\ a # attr[t]
       THEN LET rest == RemoveFirst(queue, t)
            IN  queue' \in {<<t>> \o rest, Append(rest, t)}
       ELSE UNCHANGED queue
============================================================================
