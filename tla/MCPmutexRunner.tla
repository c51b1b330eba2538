--------------------------- MODULE MCPmutexRunner ---------------------------
(* Instances of PmutexRunner for TLC. *)
EXTENDS PmutexRunner

Attr(p, n) == [policy |-> p, prio |-> n]

\* Every order of creation of threads of three kinds, at least one of them
\* SCHED_FIFO, none of main's own priority; no SCHED_RR thread has the priority
\* of a SCHED_FIFO one.
ThreeKinds ==
  {r \in [Threads -> {Attr("OTHER", 0), Attr("FIFO", 1), Attr("RR", 2)}] :
     \E t \in Threads : r[t].policy = "FIFO"}
============================================================================
