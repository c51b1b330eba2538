--------------------------- MODULE MCThreadRunner ---------------------------
(* Instances of ThreadRunner for TLC. *)
EXTENDS ThreadRunner

Attr(p, n) == [policy |-> p, prio |-> n]

\* The lists that give no SCHED_RR worker the priority of a SCHED_FIFO one;
\* BelowHighest gives none main's own priority either.
Unmixed(S) ==
  {r \in [Workers -> S] :
     ~ \E u, v \in Workers : /\ r[u].policy = "RR" /\ r[v].policy = "FIFO"
                             /\ r[u].prio = r[v].prio}

BelowHighest == Unmixed({Attr("OTHER", 0), Attr("FIFO", 1), Attr("FIFO", 2), Attr("RR", 2)})

\* One SCHED_RR and one SCHED_FIFO worker of the same priority.
RRandFIFO == {[w \in Workers |-> Attr(IF w = 1 THEN "FIFO" ELSE "RR", 1)]}
============================================================================
