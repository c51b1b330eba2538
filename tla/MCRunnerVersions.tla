-------------------------- MODULE MCRunnerVersions --------------------------
(* thread_runner of T3 and workst3, three spinning workers on one CPU, and *)
(* of modules/T3, two workers that sleep in sem_wait() on two CPUs: the    *)
(* constants of ThreadRunner are the first one's.                          *)
EXTENDS MCThreadRunner

VARIABLE sleeps   \* whether it is the version of modules/T3

\* Every policy, a priority the policy does not have, SCHED_DEADLINE, and a
\* priority above the limit, which the kernel refuses.
Anything == [1 .. 2 -> {Attr("OTHER", 0), Attr("FIFO", 1), Attr("RR", 1), Attr("RR", 0),
                        Attr("DEADLINE", 0), Attr("FIFO", 2)}]

T == INSTANCE ThreadRunner WITH
       W        <- 2,
       CPUCount <- 2,
       Spins    <- FALSE,
       Boosts   <- FALSE,
       RTLimit  <- 1,
       Requests <- Anything

MCInit == \/ sleeps = FALSE /\ TInit
          \/ sleeps = TRUE /\ T!TInit

MCNext ==
  /\ UNCHANGED sleeps
  /\ \/ ~ sleeps /\ TNext
     \/ sleeps /\ T!TNext

\* TFairness of both.
MCFairness ==
  /\ SF_allVars(~ sleeps /\ MainStep)
  /\ SF_allVars(sleeps /\ T!MainStep)
  /\ \A w \in Workers : SF_allVars(~ sleeps /\ WorkerStep(w))
  /\ \A w \in T!Workers : SF_allVars(sleeps /\ T!WorkerStep(w))
  /\ \A t \in Everyone : WF_allVars(~ sleeps /\ SliceEnds(t))
  /\ \A t \in T!Everyone : WF_allVars(sleeps /\ T!SliceEnds(t))
  /\ WF_allVars(TerminalReady /\ UNCHANGED asked)

MCSpec == MCInit /\ [][MCNext]_<<sleeps, allVars>> /\ MCFairness

(* The version whose workers spin comes to its end for all lists of the    *)
(* run, since main is above its workers until all of them are there.       *)
SpinningEnds == ~ sleeps => Termination

(* The version whose workers sleep in sem_wait() comes to its end for all  *)
(* lists: no wakeup and no token is lost, whatever set_priority() refuses. *)
SleepingEnds == sleeps => Termination
============================================================================
