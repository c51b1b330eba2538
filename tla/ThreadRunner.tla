---------------------------- MODULE ThreadRunner ----------------------------
(***************************************************************************)
(* thread_runner as it runs: the steps of SharedBuffer, taken by threads   *)
(* that have a CPU.                                                        *)
(*                                                                         *)
(* Spins and Boosts choose the version of the program:                     *)
(*   T3, workst3                        sem_trywait in a loop, main FIFO 99*)
(*   buildroot-vkernel/modules/T3       sem_wait, main as it was started   *)
(***************************************************************************)
EXTENDS SharedBuffer, Priority

CONSTANTS
  Spins,      \* a worker without the token keeps its CPU
  Boosts,     \* main raises itself before it creates workers
  Requests    \* the <policy> and <priority> lists the program is given

MainThread == 0
Everyone   == Workers \cup {MainThread}

ASSUME ThreadRunnerAssumption == Spins \in BOOLEAN /\ Boosts \in BOOLEAN

VARIABLES asked       \* asked[w]: the policy and priority given for worker w

allVars == <<vars, sched, asked>>

TInit ==
  /\ Init
  /\ queue = <<MainThread>>
  /\ attr = [t \in Everyone |-> Plain]
  /\ asked \in Requests

----------------------------------------------------------------------------
(* main().                                                                 *)

\* Faulty variant: main keeps the priority it was started with.
TBoostForgotten == Boost /\ UNCHANGED sched

TBoost ==
  /\ Boost
  /\ IF Boosts THEN SetPriority(MainThread, Highest) ELSE UNCHANGED sched

\* printf() to a terminal that is not ready puts main to sleep in it.
TAnnounce == Announce /\ UNCHANGED sched

TerminalBusy ==
  /\ mpc = "print"
  /\ queue' = Blocked(MainThread)
  /\ UNCHANGED <<vars, attr>>

TerminalReady ==
  /\ mpc = "print"
  /\ ~ Runnable(MainThread)
  /\ queue' = Woken(MainThread)
  /\ UNCHANGED <<vars, attr>>

\* A new thread has the policy and priority of its creator.
TCreate ==
  /\ Create
  /\ attr' = [attr EXCEPT ![i + 1] = attr[MainThread]]
  /\ queue' = Woken(i + 1)

TConfigure == Configure /\ SetPriority(i + 1, asked[i + 1])

\* A worker blocked in sem_wait() becomes runnable and tries again.
WakeWaiter ==
  LET asleep == {w \in Workers : wpc[w] = "wait" /\ ~ Runnable(w)}
  IN  /\ IF asleep = {} THEN UNCHANGED queue
         ELSE \E w \in asleep : queue' = Woken(w)
      /\ UNCHANGED attr

TStart == Start /\ WakeWaiter

TDrop ==
  /\ Drop
  /\ IF Boosts THEN SetPriority(MainThread, Plain) ELSE UNCHANGED sched

TJoin == Join /\ UNCHANGED sched

\* pthread_join() of a thread that has not exited.
JoinBlocks ==
  /\ mpc = "join"
  /\ wpc[i + 1] # "exited"
  /\ queue' = Blocked(MainThread)
  /\ UNCHANGED <<vars, attr>>

TReport == Report /\ queue' = Blocked(MainThread) /\ UNCHANGED attr

TMain == \/ TBoost \/ TAnnounce \/ TCreate \/ TConfigure \/ TStart
         \/ TDrop \/ TJoin \/ JoinBlocks \/ TReport

----------------------------------------------------------------------------
(* th_gen().                                                               *)

\* sem_wait() on a semaphore at 0.
TakeBlocks(w) ==
  /\ ~ Spins
  /\ wpc[w] = "wait" /\ sem = 0
  /\ queue' = Blocked(w)
  /\ UNCHANGED <<vars, attr>>

TPost(w) == Post(w) /\ WakeWaiter

TLastPost(w) == LastPost(w) /\ WakeWaiter

\* The end of a thread wakes main if main waits to join that thread.
TExit(w) ==
  /\ Exit(w)
  /\ queue' = LET rest == Blocked(w)
              IN  IF mpc = "join" /\ i + 1 = w /\ ~ Runnable(MainThread)
                  THEN Append(rest, MainThread) ELSE rest
  /\ UNCHANGED attr

TWorker(w) ==
  \/ (Take(w) \/ Check(w) \/ Write(w) \/ Advance(w)) /\ UNCHANGED sched
  \/ TakeBlocks(w) \/ TPost(w) \/ TLastPost(w) \/ TExit(w)

----------------------------------------------------------------------------
MainStep == Runs(MainThread) /\ TMain /\ UNCHANGED asked

WorkerStep(w) == Runs(w) /\ TWorker(w) /\ UNCHANGED asked

Terminal ==
  /\ (Runs(MainThread) /\ TerminalBusy) \/ TerminalReady
  /\ UNCHANGED asked

SliceEnds(t) == Tick(t) /\ UNCHANGED <<vars, asked>>

TNext == \/ MainStep \/ Terminal
         \/ \E w \in Workers : WorkerStep(w)
         \/ \E t \in Everyone : SliceEnds(t)

TSpec == TInit /\ [][TNext]_allVars

\* A thread that has a CPU executes, and one that gets a CPU again and again
\* gets its next step done; slices end; terminals drain.
TFairness ==
  /\ SF_allVars(MainStep)
  /\ \A w \in Workers : SF_allVars(WorkerStep(w))
  /\ \A t \in Everyone : WF_allVars(SliceEnds(t))
  /\ WF_allVars(TerminalReady /\ UNCHANGED asked)

TFairSpec == TSpec /\ TFairness

----------------------------------------------------------------------------
(* The program ends.                                                       *)
Termination == <> (mpc = "done")
============================================================================
