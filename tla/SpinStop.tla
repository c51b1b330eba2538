------------------------------ MODULE SpinStop ------------------------------
(***************************************************************************)
(* T3/deadline.c and setpriority/setpriority.c: main starts a thread that  *)
(* spins until main, after a sleep, sets a flag.  In deadline.c the thread *)
(* asks for SCHED_DEADLINE itself; in setpriority.c main makes it          *)
(* SCHED_FIFO 1.                                                           *)
(*                                                                         *)
(* Whether main ever gets a CPU to set the flag with is the kernel's       *)
(* doing: the reservation of a SCHED_DEADLINE thread (10 of 30 ms) runs    *)
(* out in every period, and the share of all real-time threads does so if  *)
(* the kernel throttles them (sched_rt_runtime_us).                        *)
(***************************************************************************)
EXTENDS Priority

VARIABLES
  program,    \* the program that runs
  throttles,  \* whether the kernel throttles real-time threads
  main,       \* where in main() the main thread is
  thread,     \* where in run_deadline() or run() the thread is
  stop        \* done, or not running

spinVars == <<program, throttles, main, thread, stop, sched>>

MainThread == 0
Spinner    == 1

Reserved == [policy |-> "DEADLINE", prio |-> MaxPrio + 1]

SInit ==
  /\ program \in {"deadline", "setpriority"} /\ throttles \in BOOLEAN
  /\ main = "create" /\ thread = "none" /\ stop = FALSE
  /\ queue = <<MainThread>>
  /\ attr = [t \in {MainThread, Spinner} |-> Plain]

----------------------------------------------------------------------------
(* main().                                                                 *)

Create ==
  /\ main = "create"
  /\ main' = IF program = "setpriority" THEN "configure" ELSE "sleep"
  /\ thread' = IF program = "deadline" THEN "reserve" ELSE "spin"
  /\ queue' = Woken(Spinner)
  /\ UNCHANGED <<stop, attr>>

\* setpriority(): refused without privilege, which is reported.
Configure ==
  /\ main = "configure" /\ main' = "sleep"
  /\ SetPriority(Spinner, [policy |-> "FIFO", prio |-> 1]) \/ UNCHANGED sched
  /\ UNCHANGED <<thread, stop>>

Sleep ==
  /\ main = "sleep" /\ main' = "asleep"
  /\ queue' = Blocked(MainThread)
  /\ UNCHANGED <<thread, stop, attr>>

\* Faulty variant: the flag is left as it is.
ClearForgotten == main = "awake" /\ main' = "join" /\ UNCHANGED <<thread, stop, sched>>

Clear ==
  /\ main = "awake" /\ main' = "join"
  /\ stop' = TRUE
  /\ UNCHANGED <<thread, sched>>

\* pthread_join(): main sleeps, or the thread has exited.
Join ==
  /\ main = "join"
  /\ IF thread = "exited" THEN main' = "done" ELSE UNCHANGED main
  /\ queue' = Blocked(MainThread)
  /\ UNCHANGED <<thread, stop, attr>>

\* The sleep is over.
Wake ==
  /\ main = "asleep" /\ main' = "awake"
  /\ queue' = Woken(MainThread)
  /\ UNCHANGED <<thread, stop, attr>>

----------------------------------------------------------------------------
(* The thread.                                                             *)

\* sched_setattr(); if it fails, exit() ends the program.
Reserve ==
  /\ thread = "reserve"
  /\ \/ thread' = "spin" /\ SetAttr(Spinner, Reserved) /\ UNCHANGED <<main, stop>>
     \/ thread' = "exited" /\ main' = "done" /\ stop' = FALSE
        /\ queue' = <<>> /\ UNCHANGED attr

\* The end of the loop; its turns change nothing.
SpinEnds ==
  /\ thread = "spin" /\ stop
  /\ thread' = "exited"
  /\ queue' = IF main = "join" /\ ~ Runnable(MainThread)
              THEN Append(Blocked(Spinner), MainThread) ELSE Blocked(Spinner)
  /\ UNCHANGED <<main, stop, attr>>

----------------------------------------------------------------------------
(* The kernel.                                                             *)

\* The runtime of a SCHED_DEADLINE thread, or of the real-time threads, is
\* used up; the next period brings a new one.
Suspend ==
  /\ thread = "spin" /\ Runs(Spinner)
  /\ attr[Spinner].policy = "DEADLINE" \/ (throttles /\ attr[Spinner].policy = "FIFO")
  /\ queue' = Blocked(Spinner)
  /\ UNCHANGED <<main, thread, stop, attr>>

Resume ==
  /\ thread = "spin" /\ ~ Runnable(Spinner)
  /\ queue' = Woken(Spinner)
  /\ UNCHANGED <<main, thread, stop, attr>>

MainStep ==
  /\ Runs(MainThread)
  /\ Create \/ Configure \/ Sleep \/ Clear \/ Join
  /\ UNCHANGED <<program, throttles>>

ThreadStep ==
  /\ Runs(Spinner) /\ (Reserve \/ SpinEnds)
  /\ UNCHANGED <<program, throttles>>

SliceEnds ==
  /\ \E t \in {MainThread, Spinner} : Tick(t)
  /\ UNCHANGED <<program, throttles, main, thread, stop>>

Kernel == (Wake \/ Suspend \/ Resume) /\ UNCHANGED <<program, throttles>>

SNext == MainStep \/ ThreadStep \/ SliceEnds \/ Kernel

\* Threads that get a CPU again and again get their next step done; time passes.
SFairness == /\ SF_spinVars(MainStep) /\ SF_spinVars(ThreadStep)
             /\ WF_spinVars(SliceEnds)
             /\ WF_spinVars(Wake /\ UNCHANGED <<program, throttles>>)
             /\ SF_spinVars(Suspend /\ UNCHANGED <<program, throttles>>)
             /\ WF_spinVars(Resume /\ UNCHANGED <<program, throttles>>)

----------------------------------------------------------------------------
(* The program ends on one CPU, though its thread spins before main in any *)
(* order of priority, when the kernel suspends the thread now and then:    *)
(* by its reservation in deadline.c, by throttling in setpriority.c.       *)
Ends == program = "deadline" \/ throttles => <> (main = "done")
============================================================================
