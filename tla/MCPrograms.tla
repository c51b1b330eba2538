----------------------------- MODULE MCPrograms -----------------------------
(* The programs besides thread_runner's threads: sector_read, deadline or  *)
(* setpriority, the post-processing of thread_runner, and the web monitor. *)
(* They share nothing: one of them runs, the others have ended.            *)
EXTENDS SectorRead, PostProcessing, WebMonitor

CONSTANTS CPUCount, MaxPrio, RTLimit     \* of SpinStop

VARIABLES
  runs,                 \* the program
  program, throttles, main, thread, stop, queue, attr     \* of SpinStop

S == INSTANCE SpinStop

Bytes(n, len, ids) == {[thread_number |-> n, ids |-> f] : f \in [1 .. len -> ids]}

\* Every buffer of seven bytes by three threads, and of three bytes by threads
\* whose names are on both sides of 'Z' and at the end of ASCII.
Buffers == Bytes(3, 7, 0 .. 2) \cup Bytes(56, 3, {0, 25, 26, 55})

spinVars == <<program, throttles, main, thread, stop, queue, attr>>

SectorOver ==
  /\ mpc = "exited" /\ i = 0 /\ s0 = 0 /\ s1 = 0
  /\ pc = [t \in Tasks |-> "exited"] /\ done = [t \in Tasks |-> Writes]

SpinOver ==
  /\ program = "deadline" /\ throttles = FALSE
  /\ main = "done" /\ thread = "exited" /\ stop = TRUE
  /\ queue = <<>> /\ attr = [t \in {S!MainThread, S!Spinner} |-> S!Plain]

PostOver ==
  /\ thread_number = 1 /\ buffer = [n \in 0 .. -1 |-> 0] /\ loop = "done"
  /\ k = 0 /\ j = 0 /\ size = 1 /\ seq = [n \in 0 .. 0 |-> 0] /\ occ = [id \in 0 .. 0 |-> 0]

MCInit ==
  /\ WebInit
  /\ \/ runs = "sector_read" /\ Init /\ SpinOver /\ PostOver
     \/ runs = "spin" /\ SectorOver /\ S!SInit /\ PostOver
     \/ runs = "post_processing" /\ SectorOver /\ SpinOver /\ PostInit
     \/ runs = "webmonitor" /\ SectorOver /\ SpinOver /\ PostOver

\* Bound of the model: two starts that overlap are not looked at any further,
\* OneServer says nothing of what they launch.
Bounded == ~ raced

MCNext ==
  /\ UNCHANGED runs
  /\ \/ runs = "sector_read" /\ Next /\ UNCHANGED <<spinVars, postVars, webVars>>
     \/ runs = "spin" /\ S!SNext /\ UNCHANGED <<vars, postVars, webVars>>
     \/ runs = "post_processing" /\ PostNext /\ UNCHANGED <<vars, spinVars, webVars>>
     \/ runs = "webmonitor" /\ Bounded /\ WebNext /\ UNCHANGED <<vars, spinVars, postVars>>

MCSpec ==
  /\ MCInit /\ [][MCNext]_<<runs, vars, spinVars, postVars, webVars>>
  /\ Fairness /\ S!SFairness /\ WebFairness

Ends == S!Ends
============================================================================
