------------------------------- MODULE Mutex -------------------------------
(***************************************************************************)
(* What pmutex.h promises its callers: lock() returns to at most one       *)
(* thread at a time, and that thread keeps the critical section until it   *)
(* calls unlock().  Nothing is said of how the waiting is done.            *)
(***************************************************************************)
CONSTANT Threads

VARIABLE phase        \* phase[t]: where thread t stands towards the mutex

vars == phase

Phases == {"idle", "trying", "critical"}

Init == phase = [t \in Threads |-> "idle"]

\* A thread calls lock() and finds it has to wait.
Try(t) ==
  /\ phase[t] = "idle"
  /\ phase' = [phase EXCEPT ![t] = "trying"]

\* lock() returns, at once or after a wait: nobody holds the mutex.
Enter(t) ==
  /\ phase[t] # "critical"
  /\ \A u \in Threads : phase[u] # "critical"
  /\ phase' = [phase EXCEPT ![t] = "critical"]

\* The holder calls unlock().
Exit(t) ==
  /\ phase[t] = "critical"
  /\ phase' = [phase EXCEPT ![t] = "idle"]

Next == \E t \in Threads : Try(t) \/ Enter(t) \/ Exit(t)

Spec == Init /\ [][Next]_vars

----------------------------------------------------------------------------
(* At most one thread is between the return of lock() and unlock().        *)
MutualExclusion ==
  \A t, u \in Threads : phase[t] = "critical" /\ phase[u] = "critical" => t = u

(* Every call of lock() returns.                                           *)
StarvationFree == \A t \in Threads : (phase[t] = "trying") ~> (phase[t] = "critical")
============================================================================
