---------------------------- MODULE MCFilterLock ----------------------------
(* The Filter lock on a memory without buffers and on one x86 CPU, which   *)
(* share nothing: a behaviour is on the one or the other.                  *)
EXTENDS FilterLockTSO

VARIABLES
  memory,                      \* the memory the lock is on
  level, onhold, fpc, fi, fj   \* of FilterLock

F == INSTANCE FilterLock WITH pc <- fpc, i <- fi, j <- fj

\* All threads on one CPU.
Shared == [t \in 1 .. N |-> 1]

fvars == <<level, onhold, fpc, fi, fj>>

MCInit == memory \in {"in order", "store buffer"} /\ Init /\ F!Init

MCNext ==
  /\ UNCHANGED memory
  /\ \/ memory = "in order" /\ F!Next /\ UNCHANGED vars
     \/ memory = "store buffer" /\ Next /\ UNCHANGED fvars

\* The fairness of both is of threads inside the lock's functions and of
\* pending stores: of the lock that is not run, all threads are outside.
MCSpec == MCInit /\ [][MCNext]_<<memory, vars, fvars>> /\ Fairness /\ F!Fairness

(* Without buffers pmutex_lock() and pmutex_unlock() implement the request, *)
(* entry and leave of a mutex.                                             *)
ImplementsMutex == F!ImplementsMutex

(* Without buffers a thread inside pmutex_lock() gets the lock, however     *)
(* often the others come back.                                             *)
NoStarvationInOrder == F!StarvationFree
============================================================================
