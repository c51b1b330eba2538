----------------------------- MODULE FilterLock -----------------------------
(***************************************************************************)
(* The N-thread Peterson lock of T3/pmutex.c ("the Filter lock"), one      *)
(* action per access to shared memory.                                     *)
(*                                                                         *)
(* The threads are numbered by the position of their node in the list      *)
(* p->pnode, which lock() walks in order; pmutex_add() builds that list    *)
(* and the equally long list p->onhold before any thread calls lock(), and *)
(* nobody changes either afterwards, so N and the walk order are fixed.    *)
(* The i-th node of p->onhold holds the victim of level i.                 *)
(***************************************************************************)
EXTENDS Integers, FiniteSets

CONSTANT N            \* p->size: threads added with pmutex_add()

ASSUME NAssumption == N \in Nat \ {0}

Threads == 1 .. N
Levels  == 1 .. N - 1 \* the values the loop variable i of lock() takes
Nobody  == 0          \* holdp->data as malloc() left it: no thread yet

VARIABLES
  level,      \* level[t]: the field level of thread t's pnode_t
  onhold,     \* onhold[i]: the thread whose handle is in level i's list_t
  pc,         \* where in lock() / unlock() a thread is
  i,          \* local variable i of lock(); N once the loop is left
  j           \* local variable j of lock(), as the list position it is at;
              \* 1 whenever the inner for is not running

vars == <<level, onhold, pc, i, j>>

Places == {"idle", "setLevel", "setVictim", "checkVictim", "scan", "critical"}

Init ==
  /\ level  = [t \in Threads |-> 0]
  /\ onhold = [k \in Levels |-> Nobody]
  /\ pc     = [t \in Threads |-> "idle"]
  /\ i      = [t \in Threads |-> 1]
  /\ j      = [t \in Threads |-> 1]

----------------------------------------------------------------------------
(* The for statement: at k the body runs once more or lock() returns.      *)

\* Faulty variant: i < p->size - 1 as the loop condition.
AtLevelShort(t, k) ==
  /\ i'  = [i EXCEPT ![t] = k]
  /\ pc' = [pc EXCEPT ![t] = IF k < N - 1 THEN "setLevel" ELSE "critical"]

AtLevel(t, k) ==
  /\ i'  = [i EXCEPT ![t] = k]
  /\ pc' = [pc EXCEPT ![t] = IF k < N THEN "setLevel" ELSE "critical"]

Lock(t) ==
  /\ pc[t] = "idle"
  /\ AtLevel(t, 1)
  /\ UNCHANGED <<level, onhold, j>>

SetLevel(t) ==
  /\ pc[t] = "setLevel"
  /\ level' = [level EXCEPT ![t] = i[t]]
  /\ pc' = [pc EXCEPT ![t] = "setVictim"]
  /\ UNCHANGED <<onhold, i, j>>

SetVictim(t) ==
  /\ pc[t] = "setVictim"
  /\ onhold' = [onhold EXCEPT ![i[t]] = t]
  /\ pc' = [pc EXCEPT ![t] = "checkVictim"]
  /\ UNCHANGED <<level, i, j>>

\* The while condition with flg = 1: another victim ends the wait.
CheckVictim(t) ==
  /\ pc[t] = "checkVictim"
  /\ IF onhold[i[t]] = t
       THEN /\ pc' = [pc EXCEPT ![t] = "scan"]
            /\ UNCHANGED i
       ELSE AtLevel(t, i[t] + 1)
  /\ UNCHANGED <<level, onhold, j>>

\* Faulty variant: level > i instead of level >= i.
ScanStrict(t) ==
  /\ pc[t] = "scan"
  /\ j[t] \in Threads
  /\ IF j[t] # t /\ level[j[t]] > i[t]
       THEN /\ pc' = [pc EXCEPT ![t] = "checkVictim"]
            /\ j' = [j EXCEPT ![t] = 1]
       ELSE /\ j' = [j EXCEPT ![t] = j[t] + 1]
            /\ UNCHANGED pc
  /\ UNCHANGED <<level, onhold, i>>

\* One iteration of the inner for: its own node is skipped, a node at this
\* level or above sets flg and breaks back to the while condition.
Scan(t) ==
  /\ pc[t] = "scan"
  /\ j[t] \in Threads
  /\ IF j[t] # t /\ level[j[t]] >= i[t]
       THEN /\ pc' = [pc EXCEPT ![t] = "checkVictim"]
            /\ j' = [j EXCEPT ![t] = 1]
       ELSE /\ j' = [j EXCEPT ![t] = j[t] + 1]
            /\ UNCHANGED pc
  /\ UNCHANGED <<level, onhold, i>>

\* The inner for ran to its end with flg = 0: the wait is over, whatever the
\* victim field holds when the while condition reads it again.
LeaveWait(t) ==
  /\ pc[t] = "scan"
  /\ j[t] = N + 1
  /\ AtLevel(t, i[t] + 1)
  /\ j' = [j EXCEPT ![t] = 1]
  /\ UNCHANGED <<level, onhold>>

\* Faulty variant: unlock() without its level = 0.
UnlockSilent(t) ==
  /\ pc[t] = "critical"
  /\ pc' = [pc EXCEPT ![t] = "idle"]
  /\ i'  = [i EXCEPT ![t] = 1]
  /\ UNCHANGED <<level, onhold, j>>

Unlock(t) ==
  /\ pc[t] = "critical"
  /\ level' = [level EXCEPT ![t] = 0]
  /\ pc' = [pc EXCEPT ![t] = "idle"]
  /\ i'  = [i EXCEPT ![t] = 1]
  /\ UNCHANGED <<onhold, j>>

InLock(t) ==
  SetLevel(t) \/ SetVictim(t) \/ CheckVictim(t) \/ Scan(t) \/ LeaveWait(t)

Next == \E t \in Threads : Lock(t) \/ InLock(t) \/ Unlock(t)

Spec == Init /\ [][Next]_vars

\* The kernel keeps scheduling a thread that is inside lock() or holds the
\* mutex; a thread outside need never call lock() again.
Fairness == \A t \in Threads : WF_vars(InLock(t) \/ Unlock(t))

FairSpec == Spec /\ Fairness

----------------------------------------------------------------------------
(* Types of the variables.                                                 *)
TypeOK ==
  /\ level \in [Threads -> 0 .. N - 1]
  /\ onhold \in [Levels -> Threads \cup {Nobody}]
  /\ pc \in [Threads -> Places]
  /\ i \in [Threads -> 1 .. N]
  /\ j \in [Threads -> 1 .. N + 1]
  /\ \A t \in Threads : pc[t] \notin {"idle", "critical"} => i[t] \in Levels

(* At most one thread is between the return of lock() and unlock().        *)
MutualExclusion ==
  \A t, u \in Threads : pc[t] = "critical" /\ pc[u] = "critical" => t = u

\* The threads that have left the wait of level k.
Past(k) == {t \in Threads : i[t] > k}

\* t has made itself the victim of level k and has not been in unlock() since.
Posted(t, k) == i[t] > k \/ (i[t] = k /\ pc[t] \in {"checkVictim", "scan"})

(* The filter: every level holds back at least one of the threads that     *)
(* reached it, so at most N - k threads are ever past level k.             *)
FilterBound == \A k \in 0 .. N - 1 : Cardinality(Past(k)) <= N - k

\* What the level field shows the other threads of the owner's progress.
LevelShown(t) ==
  level[t] = CASE pc[t] = "idle"     -> 0
               [] pc[t] = "setLevel" -> i[t] - 1
               [] pc[t] = "critical" -> N - 1
               [] OTHER              -> i[t]

\* The loop variables where their for statements start and where they end.
Endpoints ==
  \A t \in Threads : /\ pc[t] = "idle" => i[t] = 1
                     /\ pc[t] = "critical" => i[t] = N
                     /\ pc[t] # "scan" => j[t] = 1

\* Once someone is posted at a level its victim is a thread, and one posted.
VictimPosted ==
  \A k \in Levels : (\E t \in Threads : Posted(t, k)) =>
    onhold[k] \in Threads /\ Posted(onhold[k], k)

\* A victim that has seen a node below its level sees it unposted until the
\* owner comes and takes the victim's place.
ScannedClear ==
  \A t \in Threads : pc[t] = "scan" /\ onhold[i[t]] = t =>
    \A u \in Threads : u < j[t] /\ u # t => ~ Posted(u, i[t])

\* A victim that left the wait regardless has the level for itself.
VictimAlone ==
  \A k \in Levels, t \in Threads : onhold[k] = t /\ i[t] > k =>
    \A u \in Threads : u # t => ~ Posted(u, k)

(* The inductive invariant behind MutualExclusion.                         *)
IInv ==
  /\ TypeOK
  /\ \A t \in Threads : LevelShown(t)
  /\ Endpoints
  /\ VictimPosted
  /\ ScannedClear
  /\ VictimAlone
  /\ FilterBound

----------------------------------------------------------------------------
\* Where a caller of the mutex sees each thread, and the mutex it sees.
phase == [t \in Threads |-> CASE pc[t] = "idle"     -> "idle"
                               [] pc[t] = "critical" -> "critical"
                               [] OTHER              -> "trying"]

M == INSTANCE Mutex

(* Every step of the lock is a step of the abstract mutex or a stutter.    *)
ImplementsMutex == M!Spec

(* A thread inside lock() is eventually let in, whatever the others do.    *)
StarvationFree ==
  \A t \in Threads : pc[t] \notin {"idle", "critical"} ~> pc[t] = "critical"
============================================================================
