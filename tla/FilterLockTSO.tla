--------------------------- MODULE FilterLockTSO ---------------------------
(***************************************************************************)
(* The Filter lock of T3/pmutex.c on the machine the Makefile builds it    *)
(* for: x86, compiled with -O0 and without a fence or a locked instruction *)
(* in lock() or unlock().  A store first enters the store buffer of the    *)
(* CPU that runs the thread; a load sees the youngest store of its own     *)
(* CPU's buffer to that word, else memory; buffers drain in order, when    *)
(* the hardware likes.  Every thread stays on one CPU: a move to another   *)
(* empties both buffers, which a sequence of drains does too.              *)
(*                                                                         *)
(* FilterLock is the same code on a memory without buffers.                *)
(***************************************************************************)
EXTENDS Integers, Sequences, FiniteSetsExt

CONSTANTS
  N,            \* p->size, as in FilterLock
  CPUs,         \* the virtual machine's CPUs
  cpu,          \* cpu[t]: the CPU that runs thread t
  SBMax         \* bound: pending stores of one CPU

ASSUME TSOAssumption == /\ N \in Nat \ {0}
                        /\ CPUs # {} /\ cpu \in [1 .. N -> CPUs]
                        /\ SBMax \in Nat \ {0}

Threads == 1 .. N
Levels  == 1 .. N - 1
Nobody  == 0

\* The shared words: one level field per thread, one victim per level.
LevelOf(t)  == <<"level", t>>
VictimOf(k) == <<"victim", k>>
Words == {LevelOf(t) : t \in Threads} \cup {VictimOf(k) : k \in Levels}

VARIABLES
  mem,        \* memory
  sb,         \* sb[c]: the pending stores of CPU c, oldest first
  pc, i, j    \* as in FilterLock

vars == <<mem, sb, pc, i, j>>

Init ==
  /\ mem = [w \in Words |-> 0]
  /\ sb  = [c \in CPUs |-> <<>>]
  /\ pc  = [t \in Threads |-> "idle"]
  /\ i   = [t \in Threads |-> 1]
  /\ j   = [t \in Threads |-> 1]

----------------------------------------------------------------------------
(* Loads and stores.                                                       *)

\* The value a load on CPU c returns.
Load(c, w) ==
  LET own == {n \in DOMAIN sb[c] : sb[c][n].word = w}
  IN  IF own = {} THEN mem[w] ELSE sb[c][Max(own)].val

Store(t, w, v) ==
  /\ Len(sb[cpu[t]]) < SBMax
  /\ sb' = [sb EXCEPT ![cpu[t]] = Append(@, [word |-> w, val |-> v])]
  /\ UNCHANGED mem

Drain(c) ==
  /\ sb[c] # <<>>
  /\ mem' = [mem EXCEPT ![Head(sb[c]).word] = Head(sb[c]).val]
  /\ sb' = [sb EXCEPT ![c] = Tail(@)]
  /\ UNCHANGED <<pc, i, j>>

----------------------------------------------------------------------------
(* lock() and unlock(), as in FilterLock.                                  *)

AtLevel(t, k) ==
  /\ i'  = [i EXCEPT ![t] = k]
  /\ pc' = [pc EXCEPT ![t] = IF k < N THEN "setLevel" ELSE "critical"]

Lock(t) ==
  /\ pc[t] = "idle"
  /\ AtLevel(t, 1)
  /\ UNCHANGED <<mem, sb, j>>

SetLevel(t) ==
  /\ pc[t] = "setLevel"
  /\ Store(t, LevelOf(t), i[t])
  /\ pc' = [pc EXCEPT ![t] = "setVictim"]
  /\ UNCHANGED <<i, j>>

SetVictim(t) ==
  /\ pc[t] = "setVictim"
  /\ Store(t, VictimOf(i[t]), t)
  /\ pc' = [pc EXCEPT ![t] = "checkVictim"]
  /\ UNCHANGED <<i, j>>

CheckVictim(t) ==
  /\ pc[t] = "checkVictim"
  /\ IF Load(cpu[t], VictimOf(i[t])) = t
       THEN /\ pc' = [pc EXCEPT ![t] = "scan"]
            /\ UNCHANGED i
       ELSE AtLevel(t, i[t] + 1)
  /\ UNCHANGED <<mem, sb, j>>

\* Faulty variant: the scan does not skip the thread's own node.
ScanSelf(t) ==
  /\ pc[t] = "scan"
  /\ j[t] \in Threads
  /\ IF Load(cpu[t], LevelOf(j[t])) >= i[t]
       THEN /\ pc' = [pc EXCEPT ![t] = "checkVictim"]
            /\ j' = [j EXCEPT ![t] = 1]
       ELSE /\ j' = [j EXCEPT ![t] = j[t] + 1]
            /\ UNCHANGED pc
  /\ UNCHANGED <<mem, sb, i>>

\* Faulty variant: only threads above its level hold a thread back.
ScanStrict(t) ==
  /\ pc[t] = "scan"
  /\ j[t] \in Threads
  /\ IF j[t] # t /\ Load(cpu[t], LevelOf(j[t])) > i[t]
       THEN /\ pc' = [pc EXCEPT ![t] = "checkVictim"]
            /\ j' = [j EXCEPT ![t] = 1]
       ELSE /\ j' = [j EXCEPT ![t] = j[t] + 1]
            /\ UNCHANGED pc
  /\ UNCHANGED <<mem, sb, i>>

Scan(t) ==
  /\ pc[t] = "scan"
  /\ j[t] \in Threads
  /\ IF j[t] # t /\ Load(cpu[t], LevelOf(j[t])) >= i[t]
       THEN /\ pc' = [pc EXCEPT ![t] = "checkVictim"]
            /\ j' = [j EXCEPT ![t] = 1]
       ELSE /\ j' = [j EXCEPT ![t] = j[t] + 1]
            /\ UNCHANGED pc
  /\ UNCHANGED <<mem, sb, i>>

LeaveWait(t) ==
  /\ pc[t] = "scan"
  /\ j[t] = N + 1
  /\ AtLevel(t, i[t] + 1)
  /\ j' = [j EXCEPT ![t] = 1]
  /\ UNCHANGED <<mem, sb>>

Unlock(t) ==
  /\ pc[t] = "critical"
  /\ Store(t, LevelOf(t), 0)
  /\ pc' = [pc EXCEPT ![t] = "idle"]
  /\ i' = [i EXCEPT ![t] = 1]
  /\ UNCHANGED j

InLock(t) ==
  SetLevel(t) \/ SetVictim(t) \/ CheckVictim(t) \/ Scan(t) \/ LeaveWait(t)

Next ==
  \/ \E t \in Threads : Lock(t) \/ InLock(t) \/ Unlock(t)
  \/ \E c \in CPUs : Drain(c)

Spec == Init /\ [][Next]_vars

\* Hardware drains every buffer in the end; threads run as in FilterLock.
Fairness ==
  /\ \A c \in CPUs : WF_vars(Drain(c))
  /\ \A t \in Threads : SF_vars(InLock(t) \/ Unlock(t))

FairSpec == Spec /\ Fairness
----------------------------------------------------------------------------
(* At most one thread is between the return of lock() and unlock()         *)
(* (pmutex.h:24: "The structure that acts as a mutex").  So it is while    *)
(* all threads share a CPU, and with it the buffer their stores wait in;   *)
(* with two CPUs it is false of the code.                                  *)
MutualExclusion ==
  \A t, u \in Threads : pc[t] = "critical" /\ pc[u] = "critical" => t = u

(* A thread inside lock() is eventually let in.                            *)
StarvationFree ==
  \A t \in Threads : pc[t] \notin {"idle", "critical"} ~> pc[t] = "critical"
============================================================================
