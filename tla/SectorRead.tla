----------------------------- MODULE SectorRead -----------------------------
(***************************************************************************)
(* modules/sstf-iosched/sector_read.c: threads that open the disk, wait    *)
(* for one another and then write to it all at once, so that the I/O       *)
(* scheduler has many requests to choose from.                             *)
(*                                                                         *)
(* s1 counts the threads that are ready, s0 the ones that may begin.  The  *)
(* kernel's open() is external: MayFail says whether it can fail.  The     *)
(* sectors written to are random and are left out.                         *)
(***************************************************************************)
EXTENDS Integers, FiniteSets

CONSTANTS
  Tasks,      \* the threads main creates (procs = 50 in the code)
  Writes,     \* writes of one thread (100 in the code)
  MayFail     \* open("/dev/sdb") can fail

ASSUME SectorReadAssumption ==
  /\ IsFiniteSet(Tasks) /\ Tasks # {} /\ Writes \in Nat /\ MayFail \in BOOLEAN

procs == Cardinality(Tasks)

VARIABLES
  mpc,        \* where main() is
  i,          \* local variable i of main(), of its three loops
  pc,         \* pc[t]: where in write_task() thread t is
  done,       \* done[t]: local variable i of thread t, the writes it made
  s0, s1      \* values of the semaphores

vars == <<mpc, i, pc, done, s0, s1>>

MainPlaces == {"create", "gather", "release", "exited"}
TaskPlaces == {"none", "open", "ready", "wait", "write", "failed", "exited"}

Init ==
  /\ mpc = "create" /\ i = 0
  /\ pc = [t \in Tasks |-> "none"]
  /\ done = [t \in Tasks |-> 0]
  /\ s0 = 0 /\ s1 = 0

----------------------------------------------------------------------------
(* main().                                                                 *)

\* The end of one of its loops: the next place, with i set to 0 again.
Loop(place, next) ==
  IF i + 1 < procs THEN mpc' = place /\ i' = i + 1 ELSE mpc' = next /\ i' = 0

Create ==
  /\ mpc = "create"
  /\ \E t \in Tasks : pc[t] = "none" /\ pc' = [pc EXCEPT ![t] = "open"]
  /\ Loop("create", "gather")
  /\ UNCHANGED <<done, s0, s1>>

\* Faulty variant: main waits for all threads but one.
GatherShort ==
  /\ mpc = "gather"
  /\ s1 > 0
  /\ s1' = s1 - 1
  /\ IF i + 2 < procs THEN i' = i + 1 /\ UNCHANGED mpc ELSE mpc' = "release" /\ i' = 0
  /\ UNCHANGED <<pc, done, s0>>

\* sem_wait(&s1).
Gather ==
  /\ mpc = "gather"
  /\ s1 > 0
  /\ s1' = s1 - 1
  /\ Loop("gather", "release")
  /\ UNCHANGED <<pc, done, s0>>

\* Faulty variant: one post for all.
ReleaseOnce ==
  /\ mpc = "release"
  /\ s0' = s0 + 1
  /\ mpc' = "exited" /\ i' = 0
  /\ UNCHANGED <<pc, done, s1>>

\* sem_post(&s0).
Release ==
  /\ mpc = "release"
  /\ s0' = s0 + 1
  /\ Loop("release", "exited")
  /\ UNCHANGED <<pc, done, s1>>

Main == Create \/ Gather \/ Release

----------------------------------------------------------------------------
(* write_task().                                                           *)

\* The thread is opening the disk; a failure is reported and ends it.
Open(t) ==
  /\ pc[t] = "open"
  /\ \/ pc' = [pc EXCEPT ![t] = "ready"]
     \/ MayFail /\ pc' = [pc EXCEPT ![t] = "failed"]
  /\ UNCHANGED <<mpc, i, done, s0, s1>>

\* sem_post(&s1).
Ready(t) ==
  /\ pc[t] = "ready"
  /\ s1' = s1 + 1
  /\ pc' = [pc EXCEPT ![t] = "wait"]
  /\ UNCHANGED <<mpc, i, done, s0>>

\* sem_wait(&s0).
Begin(t) ==
  /\ pc[t] = "wait"
  /\ s0 > 0
  /\ s0' = s0 - 1
  /\ pc' = [pc EXCEPT ![t] = "write"]
  /\ UNCHANGED <<mpc, i, done, s1>>

\* lseek() and write() of one iteration.
WriteSector(t) ==
  /\ pc[t] = "write" /\ done[t] < Writes
  /\ done' = [done EXCEPT ![t] = @ + 1]
  /\ UNCHANGED <<mpc, i, pc, s0, s1>>

Leave(t) ==
  /\ pc[t] = "write" /\ done[t] = Writes
  /\ pc' = [pc EXCEPT ![t] = "exited"]
  /\ UNCHANGED <<mpc, i, done, s0, s1>>

Task(t) == Open(t) \/ Ready(t) \/ Begin(t) \/ WriteSector(t) \/ Leave(t)

Next == Main \/ \E t \in Tasks : Task(t)

Spec == Init /\ [][Next]_vars

\* Every thread gets a CPU.  Weak fairness is enough at the semaphores: s0 is
\* posted once per thread, so none can be kept from it for ever.
Fairness == WF_vars(Main) /\ \A t \in Tasks : WF_vars(Task(t))

FairSpec == Spec /\ Fairness

----------------------------------------------------------------------------
(* Types of the variables.                                                 *)
TypeOK ==
  /\ mpc \in MainPlaces /\ i \in 0 .. procs - 1
  /\ pc \in [Tasks -> TaskPlaces]
  /\ done \in [Tasks -> 0 .. Writes]
  /\ s0 \in 0 .. procs /\ s1 \in 0 .. procs

Arrived == {t \in Tasks : pc[t] \in {"wait", "write", "exited"}}
Begun   == {t \in Tasks : pc[t] \in {"write", "exited"}}

\* The waits main has come through, and the posts it has made.
Gathered == CASE mpc = "create" -> 0 [] mpc = "gather" -> i [] OTHER -> procs
Released == CASE mpc = "release" -> i [] mpc = "exited" -> procs [] OTHER -> 0

(* Every post is paid for: the threads that are ready are the ones main    *)
(* has counted and the ones it has yet to count, and no more threads begin *)
(* than main has let begin.                                                *)
Counted ==
  /\ Cardinality(Arrived) = s1 + Gathered
  /\ Cardinality(Begun) + s0 = Released

(* The inductive invariant of the start together.                          *)
IInv == TypeOK /\ Counted

(* No thread writes before every thread has the disk open ("Wait all procs *)
(* be ready", sector_read.c:76): one that failed keeps all from writing.    *)
AllTogether == Begun # {} => Arrived = Tasks

(* Unless an open fails, all threads make all their writes and end.        *)
AllWritten ==
  <> \/ \E t \in Tasks : pc[t] = "failed"
     \/ \A t \in Tasks : pc[t] = "exited" /\ done[t] = Writes
============================================================================
