-------------------------- MODULE ProgramsProofs --------------------------
(***************************************************************************)
(* sector_read, for every number of threads and of writes, whether or not  *)
(* an open can fail; post_processing, for every size of the buffer and as  *)
(* many threads as have names that chars can hold; and the web monitor,    *)
(* for every number of callers and of processes.                           *)
(*                                                                         *)
(* sector_read and the monitor's script come to their ends, as far as that *)
(* is not a matter of fairness; so do deadline and setpriority, on any     *)
(* number of CPUs (SpinsGoOn).                                             *)
(***************************************************************************)
EXTENDS SectorRead, PostProcessing, WebMonitor, FiniteSetTheorems, SequenceTheorems, TLAPS

----------------------------------------------------------------------------
(* sector_read.                                                            *)

(* main creates a number of threads that is not 0.                         *)
LEMMA ProcsType == procs \in Nat /\ procs > 0
<1>1. procs \in Nat
  BY SectorReadAssumption, FS_CardinalityType DEF procs
<1>2. procs # 0
  BY SectorReadAssumption, FS_EmptySet DEF procs
<1> QED  BY <1>1, <1>2

(* Any set of threads has a number of elements, procs at most, and has     *)
(* procs elements only if it has all.                                      *)
LEMMA SomeTasks ==
  ASSUME NEW S \in SUBSET Tasks
  PROVE  /\ IsFiniteSet(S)
         /\ Cardinality(S) \in Nat /\ Cardinality(S) <= procs
         /\ Cardinality(S) = procs => S = Tasks
<1>1. IsFiniteSet(S) /\ Cardinality(S) <= Cardinality(Tasks)
  BY SectorReadAssumption, FS_Subset
<1>2. Cardinality(S) = Cardinality(Tasks) => S = Tasks
  BY SectorReadAssumption, FS_Subset
<1> QED  BY <1>1, <1>2, FS_CardinalityType DEF procs

(* One thread more is one more to count.                                   *)
LEMMA OneMore ==
  ASSUME NEW S \in SUBSET Tasks, NEW t \in Tasks, t \notin S
  PROVE  Cardinality(S \cup {t}) = Cardinality(S) + 1
BY SomeTasks, FS_AddElement

(* The invariant holds at the start.                                       *)
LEMMA Starts == Init => IInv
<1> SUFFICES ASSUME Init PROVE IInv
  OBVIOUS
<1>1. TypeOK
  BY ProcsType, SectorReadAssumption DEF Init, TypeOK, MainPlaces, TaskPlaces
<1>2. Arrived = {} /\ Begun = {}
  BY DEF Init, Arrived, Begun
<1>3. Gathered = 0 /\ Released = 0
  BY DEF Init, Gathered, Released
<1>4. Counted
  BY <1>2, <1>3, FS_EmptySet DEF Init, Counted
<1> QED  BY <1>1, <1>4 DEF IInv

(* A step of main leaves the threads where they count and moves i as the   *)
(* semaphores move.                                                        *)
LEMMA MainKeeps ==
  ASSUME IInv, Main
  PROVE  IInv'
<1> USE ProcsType DEF IInv, TypeOK
<1>1. CASE Create
  <2>1. PICK t \in Tasks : pc[t] = "none" /\ pc' = [pc EXCEPT ![t] = "open"]
    BY <1>1 DEF Create
  <2>2. Arrived' = Arrived /\ Begun' = Begun
    BY <2>1 DEF Arrived, Begun
  <2>3. /\ mpc = "create" /\ mpc' \in {"create", "gather"}
        /\ i' \in 0 .. procs - 1
        /\ mpc' = "gather" => i' = 0
        /\ UNCHANGED <<done, s0, s1>>
    BY <1>1 DEF Create, Loop
  <2>4. pc' \in [Tasks -> TaskPlaces]
    BY <2>1 DEF TaskPlaces
  <2>5. Gathered = 0 /\ Gathered' = 0 /\ Released = 0 /\ Released' = 0
    BY <2>3 DEF Gathered, Released
  <2>6. Counted'
    BY <2>2, <2>3, <2>5 DEF Counted
  <2> QED  BY <2>3, <2>4, <2>6 DEF MainPlaces
<1>2. CASE Gather
  <2>1. /\ mpc = "gather" /\ s1' = s1 - 1 /\ s1 > 0 /\ UNCHANGED <<pc, done, s0>>
        /\ \/ mpc' = "gather" /\ i' = i + 1 /\ i + 1 < procs
           \/ mpc' = "release" /\ i' = 0 /\ i + 1 = procs
    BY <1>2 DEF Gather, Loop
  <2>2. Arrived' = Arrived /\ Begun' = Begun
    BY <2>1 DEF Arrived, Begun
  <2>3. Gathered' = Gathered + 1 /\ Released = 0 /\ Released' = 0
    BY <2>1 DEF Gathered, Released
  <2>4. Gathered \in Int /\ Cardinality(Arrived) = s1 + Gathered
    BY <2>1 DEF Counted, Gathered
  <2>5. Counted'
    BY <2>1, <2>2, <2>3, <2>4 DEF Counted
  <2> QED  BY <2>1, <2>5 DEF MainPlaces
<1>3. CASE Release
  <2>1. /\ mpc = "release" /\ s0' = s0 + 1 /\ UNCHANGED <<pc, done, s1>>
        /\ \/ mpc' = "release" /\ i' = i + 1 /\ i + 1 < procs
           \/ mpc' = "exited" /\ i' = 0 /\ i + 1 = procs
    BY <1>3 DEF Release, Loop
  <2>2. Arrived' = Arrived /\ Begun' = Begun
    BY <2>1 DEF Arrived, Begun
  <2>3. Released' = Released + 1 /\ Gathered' = Gathered /\ Released \in Int
    BY <2>1 DEF Gathered, Released
  <2>4. Cardinality(Begun) \in Nat
    BY SomeTasks DEF Begun
  <2>5. Counted'
    BY <2>1, <2>2, <2>3, <2>4 DEF Counted
  <2>6. s0' \in 0 .. procs /\ s1' \in 0 .. procs
    <3>1. /\ s0' \in Int /\ s1' \in Int /\ s0' >= 0 /\ s1' >= 0
          /\ mpc' \in MainPlaces /\ i' \in 0 .. procs - 1
      BY <2>1 DEF MainPlaces
    <3>2. /\ Cardinality(Begun)' \in Nat /\ Released' \in 0 .. procs
      BY <2>1, <2>2, <2>4 DEF Released
    <3> QED  BY <2>1, <2>5, <3>1, <3>2 DEF Counted
  <2> QED  BY <2>1, <2>5, <2>6 DEF MainPlaces
<1> QED  BY <1>1, <1>2, <1>3 DEF Main

(* A thread that arrives has posted s1, and one that begins has taken s0.  *)
LEMMA TaskKeeps ==
  ASSUME IInv, NEW t \in Tasks, Task(t)
  PROVE  IInv'
<1> USE ProcsType, SectorReadAssumption DEF IInv, TypeOK
<1>1. Arrived \in SUBSET Tasks /\ Begun \in SUBSET Tasks
  BY DEF Arrived, Begun
<1>2. /\ Cardinality(Arrived) \in Nat /\ Cardinality(Begun) \in Nat
      /\ Gathered \in 0 .. procs /\ Released \in 0 .. procs
  BY <1>1, SomeTasks DEF Gathered, Released, MainPlaces
<1>3. CASE Open(t)
  <2>1. Arrived' = Arrived /\ Begun' = Begun
    BY <1>3 DEF Open, Arrived, Begun
  <2>2. Counted'
    BY <1>3, <2>1 DEF Open, Counted, Gathered, Released
  <2> QED  BY <1>3, <2>2 DEF Open, TaskPlaces
<1>4. CASE Ready(t)
  <2>1. /\ pc[t] = "ready" /\ pc' = [pc EXCEPT ![t] = "wait"]
        /\ s1' = s1 + 1 /\ UNCHANGED <<mpc, i, done, s0>>
    BY <1>4 DEF Ready
  <2>2. Arrived' = Arrived \cup {t} /\ t \notin Arrived /\ Begun' = Begun
    BY <2>1 DEF Arrived, Begun
  <2>3. Cardinality(Arrived') = Cardinality(Arrived) + 1
    BY <1>1, <2>2, OneMore
  <2>4. Gathered' = Gathered /\ Released' = Released
    BY <2>1 DEF Gathered, Released
  <2>5. Counted'
    BY <1>2, <2>1, <2>2, <2>3, <2>4 DEF Counted
  <2>6. Cardinality(Arrived') <= procs
    BY <1>1, <2>2, SomeTasks
  <2>7. s1' \in 0 .. procs
    BY <1>2, <2>1, <2>4, <2>5, <2>6 DEF Counted
  <2> QED  BY <2>1, <2>5, <2>7 DEF TaskPlaces
<1>5. CASE Begin(t)
  <2>1. /\ pc[t] = "wait" /\ pc' = [pc EXCEPT ![t] = "write"]
        /\ s0 > 0 /\ s0' = s0 - 1 /\ UNCHANGED <<mpc, i, done, s1>>
    BY <1>5 DEF Begin
  <2>2. Begun' = Begun \cup {t} /\ t \notin Begun /\ Arrived' = Arrived
    BY <2>1 DEF Arrived, Begun
  <2>3. Cardinality(Begun') = Cardinality(Begun) + 1
    BY <1>1, <2>2, OneMore
  <2>4. Gathered' = Gathered /\ Released' = Released
    BY <2>1 DEF Gathered, Released
  <2>5. Counted'
    BY <1>2, <2>1, <2>2, <2>3, <2>4 DEF Counted
  <2> QED  BY <2>1, <2>5 DEF TaskPlaces
<1>6. CASE WriteSector(t)
  <2>1. Arrived' = Arrived /\ Begun' = Begun
    BY <1>6 DEF WriteSector, Arrived, Begun
  <2>2. Counted'
    BY <1>6, <2>1 DEF WriteSector, Counted, Gathered, Released
  <2> QED  BY <1>6, <2>2 DEF WriteSector
<1>7. CASE Leave(t)
  <2>1. Arrived' = Arrived /\ Begun' = Begun
    BY <1>7 DEF Leave, Arrived, Begun
  <2>2. Counted'
    BY <1>7, <2>1 DEF Leave, Counted, Gathered, Released
  <2> QED  BY <1>7, <2>2 DEF Leave, TaskPlaces
<1> QED  BY <1>3, <1>4, <1>5, <1>6, <1>7 DEF Task

(* A stuttering step keeps it.                                             *)
LEMMA Stutters == IInv /\ UNCHANGED vars => IInv'
BY DEF IInv, TypeOK, Counted, Arrived, Begun, Gathered, Released, vars

(* The semaphores of sector_read count its threads exactly.                *)
THEOREM Inductive == Spec => []IInv
<1>1. IInv /\ [Next]_vars => IInv'
  BY MainKeeps, TaskKeeps, Stutters DEF Next
<1> QED  BY Starts, <1>1, PTL DEF Spec

(* No thread of sector_read writes before every one has the disk open.     *)
THEOREM Together == Spec => []AllTogether
<1>1. IInv => AllTogether
  <2> SUFFICES ASSUME IInv, Begun # {} PROVE Arrived = Tasks
    BY DEF AllTogether
  <2>1. Arrived \in SUBSET Tasks /\ Begun \in SUBSET Tasks
    BY DEF Arrived, Begun
  <2>2. Cardinality(Begun) # 0 /\ Cardinality(Begun) \in Nat
    BY <2>1, SomeTasks, FS_EmptySet
  <2>3. mpc \in {"release", "exited"}
    BY <2>2 DEF IInv, TypeOK, MainPlaces, Counted, Released
  <2>4. Gathered = procs
    BY <2>3 DEF Gathered
  <2>5. Cardinality(Arrived) = procs
    BY <2>1, <2>4, SomeTasks, ProcsType DEF IInv, TypeOK, Counted
  <2> QED  BY <2>1, <2>5, SomeTasks
<1> QED  BY <1>1, Inductive, PTL

\* Where a step of main or of a thread is possible.
CanGoOn ==
  \/ mpc = "create" /\ \E t \in Tasks : pc[t] = "none"
  \/ mpc = "gather" /\ s1 > 0
  \/ mpc = "release"
  \/ \E t \in Tasks : pc[t] \in {"open", "ready", "write"} \/ (pc[t] = "wait" /\ s0 > 0)

\* Unless an open fails, sector_read goes on until all writes are made.
NeverStuck ==
  \/ \E t \in Tasks : pc[t] = "failed"
  \/ CanGoOn
  \/ mpc = "exited" /\ \A t \in Tasks : pc[t] = "exited" /\ done[t] = Writes

\* The steps that are left to main, and to a thread.
MainLeft == CASE mpc = "create"  -> (procs - i) + procs + procs
              [] mpc = "gather"  -> (procs - i) + procs
              [] mpc = "release" -> procs - i
              [] mpc = "exited"  -> 0

TaskLeft(t) == CASE pc[t] = "none"  -> Writes + 5
                 [] pc[t] = "open"  -> Writes + 4
                 [] pc[t] = "ready" -> Writes + 3
                 [] pc[t] = "wait"  -> Writes + 2
                 [] pc[t] = "write" -> Writes - done[t] + 1
                 [] pc[t] \in {"failed", "exited"} -> 0

\* Nobody comes by new steps, and who makes a step has one less to make.
WindsDown ==
  [][/\ MainLeft \in Nat /\ MainLeft' \in Nat /\ MainLeft' <= MainLeft
     /\ \A t \in Tasks : /\ TaskLeft(t) \in Nat /\ TaskLeft(t)' \in Nat
                         /\ TaskLeft(t)' <= TaskLeft(t)
     /\ MainLeft' < MainLeft \/ \E t \in Tasks : TaskLeft(t)' < TaskLeft(t)]_vars

\* The threads main has created, and what those that have ended have done.
Created == {t \in Tasks : pc[t] # "none"}

StepInv ==
  /\ Cardinality(Created) = IF mpc = "create" THEN i ELSE procs
  /\ \A t \in Tasks : pc[t] = "exited" => done[t] = Writes

(* A step of main creates one thread or none.                              *)
LEMMA CreatedKept == ASSUME IInv, StepInv, [Next]_vars PROVE StepInv'
<1> USE ProcsType, SectorReadAssumption DEF IInv, TypeOK
<1>1. CASE Create
  <2>1. PICK t \in Tasks : pc[t] = "none" /\ pc' = [pc EXCEPT ![t] = "open"]
    BY <1>1 DEF Create
  <2>2. Created' = Created \cup {t} /\ t \notin Created /\ Created \in SUBSET Tasks
    BY <2>1 DEF Created
  <2>3. Cardinality(Created') = Cardinality(Created) + 1
    BY <2>2, OneMore
  <2>4. /\ mpc = "create" /\ done' = done
        /\ \/ mpc' = "create" /\ i' = i + 1
           \/ mpc' = "gather" /\ i + 1 = procs
    BY <1>1 DEF Create, Loop
  <2> QED  BY <2>1, <2>3, <2>4 DEF StepInv
<1>2. CASE Gather \/ Release
  <2>1. /\ mpc # "create" /\ mpc' # "create" /\ UNCHANGED <<pc, done>>
    BY <1>2 DEF Gather, Release, Loop
  <2> QED  BY <2>1 DEF StepInv, Created
<1>3. ASSUME NEW t \in Tasks, Task(t) PROVE StepInv'
  <2>1. Created' = Created /\ UNCHANGED <<mpc, i>>
    BY <1>3 DEF Task, Open, Ready, Begin, WriteSector, Leave, Created
  <2>2. \A u \in Tasks : pc'[u] = "exited" => done'[u] = Writes
    BY <1>3 DEF Task, Open, Ready, Begin, WriteSector, Leave, StepInv
  <2> QED  BY <2>1, <2>2 DEF StepInv
<1>4. CASE UNCHANGED vars
  BY <1>4 DEF vars, StepInv, Created
<1> QED  BY <1>1, <1>2, <1>3, <1>4 DEF Next, Main

(* It holds in every state.                                                *)
LEMMA StepInductive == Spec => [](IInv /\ StepInv)
<1>1. Init => StepInv
  <2> SUFFICES ASSUME Init PROVE StepInv
    OBVIOUS
  <2>1. Created = {}
    BY DEF Init, Created
  <2> QED  BY <2>1, FS_EmptySet DEF Init, StepInv
<1> QED  BY <1>1, CreatedKept, Inductive, PTL DEF Spec

(* sector_read comes to a stop only when it has written everything, or an  *)
(* open has failed.                                                        *)
THEOREM WritersGoOn == Spec => []NeverStuck
<1>1. IInv /\ StepInv => NeverStuck
  <2> SUFFICES ASSUME IInv, StepInv, \A t \in Tasks : pc[t] # "failed", ~ CanGoOn
               PROVE  mpc = "exited" /\ \A t \in Tasks : pc[t] = "exited" /\ done[t] = Writes
    BY DEF NeverStuck
  <2> USE ProcsType DEF IInv, TypeOK
  <2>1. Created \in SUBSET Tasks /\ Arrived \in SUBSET Tasks /\ Begun \in SUBSET Tasks
    BY DEF Created, Arrived, Begun
  <2>2. mpc # "create"
    <3> SUFFICES ASSUME mpc = "create" PROVE FALSE
      OBVIOUS
    <3>1. Created = Tasks
      BY DEF CanGoOn, Created
    <3>2. Cardinality(Created) = i
      BY DEF StepInv
    <3> QED  BY <3>1, <3>2 DEF procs
  <2>3. Created = Tasks
    BY <2>1, <2>2, SomeTasks DEF StepInv
  <2>4. \A t \in Tasks : pc[t] \in {"wait", "exited"}
    BY <2>3 DEF Created, CanGoOn, TaskPlaces
  <2>5. Arrived = Tasks
    BY <2>4 DEF Arrived
  <2>6. mpc # "gather"
    <3> SUFFICES ASSUME mpc = "gather" PROVE FALSE
      OBVIOUS
    <3>1. procs = s1 + i
      BY <2>5 DEF Counted, Gathered, procs
    <3>2. ~ (s1 > 0)
      BY DEF CanGoOn
    <3> QED  BY <3>1, <3>2
  <2>7. mpc = "exited"
    BY <2>2, <2>6 DEF CanGoOn, MainPlaces
  <2>8. Begun = Tasks
    <3>1. Cardinality(Begun) \in Nat /\ Cardinality(Begun) + s0 = procs
      BY <2>1, <2>7, SomeTasks DEF Counted, Released
    <3>2. s0 > 0 => Begun = Tasks
      BY <2>4 DEF CanGoOn, Begun
    <3>3. s0 = 0 => Begun = Tasks
      BY <2>1, <3>1, SomeTasks
    <3> QED  BY <3>2, <3>3
  <2>9. \A t \in Tasks : pc[t] = "exited"
    BY <2>4, <2>8 DEF Begun
  <2> QED  BY <2>7, <2>9 DEF StepInv
<1> QED  BY <1>1, StepInductive, PTL

(* What is left is a number of steps.                                      *)
LEMMA LeftIs == TypeOK => MainLeft \in Nat /\ \A t \in Tasks : TaskLeft(t) \in Nat
<1> SUFFICES ASSUME TypeOK
             PROVE  MainLeft \in Nat /\ \A t \in Tasks : TaskLeft(t) \in Nat
  OBVIOUS
<1>1. MainLeft \in Nat
  BY ProcsType DEF TypeOK, MainPlaces, MainLeft
<1>2. ASSUME NEW t \in Tasks PROVE TaskLeft(t) \in Nat
  <2>1. pc[t] \in TaskPlaces /\ done[t] \in 0 .. Writes
    BY DEF TypeOK
  <2> QED  BY <2>1, SectorReadAssumption DEF TaskPlaces, TaskLeft
<1> QED  BY <1>1, <1>2

(* A step of a thread lowers what is left to it alone.                     *)
LEMMA TaskLowers ==
  ASSUME TypeOK, NEW t \in Tasks, Task(t)
  PROVE  /\ MainLeft' = MainLeft /\ TaskLeft(t)' < TaskLeft(t)
         /\ \A u \in Tasks : u # t => TaskLeft(u)' = TaskLeft(u)
<1>1. MainLeft' = MainLeft /\ \A u \in Tasks : u # t => pc'[u] = pc[u] /\ done'[u] = done[u]
  BY DEF TypeOK, Task, Open, Ready, Begin, WriteSector, Leave, MainLeft
<1>2. /\ Writes \in Nat /\ done[t] \in 0 .. Writes
      /\ \/ pc[t] = "open" /\ pc'[t] \in {"ready", "failed"} /\ done'[t] = done[t]
         \/ pc[t] = "ready" /\ pc'[t] = "wait" /\ done'[t] = done[t]
         \/ pc[t] = "wait" /\ pc'[t] = "write" /\ done'[t] = done[t]
         \/ pc[t] = "write" /\ pc'[t] = "write" /\ done'[t] = done[t] + 1
         \/ pc[t] = "write" /\ pc'[t] = "exited" /\ done'[t] = done[t]
  BY SectorReadAssumption DEF TypeOK, Task, Open, Ready, Begin, WriteSector, Leave
<1>3. TaskLeft(t)' < TaskLeft(t)
  BY <1>2 DEF TaskLeft
<1> QED  BY <1>1, <1>3 DEF TaskLeft

(* A step of main lowers what is left to main, and may create a thread.    *)
LEMMA MainLowers ==
  ASSUME TypeOK, Main
  PROVE  MainLeft' < MainLeft /\ \A t \in Tasks : TaskLeft(t)' <= TaskLeft(t)
<1>1. MainLeft' < MainLeft
  BY ProcsType DEF TypeOK, MainPlaces, Main, Create, Gather, Release, Loop, MainLeft
<1>2. ASSUME NEW t \in Tasks PROVE TaskLeft(t)' <= TaskLeft(t)
  <2>1. /\ done'[t] = done[t]
        /\ pc'[t] = pc[t] \/ (pc[t] = "none" /\ pc'[t] = "open")
    BY DEF TypeOK, Main, Create, Gather, Release
  <2>2. TaskLeft(t) \in Nat
    BY LeftIs
  <2>3. CASE pc'[t] = pc[t]
    <3>1. TaskLeft(t)' = TaskLeft(t)
      BY <2>1, <2>3 DEF TaskLeft
    <3> QED  BY <2>2, <3>1
  <2>4. CASE pc[t] = "none" /\ pc'[t] = "open"
    BY <2>4, SectorReadAssumption DEF TaskLeft
  <2> QED  BY <2>1, <2>3, <2>4
<1> QED  BY <1>1, <1>2

(* And it does stop: every step leaves main or a thread a step less.       *)
THEOREM WritersWind == Spec => WindsDown
<1>1. TypeOK' => (MainLeft \in Nat /\ \A t \in Tasks : TaskLeft(t) \in Nat)'
  BY LeftIs, PTL
<1>2. ASSUME TypeOK, TypeOK', Next
      PROVE  /\ MainLeft \in Nat /\ MainLeft' \in Nat /\ MainLeft' <= MainLeft
             /\ \A t \in Tasks : /\ TaskLeft(t) \in Nat /\ TaskLeft(t)' \in Nat
                                 /\ TaskLeft(t)' <= TaskLeft(t)
             /\ MainLeft' < MainLeft \/ \E t \in Tasks : TaskLeft(t)' < TaskLeft(t)
  <2>1. /\ MainLeft \in Nat /\ \A t \in Tasks : TaskLeft(t) \in Nat
        /\ MainLeft' \in Nat /\ \A t \in Tasks : TaskLeft(t)' \in Nat
    BY <1>1, <1>2, LeftIs
  <2>2. /\ MainLeft' <= MainLeft
        /\ \A t \in Tasks : TaskLeft(t)' <= TaskLeft(t)
        /\ MainLeft' < MainLeft \/ \E t \in Tasks : TaskLeft(t)' < TaskLeft(t)
    <3>1. CASE Main
      <4>1. MainLeft' < MainLeft /\ \A t \in Tasks : TaskLeft(t)' <= TaskLeft(t)
        BY <1>2, <3>1, MainLowers
      <4> QED  BY <2>1, <4>1
    <3>2. ASSUME NEW t \in Tasks, Task(t)
          PROVE  /\ MainLeft' <= MainLeft /\ TaskLeft(t)' < TaskLeft(t)
                 /\ \A u \in Tasks : TaskLeft(u)' <= TaskLeft(u)
      <4>1. /\ MainLeft' = MainLeft /\ TaskLeft(t)' < TaskLeft(t)
            /\ \A u \in Tasks : u # t => TaskLeft(u)' = TaskLeft(u)
        BY <1>2, <3>2, TaskLowers
      <4> QED  BY <2>1, <4>1
    <3> QED  BY <1>2, <3>1, <3>2 DEF Next
  <2> QED  BY <2>1, <2>2
<1>3. IInv /\ IInv' /\ [Next]_vars =>
        [/\ MainLeft \in Nat /\ MainLeft' \in Nat /\ MainLeft' <= MainLeft
         /\ \A t \in Tasks : /\ TaskLeft(t) \in Nat /\ TaskLeft(t)' \in Nat
                             /\ TaskLeft(t)' <= TaskLeft(t)
         /\ MainLeft' < MainLeft \/ \E t \in Tasks : TaskLeft(t)' < TaskLeft(t)]_vars
  BY <1>2 DEF IInv
<1> QED  BY <1>3, Inductive, PTL DEF Spec, WindsDown

----------------------------------------------------------------------------
(* post_processing().                                                      *)

MaxThreads == 56

Filled ==
  \A in \in Inputs : /\ in.thread_number \in 1 .. MaxThreads
                     /\ in.ids \in Seq(0 .. in.thread_number - 1)

(* The names of the first 56 threads are different chars, and each leads   *)
(* back to its thread.                                                     *)
LEMMA NameBack ==
  ASSUME NEW id \in 0 .. MaxThreads - 1
  PROVE  get_th_name(id) \in Int /\ get_th_id(get_th_name(id)) = id
<1>1. \A x \in 0 .. 127 : Char(x) = x
  BY DEF Char
<1>2. CASE id <= 25
  <2>1. get_th_name(id) = 65 + id
    BY <1>1, <1>2 DEF get_th_name
  <2> QED  BY <1>2, <2>1 DEF get_th_id
<1>3. CASE id > 25
  <2>1. get_th_name(id) = 72 + id
    <3>1. 65 + (id + 7) = 72 + id /\ 72 + id \in 0 .. 127
      BY <1>3 DEF MaxThreads
    <3> QED  BY <1>1, <1>3, <3>1 DEF get_th_name
  <2>2. Char(72 + id - 7) = 65 + id
    <3>1. 72 + id - 7 = 65 + id /\ 65 + id \in 0 .. 127
      BY <1>3 DEF MaxThreads
    <3> QED  BY <1>1, <3>1
  <2> QED  BY <1>3, <2>1, <2>2 DEF get_th_id
<1> QED  BY <1>2, <1>3 DEF MaxThreads

----------------------------------------------------------------------------
Ids == 0 .. thread_number - 1

BufferOK ==
  /\ thread_number \in 1 .. MaxThreads
  /\ Size \in Nat /\ DOMAIN buffer = 0 .. Size - 1
  /\ \A n \in 0 .. Size - 1 : \E id \in Ids : buffer[n] = get_th_name(id)

PostTypeOK ==
  /\ k \in 0 .. Size /\ j \in Nat /\ size \in Nat \ {0}
  /\ DOMAIN seq = 0 .. size - 1
  /\ occ \in [Ids -> Nat]

\* The last character squeezed is the last byte read.
LastRead == IF k = 0 THEN j = 0 ELSE j > 0 /\ seq[j - 1] = buffer[k - 1]

PostInv == BufferOK /\ PostTypeOK /\ LastRead /\ Summarized

\* The bytes of a thread among the first m.
Of(id, m) == {n \in 0 .. m - 1 : buffer[n] = get_th_name(id)}

----------------------------------------------------------------------------
(* Sets of bytes read have sizes, which grow by one with a byte.           *)
LEMMA Counts ==
  ASSUME NEW m \in Nat, NEW S \in SUBSET (0 .. m)
  PROVE  /\ IsFiniteSet(S) /\ Cardinality(S) \in Nat
         /\ Cardinality(0 .. m - 1) = m
         /\ \A T \in SUBSET S : /\ IsFiniteSet(T) /\ Cardinality(T) \in Nat
                                /\ T # S => Cardinality(T) < Cardinality(S)
         /\ \A n : n \notin S => Cardinality(S \cup {n}) = Cardinality(S) + 1
<1>1. IsFiniteSet(0 .. m) /\ Cardinality(0 .. m - 1) = m
  BY FS_Interval
<1>2. IsFiniteSet(S) /\ Cardinality(S) \in Nat
  BY <1>1, FS_Subset, FS_CardinalityType
<1>3. ASSUME NEW T \in SUBSET S
      PROVE  /\ IsFiniteSet(T) /\ Cardinality(T) \in Nat
             /\ T # S => Cardinality(T) < Cardinality(S)
  <2>1. /\ IsFiniteSet(T) /\ Cardinality(T) <= Cardinality(S)
        /\ Cardinality(T) = Cardinality(S) => T = S
    BY <1>2, FS_Subset
  <2>2. Cardinality(T) \in Nat
    BY <2>1, FS_CardinalityType
  <2> QED  BY <1>2, <2>1, <2>2
<1>4. \A n : n \notin S => Cardinality(S \cup {n}) = Cardinality(S) + 1
  BY <1>2, FS_AddElement
<1> QED  BY <1>1, <1>2, <1>3, <1>4

(* Nothing is read, nothing is counted.                                    *)
LEMMA PostStarts == ASSUME Filled, PostInit PROVE PostInv
<1>1. PICK in \in Inputs :
        /\ thread_number = in.thread_number
        /\ buffer = [n \in 0 .. Len(in.ids) - 1 |-> get_th_name(in.ids[n + 1])]
  BY DEF PostInit
<1>2. /\ thread_number \in 1 .. MaxThreads /\ in.ids \in Seq(Ids) /\ Len(in.ids) \in Nat
      /\ \A n \in 0 .. Len(in.ids) - 1 : in.ids[n + 1] \in Ids
  BY <1>1, SMTT(30) DEF Filled, Ids
<1>3. Size = Len(in.ids)
  BY <1>1, <1>2, Counts DEF Size
<1>4. BufferOK
  BY <1>1, <1>2, <1>3 DEF BufferOK
<1>5. PostTypeOK
  <2>1. 0 \in 0 .. Size /\ thread_number \in Nat \ {0}
    BY <1>2, <1>3
  <2> QED  BY <2>1 DEF PostInit, PostTypeOK, Ids
<1>6. RunStarts = {} /\ k = 0 /\ j = 0
  BY DEF PostInit, RunStarts
<1>7. Cardinality({}) = 0
  BY FS_EmptySet
<1>8. Summarized
  <2>1. \A id : {n \in 0 .. k - 1 : buffer[n] = get_th_name(id)} = {}
    BY <1>6
  <2>2. \A id \in DOMAIN occ : occ[id] = 0
    BY DEF PostInit
  <2> QED  BY <1>5, <1>6, <1>7, <2>1, <2>2 DEF Summarized, PostTypeOK
<1> QED  BY <1>4, <1>5, <1>6, <1>8 DEF PostInv, LastRead

(* The squeezed characters after one byte more.                            *)
LEMMA SqueezeKeeps ==
  ASSUME PostInv, Step
  PROVE  /\ j' = Cardinality(RunStarts') /\ j' <= size' /\ DOMAIN seq' = 0 .. size' - 1
         /\ j' \in Nat /\ size' \in Nat \ {0}
         /\ \A n \in RunStarts' : seq'[Cardinality({m \in RunStarts' : m < n})] = buffer[n]
         /\ LastRead'
<1> DEFINE c == buffer[k]
           new == k = 0 \/ buffer[k - 1] # c
           Before(n) == {m \in RunStarts : m < n}
<1>1. /\ k \in Nat /\ k' = k + 1 /\ buffer' = buffer /\ j \in Nat /\ size \in Nat \ {0}
      /\ Squeeze(c) /\ j = Cardinality(RunStarts) /\ j <= size /\ DOMAIN seq = 0 .. size - 1
      /\ \A n \in RunStarts : seq[Cardinality(Before(n))] = buffer[n]
  BY DEF Step, PostInv, PostTypeOK, BufferOK, Summarized
<1>2. new <=> (j = 0 \/ seq[j - 1] # c)
  BY <1>1 DEF PostInv, LastRead
<1>3. RunStarts \in SUBSET (0 .. k) /\ k \notin RunStarts
  BY <1>1 DEF RunStarts
<1>4. RunStarts' = IF new THEN RunStarts \cup {k} ELSE RunStarts
  <2>1. RunStarts' = {n \in 0 .. k : n = 0 \/ buffer[n - 1] # buffer[n]}
    BY <1>1 DEF RunStarts
  <2>2. 0 .. k = (0 .. k - 1) \cup {k} /\ k \notin 0 .. k - 1
    BY <1>1
  <2> QED  BY <2>1, <2>2 DEF RunStarts
<1>5. ASSUME NEW n \in RunStarts
      PROVE  /\ {m \in RunStarts' : m < n} = Before(n)
             /\ Cardinality(Before(n)) \in Nat /\ Cardinality(Before(n)) < j
  <2>1. n \in 0 .. k - 1
    BY DEF RunStarts
  <2>2. {m \in RunStarts' : m < n} = Before(n)
    BY <1>1, <1>4, <2>1
  <2>3. Before(n) \in SUBSET RunStarts /\ Before(n) # RunStarts
    BY <2>1
  <2> QED  BY <1>1, <1>3, <2>2, <2>3, Counts
<1>6. CASE ~ new
  <2>1. size' = size /\ seq' = seq /\ j' = j /\ RunStarts' = RunStarts
    BY <1>1, <1>2, <1>4, <1>6 DEF Squeeze
  <2>2. LastRead'
    BY <1>1, <1>2, <1>6, <2>1 DEF LastRead
  <2> QED  BY <1>1, <1>5, <2>1, <2>2
<1>7. CASE new
  <2>1. size' = Room /\ seq' = [Grown EXCEPT ![j] = c] /\ j' = j + 1 /\ RunStarts' = RunStarts \cup {k}
    BY <1>1, <1>2, <1>4, <1>7 DEF Squeeze
  <2>2. Room \in Nat \ {0} /\ size <= Room /\ j \in 0 .. Room - 1 /\ j + 1 <= Room
    BY <1>1 DEF Room
  <2>3. /\ DOMAIN seq' = 0 .. Room - 1 /\ seq'[j] = c
        /\ \A m \in 0 .. size - 1 : m # j => seq'[m] = seq[m]
    BY <1>1, <2>1, <2>2 DEF Grown
  <2>4. Cardinality(RunStarts') = j + 1
    BY <1>1, <1>3, <2>1, Counts
  <2>5. ASSUME NEW n \in RunStarts' PROVE seq'[Cardinality({m \in RunStarts' : m < n})] = buffer[n]
    <3>1. CASE n \in RunStarts
      <4>1. Cardinality(Before(n)) \in 0 .. size - 1 /\ Cardinality(Before(n)) # j
        BY <1>1, <1>5, <3>1
      <4> QED  BY <1>1, <1>5, <2>3, <3>1, <4>1
    <3>2. CASE n = k
      <4>1. {m \in RunStarts' : m < n} = RunStarts
        BY <1>1, <2>1, <3>2 DEF RunStarts
      <4> QED  BY <1>1, <2>3, <3>2, <4>1
    <3> QED  BY <2>1, <3>1, <3>2
  <2>6. LastRead'
    <3>1. j' - 1 = j /\ k' - 1 = k /\ j' > 0 /\ k' # 0
      BY <1>1, <2>1
    <3> QED  BY <1>1, <2>3, <3>1 DEF LastRead
  <2> QED  BY <1>1, <2>1, <2>2, <2>3, <2>4, <2>5, <2>6
<1> QED  BY <1>6, <1>7

(* All threads have a name that leads back to them.                        *)
LEMMA IdsNamed == BufferOK => Ids \subseteq 0 .. MaxThreads - 1
BY DEF BufferOK, Ids, MaxThreads

(* The counters after one byte more.                                       *)
LEMMA CountKeeps ==
  ASSUME PostInv, Step
  PROVE  /\ occ' \in [Ids -> Nat]
         /\ \A id \in Ids : occ'[id] = Cardinality(Of(id, k + 1))
<1>1. /\ k \in Nat /\ k \in 0 .. Size - 1 /\ occ \in [Ids -> Nat]
      /\ occ' = [occ EXCEPT ![get_th_id(buffer[k])] = @ + 1]
      /\ \A id \in Ids : occ[id] = Cardinality(Of(id, k)) /\ id \in 0 .. MaxThreads - 1
  <2>1. /\ Size \in Nat /\ k \in 0 .. Size /\ k < Size /\ occ \in [Ids -> Nat]
        /\ Count(buffer[k])
    BY DEF Step, PostInv, PostTypeOK, BufferOK
  <2>2. \A id \in Ids : occ[id] = Cardinality(Of(id, k))
    BY <2>1 DEF PostInv, Summarized, Of
  <2> QED  BY <2>1, <2>2, IdsNamed DEF Count, PostInv
<1>2. PICK who \in Ids : buffer[k] = get_th_name(who)
  BY <1>1 DEF PostInv, BufferOK
<1>3. get_th_id(buffer[k]) = who
  BY <1>1, <1>2, NameBack
<1>4. occ' = [occ EXCEPT ![who] = @ + 1]
  BY <1>1, <1>3
<1>5. occ' \in [Ids -> Nat]
  BY <1>1, <1>4
<1>6. 0 .. (k + 1) - 1 = (0 .. k - 1) \cup {k} /\ k \notin 0 .. k - 1
  BY <1>1
<1>7. ASSUME NEW id \in Ids PROVE occ'[id] = Cardinality(Of(id, k + 1))
  <2>0. Of(id, k) \in SUBSET (0 .. k) /\ k \notin Of(id, k)
    BY <1>1 DEF Of
  <2>1. CASE id = who
    <3>1. Of(id, k + 1) = Of(id, k) \cup {k}
      BY <1>2, <1>6, <2>1 DEF Of
    <3>2. occ'[id] = occ[id] + 1
      BY <1>1, <1>4, <2>1
    <3> QED  BY <1>1, <2>0, <3>1, <3>2, Counts
  <2>2. CASE id # who
    <3>1. buffer[k] # get_th_name(id)
      BY <1>1, <1>2, <1>3, <2>2, NameBack
    <3>2. Of(id, k + 1) = Of(id, k)
      BY <1>6, <3>1 DEF Of
    <3>3. occ'[id] = occ[id]
      BY <1>1, <1>4, <2>2
    <3> QED  BY <1>1, <3>2, <3>3
  <2> QED  BY <2>1, <2>2
<1> QED  BY <1>5, <1>7

(* Every iteration keeps the invariant.                                    *)
LEMMA PostKeeps == ASSUME PostInv, [PostNext]_postVars PROVE PostInv'
<1>1. CASE Step
  <2>1. /\ thread_number' = thread_number /\ buffer' = buffer /\ k' = k + 1 /\ k' \in 0 .. Size
        /\ Size' = Size
    BY <1>1 DEF Step, Size, PostInv, PostTypeOK, BufferOK
  <2>2. BufferOK'
    BY <2>1 DEF PostInv, BufferOK, Ids
  <2>3. PostTypeOK'
    BY <1>1, <2>1, SqueezeKeeps, CountKeeps DEF PostTypeOK, Ids
  <2>4. Summarized'
    <3>1. \A id \in DOMAIN occ' : occ'[id] = Cardinality({n \in 0 .. k' - 1 : buffer'[n] = get_th_name(id)})
      BY <1>1, <2>1, CountKeeps DEF Of
    <3> QED  BY <1>1, <2>1, <3>1, SqueezeKeeps DEF Summarized
  <2> QED  BY <1>1, <2>2, <2>3, <2>4, SqueezeKeeps DEF PostInv
<1>2. CASE Finish \/ UNCHANGED postVars
  <2>1. UNCHANGED <<thread_number, buffer, k, j, size, seq, occ>>
    BY <1>2 DEF Finish, postVars
  <2> QED  BY <2>1 DEF PostInv, BufferOK, PostTypeOK, LastRead, Summarized, RunStarts, Size, Ids
<1> QED  BY <1>1, <1>2 DEF PostNext

(* The squeezed characters are the first bytes of the runs, in order, all  *)
(* in the allocation, and every thread's counter is the number of its      *)
(* bytes, for every buffer and up to 56 threads.                           *)
THEOREM SummarizesAll == ASSUME Filled PROVE PostSpec => []Summarized
<1>1. PostInv => Summarized
  BY DEF PostInv
<1> QED  BY <1>1, PostStarts, PostKeeps, PTL DEF PostSpec

(* A name leads back to the thread it was made from, whose counter exists. *)
THEOREM NamesKept == ASSUME Filled PROVE PostSpec => []NamesLeadBack
<1>1. ASSUME PostInv, NEW n \in 0 .. Size - 1
      PROVE  /\ get_th_id(buffer[n]) \in DOMAIN occ
             /\ get_th_name(get_th_id(buffer[n])) = buffer[n]
  <2>1. PICK id \in Ids : buffer[n] = get_th_name(id)
    BY <1>1 DEF PostInv, BufferOK
  <2>2. id \in 0 .. MaxThreads - 1 /\ DOMAIN occ = Ids
    BY <1>1, IdsNamed DEF PostInv, PostTypeOK
  <2> QED  BY <2>1, <2>2, NameBack
<1>2. PostInv => NamesLeadBack
  BY <1>1 DEF NamesLeadBack
<1> QED  BY <1>2, PostStarts, PostKeeps, PTL DEF PostSpec

----------------------------------------------------------------------------
(* The web monitor.                                                        *)

USE WebMonitorAssumption

(* The script of the page, in whatever order its commands run.             *)

Begins == {"mktemp", "mkfifo", "fork"}
Shells == Begins \cup {"paste", "rm", "unlink", "rmdir", "ended"}

ScriptTypeOK ==
  /\ sh \in Shells /\ dir \in BOOLEAN
  /\ names \subseteq Files /\ listed \subseteq Files /\ data \subseteq Files
  /\ opened \subseteq Files /\ columns \subseteq Files
  /\ awk \in [Files -> {"none", "open", "write", "done"}]
  /\ paste \in 0 .. 3

\* Before the commands there is nothing but the pipes.
Nothing ==
  sh \in Begins =>
    /\ names \subseteq Fifos /\ opened = {} /\ columns = {} /\ paste = 0 /\ awk["f3"] = "none"
    /\ sh = "fork" => names = Fifos

\* paste goes through the pipes in order, and each has a writer.
Piped ==
  sh = "paste" =>
    /\ Fifos \subseteq names
    /\ paste > 0 => "f1" \in opened
    /\ paste > 1 => "f2" \in opened
    /\ \A f \in Fifos : IF f \in opened THEN awk[f] = "write" \/ (awk[f] = "done" /\ f \in data)
                                        ELSE awk[f] = "open"

Columns == columns # {} => Fifos \subseteq columns

\* The third awk makes its file once: if paste has found it, so does rm.
Found ==
  /\ "f3" \in names => awk["f3"] \in {"write", "done"}
  /\ "f3" \in opened =>
       /\ awk["f3"] \in {"write", "done"}
       /\ sh = "unlink" => names \subseteq listed
       /\ sh = "rmdir" => names = {}
       /\ sh = "ended" => ~ dir

ScriptInv == ScriptTypeOK /\ Nothing /\ Piped /\ Columns /\ Found

(* The invariant holds before the first run of the script and at the start *)
(* of each.                                                                *)
LEMMA ScriptStarts == /\ ScriptInit => ScriptInv
                      /\ ScriptStart => ScriptInv'
<1>1. ASSUME ScriptInit PROVE ScriptInv
  <2> USE <1>1 DEF ScriptInit
  <2>1. awk \in [Files -> {"none", "open", "write", "done"}] /\ sh \in Shells /\ dir \in BOOLEAN
    BY DEF Shells
  <2>3. ScriptTypeOK
    BY <2>1 DEF ScriptTypeOK
  <2>2. Nothing /\ Piped /\ Columns /\ Found
    BY DEF Nothing, Piped, Columns, Found, Begins
  <2> QED  BY <2>3, <2>2 DEF ScriptInv
<1>2. ASSUME ScriptStart PROVE ScriptInv'
  <2> USE <1>2 DEF ScriptStart
  <2>1. awk' \in [Files -> {"none", "open", "write", "done"}] /\ sh' \in Shells /\ dir' \in BOOLEAN
    BY DEF Shells, Begins
  <2>4. ScriptTypeOK'
    BY <2>1 DEF ScriptTypeOK
  <2>2. "f3" \in Files
    BY DEF Files
  <2>3. (Nothing /\ Piped /\ Columns /\ Found)'
    BY <2>2 DEF Nothing, Piped, Columns, Found, Begins
  <2> QED  BY <2>4, <2>3 DEF ScriptInv
<1> QED  BY <1>1, <1>2

(* A step of the shell itself.                                             *)
LEMMA ShellKeeps == ASSUME ScriptInv, Script PROVE ScriptInv'
<1> USE DEF ScriptInv
<1>1. CASE Mktemp
  BY <1>1 DEF Mktemp, ScriptTypeOK, Shells, Begins, Nothing, Piped, Columns, Found
<1>2. CASE Mkfifo
  BY <1>2 DEF Mkfifo, ScriptTypeOK, Shells, Begins, Nothing, Piped, Columns, Found, Files, Fifos
<1>3. CASE Fork
  BY <1>3 DEF Fork, ScriptTypeOK, Shells, Begins, Nothing, Piped, Columns, Found, Files, Fifos
<1>4. CASE Remove
  BY <1>4 DEF Remove, ScriptTypeOK, Shells, Begins, Nothing, Piped, Columns, Found, Files, Fifos
<1> QED  BY <1>1, <1>2, <1>3, <1>4 DEF Script

(* A step of one of the three commands in the background.                  *)
LEMMA AwkKeeps ==
  ASSUME ScriptInv, NEW f \in Files, Redirect(f) \/ AwkWrites(f)
  PROVE  ScriptInv'
<1> USE DEF ScriptInv
<1>1. CASE Redirect(f)
  <2>1. f = "f3" /\ awk["f3"] = "open" /\ "f3" \notin opened
    BY <1>1 DEF Redirect, Files, Fifos, Found
  <2>2. /\ awk'["f3"] \in {"write", "done"} /\ \A g \in Fifos : awk'[g] = awk[g]
        /\ awk' \in [Files -> {"none", "open", "write", "done"}]
        /\ names' \subseteq names \cup {"f3"} /\ names \subseteq names'
    BY <1>1, <2>1 DEF Redirect, ScriptTypeOK, Files, Fifos
  <2>3. sh \notin Begins \/ names' = names
    BY <2>1 DEF Nothing
  <2> QED  BY <1>1, <2>1, <2>2, <2>3 DEF Redirect, ScriptTypeOK, Nothing, Piped, Columns, Found, Files
<1>2. CASE AwkWrites(f)
  <2>1. /\ awk' = [awk EXCEPT ![f] = "done"] /\ awk[f] = "write"
        /\ data' = IF f \in Fifos /\ sh # "paste" THEN data ELSE data \cup {f}
        /\ UNCHANGED <<sh, dir, names, listed, paste, opened, columns>>
    BY <1>2 DEF AwkWrites
  <2>2. ScriptTypeOK'
    BY <2>1 DEF ScriptTypeOK
  <2>3. Piped'
    BY <2>1 DEF Piped, ScriptTypeOK, Files, Fifos
  <2>4. Nothing' /\ Columns' /\ Found'
    BY <2>1 DEF Nothing, Columns, Found, ScriptTypeOK, Files
  <2> QED  BY <2>2, <2>3, <2>4
<1> QED  BY <1>1, <1>2

(* A step of paste.                                                        *)
LEMMA PasteKeeps == ASSUME ScriptInv, PasteOpens \/ PasteReads PROVE ScriptInv'
<1> USE DEF ScriptInv
<1>0. /\ Len(Operands) = 3 /\ Operands[1] = "f1" /\ Operands[2] = "f2" /\ Operands[3] = "f3"
      /\ sh = "paste"
  BY DEF Operands, PasteOpens, PasteReads
<1>1. CASE PasteOpens
  <2>1. PICK f \in Files :
          /\ f = Operands[paste + 1] /\ paste < 3
          /\ \/ /\ f \in Fifos /\ awk[f] = "open" /\ awk' = [awk EXCEPT ![f] = "write"]
                /\ opened' = opened \cup {f} /\ paste' = paste + 1 /\ sh' = sh
             \/ /\ f \in names \ Fifos /\ opened' = opened \cup {f} /\ paste' = paste + 1
                /\ sh' = sh /\ awk' = awk
             \/ /\ f \notin names /\ awk' = awk /\ opened' = opened
                /\ \/ sh' = "rm" /\ paste' = paste
                   \/ paste' = paste + 1 /\ sh' = sh
    <3>1. paste \in 0 .. 2
      BY <1>0, <1>1 DEF PasteOpens, ScriptTypeOK
    <3>2. Operands[paste + 1] \in Files
      BY <1>0, <3>1 DEF Files
    <3> QED  BY <1>0, <1>1, <3>2 DEF PasteOpens
  <2>2. \/ paste = 0 /\ f = "f1"
        \/ paste = 1 /\ f = "f2"
        \/ paste = 2 /\ f = "f3"
    <3>1. paste \in 0 .. 2
      BY <2>1 DEF ScriptTypeOK
    <3>2. f = Operands[paste + 1] /\ paste \in {0, 1, 2}
      BY <2>1, <3>1
    <3>3. paste = 0 => f = "f1"
      BY <1>0, <3>2
    <3>4. paste = 1 => f = "f2"
      BY <1>0, <3>2
    <3>5. paste = 2 => f = "f3"
      BY <1>0, <3>2
    <3> QED  BY <3>2, <3>3, <3>4, <3>5
  <2>3. dir' = dir /\ names' = names /\ listed' = listed /\ data' = data /\ columns' = columns
    BY <1>1 DEF PasteOpens
  <2>4. Fifos \subseteq names /\ (f \notin names => f = "f3")
    BY <1>0, <2>2 DEF Piped, Fifos
  <2>5. CASE f \in Fifos
    <3>1. /\ awk[f] = "open" /\ awk' = [awk EXCEPT ![f] = "write"]
          /\ opened' = opened \cup {f} /\ paste' = paste + 1 /\ sh' = "paste"
      BY <1>0, <2>1, <2>4, <2>5
    <3>2. ScriptTypeOK'
      BY <2>1, <2>3, <3>1 DEF ScriptTypeOK, Shells
    <3>3. /\ awk'[f] = "write" /\ \A g \in Files \ {f} : awk'[g] = awk[g]
          /\ \A g \in Files \ {f} : g \in opened' <=> g \in opened
          /\ "f3" \in Files /\ f # "f3" /\ Fifos \subseteq Files
      BY <2>5, <3>1 DEF ScriptTypeOK, Files, Fifos
    <3>4. Piped'
      <4>1. /\ paste' > 0 => "f1" \in opened'
            /\ paste' > 1 => "f2" \in opened'
        BY <1>0, <2>2, <2>5, <3>1 DEF Piped, Fifos
      <4> QED  BY <1>0, <2>3, <3>1, <3>3, <4>1 DEF Piped
    <3>5. (Nothing /\ Columns /\ Found)'
      BY <1>0, <2>3, <3>1, <3>3 DEF Nothing, Columns, Found, Begins
    <3> QED  BY <3>2, <3>4, <3>5
  <2>6. CASE f \notin Fifos
    <3>1. /\ f = "f3" /\ paste = 2 /\ awk' = awk /\ sh' \in {"paste", "rm"}
          /\ paste' \in {2, 3} /\ opened' \in SUBSET Files
          /\ opened' \subseteq opened \cup {"f3"} /\ opened \subseteq opened'
          /\ "f3" \in opened' => "f3" \in opened \/ "f3" \in names
      <4>1. f = "f3" /\ paste = 2
        BY <2>2, <2>6 DEF Fifos
      <4>2. awk' = awk /\ sh' \in {"paste", "rm"} /\ paste' \in {2, 3}
        BY <1>0, <2>1, <2>6, <4>1
      <4>3. \/ opened' = opened
            \/ opened' = opened \cup {"f3"} /\ "f3" \in names
        BY <2>1, <2>6, <4>1
      <4>4. opened \subseteq Files /\ "f3" \in Files
        BY DEF ScriptTypeOK, Files
      <4> QED  BY <4>1, <4>2, <4>3, <4>4
    <3>2. ScriptTypeOK'
      BY <2>3, <3>1 DEF ScriptTypeOK, Shells
    <3>3. Piped'
      BY <1>0, <2>3, <3>1 DEF Piped, Fifos
    <3>4. (Nothing /\ Columns /\ Found)'
      BY <1>0, <2>3, <3>1 DEF Nothing, Columns, Found, Begins
    <3> QED  BY <3>2, <3>3, <3>4
  <2> QED  BY <2>5, <2>6
<1>2. CASE PasteReads
  <2>1. /\ paste = 3 /\ columns' = opened \cap data /\ sh' = "rm"
        /\ \A f \in opened \cap Fifos : awk[f] = "done"
        /\ UNCHANGED <<dir, names, listed, awk, data, paste, opened>>
    BY <1>0, <1>2 DEF PasteReads
  <2>2. Fifos \subseteq columns'
    BY <1>0, <2>1 DEF Piped, Fifos
  <2> QED  BY <1>0, <2>1, <2>2 DEF ScriptTypeOK, Shells, Begins, Nothing, Piped, Columns, Found
<1> QED  BY <1>1, <1>2

(* Every step of the script and its commands.                              *)
LEMMA ScriptKeeps ==
  ASSUME ScriptInv, ScriptNext \/ ScriptStart \/ UNCHANGED scriptVars
  PROVE  ScriptInv'
<1>1. CASE UNCHANGED scriptVars
  BY <1>1 DEF scriptVars, ScriptInv, ScriptTypeOK, Nothing, Piped, Columns, Found
<1> QED  BY <1>1, ScriptStarts, ShellKeeps, AwkKeeps, PasteKeeps DEF ScriptNext

----------------------------------------------------------------------------
(* The init script.                                                        *)

Places == {"rest", "start", "stop", "launch", "open", "write"}

InitTypeOK ==
  /\ pidfile \in 0 .. MaxPid
  /\ server \in [Pids -> {"none", "starting", "serving", "dead"}]
  /\ call \in [Callers -> Places] /\ pid \in [Callers -> 0 .. MaxPid]

\* One at a time is about to launch, and what it launches is all there is.
OneStart ==
  /\ \A c, d \in Starting : c = d
  /\ \A c \in Starting, p \in Pids :
       server[p] # "none" => call[c] # "launch" /\ pid[c] = p

\* Whatever was launched since the boot is the process of the pid file: no
\* step of the script takes the pid out of it.
Launched ==
  ~ raced => \A p \in Pids : server[p] # "none" =>
               pidfile = p \/ \E c \in Starting : pid[c] = p

InitInv == InitTypeOK /\ (~ raced => OneStart) /\ Launched

(* A process id is a number and is not what an empty pid file reads as.    *)
LEMMA PidsAre == \A p \in Pids : p \in 0 .. MaxPid /\ p # NoFile
BY DEF Pids, NoFile

(* A boot finds no pid file and no process.                                *)
LEMMA InitStarts == /\ WebInit => InitInv
                    /\ Reboot => InitInv'
<1>1. WebInit => InitInv
  BY DEF WebInit, InitInv, InitTypeOK, OneStart, Launched, Starting, Places, NoFile
<1>2. Reboot => InitInv'
  BY DEF Reboot, InitInv, InitTypeOK, OneStart, Launched, Starting, Places, NoFile
<1> QED  BY <1>1, <1>2

(* What a server does leaves it launched.                                  *)
LEMMA ServerKeeps ==
  ASSUME InitInv, NEW p \in Pids, Run(p) \/ Crash(p)
  PROVE  InitInv'
<1> USE DEF InitInv
<1>1. /\ server[p] # "none" /\ pidfile' = pidfile /\ call' = call /\ pid' = pid /\ raced' = raced
      /\ \E end \in {"serving", "dead"} : server' = [server EXCEPT ![p] = end]
  BY DEF Run, Crash
<1>2. /\ server' \in [Pids -> {"none", "starting", "serving", "dead"}]
      /\ \A q \in Pids : server'[q] # "none" <=> server[q] # "none"
  BY <1>1 DEF InitTypeOK
<1> QED  BY <1>1, <1>2 DEF InitTypeOK, OneStart, Launched, Starting

(* A step of the init script by one of its callers.                        *)
LEMMA CallerKeeps ==
  ASSUME InitInv, NEW c \in Callers, InitScript(c)
  PROVE  InitInv'
<1> USE DEF InitInv
<1>1. CASE Called(c) \/ Stop(c)
  <2>1. /\ pidfile' = pidfile /\ server' = server /\ pid' = pid /\ raced' = raced
        /\ call[c] \in {"rest", "stop"}
        /\ \E place \in {"rest", "start", "stop"} : call' = [call EXCEPT ![c] = place]
    BY <1>1 DEF Called, Stop, Goto, AfterStop
  <2>2. call' \in [Callers -> Places] /\ call'[c] \in {"rest", "start", "stop"}
        /\ \A d \in Callers \ {c} : call'[d] = call[d]
    BY <2>1 DEF InitTypeOK, Places
  <2>3. Starting' = Starting /\ c \notin Starting
    BY <2>1, <2>2 DEF Starting
  <2> QED  BY <2>1, <2>2, <2>3 DEF InitTypeOK, OneStart, Launched, Starting
<1>2. CASE Test(c)
  <2>1. /\ call[c] = "start" /\ pidfile' = pidfile /\ server' = server /\ pid' = pid
        /\ raced' = (raced \/ (pidfile = NoFile /\ Starting # {}))
    BY <1>2 DEF Test
  <2>0. PICK place \in {"launch", "rest"} :
          /\ call' = [call EXCEPT ![c] = place] /\ (place = "launch" <=> pidfile = NoFile)
    BY <1>2 DEF Test, Goto
  <2>2. /\ call' \in [Callers -> Places] /\ call'[c] = place
        /\ \A d \in Callers \ {c} : call'[d] = call[d]
    BY <2>0 DEF InitTypeOK, Places
  <2>3. InitTypeOK'
    BY <2>1, <2>2 DEF InitTypeOK
  <2>4. CASE pidfile # NoFile
    <3>2. c \notin Starting
      BY <2>1 DEF Starting
    <3>3. place = "rest" /\ (raced' <=> raced)
      BY <2>0, <2>1, <2>4
    <3>1. Starting' = Starting
      BY <2>2, <3>2, <3>3 DEF Starting
    <3> QED  BY <2>1, <2>2, <2>3, <3>1, <3>2, <3>3 DEF OneStart, Launched, Starting
  <2>5. ASSUME pidfile = NoFile, ~ raced' PROVE OneStart' /\ Launched'
    <3>1. Starting = {} /\ ~ raced
      BY <2>1, <2>5
    <3>2. \A p \in Pids : server[p] = "none"
      BY <2>5, <3>1, PidsAre DEF Launched
    <3>3. Starting' = {c}
      BY <2>0, <2>2, <2>5, <3>1 DEF Starting
    <3> QED  BY <2>1, <3>2, <3>3 DEF OneStart, Launched
  <2> QED  BY <2>3, <2>4, <2>5 DEF Launched
<1>3. CASE Launch(c)
  <2>1. PICK p \in Pids :
          /\ call[c] = "launch" /\ call' = [call EXCEPT ![c] = "open"]
          /\ server' = [server EXCEPT ![p] = "starting"] /\ pid' = [pid EXCEPT ![c] = p]
          /\ pidfile' = pidfile /\ raced' = raced
    BY <1>3 DEF Launch, Goto
  <2>2. /\ call' \in [Callers -> Places] /\ call'[c] = "open"
        /\ \A d \in Callers \ {c} : call'[d] = call[d] /\ pid'[d] = pid[d]
        /\ pid'[c] = p /\ pid' \in [Callers -> 0 .. MaxPid]
        /\ server' \in [Pids -> {"none", "starting", "serving", "dead"}]
        /\ \A q \in Pids \ {p} : server'[q] = server[q]
    BY <2>1, PidsAre DEF InitTypeOK, Places
  <2>3. InitTypeOK'
    BY <2>1, <2>2 DEF InitTypeOK
  <2>4. Starting' = Starting /\ c \in Starting
    BY <2>1, <2>2 DEF Starting
  <2>5. ASSUME ~ raced' PROVE OneStart' /\ Launched'
    <3>1. OneStart
      BY <2>1, <2>5
    <3>2. \A q \in Pids : server[q] = "none"
      BY <2>1, <2>4, <3>1 DEF OneStart
    <3> QED  BY <2>2, <2>4, <3>1, <3>2 DEF OneStart, Launched
  <2> QED  BY <2>3, <2>5 DEF Launched
<1>4. CASE WritePid(c)
  <2>1. /\ server' = server /\ pid' = pid /\ raced' = raced
        /\ \/ call[c] = "open" /\ call' = [call EXCEPT ![c] = "write"] /\ pidfile' = NoFile
           \/ call[c] = "write" /\ call' = [call EXCEPT ![c] = "rest"] /\ pidfile' = pid[c]
    BY <1>4 DEF WritePid, Goto
  <2>2. /\ call' \in [Callers -> Places] /\ pidfile' \in 0 .. MaxPid
        /\ \A d \in Callers \ {c} : call'[d] = call[d]
        /\ call[c] = "open" => call'[c] = "write"
        /\ call[c] = "write" => call'[c] = "rest"
    BY <2>1 DEF InitTypeOK, Places, NoFile
  <2>3. InitTypeOK'
    BY <2>1, <2>2 DEF InitTypeOK
  <2>4. c \in Starting /\ Starting' \subseteq Starting /\ (call[c] = "open" => Starting' = Starting)
    BY <2>1, <2>2 DEF Starting
  <2>5. ASSUME ~ raced' PROVE OneStart' /\ Launched'
    <3>1. OneStart /\ \A p \in Pids : server[p] # "none" => pid[c] = p
      BY <2>1, <2>4, <2>5 DEF OneStart
    <3>2. OneStart'
      BY <2>1, <2>2, <2>4, <3>1 DEF OneStart, Starting
    <3>3. CASE call[c] = "open"
      BY <2>1, <2>4, <3>1, <3>2, <3>3 DEF Launched
    <3>4. CASE call[c] = "write"
      BY <2>1, <3>1, <3>2, <3>4 DEF Launched
    <3> QED  BY <2>1, <3>3, <3>4
  <2> QED  BY <2>3, <2>5 DEF Launched
<1> QED  BY <1>1, <1>2, <1>3, <1>4 DEF InitScript

----------------------------------------------------------------------------
(* Every step of the init script, the server and the browser, and a        *)
(* reboot.                                                                 *)
LEMMA WebKeeps ==
  ASSUME InitInv, ScriptInv, [WebNext]_webVars
  PROVE  InitInv' /\ ScriptInv'
<1>1. ASSUME NEW c \in Callers, InitScript(c) PROVE InitInv' /\ ScriptInv'
  BY <1>1, CallerKeeps, ScriptKeeps DEF InitScript
<1>2. ASSUME NEW p \in Pids, Run(p) \/ Crash(p) PROVE InitInv' /\ ScriptInv'
  <2>1. UNCHANGED scriptVars
    BY <1>2 DEF Run, Crash
  <2> QED  BY <1>2, <2>1, ServerKeeps, ScriptKeeps
<1>3. CASE Ask \/ Accept \/ Answer \/ RunScript \/ UNCHANGED webVars
  <2>1. UNCHANGED <<initVars, raced>>
    BY <1>3 DEF Ask, Accept, Answer, RunScript, webVars
  <2>2. InitInv'
    BY <2>1 DEF initVars, InitInv, InitTypeOK, OneStart, Launched, Starting
  <2>3. ScriptNext \/ ScriptStart \/ UNCHANGED scriptVars
    BY <1>3 DEF Ask, Accept, Answer, RunScript, webVars
  <2> QED  BY <2>2, <2>3, ScriptKeeps
<1>4. CASE Reboot
  <2>1. ScriptInv'
    <3> USE <1>4 DEF Reboot
    <3>0. awk' \in [Files -> {"none", "open", "write", "done"}] /\ sh' \in Shells /\ dir' \in BOOLEAN
      BY DEF Shells
    <3>1. ScriptTypeOK'
      BY <3>0 DEF ScriptTypeOK
    <3>2. (Nothing /\ Piped /\ Columns /\ Found)'
      BY DEF Nothing, Piped, Columns, Found, Begins
    <3> QED  BY <3>1, <3>2 DEF ScriptInv
  <2> QED  BY <1>4, <2>1, InitStarts
<1> QED  BY <1>1, <1>2, <1>3, <1>4 DEF WebNext

(* For every number of callers the invariants of the init script and of    *)
(* the page's script hold in every reachable state.                        *)
THEOREM WebInductive == WebSpec => [](InitInv /\ ScriptInv)
<1>1. WebInit => InitInv /\ ScriptInv
  BY InitStarts, ScriptStarts DEF WebInit
<1> QED  BY <1>1, WebKeeps, PTL DEF WebSpec

(* A run of the script that is over shows nothing or the cores and the     *)
(* models of all processors, and leaves nothing behind if paste found the  *)
(* file of the third awk.                                                  *)
THEOREM ScriptEnds == WebSpec => []ScriptResult
<1>1. ScriptInv => ScriptResult
  BY DEF ScriptInv, Columns, Found, ScriptResult, ScriptOver, Fifos
<1> QED  BY <1>1, WebInductive, PTL

(* As long as no two starts overlap there is one server at most, and the   *)
(* pid file has its pid or is about to.                                    *)
THEOREM ServedOnce == WebSpec => []OneServer
<1>1. InitInv => OneServer
  <2> SUFFICES ASSUME InitInv, ~ raced PROVE OneServer
    BY DEF OneServer
  <2>1. \A p \in Alive : p \in Pids /\ server[p] # "none"
    BY DEF Alive
  <2>2. \A p \in Alive : pidfile = p \/ \E c \in Starting : pid[c] = p
    BY <2>1 DEF InitInv, Launched
  <2>3. CASE Starting = {}
    BY <2>2, <2>3 DEF OneServer
  <2>4. ASSUME NEW c \in Starting PROVE OneServer
    <3>1. \A p \in Alive : pid[c] = p
      BY <2>1, <2>4 DEF InitInv, OneStart
    <3> QED  BY <2>2, <3>1 DEF OneServer
  <2> QED  BY <2>3, <2>4
<1> QED  BY <1>1, WebInductive, PTL

----------------------------------------------------------------------------
(* The script of the page goes on to its end.                              *)

\* Where the shell, paste or an awk can do its next step.
ScriptCanGoOn ==
  \/ sh \in Begins \cup {"rm", "unlink", "rmdir"}
  \/ \E f \in Files : awk[f] = "write" \/ (f \notin Fifos /\ awk[f] = "open")
  \/ /\ sh = "paste" /\ paste < Len(Operands)
     /\ LET f == Operands[paste + 1]
        IN  (f \in Fifos /\ awk[f] = "open") \/ f \in names \ Fifos \/ f \notin names
  \/ /\ sh = "paste" /\ paste = Len(Operands)
     /\ \A f \in opened \cap Fifos : awk[f] = "done"

\* No run of the script waits for ever at one of its pipes.
ScriptNeverStuck == ScriptOver \/ ScriptCanGoOn

\* The steps that are left to the script itself, and to an awk.
ShellLeft == CASE sh = "mktemp" -> 10
               [] sh = "mkfifo" -> 9
               [] sh = "fork"   -> 8
               [] sh = "paste"  -> 7 - paste
               [] sh = "rm"     -> 3
               [] sh = "unlink" -> 2
               [] sh = "rmdir"  -> 1
               [] sh = "ended"  -> 0

AwkLeft(f) == CASE awk[f] = "none"  -> 3
                [] awk[f] = "open"  -> 2
                [] awk[f] = "write" -> 1
                [] awk[f] = "done"  -> 0

ScriptLeft == ShellLeft + AwkLeft("f1") + AwkLeft("f2") + AwkLeft("f3")

\* Until the server starts it again or the machine is switched off, a step of
\* the script brings it nearer to its end, and no other step touches it.
ScriptWindsDown ==
  [][\/ Accept \/ Reboot \/ UNCHANGED scriptVars
     \/ /\ ScriptLeft \in 0 .. 19 /\ ScriptLeft' \in 0 .. 19
        /\ ScriptLeft' < ScriptLeft]_webVars

\* Each pipe is opened in its turn; after paste each has had its reader.
Turns ==
  /\ sh \notin Begins => \A f \in Files : awk[f] # "none"
  /\ sh \in Begins => \A f \in Files : awk[f] = "none"
  /\ sh = "paste" => /\ "f1" \in opened => paste > 0
                     /\ "f2" \in opened => paste > 1
  /\ sh \notin Begins \cup {"paste"} => \A f \in Fifos : awk[f] # "open"

(* The three operands of paste.                                            *)
LEMMA OperandsAre ==
  /\ Len(Operands) = 3 /\ Operands[1] = "f1" /\ Operands[2] = "f2" /\ Operands[3] = "f3"
  /\ Files = {"f1", "f2", "f3"} /\ Fifos = {"f1", "f2"}
BY DEF Operands, Files, Fifos

(* The script keeps the turns, and a new run begins with them.             *)
LEMMA TurnsKept ==
  ASSUME ScriptInv, Turns, ScriptNext \/ ScriptStart \/ UNCHANGED scriptVars
  PROVE  Turns'
<1> USE OperandsAre DEF Begins, Turns
<1>1. /\ ScriptTypeOK /\ Piped
      /\ awk \in [Files -> {"none", "open", "write", "done"}] /\ paste \in 0 .. 3
  BY DEF ScriptInv, ScriptTypeOK
<1>2. CASE ScriptStart
  BY <1>2 DEF ScriptStart
<1>3. CASE Script
  BY <1>1, <1>3 DEF Script, Mktemp, Mkfifo, Fork, Remove, Nothing, ScriptInv
<1>4. ASSUME NEW f \in Files, Redirect(f) \/ AwkWrites(f) PROVE Turns'
  <2>1. /\ awk[f] \in {"open", "write"} /\ UNCHANGED <<sh, opened, paste>>
        /\ \E end \in {"write", "done"} : awk' = [awk EXCEPT ![f] = end]
    BY <1>4 DEF Redirect, AwkWrites
  <2> QED  BY <1>1, <2>1
<1>5. CASE PasteOpens
  <2> DEFINE f == Operands[paste + 1]
  <2>1. sh = "paste" /\ paste < 3 /\ paste + 1 \in 1 .. 3
    BY <1>1, <1>5 DEF PasteOpens
  <2>2. CASE f \in Fifos
    <3>1. /\ f \in names /\ sh' = sh /\ opened' = opened \cup {f} /\ paste' = paste + 1
          /\ awk' = [awk EXCEPT ![f] = "write"]
      BY <1>1, <1>5, <2>1, <2>2 DEF PasteOpens, Piped
    <3>2. f = "f1" => paste = 0
      BY <1>1, <2>1
    <3>3. f = "f2" => paste = 1
      BY <1>1, <2>1
    <3> QED  BY <1>1, <2>1, <2>2, <3>1, <3>2, <3>3
  <2>3. CASE f \notin Fifos
    <3>1. f = "f3" /\ paste = 2
      BY <1>1, <2>1, <2>3
    <3>2. \A g \in Fifos : awk[g] # "open"
      BY <1>1, <2>1, <3>1 DEF Piped
    <3>3. /\ awk' = awk /\ sh' \in {"paste", "rm"} /\ opened' \subseteq opened \cup {"f3"}
          /\ sh' = "paste" => paste' = paste + 1
      BY <1>5, <2>1, <3>1 DEF PasteOpens
    <3> QED  BY <1>1, <2>1, <3>1, <3>2, <3>3
  <2> QED  BY <2>2, <2>3
<1>6. CASE PasteReads
  <2>1. /\ sh = "paste" /\ sh' = "rm" /\ awk' = awk /\ paste = 3
    BY <1>6 DEF PasteReads
  <2> QED  BY <1>1, <2>1 DEF Piped
<1>7. CASE UNCHANGED scriptVars
  BY <1>7 DEF scriptVars
<1> QED  BY <1>2, <1>3, <1>4, <1>5, <1>6, <1>7 DEF ScriptNext

(* And so does everybody else.                                             *)
LEMMA TurnsInductive == WebSpec => [](ScriptInv /\ Turns)
<1>1. WebInit => Turns
  BY DEF WebInit, ScriptInit, Turns, Begins, Fifos, Files
<1>2. ScriptInv /\ Turns /\ [WebNext]_webVars => Turns'
  <2> SUFFICES ASSUME ScriptInv, Turns, [WebNext]_webVars PROVE Turns'
    OBVIOUS
  <2>1. CASE Reboot
    BY <2>1 DEF Reboot, Turns, Begins, Fifos, Files
  <2>2. CASE ~ Reboot
    <3>1. ScriptNext \/ ScriptStart \/ UNCHANGED scriptVars
      BY <2>2 DEF WebNext, InitScript, Run, Crash, Ask, Accept, Answer, RunScript, webVars
    <3> QED  BY <3>1, TurnsKept
  <2> QED  BY <2>1, <2>2
<1> QED  BY <1>1, <1>2, WebInductive, PTL DEF WebSpec

(* As long as the script has not ended, one of its commands can go on: no  *)
(* order of them leaves a pipe with one end only.                          *)
THEOREM ScriptGoesOn == WebSpec => []ScriptNeverStuck
<1>1. ScriptInv /\ Turns => ScriptNeverStuck
  <2> SUFFICES ASSUME ScriptInv, Turns, ~ ScriptOver, ~ ScriptCanGoOn PROVE FALSE
    BY DEF ScriptNeverStuck
  <2> USE OperandsAre
  <2>1. /\ ScriptTypeOK /\ Piped /\ sh \in {"paste", "ended"} /\ sh \notin Begins
        /\ awk \in [Files -> {"none", "open", "write", "done"}] /\ paste \in 0 .. 3
    BY DEF ScriptInv, ScriptTypeOK, ScriptCanGoOn, Shells, Begins
  <2>2. awk["f3"] = "done" /\ \A f \in Fifos : awk[f] \in {"open", "done"}
    BY <2>1 DEF Turns, ScriptCanGoOn
  <2>3. sh = "paste"
    BY <2>1, <2>2 DEF Turns, ScriptOver, Begins
  <2>4. CASE paste = 3
    BY <2>1, <2>2, <2>3, <2>4 DEF Piped, ScriptCanGoOn
  <2>5. CASE paste < 3
    <3> DEFINE f == Operands[paste + 1]
    <3>1. ~ (f \in Fifos /\ awk[f] = "open") /\ f \notin names \ Fifos /\ f \in names
      BY <2>3, <2>5 DEF ScriptCanGoOn
    <3>2. f \in Fifos /\ awk[f] # "open"
      BY <3>1
    <3>3. f \in opened
      BY <2>1, <2>3, <3>2 DEF Piped
    <3>4. paste = 0 => f = "f1"
      OBVIOUS
    <3>5. paste = 1 => f = "f2"
      OBVIOUS
    <3>6. paste = 2 => f = "f3"
      OBVIOUS
    <3> QED  BY <2>1, <2>3, <2>5, <3>2, <3>3, <3>4, <3>5, <3>6 DEF Turns
  <2> QED  BY <2>1, <2>4, <2>5
<1> QED  BY <1>1, TurnsInductive, PTL

(* What is left to the script is a small number, and falls.                *)
LEMMA ScriptLowers ==
  ASSUME ScriptInv, Turns, ScriptNext
  PROVE  /\ ScriptLeft \in 0 .. 19 /\ ScriptLeft' \in 0 .. 19
         /\ ScriptLeft' < ScriptLeft
<1> USE OperandsAre
<1>1. /\ sh \in Shells /\ paste \in 0 .. 3
      /\ awk \in [Files -> {"none", "open", "write", "done"}]
  BY DEF ScriptInv, ScriptTypeOK
<1>2. ShellLeft \in 0 .. 10 /\ \A f \in Files : AwkLeft(f) \in 0 .. 3
  <2>1. ShellLeft \in 0 .. 10
    BY <1>1 DEF Shells, Begins, ShellLeft
  <2>2. \A f \in Files : AwkLeft(f) \in 0 .. 3
    BY <1>1 DEF AwkLeft
  <2> QED  BY <2>1, <2>2
<1>3. ASSUME NEW f \in Files, Redirect(f) \/ AwkWrites(f)
      PROVE  /\ ShellLeft' = ShellLeft /\ AwkLeft(f)' < AwkLeft(f) /\ AwkLeft(f)' \in Nat
             /\ \A g \in Files : g # f => AwkLeft(g)' = AwkLeft(g)
  <2>1. /\ UNCHANGED <<sh, paste>> /\ \A g \in Files : g # f => awk'[g] = awk[g]
        /\ \/ awk[f] = "open" /\ awk'[f] \in {"write", "done"}
           \/ awk[f] = "write" /\ awk'[f] = "done"
    BY <1>1, <1>3 DEF Redirect, AwkWrites
  <2>2. ShellLeft' = ShellLeft /\ \A g \in Files : g # f => AwkLeft(g)' = AwkLeft(g)
    BY <2>1 DEF ShellLeft, AwkLeft
  <2>3. AwkLeft(f)' < AwkLeft(f) /\ AwkLeft(f)' \in Nat
    BY <2>1 DEF AwkLeft
  <2> QED  BY <2>2, <2>3
<1>4. ASSUME Script \/ PasteOpens \/ PasteReads
      PROVE  /\ ShellLeft' < ShellLeft /\ ShellLeft' \in Nat
             /\ \A f \in Files : AwkLeft(f)' <= AwkLeft(f) /\ AwkLeft(f)' \in Nat
  <2>1. ShellLeft' < ShellLeft /\ ShellLeft' \in Nat
    BY <1>1, <1>4 DEF Script, Mktemp, Mkfifo, Fork, Remove, PasteOpens, PasteReads, ShellLeft
  <2>2. ASSUME NEW f \in Files PROVE AwkLeft(f)' <= AwkLeft(f) /\ AwkLeft(f)' \in Nat
    <3>1. \/ awk'[f] = awk[f]
          \/ awk[f] = "none" /\ awk'[f] = "open"
          \/ awk[f] = "open" /\ awk'[f] = "write"
      BY <1>1, <1>4 DEF Script, Mktemp, Mkfifo, Fork, Remove, PasteOpens, PasteReads, Turns, Begins
    <3>2. awk[f] \in {"none", "open", "write", "done"}
      BY <1>1
    <3> QED  BY <3>1, <3>2 DEF AwkLeft
  <2> QED  BY <2>1, <2>2
<1>5. CASE \E f \in Files : Redirect(f) \/ AwkWrites(f)
  <2>1. PICK f \in Files : Redirect(f) \/ AwkWrites(f)
    BY <1>5
  <2>2. /\ ShellLeft' = ShellLeft /\ AwkLeft(f)' < AwkLeft(f) /\ AwkLeft(f)' \in Nat
        /\ \A g \in Files : g # f => AwkLeft(g)' = AwkLeft(g)
    BY <1>3, <2>1
  <2>3. /\ \A g \in Files : AwkLeft(g) \in 0 .. 3 /\ AwkLeft(g)' \in Nat
        /\ \A g \in Files : AwkLeft(g)' <= AwkLeft(g)
    <3> SUFFICES ASSUME NEW g \in Files
                 PROVE  /\ AwkLeft(g) \in 0 .. 3 /\ AwkLeft(g)' \in Nat
                        /\ AwkLeft(g)' <= AwkLeft(g)
      OBVIOUS
    <3> QED  BY <1>2, <2>2
  <2>4. ScriptLeft' = ShellLeft + AwkLeft("f1")' + AwkLeft("f2")' + AwkLeft("f3")'
    BY <2>2 DEF ScriptLeft
  <2>5. \/ AwkLeft("f1")' < AwkLeft("f1")
        \/ AwkLeft("f2")' < AwkLeft("f2")
        \/ AwkLeft("f3")' < AwkLeft("f3")
    BY <2>2 DEF Files
  <2>6. \A g \in {"f1", "f2", "f3"} :
          AwkLeft(g) \in 0 .. 3 /\ AwkLeft(g)' \in 0 .. 3 /\ AwkLeft(g)' <= AwkLeft(g)
    BY <2>3 DEF Files
  <2>7. ShellLeft \in 0 .. 10
    BY <1>2
  <2> HIDE DEF ShellLeft, AwkLeft
  <2> QED  BY <2>4, <2>5, <2>6, <2>7 DEF ScriptLeft
<1>6. CASE Script \/ PasteOpens \/ PasteReads
  <2>1. /\ ShellLeft \in 0 .. 10 /\ ShellLeft' < ShellLeft /\ ShellLeft' \in Nat
        /\ \A f \in Files : AwkLeft(f) \in 0 .. 3 /\ AwkLeft(f)' <= AwkLeft(f) /\ AwkLeft(f)' \in Nat
    BY <1>2, <1>4, <1>6
  <2>2. ScriptLeft' = ShellLeft' + AwkLeft("f1")' + AwkLeft("f2")' + AwkLeft("f3")'
    BY DEF ScriptLeft
  <2> QED  BY <2>1, <2>2 DEF ScriptLeft
<1> QED  BY <1>5, <1>6 DEF ScriptNext

(* A request for the page keeps the server busy for a bounded number of    *)
(* steps of the script.                                                    *)
THEOREM ScriptWinds == WebSpec => ScriptWindsDown
<1>1. ScriptInv /\ Turns /\ [WebNext]_webVars =>
        [\/ Accept \/ Reboot \/ UNCHANGED scriptVars
         \/ /\ ScriptLeft \in 0 .. 19 /\ ScriptLeft' \in 0 .. 19
            /\ ScriptLeft' < ScriptLeft]_webVars
  <2>1. WebNext => Accept \/ Reboot \/ UNCHANGED scriptVars \/ ScriptNext
    BY DEF WebNext, InitScript, Run, Crash, Ask, Answer, RunScript
  <2> QED  BY <2>1, ScriptLowers
<1> QED  BY <1>1, TurnsInductive, PTL DEF WebSpec, ScriptWindsDown

----------------------------------------------------------------------------
\* deadline.c and setpriority.c, on any number of CPUs.
CONSTANTS CPUCount, MaxPrio, RTLimit
VARIABLES program, throttles, main, thread, stop, queue, attr
S == INSTANCE SpinStop

SpinSpec == S!SInit /\ [][S!SNext]_(S!spinVars)

\* The queues of main and one thread.
Queues == {<<>>, <<0>>, <<1>>, <<0, 1>>, <<1, 0>>}

\* main sleeps until the thread exits or the time is over, and is awake
\* otherwise; the thread is in its loop or before it while it can run.
SpinInv ==
  /\ program \in {"deadline", "setpriority"} /\ throttles \in BOOLEAN /\ stop \in BOOLEAN
  /\ main \in {"create", "configure", "sleep", "asleep", "awake", "join", "done"}
  /\ thread \in {"none", "reserve", "spin", "exited"}
  /\ queue \in Queues
  /\ attr \in [{0, 1} -> {S!Plain, S!Reserved, [policy |-> "FIFO", prio |-> 1]}]
  /\ attr[0] = S!Plain
  /\ thread = "none" <=> main = "create"
  /\ main \in {"create", "configure", "sleep", "awake"} => S!Runnable(0)
  /\ S!Runnable(0) => main \notin {"asleep", "done"}
  /\ S!Runnable(1) => thread \in {"reserve", "spin"}
  /\ thread = "reserve" => S!Runnable(1) /\ program = "deadline"
  /\ main = "join" => stop
  /\ main = "join" /\ thread = "exited" => S!Runnable(0)
  /\ program = "deadline" /\ thread = "spin" => attr[1].policy = "DEADLINE"
  /\ program = "setpriority" => attr[1] # S!Reserved
  /\ main = "configure" => program = "setpriority"

\* The kernel may suspend the thread that spins.
CanSuspend == attr[1].policy = "DEADLINE" \/ (throttles /\ attr[1].policy = "FIFO")

\* Until main is done somebody has a step to take: main on a CPU, or woken by
\* the end of its sleep, or the thread as it reserves its time or leaves its
\* loop, or the kernel, which suspends the thread, lets it go on or ends its
\* slice.  And nobody but the thread keeps main from a CPU.
SpinGoesOn ==
  /\ S!Runnable(0) /\ ~ S!Runnable(1) => S!Runs(0)
  /\ (program = "deadline" \/ throttles) /\ main # "done" =>
       \/ S!Runs(0) /\ main # "asleep"
       \/ main = "asleep"
       \/ S!Runs(1) /\ thread = "reserve"
       \/ S!Runs(1) /\ thread = "spin" /\ (stop \/ CanSuspend)
       \/ thread = "spin" /\ ~ S!Runnable(1)
       \/ S!Runs(1) /\ ~ S!Runs(0) /\ S!Runnable(0) /\ attr[1] = attr[0]

(* Short sequences, and what is left when an element is taken out.         *)
LEMMA OneLong ==
  ASSUME NEW T, NEW s \in Seq(T), Len(s) = 1
  PROVE  s = <<s[1]>>
OBVIOUS

(* A part of one element.                                                  *)
LEMMA OnePart ==
  ASSUME NEW T, NEW s \in Seq(T), NEW m \in 1 .. Len(s)
  PROVE  SubSeq(s, m, m) = <<s[m]>>
<1>1. m \in Int /\ \A n \in m .. m : s[n] \in T
  OBVIOUS
<1>2. /\ SubSeq(s, m, m) \in Seq(T)
      /\ Len(SubSeq(s, m, m)) = IF m <= m THEN m - m + 1 ELSE 0
      /\ \A n \in 1 .. m - m + 1 : SubSeq(s, m, m)[n] = s[m + n - 1]
  BY <1>1, SubSeqProperties
<1>3. Len(SubSeq(s, m, m)) = 1 /\ SubSeq(s, m, m)[1] = s[m]
  BY <1>1, <1>2
<1> QED  BY <1>2, <1>3, OneLong

(* The only element.                                                       *)
LEMMA RemovedOnly ==
  ASSUME NEW a
  PROVE  S!RemoveFirst(<<a>>, a) = <<>>
<1> DEFINE q == <<a>>
<1>0. Len(q) = 1 /\ q[1] = a
  OBVIOUS
<1> HIDE DEF q
<1>1. {n \in 1 .. Len(q) : q[n] = a} = {1}
  BY <1>0
<1>2. S!SelectInSeq(q, LAMBDA v : v = a) = 1
  BY <1>1 DEF S!SelectInSeq, S!Min
<1>3. S!RemoveFirst(q, a) = S!RemoveAt(q, 1)
  BY <1>0, <1>2 DEF S!RemoveFirst
<1>4. S!RemoveAt(q, 1) = SubSeq(q, 1, 0) \o SubSeq(q, 2, 1)
  BY <1>0 DEF S!RemoveAt
<1>5. SubSeq(q, 1, 0) = <<>> /\ SubSeq(q, 2, 1) = <<>>
  BY SubSeqEmpty
<1> QED  BY <1>3, <1>4, <1>5 DEF q

(* The first of two.                                                       *)
LEMMA RemovedFirst ==
  ASSUME NEW a, NEW b, a # b
  PROVE  S!RemoveFirst(<<a, b>>, a) = <<b>>
<1> DEFINE q == <<a, b>>
<1>0. Len(q) = 2 /\ q[1] = a /\ q[2] = b /\ q \in Seq({a, b})
  OBVIOUS
<1> HIDE DEF q
<1>1. {n \in 1 .. Len(q) : q[n] = a} = {1}
  BY <1>0
<1>2. S!SelectInSeq(q, LAMBDA v : v = a) = 1
  BY <1>1 DEF S!SelectInSeq, S!Min
<1>3. S!RemoveFirst(q, a) = S!RemoveAt(q, 1)
  BY <1>0, <1>2 DEF S!RemoveFirst
<1>4. S!RemoveAt(q, 1) = SubSeq(q, 1, 0) \o SubSeq(q, 2, 2)
  BY <1>0 DEF S!RemoveAt
<1>5. SubSeq(q, 1, 0) = <<>>
  BY SubSeqEmpty
<1>6. SubSeq(q, 2, 2) = <<b>>
  BY <1>0, OnePart
<1> QED  BY <1>3, <1>4, <1>5, <1>6 DEF q

(* The second of two.                                                      *)
LEMMA RemovedSecond ==
  ASSUME NEW a, NEW b, a # b
  PROVE  S!RemoveFirst(<<a, b>>, b) = <<a>>
<1> DEFINE q == <<a, b>>
<1>0. Len(q) = 2 /\ q[1] = a /\ q[2] = b /\ q \in Seq({a, b})
  OBVIOUS
<1> HIDE DEF q
<1>1. {n \in 1 .. Len(q) : q[n] = b} = {2}
  BY <1>0
<1>2. S!SelectInSeq(q, LAMBDA v : v = b) = 2
  BY <1>1 DEF S!SelectInSeq, S!Min
<1>3. S!RemoveFirst(q, b) = S!RemoveAt(q, 2)
  BY <1>0, <1>2 DEF S!RemoveFirst
<1>4. S!RemoveAt(q, 2) = SubSeq(q, 1, 1) \o SubSeq(q, 3, 2)
  BY <1>0 DEF S!RemoveAt
<1>5. SubSeq(q, 1, 1) = <<a>>
  BY <1>0, OnePart
<1>6. SubSeq(q, 3, 2) = <<>>
  BY SubSeqEmpty
<1> QED  BY <1>3, <1>4, <1>5, <1>6 DEF q

(* All of them that happen to the queue.                                   *)
LEMMA Removals ==
  /\ S!RemoveFirst(<<0>>, 0) = <<>> /\ S!RemoveFirst(<<1>>, 1) = <<>>
  /\ S!RemoveFirst(<<0, 1>>, 0) = <<1>> /\ S!RemoveFirst(<<0, 1>>, 1) = <<0>>
  /\ S!RemoveFirst(<<1, 0>>, 1) = <<0>> /\ S!RemoveFirst(<<1, 0>>, 0) = <<1>>
BY RemovedOnly, RemovedFirst, RemovedSecond

(* Who is in which queue.                                                  *)
LEMMA Members ==
  /\ S!ToSet(<<>>) = {} /\ S!ToSet(<<0>>) = {0} /\ S!ToSet(<<1>>) = {1}
  /\ S!ToSet(<<0, 1>>) = {0, 1} /\ S!ToSet(<<1, 0>>) = {0, 1}
BY DEF S!ToSet

(* Two elements.                                                           *)
LEMMA TwoLong ==
  ASSUME NEW T, NEW s \in Seq(T), Len(s) = 2
  PROVE  s = <<s[1], s[2]>>
OBVIOUS

(* What is added to the queue.                                             *)
LEMMA Additions ==
  /\ Append(<<>>, 0) = <<0>> /\ Append(<<>>, 1) = <<1>>
  /\ Append(<<0>>, 1) = <<0, 1>> /\ Append(<<1>>, 0) = <<1, 0>>
  /\ <<1>> \o <<>> = <<1>> /\ <<1>> \o <<0>> = <<1, 0>>
<1>1. Append(<<>>, 0) = <<0>> /\ Append(<<>>, 1) = <<1>>
  OBVIOUS
<1>2. ASSUME NEW q \in Seq(Int), NEW a \in Int, NEW b \in Int, Len(q) = 1, q[1] = a
      PROVE  Append(q, b) = <<a, b>>
  <2> DEFINE r == Append(q, b)
  <2>1. /\ r \in Seq(Int) /\ Len(r) = Len(q) + 1
        /\ \A n \in 1 .. Len(q) : r[n] = q[n]
        /\ r[Len(q) + 1] = b
    OBVIOUS
  <2> HIDE DEF r
  <2>2. Len(r) = 2 /\ r[1] = a /\ r[2] = b
    BY <1>2, <2>1
  <2>3. r = <<a, b>>
    BY <2>1, <2>2, TwoLong
  <2> QED  BY <2>3 DEF r
<1>3. Append(<<0>>, 1) = <<0, 1>> /\ Append(<<1>>, 0) = <<1, 0>>
  <2> DEFINE o == <<0>>
             q == <<1>>
  <2>1. /\ o \in Seq(Int) /\ Len(o) = 1 /\ o[1] = 0
        /\ q \in Seq(Int) /\ Len(q) = 1 /\ q[1] = 1
    OBVIOUS
  <2> HIDE DEF o, q
  <2>2. Append(o, 1) = <<0, 1>> /\ Append(q, 0) = <<1, 0>>
    BY <1>2, <2>1
  <2> QED  BY <2>2 DEF o, q
<1>4. <<1>> \o <<>> = <<1>>
  OBVIOUS
<1>5. <<1>> \o <<0>> = <<1, 0>>
  <2> DEFINE q == <<1>>
             o == <<0>>
             r == q \o o
  <2>1. /\ q \in Seq({0, 1}) /\ Len(q) = 1 /\ q[1] = 1
        /\ o \in Seq({0, 1}) /\ Len(o) = 1 /\ o[1] = 0
    OBVIOUS
  <2> HIDE DEF q, o
  <2>2. r \in Seq({0, 1}) /\ Len(r) = 2 /\ r[1] = 1 /\ r[2] = 0
    BY <2>1, ConcatProperties
  <2> HIDE DEF r
  <2>3. r = <<1, 0>>
    BY <2>2, TwoLong
  <2> QED  BY <2>3 DEF r, q, o
<1> QED  BY <1>1, <1>3, <1>4, <1>5

\* What Scheduler and Priority assume.
Sizes == CPUCount \in Nat \ {0} /\ MaxPrio \in Nat \ {0}

(* A thread with nobody before it runs.                                    *)
LEMMA NoneBefore ==
  ASSUME Sizes, NEW t \in {0, 1}, S!Runnable(t), \A u \in S!ToSet(queue) : ~ S!Before(u, t)
  PROVE  S!Runs(t)
<1>1. {u \in S!ToSet(queue) : S!Before(u, t)} = {}
  OBVIOUS
<1>2. S!Cardinality({}) = Cardinality({})
  BY DEF S!Cardinality, Cardinality, S!IsFiniteSet, IsFiniteSet
<1> QED  BY <1>1, <1>2, FS_EmptySet DEF S!Runs, Sizes

(* A thread that is alone runs, and one of two does.                       *)
LEMMA OneIsFirst ==
  ASSUME Sizes, SpinInv
  PROVE  /\ queue = <<0>> => S!Runs(0)
         /\ queue = <<1>> => S!Runs(1)
         /\ S!Runnable(0) /\ S!Runnable(1) => S!Runs(0) \/ S!Runs(1)
<1>1. attr[0].prio \in Int /\ attr[1].prio \in Int
  BY DEF SpinInv, S!Plain, S!Reserved, Sizes
<1>2. ASSUME NEW t \in {0, 1} PROVE queue = <<t>> => S!Runs(t)
  <2> SUFFICES ASSUME queue = <<t>> PROVE S!Runs(t)
    OBVIOUS
  <2>1. DOMAIN queue = {1} /\ queue[1] = t
    OBVIOUS
  <2>2. S!ToSet(queue) = {t}
    BY <2>1 DEF S!ToSet
  <2>3. ~ S!Before(t, t)
    BY <1>1, <2>1 DEF S!Before
  <2> QED  BY <2>2, <2>3, NoneBefore DEF S!Runnable
<1>3. ASSUME S!Runnable(0), S!Runnable(1) PROVE S!Runs(0) \/ S!Runs(1)
  <2>1. PICK a \in {0, 1}, b \in {0, 1} : queue = <<a, b>> /\ a # b
    BY <1>3, Members DEF SpinInv, S!Runnable, Queues
  <2>2. DOMAIN queue = {1, 2} /\ queue[1] = a /\ queue[2] = b
    BY <2>1
  <2>3. S!ToSet(queue) = {0, 1}
    BY <2>1, Members
  <2>4. ~ S!Before(0, 0) /\ ~ S!Before(1, 1)
    BY <1>1, <2>1, <2>2 DEF S!Before
  <2>5. ~ S!Before(0, 1) \/ ~ S!Before(1, 0)
    BY <1>1, <2>1, <2>2 DEF S!Before
  <2>6. CASE ~ S!Before(0, 1)
    <3>1. S!Runs(1)
      BY <1>3, <2>3, <2>4, <2>6, NoneBefore
    <3> QED  BY <3>1
  <2>7. CASE ~ S!Before(1, 0)
    <3>1. S!Runs(0)
      BY <1>3, <2>3, <2>4, <2>7, NoneBefore
    <3> QED  BY <3>1
  <2> QED  BY <2>5, <2>6, <2>7
<1> QED  BY <1>2, <1>3

(* So somebody has a step, or main the CPU.                                *)
LEMMA SpinCanGo ==
  ASSUME Sizes, SpinInv
  PROVE  SpinGoesOn
<1>1. ASSUME S!Runnable(0), ~ S!Runnable(1) PROVE S!Runs(0)
  BY <1>1, OneIsFirst, Members DEF SpinInv, S!Runnable, Queues
<1>2. ASSUME program = "deadline" \/ throttles, main # "done", main # "asleep", ~ S!Runs(0)
      PROVE  \/ S!Runs(1) /\ thread = "reserve"
             \/ S!Runs(1) /\ thread = "spin" /\ (stop \/ CanSuspend)
             \/ thread = "spin" /\ ~ S!Runnable(1)
             \/ S!Runs(1) /\ ~ S!Runs(0) /\ S!Runnable(0) /\ attr[1] = attr[0]
  <2>1. CASE S!Runnable(0)
    <3>1. S!Runnable(1) /\ S!Runs(1)
      BY <1>1, <1>2, <2>1, OneIsFirst
    <3>2. thread \in {"reserve", "spin"}
      BY <3>1 DEF SpinInv
    <3>3. attr[1].policy = "DEADLINE" \/ attr[1].policy = "FIFO" \/ attr[1] = attr[0]
      BY DEF SpinInv, S!Reserved
    <3>4. program = "deadline" /\ thread = "spin" => attr[1].policy = "DEADLINE"
      BY DEF SpinInv
    <3> QED  BY <1>2, <2>1, <3>1, <3>2, <3>3, <3>4 DEF CanSuspend
  <2>2. CASE ~ S!Runnable(0)
    <3>1. main = "join" /\ stop /\ thread \in {"reserve", "spin"}
      BY <1>2, <2>2 DEF SpinInv
    <3>2. S!Runnable(1) => S!Runs(1)
      BY <2>2, OneIsFirst, Members DEF SpinInv, S!Runnable, Queues
    <3>3. thread = "reserve" => S!Runnable(1)
      BY DEF SpinInv
    <3> QED  BY <3>1, <3>2, <3>3
  <2> QED  BY <2>1, <2>2
<1> QED  BY <1>1, <1>2 DEF SpinGoesOn

(* What the queue gains when a thread wakes,                               *)
LEMMA Wakes ==
  ASSUME SpinInv, NEW t \in {0, 1}, ~ S!Runnable(t), queue' = S!Woken(t)
  PROVE  queue' \in Queues /\ S!ToSet(queue') = S!ToSet(queue) \cup {t}
<1>1. queue' = Append(queue, t)
  BY DEF S!Woken
<1>2. CASE queue = <<>>
  BY <1>1, <1>2, Members, Additions DEF Queues
<1>3. CASE queue = <<IF t = 0 THEN 1 ELSE 0>>
  <2>1. CASE t = 0
    BY <1>1, <1>3, <2>1, Members, Additions DEF Queues
  <2>2. CASE t = 1
    BY <1>1, <1>3, <2>2, Members, Additions DEF Queues
  <2> QED  BY <2>1, <2>2
<1> QED  BY <1>2, <1>3, Members, Additions DEF SpinInv, Queues, S!Runnable

(* ... what it loses when a thread blocks,                                 *)
LEMMA Blocks ==
  ASSUME SpinInv, NEW t \in {0, 1}, S!Runnable(t)
  PROVE  S!Blocked(t) \in Queues /\ S!ToSet(S!Blocked(t)) = S!ToSet(queue) \ {t}
<1>1. \/ queue = <<t>> /\ S!Blocked(t) = <<>>
      \/ queue \in {<<0, 1>>, <<1, 0>>} /\ S!Blocked(t) = <<1 - t>>
  BY Members, Removals DEF SpinInv, Queues, S!Runnable, S!Blocked
<1> QED  BY <1>1, Members, Additions DEF Queues

(* ... and that a slice or                                                 *)
LEMMA Ticks ==
  ASSUME SpinInv, NEW t \in {0, 1}, S!Tick(t)
  PROVE  queue' \in Queues /\ S!ToSet(queue') = S!ToSet(queue) /\ attr' = attr
<1>1. S!Runnable(t) /\ queue' = Append(S!RemoveFirst(queue, t), t) /\ attr' = attr
  BY DEF S!Tick, S!Runs
<1>2. \/ queue = <<t>> /\ S!RemoveFirst(queue, t) = <<>>
      \/ queue \in {<<0, 1>>, <<1, 0>>} /\ S!RemoveFirst(queue, t) = <<IF t = 0 THEN 1 ELSE 0>>
  BY <1>1, Members, Removals DEF SpinInv, Queues, S!Runnable
<1>3. CASE t = 0
  <2>1. \/ queue' = <<0>> /\ queue = <<0>>
        \/ queue' = <<1, 0>> /\ queue \in {<<0, 1>>, <<1, 0>>}
    BY <1>1, <1>2, <1>3, Additions
  <2> QED  BY <1>1, <2>1, Members, Additions DEF Queues
<1>4. CASE t = 1
  <2>1. \/ queue' = <<1>> /\ queue = <<1>>
        \/ queue' = <<0, 1>> /\ queue \in {<<0, 1>>, <<1, 0>>}
    BY <1>1, <1>2, <1>4, Additions
  <2> QED  BY <1>1, <2>1, Members, Additions DEF Queues
<1> QED  BY <1>3, <1>4

(* a change of policy keeps its threads.                                   *)
LEMMA Sets ==
  ASSUME SpinInv, NEW a, S!SetAttr(1, a)
  PROVE  queue' \in Queues /\ S!ToSet(queue') = S!ToSet(queue) /\ attr' = [attr EXCEPT ![1] = a]
<1>1. CASE ~ (S!Runnable(1) /\ a # attr[1])
  BY <1>1 DEF S!SetAttr, SpinInv
<1>2. CASE S!Runnable(1) /\ a # attr[1]
  <2>1. queue' \in {<<1>> \o S!RemoveFirst(queue, 1), Append(S!RemoveFirst(queue, 1), 1)}
    BY <1>2 DEF S!SetAttr
  <2>2. \/ queue = <<1>> /\ S!RemoveFirst(queue, 1) = <<>>
        \/ queue \in {<<0, 1>>, <<1, 0>>} /\ S!RemoveFirst(queue, 1) = <<0>>
    BY <1>2, Members, Removals DEF SpinInv, Queues, S!Runnable
  <2>3. \/ queue' = <<1>> /\ queue = <<1>>
        \/ queue' \in {<<0, 1>>, <<1, 0>>} /\ queue \in {<<0, 1>>, <<1, 0>>}
    BY <2>1, <2>2, Additions
  <2> QED  BY <2>3, Members, Additions DEF Queues, S!SetAttr
<1> QED  BY <1>1, <1>2

(* main is alone at first.                                                 *)
LEMMA SpinInvInit == S!SInit => SpinInv
<1> SUFFICES ASSUME S!SInit PROVE SpinInv
  OBVIOUS
<1>1. queue = <<0>> /\ S!ToSet(queue) = {0}
  BY Members DEF S!SInit, S!MainThread
<1>2. attr = [t \in {0, 1} |-> S!Plain]
  BY DEF S!SInit, S!MainThread, S!Spinner
<1>3. /\ attr \in [{0, 1} -> {S!Plain, S!Reserved, [policy |-> "FIFO", prio |-> 1]}]
      /\ attr[0] = S!Plain /\ attr[1] = S!Plain
  BY <1>2
<1>4. S!Plain # S!Reserved
  BY DEF S!Plain, S!Reserved
<1>5. /\ program \in {"deadline", "setpriority"} /\ throttles \in BOOLEAN /\ stop \in BOOLEAN
      /\ main = "create" /\ thread = "none" /\ ~ stop
  BY DEF S!SInit
<1> QED  BY <1>1, <1>3, <1>4, <1>5 DEF SpinInv, Queues, S!Runnable

(* Every step keeps what is known of the two threads.                      *)
LEMMA SpinInvStep ==
  ASSUME Sizes, SpinInv, [S!SNext]_(S!spinVars)
  PROVE  SpinInv'
<1> USE DEF S!MainThread, S!Spinner
<1> DEFINE Able == S!ToSet(queue)
<1>0. /\ Able \subseteq {0, 1} /\ (S!Runnable(0) <=> 0 \in Able) /\ (S!Runnable(1) <=> 1 \in Able)
      /\ (S!Runnable(0)' <=> 0 \in Able') /\ (S!Runnable(1)' <=> 1 \in Able')
  BY Members DEF SpinInv, Queues, S!Runnable
<1>1. ASSUME queue' \in Queues, UNCHANGED attr, UNCHANGED <<program, throttles>>,
             stop' \in BOOLEAN, main' \in {"create", "configure", "sleep", "asleep", "awake", "join", "done"},
             thread' \in {"none", "reserve", "spin", "exited"},
             thread' = "none" <=> main' = "create",
             main' \in {"create", "configure", "sleep", "awake"} => 0 \in Able',
             0 \in Able' => main' \notin {"asleep", "done"},
             1 \in Able' => thread' \in {"reserve", "spin"},
             thread' = "reserve" => 1 \in Able' /\ program = "deadline",
             main' = "join" => stop',
             main' = "join" /\ thread' = "exited" => 0 \in Able',
             program = "deadline" /\ thread' = "spin" => attr[1].policy = "DEADLINE",
             main' = "configure" => program = "setpriority"
      PROVE  SpinInv'
  <2> HIDE DEF Able
  <2> QED  BY <1>0, <1>1 DEF SpinInv
<1>2. CASE S!Create /\ S!Runs(0) /\ UNCHANGED <<program, throttles>>
  <2>1. /\ ~ S!Runnable(1)
        /\ queue' = S!Woken(1) /\ attr' = attr
    BY <1>2 DEF SpinInv, S!Create
  <2>2. queue' \in Queues /\ Able' = Able \cup {1}
    BY <2>1, Wakes
  <2> HIDE DEF Able
  <2> QED  BY <1>0, <1>1, <1>2, <2>1, <2>2 DEF SpinInv, S!Create, S!Runs
<1>3. CASE S!Configure /\ S!Runs(0) /\ UNCHANGED <<program, throttles>>
  <2>0. main = "configure" /\ main' = "sleep" /\ UNCHANGED <<thread, stop>> /\ 0 \in Able
        /\ program = "setpriority"
    <3> HIDE DEF Able
    <3> QED  BY <1>0, <1>3 DEF S!Configure, S!Runs, SpinInv
  <2>1. CASE UNCHANGED S!sched
    <3>1. queue' = queue /\ attr' = attr /\ Able' = Able
      BY <2>1 DEF S!sched
    <3> HIDE DEF Able
    <3> QED  BY <1>0, <1>1, <1>3, <2>0, <3>1 DEF SpinInv
  <2>2. CASE S!SetAttr(1, [policy |-> "FIFO", prio |-> 1])
    <3>1. /\ queue' \in Queues /\ Able' = Able
          /\ attr' = [attr EXCEPT ![1] = [policy |-> "FIFO", prio |-> 1]]
      BY <2>2, Sets
    <3>2. /\ attr' \in [{0, 1} -> {S!Plain, S!Reserved, [policy |-> "FIFO", prio |-> 1]}]
          /\ attr'[0] = S!Plain /\ attr'[1] # S!Reserved
      BY <3>1 DEF SpinInv, S!Reserved
    <3> HIDE DEF Able
    <3> QED  BY <1>0, <1>3, <2>0, <3>1, <3>2 DEF SpinInv
  <2> QED  BY <1>3, <2>1, <2>2 DEF S!Configure, S!SetPriority
<1>4. CASE S!Sleep /\ S!Runs(0) /\ UNCHANGED <<program, throttles>>
  <2>1. queue' = S!Blocked(0) /\ S!Runnable(0) /\ attr' = attr
    BY <1>4 DEF S!Sleep, S!Runs
  <2>2. queue' \in Queues /\ Able' = Able \ {0}
    BY <2>1, Blocks
  <2> HIDE DEF Able
  <2> QED  BY <1>0, <1>1, <1>4, <2>1, <2>2 DEF SpinInv, S!Sleep
<1>5. CASE S!Clear /\ S!Runs(0) /\ UNCHANGED <<program, throttles>>
  <2>1. queue' = queue /\ attr' = attr /\ Able' = Able
    BY <1>5 DEF S!Clear, S!sched
  <2> HIDE DEF Able
  <2> QED  BY <1>0, <1>1, <1>5, <2>1 DEF SpinInv, S!Clear
<1>6. CASE S!Join /\ S!Runs(0) /\ UNCHANGED <<program, throttles>>
  <2>1. queue' = S!Blocked(0) /\ S!Runnable(0) /\ attr' = attr
    BY <1>6 DEF S!Join, S!Runs
  <2>2. queue' \in Queues /\ Able' = Able \ {0}
    BY <2>1, Blocks
  <2> HIDE DEF Able
  <2> QED  BY <1>0, <1>1, <1>6, <2>1, <2>2 DEF SpinInv, S!Join
<1>7. CASE S!Reserve /\ S!Runs(1) /\ UNCHANGED <<program, throttles>>
  <2>0. thread = "reserve" /\ program = "deadline"
    BY <1>7 DEF SpinInv, S!Reserve
  <2>1. CASE thread' = "spin" /\ S!SetAttr(1, S!Reserved) /\ UNCHANGED <<main, stop>>
    <3>1. /\ queue' \in Queues /\ Able' = Able /\ attr' = [attr EXCEPT ![1] = S!Reserved]
      BY <2>1, Sets
    <3>2. /\ attr' \in [{0, 1} -> {S!Plain, S!Reserved, [policy |-> "FIFO", prio |-> 1]}]
          /\ attr'[0] = S!Plain /\ attr'[1].policy = "DEADLINE"
      BY <3>1 DEF SpinInv, S!Reserved
    <3> HIDE DEF Able
    <3> QED  BY <1>0, <1>7, <2>0, <2>1, <3>1, <3>2 DEF SpinInv
  <2>2. CASE /\ thread' = "exited" /\ main' = "done" /\ stop' = FALSE
             /\ queue' = <<>> /\ UNCHANGED attr
    <3>1. queue' \in Queues /\ Able' = {}
      BY <2>2, Members DEF Queues
    <3> HIDE DEF Able
    <3> QED  BY <1>0, <1>1, <1>7, <2>2, <3>1
  <2> QED  BY <1>7, <2>1, <2>2 DEF S!Reserve
<1>8. CASE S!SpinEnds /\ S!Runs(1) /\ UNCHANGED <<program, throttles>>
  <2>1. S!Runnable(1) /\ S!Blocked(1) \in Queues /\ S!ToSet(S!Blocked(1)) = Able \ {1}
    BY <1>8, Blocks DEF S!Runs
  <2>2. CASE main = "join" /\ ~ S!Runnable(0)
    <3>1. queue' = Append(S!Blocked(1), 0)
      BY <1>8, <2>2 DEF S!SpinEnds
    <3>2. queue = <<1>>
      BY <2>1, <2>2, Members DEF SpinInv, Queues, S!Runnable
    <3>3. queue' = <<0>>
      BY <3>1, <3>2, Removals, Additions DEF S!Blocked
    <3>4. queue' \in Queues /\ Able' = {0}
      BY <3>3, Members DEF Queues
    <3> HIDE DEF Able
    <3> QED  BY <1>0, <1>1, <1>8, <2>2, <3>4 DEF SpinInv, S!SpinEnds
  <2>3. CASE ~ (main = "join" /\ ~ S!Runnable(0))
    <3>1. queue' = S!Blocked(1)
      BY <1>8, <2>3 DEF S!SpinEnds
    <3>2. queue' \in Queues /\ Able' = Able \ {1}
      BY <2>1, <3>1
    <3> HIDE DEF Able
    <3> QED  BY <1>0, <1>1, <1>8, <2>3, <3>2 DEF SpinInv, S!SpinEnds
  <2> QED  BY <2>2, <2>3
<1>9. CASE S!SliceEnds
  <2>1. PICK t \in {0, 1} : S!Tick(t) /\ UNCHANGED <<program, throttles, main, thread, stop>>
    BY <1>9 DEF S!SliceEnds
  <2>2. queue' \in Queues /\ Able' = Able /\ attr' = attr
    BY <2>1, Ticks
  <2> HIDE DEF Able
  <2> QED  BY <1>0, <1>1, <2>1, <2>2 DEF SpinInv
<1>10. CASE S!Wake /\ UNCHANGED <<program, throttles>>
  <2>1. ~ S!Runnable(0) /\ queue' = S!Woken(0) /\ attr' = attr
    BY <1>10 DEF SpinInv, S!Wake
  <2>2. queue' \in Queues /\ Able' = Able \cup {0}
    BY <2>1, Wakes
  <2> HIDE DEF Able
  <2> QED  BY <1>0, <1>1, <1>10, <2>1, <2>2 DEF SpinInv, S!Wake
<1>11. CASE S!Suspend /\ UNCHANGED <<program, throttles>>
  <2>1. S!Runnable(1) /\ queue' = S!Blocked(1) /\ attr' = attr
    BY <1>11 DEF S!Suspend, S!Runs
  <2>2. queue' \in Queues /\ Able' = Able \ {1}
    BY <2>1, Blocks
  <2> HIDE DEF Able
  <2> QED  BY <1>0, <1>1, <1>11, <2>1, <2>2 DEF SpinInv, S!Suspend
<1>12. CASE S!Resume /\ UNCHANGED <<program, throttles>>
  <2>1. ~ S!Runnable(1) /\ queue' = S!Woken(1) /\ attr' = attr
    BY <1>12 DEF S!Resume
  <2>2. queue' \in Queues /\ Able' = Able \cup {1}
    BY <2>1, Wakes
  <2> HIDE DEF Able
  <2> QED  BY <1>0, <1>1, <1>12, <2>1, <2>2 DEF SpinInv, S!Resume
<1>13. CASE UNCHANGED S!spinVars
  <2>1. queue' = queue /\ attr' = attr /\ Able' = Able
        /\ UNCHANGED <<program, throttles, main, thread, stop>>
    BY <1>13 DEF S!spinVars, S!sched
  <2> HIDE DEF Able
  <2> QED  BY <1>0, <1>1, <2>1 DEF SpinInv
<1> QED  BY <1>2, <1>3, <1>4, <1>5, <1>6, <1>7, <1>8, <1>9, <1>10, <1>11, <1>12, <1>13
         DEF S!SNext, S!MainStep, S!ThreadStep, S!Kernel

(* deadline always, and setpriority if the kernel throttles real-time      *)
(* threads, are never stuck with their thread spinning before main, on any *)
(* number of CPUs: the step that lets main have one is there.              *)
THEOREM SpinsGoOn ==
  ASSUME Sizes
  PROVE  SpinSpec => []SpinGoesOn
<1>1. SpinInv /\ [S!SNext]_(S!spinVars) => SpinInv'
  BY SpinInvStep
<1>2. SpinInv => SpinGoesOn
  BY SpinCanGo
<1> QED  BY <1>1, <1>2, SpinInvInit, PTL DEF SpinSpec
===========================================================================
