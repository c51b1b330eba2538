------------------------- MODULE PmutexRunnerProofs -------------------------
(***************************************************************************)
(* thread_runner with the Filter lock in place of the semaphore, for every *)
(* number of threads, size of the buffer, list of policies and number of   *)
(* CPUs: the lists of the pmutex are ready whenever a thread walks them,   *)
(* and the build is one of SharedBuffer.                                   *)
(*                                                                         *)
(* The program only ever takes steps of FilterLock or leaves it alone      *)
(* (Locks), so FilterLockProofs gives mutual exclusion; who has the lock   *)
(* is who has SharedBuffer's token (Holding), and start_ths and the joins  *)
(* keep the workers apart from the building and the freeing of the lists   *)
(* (Begun, JoinedInv, Built).                                              *)
(*                                                                         *)
(* Somebody who is awake can always go on (GoesOn), as FilterLockProofs    *)
(* shows for the lock and ThreadRunnerProofs for the rest.                 *)
(***************************************************************************)
EXTENDS PmutexRunner, FilterLockProofs, SequenceTheorems

USE NAssumption, PmutexRunnerAssumption

RunnerPlaces == {"none", "ready", "lock", "check", "write", "advance", "unlock", "lastUnlock",
                 "exit", "exited"}

MainPlaces == {"boost", "print", "create", "configure", "add", "start", "drop", "join",
               "joined", "destroy", "done"}

\* Where main is when it has posted start_ths.
AfterStart == {"drop", "join", "joined", "destroy", "done"}

PTypeOK ==
  /\ mpc \in MainPlaces
  /\ k \in 0 .. N
  /\ mpc \in {"print", "create", "configure", "add", "join"} => k < N
  /\ mpc = "boost" => k = 0
  /\ mpc = "start" => k = N
  /\ wpc \in [Threads -> RunnerPlaces]
  /\ start_ths \in {0, 1}
  /\ buffer \in [0 .. Capacity -> Threads \cup {NUL}]

\* Workers leave their first loop when main has posted start_ths.
Begun ==
  /\ start_ths = 1 <=> mpc \in AfterStart
  /\ start_ths = 0 => \A t \in Threads : wpc[t] \in {"none", "ready"}

\* A worker has the lock where SharedBuffer's has the token.
Holding ==
  \A t \in Threads :
    /\ pc[t] = "critical" <=> wpc[t] \in {"check", "write", "advance", "unlock", "lastUnlock"}
    /\ wpc[t] # "lock" /\ pc[t] # "critical" => pc[t] = "idle"

\* The threads main has joined have exited.
JoinedInv ==
  /\ mpc = "join" => \A n \in 0 .. k - 1 : wpc[Nth(n)] = "exited"
  /\ mpc \in {"joined", "destroy", "done"} => \A t \in Threads : wpc[t] = "exited"

RInv == PTypeOK /\ Begun /\ Holding /\ JoinedInv

(* A step of the program is a step of lock() or unlock(), or leaves the    *)
(* lock alone.                                                             *)
LEMMA LockStep == [PNext]_allVars => [Next]_vars
<1>. SUFFICES ASSUME [PNext]_allVars PROVE [Next]_vars
  OBVIOUS
<1>1. CASE MainStep
  BY <1>1 DEF MainStep, Main, Boost, Announce, Create, Configure, Add, Start, Drop, Join,
              JoinBlocks, DestroyNode, DestroyHold, Report, KeepRest
<1>2. CASE TerminalBusy \/ TerminalReady
  BY <1>2 DEF TerminalBusy, TerminalReady
<1>3. ASSUME NEW t \in Threads, WorkerStep(t) PROVE [Next]_vars
  BY <1>3 DEF WorkerStep, Worker, Begin, Locking, Check, Write, Advance, Unlocking, Exit, Next
<1>4. ASSUME NEW t \in Everyone, SliceEnds(t) PROVE [Next]_vars
  BY <1>4 DEF SliceEnds
<1>5. CASE UNCHANGED allVars
  BY <1>5 DEF allVars
<1>. QED
  BY <1>1, <1>2, <1>3, <1>4, <1>5 DEF PNext

(* The program uses the lock as FilterLock has it used.                    *)
THEOREM Locks == PSpec => Spec
<1>1. PInit => Init
  BY DEF PInit
<1>. QED
  BY <1>1, LockStep, PTL DEF PSpec, Spec

(* At most one thread has the lock, whatever the scheduler does.           *)
THEOREM RunnerExclusion == PSpec => []MutualExclusion
BY Locks, Exclusion, PTL

----------------------------------------------------------------------------
(* The thread main creates when i is k is one of them, and each is one.    *)
LEMMA Created ==
  ASSUME NEW n \in 0 .. N - 1
  PROVE  Nth(n) \in Threads
BY DEF Nth, Threads

(* main begins alone.                                                      *)
LEMMA RInvInit == PInit => RInv
<1>. SUFFICES ASSUME PInit PROVE RInv
  OBVIOUS
<1>1. PTypeOK
  BY DEF PInit, PTypeOK, MainPlaces, RunnerPlaces, NUL
<1>2. Begun /\ JoinedInv
  BY DEF PInit, Begun, JoinedInv, AfterStart
<1>3. Holding
  BY DEF PInit, Init, Holding
<1>. QED
  BY <1>1, <1>2, <1>3 DEF RInv

(* A step of main keeps the invariant.                                     *)
LEMMA MainKeepsRInv ==
  ASSUME RInv, Main
  PROVE  RInv'
<1>. USE DEF RInv
<1>0. /\ vars' = vars /\ pc' = pc /\ buffer' = buffer
      /\ wpc' = wpc \/ Create
  BY DEF Main, Boost, Announce, Create, Configure, Add, Start, Drop, Join,
         JoinBlocks, DestroyNode, DestroyHold, Report, KeepRest, vars, memory
<1>1. CASE Create
  <2>0. mpc = "create" /\ Nth(k) \in Threads
    BY <1>1, Created DEF Create, PTypeOK
  <2>1. /\ mpc = "create" /\ mpc' = "configure" /\ k' = k /\ Nth(k) \in Threads
        /\ wpc' = [wpc EXCEPT ![Nth(k)] = "ready"] /\ start_ths' = start_ths
    BY <1>1, <2>0 DEF Create
  <2>2. start_ths = 0 /\ wpc[Nth(k)] \in {"none", "ready"}
    BY <2>1 DEF Begun, AfterStart, PTypeOK
  <2>3. PTypeOK'
    BY <1>0, <2>1 DEF PTypeOK, MainPlaces, RunnerPlaces
  <2>4. Begun'
    BY <2>1, <2>2 DEF Begun, AfterStart, PTypeOK
  <2>5. Holding'
    BY <1>0, <2>1, <2>2 DEF Holding, PTypeOK
  <2>6. JoinedInv'
    BY <2>1 DEF JoinedInv
  <2>. QED
    BY <2>3, <2>4, <2>5, <2>6
<1>2. CASE wpc' = wpc /\ ~ Create
  <2>1. Holding'
    BY <1>0, <1>2 DEF Holding
  <2>2. CASE Boost \/ Announce \/ Configure
    <3>1. /\ mpc \in {"boost", "print", "configure"} /\ mpc' \in {"print", "create", "add"}
          /\ k' = k /\ start_ths' = start_ths
      BY <2>2 DEF Boost, Announce, Configure
    <3>2. PTypeOK'
      BY <1>0, <1>2, <2>2, <3>1, NAssumption DEF Boost, Announce, Configure, PTypeOK, MainPlaces
    <3>. QED
      BY <1>2, <2>1, <3>1, <3>2 DEF Begun, AfterStart, JoinedInv
  <2>3. CASE Add
    <3>1. /\ mpc = "add" /\ mpc' \in {"print", "start"} /\ k' = k + 1
          /\ start_ths' = start_ths /\ (mpc' = "print" <=> k + 1 < N)
      BY <2>3 DEF Add, CreateLoop
    <3>2. PTypeOK'
      BY <1>0, <1>2, <3>1, NAssumption DEF PTypeOK, MainPlaces
    <3>. QED
      BY <1>2, <2>1, <3>1, <3>2 DEF Begun, AfterStart, JoinedInv
  <2>4. CASE Start
    <3>1. /\ mpc = "start" /\ mpc' = "drop" /\ k' = k /\ start_ths' = 1
      BY <2>4 DEF Start
    <3>2. PTypeOK'
      BY <1>0, <1>2, <3>1 DEF PTypeOK, MainPlaces
    <3>. QED
      BY <1>2, <2>1, <3>1, <3>2 DEF Begun, AfterStart, JoinedInv
  <2>5. CASE Drop
    <3>1. /\ mpc = "drop" /\ mpc' = "join" /\ k' = 0 /\ start_ths' = start_ths
      BY <2>5 DEF Drop
    <3>2. PTypeOK'
      BY <1>0, <1>2, <3>1, NAssumption DEF PTypeOK, MainPlaces
    <3>3. 0 .. k' - 1 = {}
      BY <3>1
    <3>. QED
      BY <1>2, <2>1, <3>1, <3>2, <3>3 DEF Begun, AfterStart, JoinedInv
  <2>6. CASE Join
    <3>1. /\ mpc = "join" /\ k' = k + 1 /\ k < N /\ wpc[Nth(k)] = "exited"
          /\ mpc' = (IF k + 1 < N THEN "join" ELSE "joined") /\ start_ths' = start_ths
      BY <2>6 DEF Join, PTypeOK
    <3>2. PTypeOK'
      BY <1>0, <1>2, <3>1, NAssumption DEF PTypeOK, MainPlaces
    <3>3. \A n \in 0 .. k : wpc[Nth(n)] = "exited"
      BY <3>1 DEF JoinedInv, PTypeOK
    <3>4. mpc' = "joined" => \A t \in Threads : wpc[t] = "exited"
      <4>. SUFFICES ASSUME k + 1 = N, NEW t \in Threads PROVE wpc[t] = "exited"
        BY <3>1, NAssumption DEF PTypeOK
      <4>1. N - t \in 0 .. k /\ Nth(N - t) = t
        BY NAssumption DEF Nth, Threads, PTypeOK
      <4>. QED
        BY <3>3, <4>1
    <3>5. mpc' = "join" => \A n \in 0 .. k' - 1 : wpc[Nth(n)] = "exited"
      BY <3>1, <3>3 DEF PTypeOK
    <3>6. JoinedInv'
      BY <1>2, <3>1, <3>4, <3>5 DEF JoinedInv, Nth
    <3>. QED
      BY <1>2, <2>1, <3>1, <3>2, <3>6 DEF Begun, AfterStart
  <2>7. CASE JoinBlocks
    <3>1. mpc' = mpc /\ k' = k /\ start_ths' = start_ths
      BY <2>7 DEF JoinBlocks
    <3>. QED
      BY <1>0, <1>2, <2>1, <3>1 DEF PTypeOK, Begun, JoinedInv, Nth
  <2>8. CASE DestroyNode \/ DestroyHold \/ Report
    <3>1. /\ mpc \in {"joined", "destroy"} /\ mpc' \in {"destroy", "done"}
          /\ k' = k /\ start_ths' = start_ths
      BY <2>8 DEF DestroyNode, DestroyHold, Report
    <3>. QED
      BY <1>0, <1>2, <2>1, <3>1 DEF PTypeOK, MainPlaces, Begun, AfterStart, JoinedInv
  <2>. QED
    BY <1>2, <2>2, <2>3, <2>4, <2>5, <2>6, <2>7, <2>8 DEF Main
<1>. QED
  BY <1>0, <1>1, <1>2

(* What a step of lock() does to the place of its caller.                  *)
LEMMA LockPlaces ==
  ASSUME TypeOK, NEW t \in Threads, Lock(t) \/ InLock(t)
  PROVE  /\ pc[t] # "critical"
         /\ pc' = [pc EXCEPT ![t] = pc'[t]]
BY DEF Lock, InLock, AtLevel, SetLevel, SetVictim, CheckVictim, Scan, LeaveWait, TypeOK

(* A step of a worker keeps the invariant.                                 *)
LEMMA WorkerKeepsRInv ==
  ASSUME RInv, TypeOK, NEW t \in Threads, Worker(t)
  PROVE  RInv'
<1>. USE DEF RInv
<1>1. mpc' = mpc /\ k' = k /\ start_ths' = start_ths
  BY DEF Worker
<1>2. CASE Begin(t)
  <2>1. /\ wpc[t] = "ready" /\ start_ths = 1 /\ wpc' = [wpc EXCEPT ![t] = "lock"]
        /\ pc' = pc /\ buffer' = buffer
    BY <1>2 DEF Begin, Goto, vars, memory
  <2>2. PTypeOK' /\ Begun'
    BY <1>1, <2>1 DEF PTypeOK, RunnerPlaces, Begun
  <2>3. Holding'
    BY <2>1 DEF Holding, PTypeOK
  <2>4. JoinedInv'
    BY <1>1, <2>1, Created DEF JoinedInv, PTypeOK, Nth
  <2>. QED
    BY <2>2, <2>3, <2>4
<1>3. CASE Locking(t)
  <2>1. /\ wpc[t] = "lock" /\ buffer' = buffer /\ pc[t] # "critical"
        /\ pc' = [pc EXCEPT ![t] = pc'[t]]
        /\ wpc' = [wpc EXCEPT ![t] = IF pc'[t] = "critical" THEN "check" ELSE "lock"]
    BY <1>3, LockPlaces DEF Locking, Goto, memory
  <2>2. start_ths = 1
    BY <2>1 DEF Begun, PTypeOK
  <2>3. PTypeOK' /\ Begun'
    BY <1>1, <2>1, <2>2 DEF PTypeOK, RunnerPlaces, Begun
  <2>4. Holding'
    BY <2>1 DEF Holding, PTypeOK, TypeOK
  <2>5. JoinedInv'
    BY <1>1, <2>1, Created DEF JoinedInv, PTypeOK, Nth
  <2>. QED
    BY <2>3, <2>4, <2>5
<1>4. CASE Check(t) \/ Write(t) \/ Advance(t)
  <2>1. /\ wpc[t] \in {"check", "write", "advance"} /\ pc' = pc
        /\ wpc'[t] \in {"write", "lastUnlock", "advance", "unlock"}
        /\ wpc' = [wpc EXCEPT ![t] = wpc'[t]]
        /\ buffer' \in [0 .. Capacity -> Threads \cup {NUL}]
    BY <1>4 DEF Check, Write, Advance, Goto, vars, memory, PTypeOK
  <2>2. start_ths = 1
    BY <2>1 DEF Begun, PTypeOK
  <2>3. PTypeOK' /\ Begun'
    BY <1>1, <2>1, <2>2 DEF PTypeOK, RunnerPlaces, Begun
  <2>4. Holding'
    BY <2>1 DEF Holding, PTypeOK
  <2>5. JoinedInv'
    BY <1>1, <2>1, Created DEF JoinedInv, PTypeOK, Nth
  <2>. QED
    BY <2>3, <2>4, <2>5
<1>5. CASE Unlocking(t)
  <2>1. /\ wpc[t] \in {"unlock", "lastUnlock"} /\ buffer' = buffer
        /\ pc' = [pc EXCEPT ![t] = "idle"]
        /\ wpc' = [wpc EXCEPT ![t] = IF wpc[t] = "unlock" THEN "lock" ELSE "exit"]
    BY <1>5 DEF Unlocking, Unlock, Goto, memory
  <2>2. start_ths = 1
    BY <2>1 DEF Begun, PTypeOK
  <2>3. PTypeOK' /\ Begun'
    BY <1>1, <2>1, <2>2 DEF PTypeOK, RunnerPlaces, Begun
  <2>4. Holding'
    BY <2>1 DEF Holding, PTypeOK, TypeOK
  <2>5. JoinedInv'
    BY <1>1, <2>1, Created DEF JoinedInv, PTypeOK, Nth
  <2>. QED
    BY <2>3, <2>4, <2>5
<1>6. CASE Exit(t)
  <2>1. /\ wpc[t] = "exit" /\ wpc' = [wpc EXCEPT ![t] = "exited"]
        /\ pc' = pc /\ buffer' = buffer
    BY <1>6 DEF Exit, Goto, vars, memory
  <2>2. start_ths = 1
    BY <2>1 DEF Begun, PTypeOK
  <2>3. PTypeOK' /\ Begun'
    BY <1>1, <2>1, <2>2 DEF PTypeOK, RunnerPlaces, Begun
  <2>4. Holding' /\ JoinedInv'
    BY <1>1, <2>1, Created DEF Holding, JoinedInv, PTypeOK, Nth
  <2>. QED
    BY <2>3, <2>4
<1>. QED
  BY <1>2, <1>3, <1>4, <1>5, <1>6 DEF Worker

(* The invariant of the program holds.                                     *)
THEOREM RunnerInductive == PSpec => []RInv
<1>1. PInit => RInv
  BY RInvInit
<1>2. RInv /\ TypeOK /\ [PNext]_allVars => RInv'
  <2>. SUFFICES ASSUME RInv, TypeOK, [PNext]_allVars PROVE RInv'
    OBVIOUS
  <2>1. CASE TerminalBusy \/ TerminalReady \/ UNCHANGED allVars \/ \E t \in Everyone : SliceEnds(t)
    BY <2>1 DEF TerminalBusy, TerminalReady, SliceEnds, allVars, vars, lists, memory,
                RInv, PTypeOK, Begun, Holding, JoinedInv, Nth
  <2>. QED
    BY <2>1, MainKeepsRInv, WorkerKeepsRInv DEF PNext, MainStep, WorkerStep
<1>3. PSpec => []TypeOK
  BY Locks, TypeCorrect, PTL
<1>. QED
  BY <1>1, <1>2, <1>3, PTL DEF PSpec

----------------------------------------------------------------------------
\* The lists hold the threads created first, m of them, the last one in front.
LastNodes(m) == [n \in 1 .. m |-> N - m + n]

Named(s, T) == {<<s, t>> : t \in T}

Owners(m) == N - m + 1 .. N

Held(m, h) ==
  Named("pnode", Owners(m)) \cup Named("list", Owners(m)) \cup Named("hold", Owners(h))

\* The lists are built while main creates the threads, and whole from then on
\* until pmutex_destroy().
Built(m, h) ==
  /\ nodes = LastNodes(m) /\ holds = LastNodes(h) /\ heap = Held(m, h)
  /\ mpc \in {"boost", "print", "create", "configure", "add"} => m = k /\ h = k
  /\ mpc \in {"start", "drop", "join", "joined"} => m = N /\ h = N

LInv == \E m, h \in 0 .. N : Built(m, h)

(* A thread more in front of the list, or one less.                        *)
LEMMA LastMore ==
  ASSUME NEW m \in 0 .. N - 1
  PROVE  <<Nth(m)>> \o LastNodes(m) = LastNodes(m + 1)
<1>1. LastNodes(m) \in Seq(Int) /\ Len(LastNodes(m)) = m /\ <<Nth(m)>> \in Seq(Int)
  BY DEF LastNodes, Nth
<1>2. Len(<<Nth(m)>> \o LastNodes(m)) = m + 1 /\ Len(LastNodes(m + 1)) = m + 1
  BY <1>1 DEF LastNodes
<1>3. <<Nth(m)>> \o LastNodes(m) \in Seq(Int) /\ LastNodes(m + 1) \in Seq(Int)
  BY <1>1 DEF LastNodes
<1>4. ASSUME NEW n \in 1 .. m + 1
      PROVE  (<<Nth(m)>> \o LastNodes(m))[n] = LastNodes(m + 1)[n]
  BY <1>1 DEF LastNodes, Nth
<1>. QED
  BY <1>2, <1>3, <1>4, SeqEqual

(* The head of the list is the node that was added last.                   *)
LEMMA LastLess ==
  ASSUME NEW m \in 1 .. N
  PROVE  /\ LastNodes(m) # <<>> /\ Head(LastNodes(m)) = N - m + 1
         /\ Tail(LastNodes(m)) = LastNodes(m - 1)
<1>1. LastNodes(m) \in Seq(Int) /\ Len(LastNodes(m)) = m /\ LastNodes(m - 1) \in Seq(Int)
  BY DEF LastNodes
<1>2. LastNodes(m) # <<>> /\ Head(LastNodes(m)) = N - m + 1
  BY <1>1 DEF LastNodes
<1>3. Tail(LastNodes(m)) \in Seq(Int) /\ Len(Tail(LastNodes(m))) = m - 1 /\ Len(LastNodes(m - 1)) = m - 1
  BY <1>1, <1>2 DEF LastNodes
<1>4. ASSUME NEW n \in 1 .. m - 1
      PROVE  Tail(LastNodes(m))[n] = LastNodes(m - 1)[n]
  BY <1>1, <1>2 DEF LastNodes
<1>. QED
  BY <1>2, <1>1, <1>3, <1>4, SeqEqual

(* The last node added has an owner the others have not.                   *)
LEMMA OwnersMore ==
  ASSUME NEW m \in 1 .. N
  PROVE  Owners(m) = Owners(m - 1) \cup {N - m + 1} /\ N - m + 1 \notin Owners(m - 1)
BY DEF Owners

(* One owner more is one cell more of each kind.                           *)
LEMMA NamedMore ==
  ASSUME NEW s, NEW T, NEW x
  PROVE  Named(s, T \cup {x}) = Named(s, T) \cup {<<s, x>>}
BY Zenon DEF Named

(* Cells of different kinds are different.                                 *)
LEMMA NamedApart ==
  ASSUME NEW s, NEW T, NEW r, NEW x, r # s \/ x \notin T
  PROVE  <<r, x>> \notin Named(s, T)
BY DEF Named

(* pmutex_add() allocates the cells of one thread.                         *)
LEMMA HeldMore ==
  ASSUME NEW m \in 0 .. N - 1
  PROVE  Held(m, m) \cup Cells(Nth(m)) = Held(m + 1, m + 1)
<1>1. Owners(m + 1) = Owners(m) \cup {N - m}
  BY DEF Owners
<1>2. \A s : Named(s, Owners(m + 1)) = Named(s, Owners(m)) \cup {<<s, N - m>>}
  BY <1>1, NamedMore
<1>. QED
  BY <1>2 DEF Held, Cells, Nth

(* Freeing a node takes its two cells.                                     *)
LEMMA HeldLess ==
  ASSUME NEW m \in 1 .. N, NEW h \in 0 .. N
  PROVE  Held(m, h) \ {<<"pnode", N - m + 1>>, <<"list", N - m + 1>>} = Held(m - 1, h)
<1>. DEFINE x == N - m + 1
<1>1. Owners(m) = Owners(m - 1) \cup {x} /\ x \notin Owners(m - 1)
  BY OwnersMore
<1>2. \A s : Named(s, Owners(m)) = Named(s, Owners(m - 1)) \cup {<<s, x>>}
  <2>. SUFFICES ASSUME NEW s
                PROVE  Named(s, Owners(m)) = Named(s, Owners(m - 1)) \cup {<<s, x>>}
    OBVIOUS
  <2>1. Named(s, Owners(m - 1) \cup {x}) = Named(s, Owners(m - 1)) \cup {<<s, x>>}
    BY NamedMore
  <2>. QED
    BY <1>1, <2>1
<1>3. /\ <<"pnode", x>> \notin Named("pnode", Owners(m - 1))
      /\ <<"list", x>> \notin Named("pnode", Owners(m - 1))
      /\ <<"pnode", x>> \notin Named("list", Owners(m - 1))
      /\ <<"list", x>> \notin Named("list", Owners(m - 1))
      /\ <<"pnode", x>> \notin Named("hold", Owners(h))
      /\ <<"list", x>> \notin Named("hold", Owners(h))
  BY <1>1, NamedApart
<1>. HIDE DEF x
<1>. QED
  BY <1>2, <1>3 DEF Held, x

(* Freeing a hold takes its one cell.                                      *)
LEMMA HoldsLess ==
  ASSUME NEW m \in 0 .. N, NEW h \in 1 .. N
  PROVE  Held(m, h) \ {<<"hold", N - h + 1>>} = Held(m, h - 1)
<1>. DEFINE x == N - h + 1
<1>1. Owners(h) = Owners(h - 1) \cup {x} /\ x \notin Owners(h - 1)
  BY OwnersMore
<1>2. \A s : Named(s, Owners(h)) = Named(s, Owners(h - 1)) \cup {<<s, x>>}
  <2>. SUFFICES ASSUME NEW s
                PROVE  Named(s, Owners(h)) = Named(s, Owners(h - 1)) \cup {<<s, x>>}
    OBVIOUS
  <2>1. Named(s, Owners(h - 1) \cup {x}) = Named(s, Owners(h - 1)) \cup {<<s, x>>}
    BY NamedMore
  <2>. QED
    BY <1>1, <2>1
<1>3. /\ <<"hold", x>> \notin Named("hold", Owners(h - 1))
      /\ <<"hold", x>> \notin Named("pnode", Owners(m))
      /\ <<"hold", x>> \notin Named("list", Owners(m))
  BY <1>1, NamedApart
<1>. QED
  BY <1>2, <1>3 DEF Held

(* Before the first pmutex_add() the lists are empty.                      *)
LEMMA LastNone == LastNodes(0) = <<>>
BY DEF LastNodes

(* What a step of main has made of the lists.                              *)
LEMMA BuiltNext ==
  ASSUME NEW m \in 0 .. N, NEW h \in 0 .. N,
         nodes' = LastNodes(m), holds' = LastNodes(h), heap' = Held(m, h),
         mpc' \in {"boost", "print", "create", "configure", "add"} => m = k' /\ h = k',
         mpc' \in {"start", "drop", "join", "joined"} => m = N /\ h = N
  PROVE  LInv'
BY DEF LInv, Built

(* What builds and frees the lists keeps them in this form.                *)
LEMMA LInvInit == PInit => LInv
<1>1. Held(0, 0) = {}
  BY DEF Held, Named, Owners
<1>. QED
  BY <1>1, LastNone DEF PInit, LInv, Built

(* Every step of the program keeps the lists in shape.                     *)
LEMMA LInvStep ==
  ASSUME LInv, PTypeOK, [PNext]_allVars
  PROVE  LInv'
<1>1. PICK m \in 0 .. N, h \in 0 .. N : Built(m, h)
  BY DEF LInv
<1>. USE <1>1 DEF Built
<1>2. CASE Add
  <2>1. /\ mpc = "add" /\ mpc' \in {"print", "start"} /\ k' = k + 1 /\ m = k /\ h = k /\ k < N
        /\ mpc' = "start" => k + 1 >= N
        /\ nodes' = <<Nth(k)>> \o nodes /\ holds' = <<Nth(k)>> \o holds
        /\ heap' = heap \cup Cells(Nth(k))
    BY <1>2, SMTT(20) DEF Add, CreateLoop, PTypeOK
  <2>2. /\ nodes' = LastNodes(k + 1) /\ holds' = LastNodes(k + 1) /\ heap' = Held(k + 1, k + 1)
        /\ k + 1 \in 0 .. N
    BY <2>1, LastMore, HeldMore, SMTT(20)
  <2>3. k + 1 = N \/ mpc' # "start"
    BY <2>1, <2>2
  <2>. HIDE <1>1
  <2>. QED
    BY <2>1, <2>2, <2>3, BuiltNext
<1>3. CASE DestroyNode
  <2>1. /\ mpc' = "destroy" /\ nodes # <<>> /\ holds' = holds /\ nodes' = Tail(nodes)
        /\ heap' = heap \ {<<"pnode", Head(nodes)>>, <<"list", Head(nodes)>>}
    BY <1>3 DEF DestroyNode
  <2>2. m \in 1 .. N
    BY <2>1, LastNone
  <2>3. /\ nodes' = LastNodes(m - 1) /\ holds' = LastNodes(h) /\ heap' = Held(m - 1, h)
        /\ m - 1 \in 0 .. N
    <3>1. nodes' = LastNodes(m - 1)
      BY <2>1, <2>2, LastLess
    <3>2. heap' = Held(m - 1, h)
      BY <2>1, <2>2, LastLess, HeldLess
    <3>. QED
      BY <2>1, <2>2, <3>1, <3>2
  <2>. QED
    BY <2>1, <2>3, BuiltNext
<1>4. CASE DestroyHold
  <2>1. /\ mpc' = "destroy" /\ holds # <<>> /\ nodes' = nodes /\ holds' = Tail(holds)
        /\ heap' = heap \ {<<"hold", Head(holds)>>}
    BY <1>4 DEF DestroyHold
  <2>2. h \in 1 .. N
    BY <2>1, LastNone
  <2>3. /\ nodes' = LastNodes(m) /\ holds' = LastNodes(h - 1) /\ heap' = Held(m, h - 1)
        /\ h - 1 \in 0 .. N
    <3>1. holds' = LastNodes(h - 1)
      BY <2>1, <2>2, LastLess
    <3>2. heap' = Held(m, h - 1)
      BY <2>1, <2>2, LastLess, HoldsLess
    <3>. QED
      BY <2>1, <2>2, <3>1, <3>2
  <2>. QED
    BY <2>1, <2>3, BuiltNext
<1>5. CASE lists' = lists
  <2>1. nodes' = nodes /\ holds' = holds /\ heap' = heap
    BY <1>5 DEF lists
  <2>2. CASE Boost \/ Announce \/ Create \/ Configure \/ Start \/ Drop \/ Join \/ JoinBlocks \/ Report
    <3>1. \/ mpc \in {"boost", "print", "create", "configure"} /\ k' = k
             /\ mpc' \in {"print", "create", "configure", "add"}
          \/ mpc \in {"start", "drop", "join", "joined"} /\ mpc' \in {"drop", "join", "joined", "done"}
          \/ mpc' = "done"
      BY <2>2 DEF Boost, Announce, Create, Configure, Start, Drop, Join, JoinBlocks, Report
    <3>. QED
      BY <2>1, <3>1 DEF LInv
  <2>3. CASE mpc' = mpc /\ k' = k
    BY <2>1, <2>3 DEF LInv
  <2>. QED
    BY <1>2, <1>3, <1>4, <2>2, <2>3
       DEF PNext, MainStep, Main, TerminalBusy, TerminalReady, WorkerStep, Worker, SliceEnds, allVars
<1>. QED
  BY <1>2, <1>3, <1>4, <1>5
     DEF PNext, MainStep, Main, Boost, Announce, Create, Configure, Start, Drop, Join,
         JoinBlocks, Report, TerminalBusy, TerminalReady, WorkerStep, Worker, SliceEnds, allVars

(* The lists are in this form for ever.                                    *)
THEOREM ListsInductive == PSpec => []LInv
<1>1. RInv => PTypeOK
  BY DEF RInv
<1>. QED
  BY <1>1, LInvInit, LInvStep, RunnerInductive, PTL DEF PSpec

(* No thread walks the lists while they are built or freed: main posts     *)
(* start_ths after the last pmutex_add(), and has joined every thread      *)
(* before pmutex_destroy().                                                *)
THEOREM Ready == PSpec => []ListsReady
<1>1. RInv /\ LInv => ListsReady
  <2>. SUFFICES ASSUME RInv, LInv, NEW w \in Walking PROVE ListsReady!2
    BY DEF ListsReady
  <2>1. mpc \in {"drop", "join"}
    BY DEF Walking, RInv, PTypeOK, Begun, AfterStart, JoinedInv
  <2>2. nodes = LastNodes(N) /\ holds = LastNodes(N) /\ heap = Held(N, N)
    BY <2>1 DEF LInv, Built
  <2>3. nodes = [n \in Threads |-> n] /\ Len(holds) = N
    BY <2>2 DEF LastNodes, Threads
  <2>4. Owners(N) = Threads
    BY DEF Owners, Threads
  <2>5. UNION {Cells(t) : t \in Threads} \subseteq heap
    BY <2>2, <2>4 DEF Held, Named, Cells
  <2>. QED
    BY <2>3, <2>5
<1>. QED
  BY <1>1, RunnerInductive, ListsInductive, PTL

(* No cell of the lists is lost or freed twice.                            *)
THEOREM Leaks == PSpec => []NoLeak
<1>1. ASSUME NEW m \in 0 .. N PROVE ToSet(LastNodes(m)) = Owners(m)
  <2>1. ASSUME NEW x \in Owners(m) PROVE x \in ToSet(LastNodes(m))
    <3>1. x - (N - m) \in 1 .. m /\ LastNodes(m)[x - (N - m)] = x
      BY DEF Owners, LastNodes
    <3>2. DOMAIN LastNodes(m) = 1 .. m
      BY DEF LastNodes
    <3>. QED
      BY <3>1, <3>2 DEF ToSet
  <2>2. ASSUME NEW x \in ToSet(LastNodes(m)) PROVE x \in Owners(m)
    BY DEF ToSet, LastNodes, Owners
  <2>. QED
    BY <2>1, <2>2
<1>2. LInv => NoLeak
  <2>. SUFFICES ASSUME LInv PROVE NoLeak
    OBVIOUS
  <2>1. PICK m \in 0 .. N, h \in 0 .. N : Built(m, h)
    BY DEF LInv
  <2>2. ToSet(nodes) = Owners(m) /\ ToSet(holds) = Owners(h) /\ heap = Held(m, h)
    BY <1>1, <2>1 DEF Built
  <2>3. (UNION {{<<"pnode", t>>, <<"list", t>>} : t \in Owners(m)})
          = Named("pnode", Owners(m)) \cup Named("list", Owners(m))
    BY DEF Named
  <2>4. {<<"hold", t>> : t \in Owners(h)} = Named("hold", Owners(h))
    BY DEF Named
  <2>. QED
    BY <2>2, <2>3, <2>4 DEF NoLeak, Held
<1>. QED
  BY <1>2, ListsInductive, PTL

----------------------------------------------------------------------------
(* The refinement.  What SharedBuffer sees of the workers and the buffer.  *)
SeenWorkers == [w \in Threads |-> WorkerAt(Renamed(wpc)[w])]

SeenBuffer == [n \in 0 .. Capacity |-> IF buffer[n] = NUL THEN NUL ELSE N + 1 - buffer[n]]

(* SharedBuffer sees thread t as worker N + 1 - t.                         *)
LEMMA Seen ==
  ASSUME NEW t \in Threads
  PROVE  N + 1 - t \in Threads /\ SeenWorkers[N + 1 - t] = WorkerAt(wpc[t])
<1>1. N + 1 - t \in Threads /\ N + 1 - (N + 1 - t) = t
  BY DEF Threads
<1>. QED
  BY <1>1 DEF SeenWorkers, Renamed

(* A worker that moves is seen to move in the build with the semaphore.    *)
LEMMA Turned ==
  ASSUME NEW t \in Threads, NEW x, PTypeOK, wpc' = [wpc EXCEPT ![t] = x]
  PROVE  SeenWorkers' = [SeenWorkers EXCEPT ![N + 1 - t] = WorkerAt(x)]
<1>1. N + 1 - t \in Threads /\ \A w \in Threads : N + 1 - w = t <=> w = N + 1 - t
  BY DEF Threads
<1>2. \A w \in Threads : N + 1 - w \in Threads
  BY DEF Threads
<1>3. ASSUME NEW w \in Threads
      PROVE  SeenWorkers'[w] = [SeenWorkers EXCEPT ![N + 1 - t] = WorkerAt(x)][w]
  BY <1>1, <1>2 DEF SeenWorkers, Renamed, PTypeOK
<1>. QED
  BY <1>1, <1>3 DEF SeenWorkers

(* A worker that moves inside lock() is not seen to.                       *)
LEMMA Unturned ==
  ASSUME NEW t \in Threads, NEW x, PTypeOK, wpc' = [wpc EXCEPT ![t] = x],
         WorkerAt(x) = WorkerAt(wpc[t])
  PROVE  SeenWorkers' = SeenWorkers
<1>1. /\ SeenWorkers[N + 1 - t] = WorkerAt(x)
      /\ SeenWorkers' = [SeenWorkers EXCEPT ![N + 1 - t] = WorkerAt(x)]
  BY Seen, Turned
<1>. QED
  BY <1>1 DEF SeenWorkers

(* The token is in the semaphore when no thread has the lock.              *)
LEMMA TokenInit == PInit => SB!Init
<1>. SUFFICES ASSUME PInit PROVE SB!Init
  OBVIOUS
<1>1. SeenWorkers = [w \in Threads |-> "none"]
  BY DEF PInit, SeenWorkers, Renamed, WorkerAt, Threads
<1>2. SeenBuffer = [n \in 0 .. Capacity |-> NUL]
  BY DEF PInit, SeenBuffer
<1>3. token = 0 /\ MainAt(mpc) = "boost" /\ k = 0 /\ ptr = 0
  BY DEF PInit, token, MainAt
<1>. QED
  BY <1>1, <1>2, <1>3 DEF SB!Init, SB!Workers, SeenWorkers, SeenBuffer, Threads, NUL, SB!NUL

(* A step that nothing is seen of is a stutter there.                      *)
LEMMA SameView ==
  ASSUME MainAt(mpc)' = MainAt(mpc), k' = k, SeenWorkers' = SeenWorkers, token' = token,
         ptr' = ptr, buffer' = buffer
  PROVE  UNCHANGED SB!vars
BY DEF SB!vars, SeenWorkers, SeenBuffer

(* What main does is what SharedBuffer's main does, or a stutter.          *)
LEMMA MainImplements ==
  ASSUME RInv, Main
  PROVE  SB!Main \/ UNCHANGED SB!vars
<1>. USE DEF RInv
<1>1. vars' = vars /\ pc' = pc /\ buffer' = buffer /\ ptr' = ptr
  BY DEF Main, Boost, Announce, Create, Configure, Add, Start, Drop, Join,
         JoinBlocks, DestroyNode, DestroyHold, Report, KeepRest, vars, memory
<1>2. wpc' = wpc => SeenWorkers' = SeenWorkers
  BY DEF SeenWorkers, Renamed
<1>3. SeenBuffer' = SeenBuffer
  BY <1>1 DEF SeenBuffer
<1>4. start_ths' = start_ths => token' = token
  BY <1>1 DEF token
<1>5. CASE Boost
  <2>1. /\ mpc = "boost" /\ mpc' = "print" /\ UNCHANGED <<k, wpc, start_ths>>
    BY <1>5 DEF Boost
  <2>2. MainAt(mpc) = "boost" /\ MainAt(mpc)' = SB!CreateLoop(0)
    BY <2>1 DEF MainAt, SB!CreateLoop
  <2>3. SB!Boost
    BY <1>1, <1>2, <1>3, <1>4, <2>1, <2>2 DEF SB!Boost, SeenWorkers, SeenBuffer
  <2>. QED
    BY <2>3 DEF SB!Main
<1>6. CASE Announce
  <2>1. /\ mpc = "print" /\ mpc' = "create" /\ UNCHANGED <<k, wpc, start_ths>>
    BY <1>6 DEF Announce
  <2>2. MainAt(mpc) = "print" /\ MainAt(mpc)' = "create"
    BY <2>1 DEF MainAt
  <2>3. SB!Announce
    BY <1>1, <1>2, <1>3, <1>4, <2>1, <2>2 DEF SB!Announce, SeenWorkers, SeenBuffer
  <2>. QED
    BY <2>3 DEF SB!Main
<1>7. CASE Create
  <2>1. /\ mpc = "create" /\ mpc' = "configure" /\ UNCHANGED <<k, start_ths>>
        /\ wpc' = [wpc EXCEPT ![Nth(k)] = "ready"] /\ Nth(k) \in Threads
    BY <1>7, Created DEF Create, PTypeOK
  <2>2. MainAt(mpc) = "create" /\ MainAt(mpc)' = "configure" /\ WorkerAt("ready") = "wait"
    BY <2>1 DEF MainAt, WorkerAt
  <2>3. SeenWorkers' = [SeenWorkers EXCEPT ![N + 1 - Nth(k)] = "wait"]
    BY <2>1, <2>2, Turned
  <2>4. N + 1 - Nth(k) = k + 1
    BY DEF Nth, PTypeOK
  <2>5. SB!Create
    BY <1>1, <1>3, <1>4, <2>1, <2>2, <2>3, <2>4 DEF SB!Create, SeenWorkers, SeenBuffer
  <2>. QED
    BY <2>5 DEF SB!Main
<1>8. CASE Configure \/ JoinBlocks \/ DestroyNode \/ DestroyHold
  <2>1. UNCHANGED <<k, wpc, start_ths>> /\ MainAt(mpc)' = MainAt(mpc)
    BY <1>8 DEF Configure, JoinBlocks, DestroyNode, DestroyHold, MainAt
  <2>. QED
    BY <1>1, <1>2, <1>4, <2>1, SameView
<1>9. CASE Add
  <2>1. /\ mpc = "add" /\ mpc' = CreateLoop /\ k' = k + 1 /\ UNCHANGED <<wpc, start_ths>>
    BY <1>9 DEF Add
  <2>2. MainAt(mpc) = "configure" /\ MainAt(mpc)' = SB!CreateLoop(k + 1)
    BY <2>1 DEF MainAt, CreateLoop, SB!CreateLoop
  <2>3. SB!Configure
    BY <1>1, <1>2, <1>3, <1>4, <2>1, <2>2 DEF SB!Configure, SeenWorkers, SeenBuffer
  <2>. QED
    BY <2>3 DEF SB!Main
<1>10. CASE Start
  <2>1. /\ mpc = "start" /\ mpc' = "drop" /\ start_ths' = 1 /\ UNCHANGED <<k, wpc>>
    BY <1>10 DEF Start
  <2>2. MainAt(mpc) = "start" /\ MainAt(mpc)' = "drop"
    BY <2>1 DEF MainAt
  <2>3. start_ths = 0 /\ \A t \in Threads : pc[t] # "critical"
    BY <2>1 DEF PTypeOK, Begun, AfterStart, Holding
  <2>4. token = 0 /\ token' = 1
    BY <1>1, <2>1, <2>3 DEF token
  <2>5. SB!Start
    BY <1>1, <1>2, <1>3, <2>1, <2>2, <2>4 DEF SB!Start, SeenWorkers, SeenBuffer
  <2>. QED
    BY <2>5 DEF SB!Main
<1>11. CASE Drop
  <2>1. /\ mpc = "drop" /\ mpc' = "join" /\ k' = 0 /\ UNCHANGED <<start_ths, wpc>>
    BY <1>11 DEF Drop
  <2>2. MainAt(mpc) = "drop" /\ MainAt(mpc)' = SB!JoinLoop(0)
    BY <2>1 DEF MainAt, SB!JoinLoop
  <2>3. SB!Drop
    BY <1>1, <1>2, <1>3, <1>4, <2>1, <2>2 DEF SB!Drop, SeenWorkers, SeenBuffer
  <2>. QED
    BY <2>3 DEF SB!Main
<1>12. CASE Join
  <2>1. /\ mpc = "join" /\ wpc[Nth(k)] = "exited" /\ k' = k + 1 /\ UNCHANGED <<start_ths, wpc>>
        /\ mpc' = (IF k + 1 < N THEN "join" ELSE "joined") /\ Nth(k) \in Threads
    BY <1>12, Created DEF Join, PTypeOK
  <2>2. MainAt(mpc) = "join" /\ MainAt(mpc)' = SB!JoinLoop(k + 1)
    BY <2>1 DEF MainAt, SB!JoinLoop
  <2>3. SeenWorkers[k + 1] = "exited"
    BY <2>1 DEF SeenWorkers, Renamed, Nth, WorkerAt, PTypeOK, Threads
  <2>4. SB!Join
    BY <1>1, <1>2, <1>3, <1>4, <2>1, <2>2, <2>3 DEF SB!Join, SeenWorkers, SeenBuffer
  <2>. QED
    BY <2>4 DEF SB!Main
<1>13. CASE Report
  <2>1. /\ mpc \in {"joined", "destroy"} /\ mpc' = "done" /\ UNCHANGED <<k, wpc, start_ths>>
    BY <1>13 DEF Report
  <2>2. MainAt(mpc) = "report" /\ MainAt(mpc)' = "done"
    BY <2>1 DEF MainAt
  <2>3. SB!Report
    BY <1>1, <1>2, <1>3, <1>4, <2>1, <2>2 DEF SB!Report, SeenWorkers, SeenBuffer
  <2>. QED
    BY <2>3 DEF SB!Main
<1>. QED
  BY <1>5, <1>6, <1>7, <1>8, <1>9, <1>10, <1>11, <1>12, <1>13 DEF Main

(* What a worker does is what SharedBuffer's worker does: the step of      *)
(* lock() that enters is the wait, the whole of unlock() the post, and the *)
(* steps of lock() before that are stutters.                               *)
LEMMA WorkerImplements ==
  ASSUME RInv, TypeOK, MutualExclusion, MutualExclusion', NEW t \in Threads, Worker(t)
  PROVE  SB!Next \/ UNCHANGED SB!vars
<1>. USE DEF RInv
<1>. DEFINE w == N + 1 - t
<1>1. UNCHANGED <<mpc, k, start_ths>> /\ MainAt(mpc)' = MainAt(mpc) /\ w \in SB!Workers
  BY DEF Worker, MainAt, SB!Workers, Threads
<1>2. /\ SeenWorkers[w] = WorkerAt(wpc[t])
      /\ \A x : wpc' = [wpc EXCEPT ![t] = x] =>
           SeenWorkers' = [SeenWorkers EXCEPT ![w] = WorkerAt(x)]
  BY Seen, Turned
<1>3. buffer' = buffer => SeenBuffer' = SeenBuffer
  BY DEF SeenBuffer
<1>4. pc' = pc => token' = token
  BY <1>1 DEF token
<1>5. wpc[t] \notin {"none", "ready"} => start_ths = 1
  BY DEF Begun, PTypeOK
<1>. HIDE DEF w
<1>6. CASE Begin(t)
  <2>1. /\ wpc[t] = "ready" /\ wpc' = [wpc EXCEPT ![t] = "lock"]
        /\ pc' = pc /\ buffer' = buffer /\ ptr' = ptr
    BY <1>6 DEF Begin, Goto, vars, memory
  <2>2. SeenWorkers' = SeenWorkers
    BY <2>1, Unturned DEF WorkerAt
  <2>. QED
    BY <1>1, <1>4, <2>1, <2>2, SameView
<1>7. CASE Locking(t)
  <2>1. /\ wpc[t] = "lock" /\ UNCHANGED <<ptr, buffer>> /\ pc[t] # "critical"
        /\ pc' = [pc EXCEPT ![t] = pc'[t]]
        /\ wpc' = [wpc EXCEPT ![t] = IF pc'[t] = "critical" THEN "check" ELSE "lock"]
    BY <1>7, LockPlaces DEF Locking, Goto, memory
  <2>2. pc \in [Threads -> Places] /\ start_ths = 1
    BY <1>5, <2>1 DEF TypeOK
  <2>3. CASE pc'[t] = "critical"
    <3>1. token = 1 /\ token' = 0
      BY <1>1, <2>1, <2>2, <2>3 DEF token, MutualExclusion
    <3>2. SeenWorkers[w] = "wait" /\ SeenWorkers' = [SeenWorkers EXCEPT ![w] = "check"]
      BY <1>2, <2>1, <2>3 DEF WorkerAt
    <3>3. SB!Take(w)
      BY <1>1, <1>3, <2>1, <3>1, <3>2 DEF SB!Take, SB!Goto, SeenWorkers, SeenBuffer
    <3>. QED
      BY <1>1, <3>3 DEF SB!Next, SB!Worker
  <2>4. CASE pc'[t] # "critical"
    <3>1. token' = token
      BY <1>1, <2>1, <2>2, <2>4 DEF token
    <3>2. SeenWorkers' = SeenWorkers
      BY <2>1, <2>4, Unturned
    <3>. QED
      BY <1>1, <2>1, <3>1, <3>2, SameView
  <2>. QED
    BY <2>3, <2>4
<1>8. CASE Check(t)
  <2>1. /\ wpc[t] = "check" /\ pc' = pc /\ UNCHANGED <<ptr, buffer>>
        /\ wpc' = [wpc EXCEPT ![t] = IF ptr = Capacity THEN "lastUnlock" ELSE "write"]
    BY <1>8 DEF Check, Goto, vars, memory
  <2>2. /\ SeenWorkers[w] = "check"
        /\ SeenWorkers' = [SeenWorkers EXCEPT ![w] = IF ptr = Capacity THEN "lastPost" ELSE "write"]
    BY <1>2, <2>1 DEF WorkerAt
  <2>3. SB!Check(w)
    BY <1>1, <1>3, <1>4, <2>1, <2>2 DEF SB!Check, SB!Goto, SeenWorkers, SeenBuffer
  <2>. QED
    BY <1>1, <2>3 DEF SB!Next, SB!Worker
<1>9. CASE Write(t)
  <2>1. /\ wpc[t] = "write" /\ pc' = pc /\ ptr' = ptr
        /\ buffer' = [buffer EXCEPT ![ptr] = t]
        /\ wpc' = [wpc EXCEPT ![t] = "advance"]
    BY <1>9 DEF Write, Goto, vars
  <2>2. SeenWorkers[w] = "write" /\ SeenWorkers' = [SeenWorkers EXCEPT ![w] = "advance"]
    BY <1>2, <2>1 DEF WorkerAt
  <2>3. SeenBuffer' = [SeenBuffer EXCEPT ![ptr] = w]
    <3>1. ASSUME NEW n \in 0 .. Capacity
          PROVE  SeenBuffer'[n] = [SeenBuffer EXCEPT ![ptr] = w][n]
      BY <2>1 DEF SeenBuffer, PTypeOK, Threads, NUL, w
    <3>. QED
      BY <3>1 DEF SeenBuffer
  <2>4. SB!Write(w)
    BY <1>1, <1>4, <2>1, <2>2, <2>3 DEF SB!Write, SB!Goto, SeenWorkers, SeenBuffer
  <2>. QED
    BY <1>1, <2>4 DEF SB!Next, SB!Worker
<1>10. CASE Advance(t)
  <2>1. /\ wpc[t] = "advance" /\ pc' = pc /\ ptr' = ptr + 1 /\ buffer' = buffer
        /\ wpc' = [wpc EXCEPT ![t] = "unlock"]
    BY <1>10 DEF Advance, Goto, vars
  <2>2. SeenWorkers[w] = "advance" /\ SeenWorkers' = [SeenWorkers EXCEPT ![w] = "post"]
    BY <1>2, <2>1 DEF WorkerAt
  <2>3. SB!Advance(w)
    BY <1>1, <1>3, <1>4, <2>1, <2>2 DEF SB!Advance, SB!Goto, SeenWorkers, SeenBuffer
  <2>. QED
    BY <1>1, <2>3 DEF SB!Next, SB!Worker
<1>11. CASE Unlocking(t)
  <2>1. /\ wpc[t] \in {"unlock", "lastUnlock"} /\ UNCHANGED <<ptr, buffer>>
        /\ pc[t] = "critical" /\ pc' = [pc EXCEPT ![t] = "idle"]
        /\ wpc' = [wpc EXCEPT ![t] = IF wpc[t] = "unlock" THEN "lock" ELSE "exit"]
    BY <1>11 DEF Unlocking, Unlock, Goto, memory
  <2>2. pc \in [Threads -> Places] /\ start_ths = 1
    BY <1>5, <2>1 DEF TypeOK
  <2>3. token = 0 /\ token' = 1
    BY <1>1, <2>1, <2>2 DEF token, MutualExclusion
  <2>4. CASE wpc[t] = "unlock"
    <3>1. SeenWorkers[w] = "post" /\ SeenWorkers' = [SeenWorkers EXCEPT ![w] = "wait"]
      BY <1>2, <2>1, <2>4 DEF WorkerAt
    <3>2. SB!Post(w)
      BY <1>1, <1>3, <2>1, <2>3, <3>1 DEF SB!Post, SB!Goto, SeenWorkers, SeenBuffer
    <3>. QED
      BY <1>1, <3>2 DEF SB!Next, SB!Worker
  <2>5. CASE wpc[t] = "lastUnlock"
    <3>1. SeenWorkers[w] = "lastPost" /\ SeenWorkers' = [SeenWorkers EXCEPT ![w] = "exit"]
      BY <1>2, <2>1, <2>5 DEF WorkerAt
    <3>2. SB!LastPost(w)
      BY <1>1, <1>3, <2>1, <2>3, <3>1 DEF SB!LastPost, SB!Goto, SeenWorkers, SeenBuffer
    <3>. QED
      BY <1>1, <3>2 DEF SB!Next, SB!Worker
  <2>. QED
    BY <2>1, <2>4, <2>5
<1>12. CASE Exit(t)
  <2>1. /\ wpc[t] = "exit" /\ pc' = pc /\ UNCHANGED <<ptr, buffer>>
        /\ wpc' = [wpc EXCEPT ![t] = "exited"]
    BY <1>12 DEF Exit, Goto, vars, memory
  <2>2. SeenWorkers[w] = "exit" /\ SeenWorkers' = [SeenWorkers EXCEPT ![w] = "exited"]
    BY <1>2, <2>1 DEF WorkerAt
  <2>3. SB!Exit(w)
    BY <1>1, <1>3, <1>4, <2>1, <2>2 DEF SB!Exit, SB!Goto, SeenWorkers, SeenBuffer
  <2>. QED
    BY <1>1, <2>3 DEF SB!Next, SB!Worker
<1>. QED
  BY <1>6, <1>7, <1>8, <1>9, <1>10, <1>11, <1>12 DEF Worker

(* The build with the lock does to the buffer what the build with the      *)
(* semaphore does, under every scheduler.                                  *)
THEOREM PmutexImplements == PSpec => ImplementsSemaphore
<1>1. RInv /\ TypeOK /\ MutualExclusion /\ MutualExclusion' /\ [PNext]_allVars
        => [SB!Next]_SB!vars
  <2>. SUFFICES ASSUME RInv, TypeOK, MutualExclusion, MutualExclusion', [PNext]_allVars
                PROVE  [SB!Next]_SB!vars
    OBVIOUS
  <2>1. CASE TerminalBusy \/ TerminalReady \/ UNCHANGED allVars \/ \E t \in Everyone : SliceEnds(t)
    <3>1. UNCHANGED <<mpc, k, wpc, start_ths, pc, ptr, buffer>>
      BY <2>1 DEF TerminalBusy, TerminalReady, SliceEnds, allVars, vars, memory
    <3>. QED
      BY <3>1, SameView DEF SeenWorkers, Renamed, token, MainAt
  <2>2. CASE MainStep
    BY <2>2, MainImplements DEF MainStep, SB!Next
  <2>3. CASE \E t \in Threads : WorkerStep(t)
    BY <2>3, WorkerImplements DEF WorkerStep
  <2>. QED
    BY <2>1, <2>2, <2>3 DEF PNext
<1>2. PSpec => []TypeOK
  BY Locks, TypeCorrect, PTL
<1>. QED
  BY <1>1, <1>2, TokenInit, RunnerInductive, RunnerExclusion, PTL
     DEF PSpec, ImplementsSemaphore, SB!Spec

----------------------------------------------------------------------------
(* Nobody sleeps through what it waits for, and somebody goes on.          *)
TR == INSTANCE ThreadRunnerProofs WITH
        W      <- N,
        Spins  <- TRUE,
        Boosts <- TRUE,
        mpc    <- MainAt(mpc),
        i      <- k,
        wpc    <- SeenWorkers,
        sem    <- token,
        buffer <- SeenBuffer

\* The threads pthread_create() has been called for.
Made == CASE mpc \in {"boost", "print", "create"} -> N - k + 1 .. N
          [] mpc \in {"configure", "add"}         -> N - k .. N
          [] OTHER                                -> Threads

MadeInv == \A t \in Threads : wpc[t] = "none" <=> t \notin Made

\* Each runnable thread is in the queue, and once.
QueueOK ==
  /\ TR!Lined(queue, Everyone)
  /\ DOMAIN attr = Everyone
  /\ \A t \in Everyone : attr[t].prio \in 0 .. MaxPrio

\* Workers never sleep; what main sleeps for.
AwakeInv ==
  /\ \A t \in Threads : Runnable(t) <=> wpc[t] \notin {"none", "exited"}
  /\ ~ Runnable(MainThread) => \/ mpc \in {"print", "done"}
                               \/ mpc = "join" /\ wpc[Nth(k)] # "exited"

SleepInv == QueueOK /\ AwakeInv

\* Main, or a thread of the program, has a step to take other than a turn of
\* a loop it may not leave before somebody else has moved.
MainCan == mpc # "done" /\ (mpc = "join" => wpc[Nth(k)] = "exited")

ThreadCan(t) ==
  /\ wpc[t] \notin {"none", "exited"}
  /\ wpc[t] = "ready" => start_ths = 1
  /\ wpc[t] = "lock" => ~ HeldBack(t)

\* Somebody awake has a step to take, or main waits for its terminal.
AwakeGoesOn ==
  mpc # "done" => \/ mpc = "print" /\ ~ Runnable(MainThread)
                  \/ MainCan /\ Runnable(MainThread)
                  \/ \E t \in Threads : ThreadCan(t) /\ Runnable(t)

(* Main makes the threads in the order of their numbers, from the last.    *)
LEMMA MadeStep ==
  ASSUME RInv, TypeOK, MadeInv, [PNext]_allVars
  PROVE  MadeInv'
<1>. USE DEF RInv
<1>1. CASE MainStep /\ Create
  <2>1. /\ mpc = "create" /\ mpc' = "configure" /\ k' = k /\ k \in 0 .. N /\ k < N
        /\ wpc' = [wpc EXCEPT ![Nth(k)] = "ready"]
    BY <1>1 DEF Create, PTypeOK
  <2>2. Made = N - k + 1 .. N /\ Made' = N - k .. N
    BY <2>1 DEF Made
  <2>3. ASSUME NEW t \in Threads PROVE wpc'[t] = "none" <=> t \notin Made'
    <3>1. t \in Made' <=> t \in Made \/ t = Nth(k)
      BY <2>1, <2>2 DEF Threads, Nth
    <3>2. wpc'[t] = IF t = Nth(k) THEN "ready" ELSE wpc[t]
      BY <2>1 DEF PTypeOK
    <3>. QED
      BY <3>1, <3>2 DEF MadeInv
  <2>. QED
    BY <2>3 DEF MadeInv
<1>2. CASE MainStep /\ ~ Create
  <2>1. wpc' = wpc
    BY <1>2 DEF MainStep, Main, Boost, Announce, Configure, Add, Start, Drop, Join, JoinBlocks,
                DestroyNode, DestroyHold, Report
  <2>2. Made' = Made
    <3>1. CASE Boost \/ Announce
      <4>1. k' = k /\ mpc \in {"boost", "print"} /\ mpc' \in {"print", "create"}
        BY <3>1 DEF Boost, Announce
      <4>. QED
        BY <4>1 DEF Made
    <3>2. CASE Configure
      BY <3>2 DEF Configure, Made
    <3>3. CASE Add
      <4>1. mpc = "add" /\ k' = k + 1 /\ k \in 0 .. N /\ k < N
        BY <3>3 DEF Add, PTypeOK
      <4>2. mpc' = "print" \/ (mpc' = "start" /\ k + 1 = N)
        BY <3>3, <4>1 DEF Add, CreateLoop
      <4>. QED
        BY <4>1, <4>2 DEF Made, Threads
    <3>4. CASE Start \/ Drop \/ Join \/ JoinBlocks \/ DestroyNode \/ DestroyHold \/ Report
      <4>1. /\ mpc \in {"start", "drop", "join", "joined", "destroy"}
            /\ mpc' \in {"drop", "join", "joined", "destroy", "done"}
        BY <3>4 DEF Start, Drop, Join, JoinBlocks, DestroyNode, DestroyHold, Report
      <4>. QED
        BY <4>1 DEF Made
    <3>. QED
      BY <1>2, <3>1, <3>2, <3>3, <3>4 DEF MainStep, Main
  <2>. QED
    BY <2>1, <2>2 DEF MadeInv
<1>3. ASSUME NEW t \in Threads, WorkerStep(t) PROVE MadeInv'
  <2>1. mpc' = mpc /\ k' = k
    BY <1>3 DEF WorkerStep, Worker
  <2>2. \A u \in Threads : wpc'[u] = "none" <=> wpc[u] = "none"
    BY <1>3 DEF WorkerStep, Worker, Begin, Locking, Check, Write, Advance, Unlocking, Exit, Goto,
                PTypeOK
  <2>. QED
    BY <2>1, <2>2 DEF MadeInv, Made
<1>4. CASE TerminalBusy \/ TerminalReady \/ UNCHANGED allVars \/ \E t \in Everyone : SliceEnds(t)
  BY <1>4 DEF TerminalBusy, TerminalReady, SliceEnds, allVars, MadeInv, Made
<1>. QED
  BY <1>1, <1>2, <1>3, <1>4 DEF PNext, MainStep

(* Exactly the threads main has made are there.                            *)
THEOREM AllMade == PSpec => []MadeInv
<1>1. PInit => MadeInv
  <2>. SUFFICES ASSUME PInit PROVE MadeInv
    OBVIOUS
  <2>1. Made = N + 1 .. N /\ \A t \in Threads : t \notin N + 1 .. N
    BY DEF PInit, Made, Threads
  <2>. QED
    BY <2>1 DEF PInit, MadeInv
<1>2. PSpec => []TypeOK
  BY Locks, TypeCorrect, PTL
<1>. QED
  BY <1>1, <1>2, MadeStep, RunnerInductive, PTL DEF PSpec

(* What ThreadRunnerProofs shows of the sequences it uses, of these.       *)
LEMMA SameSets == \A s : TR!ToSet(s) = ToSet(s)
BY DEF TR!ToSet, ToSet

(* Taking out is the same operator there.                                  *)
LEMMA SameRemoval == \A s, e : TR!RemoveFirst(s, e) = RemoveFirst(s, e)
BY DEF TR!RemoveFirst, RemoveFirst, TR!RemoveAt, RemoveAt, TR!SelectInSeq, SelectInSeq, TR!Min, Min

(* One thread leaves a queue.                                              *)
LEMMA TakenOut ==
  ASSUME NEW S, NEW q, TR!Lined(q, S), NEW t \in ToSet(q)
  PROVE  /\ TR!Lined(RemoveFirst(q, t), S)
         /\ ToSet(RemoveFirst(q, t)) = ToSet(q) \ {t}
<1>0. t \in TR!ToSet(q)
  BY SameSets
<1>1. /\ TR!Lined(TR!RemoveFirst(q, t), S)
      /\ TR!ToSet(TR!RemoveFirst(q, t)) = TR!ToSet(q) \ {t}
  BY <1>0, TR!TakenOut, SchedulerAssumption, PriorityAssumption, LimitAssumption, ZenonT(60)
<1>. QED
  BY <1>1, SameSets, SameRemoval

(* One is put at its end.                                                  *)
LEMMA PutLast ==
  ASSUME NEW S, NEW q, TR!Lined(q, S), NEW t \in S, t \notin ToSet(q)
  PROVE  TR!Lined(Append(q, t), S) /\ ToSet(Append(q, t)) = ToSet(q) \cup {t}
<1>0. t \notin TR!ToSet(q)
  BY SameSets
<1>1. TR!Lined(Append(q, t), S) /\ TR!ToSet(Append(q, t)) = TR!ToSet(q) \cup {t}
  BY <1>0, TR!PutLast, SchedulerAssumption, PriorityAssumption, LimitAssumption, ZenonT(60)
<1>. QED
  BY <1>1, SameSets

(* One is put at its front.                                                *)
LEMMA PutFirst ==
  ASSUME NEW S, NEW q, TR!Lined(q, S), NEW t \in S, t \notin ToSet(q)
  PROVE  TR!Lined(<<t>> \o q, S) /\ ToSet(<<t>> \o q) = ToSet(q) \cup {t}
<1>0. t \notin TR!ToSet(q)
  BY SameSets
<1>1. TR!Lined(<<t>> \o q, S) /\ TR!ToSet(<<t>> \o q) = TR!ToSet(q) \cup {t}
  BY <1>0, TR!PutFirst, SchedulerAssumption, PriorityAssumption, LimitAssumption, ZenonT(60)
<1>. QED
  BY <1>1, SameSets, Zenon

(* What blocking and waking do to the queue.                               *)
LEMMA QueueMoves ==
  ASSUME QueueOK, NEW t \in Everyone
  PROVE  /\ Runnable(t) => /\ TR!Lined(Blocked(t), Everyone)
                           /\ ToSet(Blocked(t)) = ToSet(queue) \ {t}
         /\ ~ Runnable(t) => /\ TR!Lined(Woken(t), Everyone)
                             /\ ToSet(Woken(t)) = ToSet(queue) \cup {t}
<1>1. CASE Runnable(t)
  BY <1>1, TakenOut DEF QueueOK, Runnable, Blocked
<1>2. CASE ~ Runnable(t)
  BY <1>2, PutLast DEF QueueOK, Runnable, Woken
<1>. QED
  BY <1>1, <1>2

(* A change of priority leaves everybody runnable that was.                *)
LEMMA PriorityKeeps ==
  ASSUME QueueOK, NEW t \in Everyone, NEW a, SetPriority(t, a)
  PROVE  QueueOK' /\ ToSet(queue') = ToSet(queue)
<1>1. CASE UNCHANGED sched
  BY <1>1 DEF sched, QueueOK
<1>2. CASE Valid(a) /\ SetAttr(t, a)
  <2>1. a.prio \in 0 .. MaxPrio
    BY <1>2, PriorityAssumption DEF Valid
  <2>2. attr' = [attr EXCEPT ![t] = a]
    BY <1>2 DEF SetAttr
  <2>3. DOMAIN attr' = Everyone /\ \A u \in Everyone : attr'[u].prio \in 0 .. MaxPrio
    <3>1. DOMAIN attr' = Everyone
      BY <2>2 DEF QueueOK
    <3>2. ASSUME NEW u \in Everyone PROVE attr'[u].prio \in 0 .. MaxPrio
      <4>1. attr'[u] = IF u = t THEN a ELSE attr[u]
        BY <2>2 DEF QueueOK
      <4>. QED
        BY <2>1, <4>1 DEF QueueOK
    <3>. QED
      BY <3>1, <3>2
  <2>4. CASE ~ (Runnable(t) /\ a # attr[t])
    <3>1. queue' = queue
      BY <1>2, <2>4 DEF SetAttr
    <3>. QED
      BY <2>3, <3>1 DEF QueueOK
  <2>5. CASE Runnable(t) /\ a # attr[t]
    <3>. DEFINE rest == RemoveFirst(queue, t)
    <3>1. queue' \in {<<t>> \o rest, Append(rest, t)}
      BY <1>2, <2>5 DEF SetAttr
    <3>2. TR!Lined(rest, Everyone) /\ ToSet(rest) = ToSet(queue) \ {t}
      BY <2>5, TakenOut DEF QueueOK, Runnable
    <3>. HIDE DEF rest
    <3>3. TR!Lined(queue', Everyone) /\ ToSet(queue') = ToSet(rest) \cup {t}
      <4>1. t \notin ToSet(rest)
        BY <3>2
      <4>2. TR!Lined(Append(rest, t), Everyone) /\ ToSet(Append(rest, t)) = ToSet(rest) \cup {t}
        BY <3>2, <4>1, PutLast
      <4>3. TR!Lined(<<t>> \o rest, Everyone) /\ ToSet(<<t>> \o rest) = ToSet(rest) \cup {t}
        BY <3>2, <4>1, PutFirst, Zenon
      <4>. QED
        <5>1. CASE queue' = Append(rest, t)
          BY <4>2, <5>1
        <5>2. CASE queue' = <<t>> \o rest
          BY <4>3, <5>2
        <5>. QED
          BY <3>1, <5>1, <5>2
    <3>4. ToSet(queue') = ToSet(queue)
      BY <2>5, <3>2, <3>3 DEF Runnable
    <3>. QED
      BY <2>3, <3>3, <3>4 DEF QueueOK
  <2>. QED
    BY <2>4, <2>5
<1>. QED
  BY <1>1, <1>2 DEF SetPriority

(* So does the end of a slice.                                             *)
LEMMA TickKeeps ==
  ASSUME QueueOK, NEW t \in Everyone, Tick(t)
  PROVE  QueueOK' /\ ToSet(queue') = ToSet(queue)
<1>. DEFINE rest == RemoveFirst(queue, t)
<1>1. t \in ToSet(queue) /\ queue' = Append(rest, t) /\ attr' = attr
  BY DEF Tick, Runs, Runnable
<1>2. TR!Lined(rest, Everyone) /\ ToSet(rest) = ToSet(queue) \ {t}
  BY <1>1, TakenOut DEF QueueOK
<1>. HIDE DEF rest
<1>3. TR!Lined(queue', Everyone) /\ ToSet(queue') = ToSet(rest) \cup {t}
  <2>1. t \notin ToSet(rest)
    BY <1>2
  <2>. QED
    BY <1>1, <1>2, <2>1, PutLast
<1>. QED
  BY <1>1, <1>2, <1>3 DEF QueueOK

(* Steps that wake and put to sleep nobody.                                *)
LEMMA SameAwake ==
  ASSUME RInv, MadeInv, SleepInv, QueueOK', ToSet(queue') = ToSet(queue),
         \/ mpc' = mpc /\ k' = k /\ wpc' = wpc
         \/ (MainStep /\ (Boost \/ Announce \/ Configure \/ Add \/ Start \/ Drop \/ Join
                          \/ DestroyNode \/ DestroyHold))
         \/ \E t \in Threads : WorkerStep(t) /\ ~ Exit(t)
  PROVE  SleepInv'
<1>0. \A t : Runnable(t)' <=> Runnable(t)
  BY DEF Runnable
<1>1. CASE mpc' = mpc /\ k' = k /\ wpc' = wpc
  BY <1>0, <1>1 DEF SleepInv, AwakeInv, Nth
<1>2. CASE MainStep /\ (Boost \/ Announce \/ Configure \/ Add \/ Start \/ Drop \/ Join
                        \/ DestroyNode \/ DestroyHold)
  <2>1. Runnable(MainThread)
    BY <1>2 DEF MainStep, Runs
  <2>2. wpc' = wpc
    BY <1>2 DEF Boost, Announce, Configure, Add, Start, Drop, Join, DestroyNode, DestroyHold
  <2>. QED
    BY <1>0, <2>1, <2>2 DEF SleepInv, AwakeInv
<1>3. ASSUME NEW t \in Threads, WorkerStep(t), ~ Exit(t) PROVE SleepInv'
  <2>1. mpc' = mpc /\ k' = k
    BY <1>3 DEF WorkerStep, Worker
  <2>2. \A u \in Threads : /\ wpc'[u] \notin {"none", "exited"} <=> wpc[u] \notin {"none", "exited"}
                           /\ wpc'[u] = "exited" <=> wpc[u] = "exited"
    BY <1>3 DEF WorkerStep, Worker, Begin, Locking, Check, Write, Advance, Unlocking, Goto,
                RInv, PTypeOK
  <2>3. mpc = "join" => Nth(k) \in Threads
    BY Created DEF RInv, PTypeOK
  <2>. QED
    BY <1>0, <2>1, <2>2, <2>3 DEF SleepInv, AwakeInv, Nth
<1>. QED
  BY <1>1, <1>2, <1>3

(* Main's steps, those of printf() to a terminal included.                 *)
LEMMA MainSleeps ==
  ASSUME RInv, MadeInv, SleepInv, MainStep \/ TerminalBusy \/ TerminalReady
  PROVE  SleepInv'
<1>. USE DEF SleepInv
<1>0. MainThread \in Everyone /\ MainThread \notin Threads /\ PTypeOK
  BY DEF MainThread, Everyone, Threads, RInv
<1>1. CASE MainStep /\ (Boost \/ Announce \/ Configure \/ Add \/ Start \/ Drop \/ Join
                        \/ DestroyNode \/ DestroyHold)
  <2>1. mpc = "configure" => Nth(k) \in Everyone
    BY <1>0, Created DEF PTypeOK, Everyone
  <2>2. UNCHANGED sched \/ \E t \in Everyone : \E a : SetPriority(t, a)
    BY <1>0, <1>1, <2>1 DEF Boost, Announce, Configure, Add, Start, Drop, Join, DestroyNode,
                            DestroyHold
  <2>3. QueueOK' /\ ToSet(queue') = ToSet(queue)
    BY <2>2, PriorityKeeps DEF sched, QueueOK
  <2>. QED
    BY <1>1, <2>3, SameAwake
<1>2. CASE MainStep /\ Create
  <2>1. /\ mpc = "create" /\ mpc' = "configure" /\ k' = k
        /\ wpc' = [wpc EXCEPT ![Nth(k)] = "ready"]
        /\ Nth(k) \in Threads /\ Nth(k) \in Everyone
        /\ attr' = [attr EXCEPT ![Nth(k)] = attr[MainThread]]
        /\ queue' = Woken(Nth(k))
    BY <1>0, <1>2, Created DEF Create, PTypeOK, Everyone
  <2>2. wpc[Nth(k)] = "none"
    <3>1. Made = N - k + 1 .. N /\ Nth(k) \notin N - k + 1 .. N
      BY <1>0, <2>1 DEF Made, PTypeOK, Nth
    <3>. QED
      BY <2>1, <3>1 DEF MadeInv
  <2>3. ~ Runnable(Nth(k))
    BY <2>1, <2>2 DEF AwakeInv
  <2>4. TR!Lined(queue', Everyone) /\ ToSet(queue') = ToSet(queue) \cup {Nth(k)}
    BY <2>1, <2>3, QueueMoves
  <2>5. QueueOK'
    <3>1. DOMAIN attr' = Everyone
      BY <2>1 DEF QueueOK
    <3>2. \A t \in Everyone : attr'[t].prio \in 0 .. MaxPrio
      BY <1>0, <2>1 DEF QueueOK
    <3>. QED
      BY <2>4, <3>1, <3>2 DEF QueueOK
  <2>6. /\ \A t : Runnable(t)' <=> Runnable(t) \/ t = Nth(k)
        /\ \A t \in Threads : wpc'[t] = IF t = Nth(k) THEN "ready" ELSE wpc[t]
    BY <1>0, <2>1, <2>4 DEF Runnable, PTypeOK
  <2>7. AwakeInv'
    BY <1>0, <2>1, <2>6 DEF AwakeInv
  <2>. QED
    BY <2>5, <2>7
<1>3. CASE (MainStep /\ (JoinBlocks \/ Report)) \/ TerminalBusy
  <2>1. /\ Runnable(MainThread) /\ queue' = Blocked(MainThread) /\ attr' = attr
        /\ wpc' = wpc /\ k' = k
    BY <1>3 DEF MainStep, Runs, JoinBlocks, Report, TerminalBusy
  <2>2. mpc' \in {"print", "done"} \/ (mpc' = "join" /\ wpc'[Nth(k')] # "exited")
    BY <1>3 DEF JoinBlocks, Report, TerminalBusy
  <2>3. TR!Lined(queue', Everyone) /\ ToSet(queue') = ToSet(queue) \ {MainThread}
    BY <1>0, <2>1, QueueMoves
  <2>4. QueueOK' /\ \A t \in Threads : Runnable(t)' <=> Runnable(t)
    BY <1>0, <2>1, <2>3 DEF QueueOK, Runnable
  <2>5. AwakeInv'
    BY <2>1, <2>2, <2>4 DEF AwakeInv, Nth
  <2>. QED
    BY <2>4, <2>5
<1>4. CASE TerminalReady
  <2>1. /\ ~ Runnable(MainThread) /\ queue' = Woken(MainThread)
        /\ UNCHANGED <<attr, wpc, mpc, k>>
    BY <1>4 DEF TerminalReady
  <2>2. TR!Lined(queue', Everyone) /\ ToSet(queue') = ToSet(queue) \cup {MainThread}
    BY <1>0, <2>1, QueueMoves
  <2>3. /\ QueueOK' /\ Runnable(MainThread)'
        /\ \A t \in Threads : Runnable(t)' <=> Runnable(t)
    BY <1>0, <2>1, <2>2 DEF QueueOK, Runnable
  <2>4. AwakeInv'
    BY <2>1, <2>3 DEF AwakeInv
  <2>. QED
    BY <2>3, <2>4
<1>. QED
  BY <1>1, <1>2, <1>3, <1>4 DEF MainStep, Main

(* The workers' steps: the end of a thread wakes main if main sleeps until *)
(* then.                                                                   *)
LEMMA WorkerSleeps ==
  ASSUME RInv, MadeInv, SleepInv, NEW t \in Threads, WorkerStep(t)
  PROVE  SleepInv'
<1>. USE DEF SleepInv
<1>0. /\ t \in Everyone /\ t # MainThread /\ Runnable(t) /\ MainThread \in Everyone
      /\ MainThread \notin Threads /\ PTypeOK
      /\ mpc = "join" => Nth(k) \in Threads
  BY Created DEF RInv, PTypeOK, MainThread, Everyone, Threads, WorkerStep, Runs
<1>1. CASE ~ Exit(t)
  <2>1. sched' = sched
    BY <1>1 DEF WorkerStep, Worker, Begin, Locking, Check, Write, Advance, Unlocking
  <2>2. QueueOK' /\ ToSet(queue') = ToSet(queue)
    BY <2>1 DEF sched, QueueOK
  <2>. QED
    BY <1>1, <2>2, SameAwake
<1>2. CASE Exit(t)
  <2>1. /\ mpc' = mpc /\ k' = k /\ attr' = attr
        /\ wpc[t] = "exit" /\ wpc'[t] = "exited"
        /\ \A u \in Threads : u # t => wpc'[u] = wpc[u]
    BY <1>0, <1>2 DEF WorkerStep, Worker, Exit, Goto, PTypeOK
  <2>. DEFINE woken == mpc = "join" /\ Nth(k) = t /\ ~ Runnable(MainThread)
              rest  == Blocked(t)
  <2>2. queue' = IF woken THEN Append(rest, MainThread) ELSE rest
    BY <1>2 DEF Exit
  <2>3. TR!Lined(rest, Everyone) /\ ToSet(rest) = ToSet(queue) \ {t}
    BY <1>0, QueueMoves
  <2>. HIDE DEF rest
  <2>4. CASE woken
    <3>1. MainThread \notin ToSet(rest)
      BY <2>3, <2>4 DEF Runnable
    <3>2. TR!Lined(queue', Everyone) /\ ToSet(queue') = ToSet(rest) \cup {MainThread}
      BY <1>0, <2>2, <2>3, <2>4, <3>1, PutLast
    <3>3. QueueOK' /\ \A u : Runnable(u)' <=> (Runnable(u) /\ u # t) \/ u = MainThread
      BY <2>1, <2>3, <3>2 DEF QueueOK, Runnable
    <3>4. AwakeInv'
      BY <1>0, <2>1, <3>3 DEF AwakeInv
    <3>. QED
      BY <3>3, <3>4
  <2>5. CASE ~ woken
    <3>1. QueueOK' /\ \A u : Runnable(u)' <=> Runnable(u) /\ u # t
      BY <2>1, <2>2, <2>3, <2>5 DEF QueueOK, Runnable
    <3>2. AwakeInv'
      BY <1>0, <2>1, <2>5, <3>1 DEF AwakeInv, Nth
    <3>. QED
      BY <3>1, <3>2
  <2>. QED
    BY <2>4, <2>5
<1>. QED
  BY <1>1, <1>2

(* Everybody the program still needs is awake or will be woken.            *)
THEOREM SleepInductive == PSpec => []SleepInv
<1>1. PInit => SleepInv
  <2>. SUFFICES ASSUME PInit PROVE SleepInv
    OBVIOUS
  <2>1. queue = <<MainThread>> /\ MainThread \in Everyone /\ <<>> \in Seq(Everyone)
    BY DEF PInit, Everyone
  <2>2. TR!Lined(queue, Everyone) /\ ToSet(queue) = {MainThread}
    <3>1. queue \in Seq(Everyone) /\ Len(queue) = 1 /\ queue[1] = MainThread /\ DOMAIN queue = {1}
      BY <2>1
    <3>. QED
      BY <3>1 DEF TR!Lined, ToSet
  <2>3. QueueOK
    BY <2>2, PriorityAssumption DEF PInit, QueueOK, Plain
  <2>4. AwakeInv
    BY <2>2 DEF PInit, AwakeInv, Runnable, MainThread, Threads
  <2>. QED
    BY <2>3, <2>4 DEF SleepInv
<1>2. RInv /\ MadeInv /\ SleepInv /\ [PNext]_allVars => SleepInv'
  <2>. SUFFICES ASSUME RInv, MadeInv, SleepInv, [PNext]_allVars PROVE SleepInv'
    OBVIOUS
  <2>1. CASE MainStep \/ TerminalBusy \/ TerminalReady
    BY <2>1, MainSleeps
  <2>2. ASSUME NEW t \in Threads, WorkerStep(t) PROVE SleepInv'
    BY <2>2, WorkerSleeps
  <2>3. ASSUME NEW t \in Everyone, SliceEnds(t) PROVE SleepInv'
    <3>1. QueueOK' /\ ToSet(queue') = ToSet(queue) /\ UNCHANGED <<mpc, k, wpc>>
      BY <2>3, TickKeeps DEF SliceEnds, SleepInv
    <3>. QED
      BY <3>1, SameAwake
  <2>4. CASE UNCHANGED allVars
    <3>1. QueueOK' /\ ToSet(queue') = ToSet(queue) /\ UNCHANGED <<mpc, k, wpc>>
      BY <2>4 DEF allVars, sched, SleepInv, QueueOK
    <3>. QED
      BY <3>1, SameAwake
  <2>. QED
    BY <2>1, <2>2, <2>3, <2>4 DEF PNext
<1>. QED
  BY <1>1, <1>2, RunnerInductive, AllMade, PTL DEF PSpec

(* Main waits for a thread that has been made.  If that one is held back   *)
(* in lock(), one of those that are in lock() or have the lock is not.     *)
LEMMA SomebodyGoesOn ==
  RInv /\ MadeInv /\ SleepInv /\ NoDeadlock => AwakeGoesOn
<1>. SUFFICES ASSUME RInv, MadeInv, SleepInv, NoDeadlock, mpc = "join", wpc[Nth(k)] # "exited"
              PROVE  \E t \in Threads : ThreadCan(t) /\ Runnable(t)
  BY DEF AwakeGoesOn, MainCan, SleepInv, AwakeInv
<1>. DEFINE w == Nth(k)
<1>1. w \in Threads
  BY Created DEF RInv, PTypeOK
<1>2. wpc[w] # "none" /\ start_ths = 1
  BY <1>1 DEF MadeInv, Made, RInv, Begun, AfterStart
<1>3. Runnable(w)
  BY <1>1, <1>2 DEF SleepInv, AwakeInv
<1>4. CASE wpc[w] # "lock" \/ ~ HeldBack(w)
  BY <1>1, <1>2, <1>3, <1>4 DEF ThreadCan
<1>5. CASE wpc[w] = "lock" /\ HeldBack(w)
  <2>1. pc[w] # "idle"
    BY <1>5 DEF HeldBack, Waits
  <2>2. PICK t \in Threads : pc[t] # "idle" /\ ~ HeldBack(t)
    BY <1>1, <2>1 DEF NoDeadlock
  <2>3. wpc[t] \in {"lock", "check", "write", "advance", "unlock", "lastUnlock"}
    BY <2>2 DEF RInv, Holding
  <2>. QED
    BY <2>2, <2>3 DEF ThreadCan, SleepInv, AwakeInv
<1>. QED
  BY <1>4, <1>5

(* Whatever the scheduler does, it has a thread to run that has a step to  *)
(* take other than turning in lock(), unless main waits for its terminal   *)
(* or the program is through.                                              *)
THEOREM GoesOn == PSpec => []AwakeGoesOn
<1>1. PSpec => []NoDeadlock
  BY Locks, DeadlockFree, PTL
<1>. QED
  BY <1>1, SomebodyGoesOn, SleepInductive, RunnerInductive, AllMade, PTL

(* The steps SharedBuffer sees run out in this build too: what is left of  *)
(* a run besides is turns and returns of lock().                           *)
THEOREM RunnerWinds == PSpec => TR!WindsDown
<1>1. SB!Spec => TR!Spec
  <2>1. SB!Init => TR!Init
    BY DEF SB!Init, TR!Init, SB!Workers, TR!Workers, SB!NUL, TR!NUL, SeenWorkers, SeenBuffer
  <2>2. [SB!Next]_(SB!vars) => [TR!Next]_(TR!vars)
    <3>1. SB!Main => TR!Main
      BY DEF SB!Main, SB!Boost, SB!Announce, SB!Create, SB!Configure, SB!Start, SB!Drop, SB!Join,
             SB!Report, SB!CreateLoop, SB!JoinLoop, SB!Workers,
             TR!Main, TR!Boost, TR!Announce, TR!Create, TR!Configure, TR!Start, TR!Drop, TR!Join,
             TR!Report, TR!CreateLoop, TR!JoinLoop, TR!Workers, SeenWorkers, SeenBuffer
    <3>2. \A w \in SB!Workers : SB!Worker(w) => TR!Worker(w)
      BY DEF SB!Worker, SB!Take, SB!Check, SB!Write, SB!Advance, SB!Post, SB!LastPost, SB!Exit,
             SB!Goto, TR!Worker, TR!Take, TR!Check, TR!Write, TR!Advance, TR!Post, TR!LastPost,
             TR!Exit, TR!Goto, SeenWorkers, SeenBuffer
    <3>3. SB!Workers = TR!Workers
      BY DEF SB!Workers, TR!Workers
    <3>4. SB!vars = TR!vars /\ (SB!vars)' = (TR!vars)'
      BY DEF SB!vars, TR!vars, SeenWorkers, SeenBuffer
    <3>. QED
      BY <3>1, <3>2, <3>3, <3>4 DEF SB!Next, TR!Next
  <2>. QED
    BY <2>1, <2>2, PTL DEF SB!Spec, TR!Spec
<1>2. TR!Spec => TR!WindsDown
  BY TR!Winds, SchedulerAssumption, PriorityAssumption, LimitAssumption
<1>. QED
  BY <1>1, <1>2, PmutexImplements, PTL DEF ImplementsSemaphore
============================================================================
