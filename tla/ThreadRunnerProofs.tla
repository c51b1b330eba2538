------------------------ MODULE ThreadRunnerProofs ------------------------
(***************************************************************************)
(* thread_runner fills its buffer as BufferFill says, for every number of  *)
(* threads and every size of the buffer, and whatever the policies, the    *)
(* priorities and the number of CPUs: scheduling takes steps away from the *)
(* threads of SharedBuffer and adds none.                                  *)
(*                                                                         *)
(* The argument is the one token: whoever is between a successful wait and *)
(* the post is alone there (OneToken), so the room seen by the end check   *)
(* is still there when the byte is written (EndChecked), and the byte at   *)
(* the pointer is the only one that can be written and not yet counted     *)
(* (FilledToPtr).                                                          *)
(*                                                                         *)
(* What the liveness of the program rests on is here too, but for          *)
(* fairness: somebody has a step to take until the end (Unstuck, GoesOn),  *)
(* nobody sleeps through a post (NoLostWakeup), and the steps run out      *)
(* (Winds).                                                                *)
(***************************************************************************)
EXTENDS ThreadRunner, FiniteSetTheorems, SequenceTheorems, WellFoundedInduction, TLAPS

USE SharedBufferAssumption

\* The places between a successful wait and the post that follows it.
Places == {"check", "write", "advance", "post", "lastPost"}

(* A worker at one of the places is inside, and nobody else is.            *)
LEMMA Alone ==
  ASSUME TypeOK, OneToken, NEW w \in Workers, wpc[w] \in Places
  PROVE  /\ sem = 0 /\ Started
         /\ Inside = {w}
         /\ \A u \in Workers : u # w => wpc[u] \notin Places
<1>1. w \in Inside
  BY DEF Inside, Places
<1>2. Started /\ sem = 0
  BY <1>1 DEF OneToken
<1>3. PICK v \in Workers : Inside = {v}
  BY <1>1, <1>2 DEF OneToken
<1>4. Inside = {w}
  BY <1>1, <1>3
<1>. QED
  BY <1>2, <1>4 DEF Inside, Places

(* The invariant holds at first.                                           *)
LEMMA InitIInv == Init => IInv
<1>. SUFFICES ASSUME Init PROVE IInv
  OBVIOUS
<1>1. TypeOK
  BY DEF Init, TypeOK, MainPlaces, WorkerPlaces
<1>2. OneToken
  BY DEF Init, OneToken, Started, Inside
<1>3. FilledToPtr
  BY DEF Init, FilledToPtr, Writing
<1>4. EndChecked /\ Joined
  BY DEF Init, EndChecked, Joined
<1>. QED
  BY <1>1, <1>2, <1>3, <1>4 DEF IInv

(* Steps of main keep the invariant: the semaphore is posted once, before  *)
(* which nobody is inside, and threads are counted when they have exited.  *)
LEMMA MainKeeps ==
  ASSUME IInv, Main
  PROVE  IInv'
<1>. USE DEF IInv
<1>0. ptr' = ptr /\ buffer' = buffer
  BY DEF Main, Boost, Announce, Create, Configure, Start, Drop, Join, Report
<1>1. CASE Create
  <2>1. /\ mpc = "create" /\ mpc' = "configure" /\ i + 1 \in Workers /\ i' = i
        /\ wpc' = [wpc EXCEPT ![i + 1] = "wait"] /\ sem' = sem
    BY <1>1 DEF Create, TypeOK, Workers
  <2>2. Inside = {} /\ sem = 0
    BY <2>1 DEF OneToken, Started
  <2>3. TypeOK'
    BY <1>0, <2>1 DEF TypeOK, MainPlaces, WorkerPlaces
  <2>4. \A w \in Workers : wpc'[w] = wpc[w] \/ wpc'[w] = "wait"
    BY <2>1 DEF TypeOK
  <2>5. OneToken'
    BY <2>1, <2>2, <2>4 DEF OneToken, Started, Inside
  <2>6. \A w \in Workers : wpc[w] # "advance" /\ wpc'[w] # "advance"
    BY <2>2, <2>4 DEF Inside
  <2>7. FilledToPtr'
    BY <1>0, <2>6 DEF FilledToPtr, Writing
  <2>8. EndChecked' /\ Joined'
    BY <1>0, <2>1, <2>4 DEF EndChecked, Joined
  <2>. QED
    BY <2>3, <2>5, <2>7, <2>8
<1>2. CASE Main /\ wpc' = wpc
  <2>1. FilledToPtr' /\ EndChecked'
    BY <1>0, <1>2 DEF FilledToPtr, EndChecked, Writing
  <2>2. TypeOK' /\ OneToken' /\ Joined'
    <3>1. CASE Boost \/ Announce \/ Configure
      <4>1. /\ sem' = sem /\ ~ Started /\ ~ Started'
            /\ mpc' \notin {"join", "report", "done"}
        BY <3>1 DEF Boost, Announce, Configure, CreateLoop, Started
      <4>2. TypeOK'
        BY <1>0, <1>2, <3>1, <4>1
           DEF Boost, Announce, Configure, CreateLoop, TypeOK, MainPlaces
      <4>. QED
        BY <1>2, <4>1, <4>2 DEF OneToken, Inside, Joined
    <3>2. CASE Start
      <4>1. sem = 0 /\ Inside = {} /\ sem' = 1 /\ mpc' = "drop" /\ i' = i
        BY <3>2 DEF Start, OneToken, Started
      <4>2. TypeOK'
        BY <1>0, <1>2, <4>1 DEF TypeOK, MainPlaces
      <4>. QED
        BY <1>2, <4>1, <4>2 DEF OneToken, Inside, Started, Joined
    <3>3. CASE Drop \/ Join \/ Report
      <4>1. sem' = sem /\ Started /\ Started'
        BY <3>3 DEF Drop, Join, Report, JoinLoop, Started
      <4>2. TypeOK'
        BY <1>0, <1>2, <3>3, <4>1
           DEF Drop, Join, Report, JoinLoop, TypeOK, MainPlaces
      <4>3. Joined'
        <5>1. CASE Drop
          BY <1>2, <5>1 DEF Drop, JoinLoop, Joined
        <5>2. CASE Join
          <6>1. \A w \in 1 .. i + 1 : wpc[w] = "exited"
            BY <5>2 DEF Join, Joined, TypeOK
          <6>2. i + 1 <= W
            BY <5>2 DEF Join, TypeOK
          <6>3. mpc' = "report" => i + 1 = W
            BY <5>2, <6>2 DEF Join, JoinLoop, TypeOK
          <6>. QED
            BY <1>2, <5>2, <6>1, <6>3 DEF Join, JoinLoop, Joined, Workers
        <5>3. CASE Report
          BY <1>2, <5>3 DEF Report, Joined
        <5>. QED
          BY <3>3, <5>1, <5>2, <5>3
      <4>. QED
        BY <1>2, <4>1, <4>2, <4>3 DEF OneToken, Inside
    <3>. QED
      BY <1>1, <1>2, <3>1, <3>2, <3>3 DEF Main, Create
  <2>. QED
    BY <2>1, <2>2
<1>. QED
  BY <1>1, <1>2 DEF Main, Boost, Announce, Configure, Start, Drop, Join, Report

(* Steps of a worker keep the invariant.                                   *)
LEMMA WorkerKeeps ==
  ASSUME IInv, NEW w \in Workers, Worker(w)
  PROVE  IInv'
<1>. USE DEF IInv
<1>0. /\ mpc' = mpc /\ i' = i /\ Started' = Started
      /\ \A u \in Workers : u # w => wpc'[u] = wpc[u]
  BY DEF Worker, Take, Check, Write, Advance, Post, LastPost, Exit, Goto, TypeOK, Started
<1>1. Joined'
  <2>1. wpc[w] # "exited"
    BY DEF Worker, Take, Check, Write, Advance, Post, LastPost, Exit
  <2>. QED
    BY <1>0, <2>1 DEF Joined, TypeOK, Workers
<1>2. CASE Take(w)
  <2>1. /\ wpc[w] = "wait" /\ sem = 1 /\ sem' = 0 /\ wpc'[w] = "check"
        /\ wpc' = [wpc EXCEPT ![w] = "check"] /\ ptr' = ptr /\ buffer' = buffer
    BY <1>2 DEF Take, Goto, TypeOK
  <2>2. TypeOK'
    BY <1>0, <2>1 DEF TypeOK, WorkerPlaces
  <2>3. Started /\ Inside = {}
    BY <2>1 DEF OneToken
  <2>4. Inside' = {w}
    BY <1>0, <2>1, <2>3 DEF Inside
  <2>5. OneToken'
    BY <1>0, <2>1, <2>3, <2>4 DEF OneToken
  <2>6. EndChecked'
    BY <1>0, <2>1 DEF EndChecked
  <2>7. FilledToPtr'
    BY <1>0, <2>1, <2>3 DEF FilledToPtr, Writing, Inside
  <2>. QED
    BY <1>1, <2>2, <2>5, <2>6, <2>7
<1>3. CASE Check(w)
  <2>1. /\ wpc[w] = "check" /\ wpc'[w] \in {"write", "lastPost"}
        /\ wpc' = [wpc EXCEPT ![w] = wpc'[w]]
        /\ wpc'[w] = "write" => ptr < Capacity
        /\ wpc'[w] = "lastPost" => ptr = Capacity
        /\ ptr' = ptr /\ buffer' = buffer /\ sem' = sem
    BY <1>3 DEF Check, Goto, TypeOK
  <2>2. TypeOK'
    BY <1>0, <2>1 DEF TypeOK, WorkerPlaces
  <2>3. Inside' = Inside
    BY <1>0, <2>1 DEF Inside
  <2>4. OneToken'
    BY <1>0, <2>1, <2>3 DEF OneToken
  <2>5. EndChecked'
    BY <1>0, <2>1 DEF EndChecked
  <2>6. \A u \in Workers : wpc[u] # "advance" /\ wpc'[u] # "advance"
    BY <1>0, <2>1, Alone DEF Places
  <2>7. FilledToPtr'
    BY <2>1, <2>6 DEF FilledToPtr, Writing
  <2>. QED
    BY <1>1, <2>2, <2>4, <2>5, <2>7
<1>4. CASE Write(w)
  <2>1. /\ wpc[w] = "write" /\ wpc'[w] = "advance"
        /\ wpc' = [wpc EXCEPT ![w] = "advance"]
        /\ buffer' = [buffer EXCEPT ![ptr] = w]
        /\ ptr < Capacity /\ ptr' = ptr /\ sem' = sem
    BY <1>4 DEF Write, Goto, TypeOK, EndChecked
  <2>2. TypeOK'
    BY <1>0, <2>1 DEF TypeOK, WorkerPlaces
  <2>3. Inside' = Inside
    BY <1>0, <2>1 DEF Inside
  <2>4. OneToken'
    BY <1>0, <2>1, <2>3 DEF OneToken
  <2>5. EndChecked'
    BY <1>0, <2>1 DEF EndChecked
  <2>6. \A u \in Workers : wpc[u] # "advance"
    BY <2>1, Alone DEF Places
  <2>7. /\ buffer'[ptr] = w
        /\ \A n \in 0 .. Capacity : n # ptr => buffer'[n] = buffer[n]
    BY <2>1 DEF TypeOK
  <2>8. FilledToPtr'
    BY <2>1, <2>6, <2>7 DEF FilledToPtr, Writing
  <2>. QED
    BY <1>1, <2>2, <2>4, <2>5, <2>8
<1>5. CASE Advance(w)
  <2>1. /\ wpc[w] = "advance" /\ wpc'[w] = "post"
        /\ wpc' = [wpc EXCEPT ![w] = "post"]
        /\ ptr < Capacity /\ ptr' = ptr + 1 /\ buffer' = buffer /\ sem' = sem
    BY <1>5 DEF Advance, Goto, TypeOK, EndChecked
  <2>2. TypeOK'
    BY <1>0, <2>1 DEF TypeOK, WorkerPlaces
  <2>3. Inside' = Inside
    BY <1>0, <2>1 DEF Inside
  <2>4. OneToken'
    BY <1>0, <2>1, <2>3 DEF OneToken
  <2>5. \A u \in Workers : u # w => wpc[u] \notin Places
    BY <2>1, Alone DEF Places
  <2>6. EndChecked'
    <3>1. \A u \in Workers : wpc[u] \notin {"lastPost", "exit", "exited"}
      BY <2>1 DEF EndChecked, TypeOK
    <3>. QED
      BY <1>0, <2>1, <2>5, <3>1 DEF EndChecked, Places
  <2>7. \A u \in Workers : wpc'[u] # "advance"
    BY <1>0, <2>1, <2>5 DEF Places
  <2>8. buffer[ptr] \in Workers
    BY <2>1 DEF FilledToPtr, Writing, TypeOK
  <2>9. FilledToPtr'
    BY <2>1, <2>7, <2>8 DEF FilledToPtr, Writing, TypeOK
  <2>. QED
    BY <1>1, <2>2, <2>4, <2>6, <2>9
<1>6. CASE Post(w) \/ LastPost(w)
  <2>1. /\ wpc[w] \in {"post", "lastPost"} /\ wpc'[w] \in {"wait", "exit"}
        /\ wpc' = [wpc EXCEPT ![w] = wpc'[w]]
        /\ wpc'[w] = "exit" => wpc[w] = "lastPost"
        /\ sem' = sem + 1 /\ ptr' = ptr /\ buffer' = buffer
    BY <1>6 DEF Post, LastPost, Goto, TypeOK
  <2>2. Started /\ sem = 0 /\ Inside = {w}
    BY <2>1, Alone DEF Places
  <2>3. TypeOK'
    BY <1>0, <2>1, <2>2 DEF TypeOK, WorkerPlaces
  <2>4. Inside' = {}
    BY <1>0, <2>1, <2>2 DEF Inside
  <2>5. OneToken'
    BY <1>0, <2>1, <2>2, <2>4 DEF OneToken
  <2>6. EndChecked'
    BY <1>0, <2>1 DEF EndChecked
  <2>7. \A u \in Workers : wpc[u] # "advance" /\ wpc'[u] # "advance"
    BY <1>0, <2>1, <2>2 DEF Inside
  <2>8. FilledToPtr'
    BY <2>1, <2>7 DEF FilledToPtr, Writing
  <2>. QED
    BY <1>1, <2>3, <2>5, <2>6, <2>8
<1>7. CASE Exit(w)
  <2>1. /\ wpc[w] = "exit" /\ wpc'[w] = "exited"
        /\ wpc' = [wpc EXCEPT ![w] = "exited"]
        /\ sem' = sem /\ ptr' = ptr /\ buffer' = buffer
    BY <1>7 DEF Exit, Goto, TypeOK
  <2>2. TypeOK'
    BY <1>0, <2>1 DEF TypeOK, WorkerPlaces
  <2>3. Inside' = Inside
    BY <1>0, <2>1 DEF Inside
  <2>4. OneToken' /\ EndChecked'
    BY <1>0, <2>1, <2>3 DEF OneToken, EndChecked
  <2>5. Writing' = Writing
    BY <1>0, <2>1 DEF Writing
  <2>6. FilledToPtr'
    BY <2>1, <2>5 DEF FilledToPtr
  <2>. QED
    BY <1>1, <2>2, <2>4, <2>6
<1>. QED
  BY <1>2, <1>3, <1>4, <1>5, <1>6, <1>7 DEF Worker

(* The inductive invariant holds for every W and Capacity.                 *)
THEOREM Inductive == Spec => []IInv
<1>1. Init => IInv
  BY InitIInv
<1>2. IInv /\ [Next]_vars => IInv'
  <2>. SUFFICES ASSUME IInv, [Next]_vars PROVE IInv'
    OBVIOUS
  <2>1. CASE UNCHANGED vars
    BY <2>1 DEF vars, IInv, TypeOK, OneToken, Started, Inside, FilledToPtr, Writing,
                EndChecked, Joined
  <2>. QED
    BY <2>1, MainKeeps, WorkerKeeps DEF Next
<1>. QED
  BY <1>1, <1>2, PTL DEF Spec

(* The variables keep their types: no byte past the buffer is written and  *)
(* the semaphore stays below 2.                                            *)
THEOREM TypeCorrect == Spec => []TypeOK
<1>1. IInv => TypeOK
  BY DEF IInv
<1>. QED
  BY <1>1, Inductive, PTL

(* The token is never lost and never doubled.                              *)
THEOREM TokenKept == Spec => []OneToken
<1>1. IInv => OneToken
  BY DEF IInv
<1>. QED
  BY <1>1, Inductive, PTL

----------------------------------------------------------------------------
(* Stepping over a byte appends its name; nothing else changes what has    *)
(* been filled, because only the byte at the pointer is ever written.      *)
LEMMA FilledKept ==
  ASSUME IInv, Next, ptr' = ptr
  PROVE  filled' = filled
<1>1. \A n \in 0 .. Capacity : n < ptr => buffer'[n] = buffer[n]
  BY DEF IInv, TypeOK, Next, Main, Boost, Announce, Create, Configure, Start, Drop, Join,
         Report, Worker, Take, Check, Write, Advance, Post, LastPost, Exit
<1>2. \A n \in 1 .. ptr : n - 1 \in 0 .. Capacity /\ n - 1 < ptr
  BY DEF IInv, TypeOK
<1>3. \A n \in 1 .. ptr : buffer'[n - 1] = buffer[n - 1]
  BY <1>1, <1>2
<1>. QED
  BY <1>3 DEF filled

(* Stepping over a byte is the write of the abstract buffer.               *)
LEMMA FilledGrows ==
  ASSUME IInv, NEW w \in Workers, Advance(w)
  PROVE  B!Write(buffer[ptr]) /\ buffer[ptr] \in Workers
<1>1. /\ ptr \in 0 .. Capacity /\ ptr < Capacity /\ ptr' = ptr + 1
      /\ buffer' = buffer /\ mpc' = mpc /\ w \in Writing
  BY DEF Advance, IInv, EndChecked, TypeOK, Writing
<1>2. buffer[ptr] \in Workers
  BY <1>1 DEF IInv, FilledToPtr, Writing
<1>3. filled \in Seq(Workers) /\ Len(filled) = ptr
  <2>1. \A n \in 1 .. ptr : n - 1 \in 0 .. Capacity /\ n - 1 < ptr
    BY <1>1
  <2>2. \A n \in 1 .. ptr : buffer[n - 1] \in Workers
    BY <2>1 DEF IInv, FilledToPtr
  <2>. QED
    BY <1>1, <2>2 DEF filled
<1>4. filled' = [n \in 1 .. ptr + 1 |-> buffer[n - 1]]
  BY <1>1 DEF filled
<1>5. filled' = Append(filled, buffer[ptr])
  BY <1>1, <1>2, <1>3, <1>4 DEF filled
<1>6. reported' = reported
  BY <1>1 DEF reported
<1>. QED
  BY <1>1, <1>2, <1>3, <1>5, <1>6 DEF B!Write

(* The program fills its buffer as BufferFill says.                        *)
THEOREM Implements == Spec => FillsBuffer
<1>1. Init => B!Init
  BY DEF Init, B!Init, filled, reported
<1>2. ASSUME IInv, [Next]_vars PROVE [B!Next]_(B!vars)
  <2>1. CASE UNCHANGED vars
    BY <2>1 DEF vars, B!vars, filled, reported
  <2>2. CASE Report
    <3>1. wpc[1] = "exited" /\ 1 \in Workers
      BY <1>2, <2>2 DEF IInv, Joined, Report, Workers
    <3>2. ptr = Capacity /\ ptr \in Nat
      BY <1>2, <3>1 DEF IInv, EndChecked, TypeOK
    <3>3. Len(filled) = Capacity
      BY <3>2 DEF filled
    <3>4. filled' = filled /\ ~ reported /\ reported' = TRUE
      BY <2>2 DEF Report, filled, reported
    <3>. QED
      BY <3>3, <3>4 DEF B!Next, B!Report
  <2>3. ASSUME NEW w \in Workers, Advance(w) PROVE [B!Next]_(B!vars)
    BY <1>2, <2>3, FilledGrows DEF B!Next
  <2>4. CASE Next /\ ptr' = ptr /\ ~ Report
    <3>1. filled' = filled
      BY <1>2, <2>4, FilledKept
    <3>2. mpc' = "done" <=> mpc = "done"
      BY <2>4 DEF Next, Main, Boost, Announce, Create, Configure, Start, Drop, Join,
         Worker, Take, Check, Write, Advance, Post, LastPost, Exit, CreateLoop, JoinLoop
    <3>. QED
      BY <3>1, <3>2 DEF B!vars, reported
  <2>. QED
    BY <1>2, <2>1, <2>2, <2>3, <2>4
       DEF Next, Main, Boost, Announce, Create, Configure, Start, Drop, Join, Worker,
           Take, Check, Write, Post, LastPost, Exit
<1>. QED
  BY <1>1, <1>2, Inductive, PTL DEF Spec, FillsBuffer, B!Spec

----------------------------------------------------------------------------
(* Under the scheduler.                                                    *)

(* A scheduled step is a step of SharedBuffer or leaves it alone.          *)
LEMMA StepMaps == [TNext]_allVars => [Next]_vars
<1>. SUFFICES ASSUME [TNext]_allVars PROVE [Next]_vars
  OBVIOUS
<1>1. CASE MainStep
  BY <1>1 DEF MainStep, TMain, TBoost, TAnnounce, TCreate, TConfigure, TStart, TDrop,
              TJoin, JoinBlocks, TReport, Next, Main
<1>2. CASE Terminal
  BY <1>2 DEF Terminal, TerminalBusy, TerminalReady
<1>3. ASSUME NEW w \in Workers, WorkerStep(w) PROVE [Next]_vars
  BY <1>3 DEF WorkerStep, TWorker, TakeBlocks, TPost, TLastPost, TExit, Next, Worker
<1>4. ASSUME NEW t \in Everyone, SliceEnds(t) PROVE [Next]_vars
  BY <1>4 DEF SliceEnds
<1>5. CASE UNCHANGED allVars
  BY <1>5 DEF allVars
<1>. QED
  BY <1>1, <1>2, <1>3, <1>4, <1>5 DEF TNext

(* The scheduled program behaves as the unscheduled one.                   *)
THEOREM Scheduled == TSpec => Spec
<1>1. TInit => Init
  BY DEF TInit
<1>. QED
  BY <1>1, StepMaps, PTL DEF TSpec, Spec

(* Whatever the scheduler does, the buffer is filled as BufferFill says.   *)
THEOREM ScheduledFills == TSpec => FillsBuffer
BY Scheduled, Implements, PTL

(* Whatever the scheduler does, the token is never lost and never doubled. *)
THEOREM ScheduledToken == TSpec => []OneToken
BY Scheduled, TokenKept, PTL

----------------------------------------------------------------------------
(* The program is never stuck before its end, and its steps run out.       *)

\* Main has a step to take.
MainCan == mpc # "done" /\ (mpc = "join" => wpc[i + 1] = "exited")

\* Worker w has a step to take.
WorkerCan(w) == wpc[w] \notin {"none", "exited"} /\ (wpc[w] = "wait" => sem > 0)

\* The workers pthread_create() has been called for.
Made == CASE mpc \in {"boost", "print", "create"} -> 1 .. i
          [] mpc = "configure"                    -> 1 .. i + 1
          [] OTHER                                -> Workers

MadeInv == \A w \in Workers : wpc[w] = "none" <=> w \notin Made

\* Until post_processing() is through somebody has a step to take.
NeverStuck == mpc # "done" => MainCan \/ \E w \in Workers : WorkerCan(w)

\* No thread takes more steps than these.
MainLeft ==
  CASE mpc = "boost"     -> 5 * W + 8
    [] mpc = "print"     -> W + 7 + 4 * (W - i)
    [] mpc = "create"    -> W + 6 + 4 * (W - i)
    [] mpc = "configure" -> W + 5 + 4 * (W - i)
    [] mpc = "start"     -> W + 3
    [] mpc = "drop"      -> W + 2
    [] mpc = "join"      -> W - i + 1
    [] mpc = "report"    -> 1
    [] mpc = "done"      -> 0

WorkerLeft(w) ==
  IF wpc[w] = "exited" THEN 0
  ELSE 8 * (Capacity - ptr) + CASE wpc[w] = "none"     -> 7
                                [] wpc[w] = "post"     -> 7
                                [] wpc[w] = "wait"     -> 6
                                [] wpc[w] = "check"    -> 5
                                [] wpc[w] = "write"    -> 4
                                [] wpc[w] = "advance"  -> 3
                                [] wpc[w] = "lastPost" -> 2
                                [] wpc[w] = "exit"     -> 1

LeftOK == MainLeft \in Nat /\ \A w \in Workers : WorkerLeft(w) \in Nat

\* A step brings one thread nearer to its end and none further from it.
WindsDown ==
  [][/\ MainLeft' <= MainLeft
     /\ \A w \in Workers : WorkerLeft(w)' <= WorkerLeft(w)
     /\ MainLeft' < MainLeft \/ \E w \in Workers : WorkerLeft(w)' < WorkerLeft(w)]_vars

(* Main makes the workers in the order of their numbers, all of them       *)
(* before it posts the semaphore.                                          *)
LEMMA MadeStep == IInv /\ MadeInv /\ [Next]_vars => MadeInv'
<1>. SUFFICES ASSUME IInv, MadeInv, [Next]_vars PROVE MadeInv'
  OBVIOUS
<1>0. TypeOK
  BY DEF IInv
<1>1. CASE Create
  <2>1. /\ mpc = "create" /\ mpc' = "configure" /\ i' = i /\ i \in 0 .. W /\ i < W
        /\ wpc' = [wpc EXCEPT ![i + 1] = "wait"]
    BY <1>0, <1>1 DEF Create, TypeOK
  <2>2. Made = 1 .. i /\ Made' = 1 .. i + 1
    BY <2>1 DEF Made
  <2>3. ASSUME NEW w \in Workers PROVE wpc'[w] = "none" <=> w \notin Made'
    <3>1. wpc[w] = "none" <=> w \notin Made
      BY DEF MadeInv
    <3>2. w \in Made' <=> w \in Made \/ w = i + 1
      BY <2>1, <2>2 DEF Workers
    <3>3. wpc'[w] = IF w = i + 1 THEN "wait" ELSE wpc[w]
      BY <1>0, <2>1 DEF TypeOK
    <3>. QED
      BY <3>1, <3>2, <3>3
  <2>. QED
    BY <2>3 DEF MadeInv
<1>2. CASE Main /\ ~ Create
  <2>1. wpc' = wpc
    BY <1>2 DEF Main, Boost, Announce, Configure, Start, Drop, Join, Report
  <2>2. CASE Boost \/ Announce
    <3>1. Made' = Made
      <4>1. i' = i /\ mpc \in {"boost", "print"} /\ mpc' \in {"print", "create", "start"}
        BY <2>2 DEF Boost, Announce, CreateLoop
      <4>2. mpc' # "start"
        BY <1>0, <2>2 DEF Boost, Announce, CreateLoop, TypeOK
      <4>. QED
        BY <4>1, <4>2 DEF Made
    <3>. QED
      BY <2>1, <3>1 DEF MadeInv
  <2>3. CASE Configure
    <3>1. mpc = "configure" /\ i' = i + 1 /\ i \in 0 .. W /\ i < W
      BY <1>0, <2>3 DEF Configure, TypeOK
    <3>2. mpc' = "print" \/ (mpc' = "start" /\ i + 1 = W)
      BY <2>3, <3>1 DEF Configure, CreateLoop
    <3>3. Made' = Made
      BY <3>1, <3>2 DEF Made, Workers
    <3>. QED
      BY <2>1, <3>3 DEF MadeInv
  <2>4. CASE Start \/ Drop \/ Join \/ Report
    <3>1. Made' = Workers /\ Made = Workers
      BY <2>4 DEF Start, Drop, Join, Report, JoinLoop, Made
    <3>. QED
      BY <2>1, <3>1 DEF MadeInv
  <2>. QED
    BY <1>2, <2>2, <2>3, <2>4 DEF Main
<1>3. ASSUME NEW w \in Workers, Worker(w) PROVE MadeInv'
  <2>1. mpc' = mpc /\ i' = i /\ Made' = Made
    BY <1>3 DEF Worker, Take, Check, Write, Advance, Post, LastPost, Exit, Made
  <2>2. \A u \in Workers : wpc'[u] = "none" <=> wpc[u] = "none"
    BY <1>0, <1>3 DEF Worker, Take, Check, Write, Advance, Post, LastPost, Exit, Goto, TypeOK
  <2>. QED
    BY <2>1, <2>2 DEF MadeInv
<1>4. CASE UNCHANGED vars
  BY <1>4 DEF vars, MadeInv, Made
<1>. QED
  BY <1>1, <1>2, <1>3, <1>4 DEF Next

(* Exactly the workers main has made are there.                            *)
THEOREM AllMade == Spec => []MadeInv
<1>1. Init => MadeInv
  BY DEF Init, MadeInv, Made
<1>. QED
  BY <1>1, MadeStep, Inductive, PTL DEF Spec

(* Main waits for a worker that has been made; if that one waits for the   *)
(* token, it or the one that has the token can go on.                      *)
LEMMA SomebodyCan == IInv /\ MadeInv => NeverStuck
<1>. SUFFICES ASSUME IInv, MadeInv, mpc = "join", wpc[i + 1] # "exited"
              PROVE  \E w \in Workers : WorkerCan(w)
  BY DEF NeverStuck, MainCan
<1>1. i + 1 \in Workers /\ TypeOK
  BY DEF IInv, TypeOK, Workers
<1>2. wpc[i + 1] # "none"
  BY <1>1 DEF MadeInv, Made
<1>3. CASE wpc[i + 1] # "wait" \/ sem > 0
  BY <1>1, <1>2, <1>3 DEF WorkerCan
<1>4. CASE wpc[i + 1] = "wait" /\ ~ sem > 0
  <2>1. Started /\ sem # 1
    BY <1>4 DEF Started
  <2>2. PICK w \in Workers : Inside = {w}
    BY <2>1 DEF IInv, OneToken
  <2>3. wpc[w] \in Places
    BY <2>2 DEF Inside, Places
  <2>. QED
    BY <2>3 DEF WorkerCan, Places
<1>. QED
  BY <1>3, <1>4

(* Until the report is through somebody has a step to take: joins, waits   *)
(* for the token and its holder never wait for one another in a circle.    *)
THEOREM Unstuck == Spec => []NeverStuck
BY SomebodyCan, Inductive, AllMade, PTL

(* What is left is a natural number for each thread.                       *)
LEMMA LeftIsNat == TypeOK => LeftOK
<1>. SUFFICES ASSUME TypeOK PROVE LeftOK
  OBVIOUS
<1>1. W \in Nat /\ i \in 0 .. W /\ W - i \in Nat /\ Capacity - ptr \in Nat
  BY DEF TypeOK
<1>2. MainLeft \in Nat
  <2>1. mpc \in MainPlaces
    BY DEF TypeOK
  <2>2. 4 * (W - i) \in Nat
    BY <1>1
  <2>. QED
    BY <1>1, <2>1, <2>2 DEF MainLeft, MainPlaces
<1>3. ASSUME NEW w \in Workers PROVE WorkerLeft(w) \in Nat
  <2>1. wpc[w] \in WorkerPlaces
    BY DEF TypeOK
  <2>. QED
    BY <1>1, <2>1 DEF WorkerLeft, WorkerPlaces
<1>. QED
  BY <1>2, <1>3 DEF LeftOK

(* A step of main lowers what is left of main and of nobody else.          *)
LEMMA MainWinds ==
  ASSUME IInv, MadeInv, Main
  PROVE  MainLeft' < MainLeft /\ \A w \in Workers : WorkerLeft(w)' <= WorkerLeft(w)
<1>1. TypeOK /\ W \in Nat \ {0} /\ i \in 0 .. W
  BY DEF IInv, TypeOK
<1>2. MainLeft' < MainLeft
  <2>1. CASE Boost
    BY <1>1, <2>1 DEF Boost, CreateLoop, MainLeft, TypeOK
  <2>2. CASE Announce \/ Create
    BY <1>1, <2>2 DEF Announce, Create, MainLeft
  <2>3. CASE Configure
    <3>1. mpc = "configure" /\ i < W /\ i' = i + 1
      BY <1>1, <2>3 DEF Configure, TypeOK
    <3>2. mpc' = "print" \/ mpc' = "start"
      BY <2>3 DEF Configure, CreateLoop
    <3>. QED
      BY <1>1, <3>1, <3>2 DEF MainLeft
  <2>4. CASE Start \/ Drop
    BY <1>1, <2>4 DEF Start, Drop, JoinLoop, MainLeft
  <2>5. CASE Join
    <3>1. mpc = "join" /\ i < W /\ i' = i + 1
      BY <1>1, <2>5 DEF Join, TypeOK
    <3>2. mpc' = "join" \/ mpc' = "report"
      BY <2>5 DEF Join, JoinLoop
    <3>. QED
      BY <1>1, <3>1, <3>2 DEF MainLeft
  <2>6. CASE Report
    BY <2>6 DEF Report, MainLeft
  <2>. QED
    BY <2>1, <2>2, <2>3, <2>4, <2>5, <2>6 DEF Main
<1>3. ASSUME NEW w \in Workers PROVE WorkerLeft(w)' <= WorkerLeft(w)
  <2>1. WorkerLeft(w) \in Nat
    BY <1>1, LeftIsNat DEF LeftOK
  <2>2. ptr' = ptr /\ ptr \in 0 .. Capacity
    BY <1>1 DEF TypeOK, Main, Boost, Announce, Create, Configure, Start, Drop, Join, Report
  <2>3. CASE wpc'[w] = wpc[w]
    <3>1. WorkerLeft(w)' = WorkerLeft(w)
      BY <2>2, <2>3 DEF WorkerLeft
    <3>. QED
      BY <2>1, <3>1
  <2>4. CASE wpc'[w] # wpc[w]
    <3>1. Create /\ w = i + 1
      BY <1>1, <2>4 DEF TypeOK, Main, Boost, Announce, Create, Configure, Start, Drop, Join, Report
    <3>2. wpc'[w] = "wait" /\ w \notin Made
      BY <1>1, <3>1 DEF Create, TypeOK, Made
    <3>3. wpc[w] = "none"
      BY <3>2 DEF MadeInv
    <3>. QED
      BY <2>2, <3>2, <3>3 DEF WorkerLeft
  <2>. QED
    BY <2>3, <2>4
<1>. QED
  BY <1>2, <1>3

(* A step of a worker lowers what is left of it and raises nobody's.       *)
LEMMA WorkerWinds ==
  ASSUME IInv, NEW w \in Workers, Worker(w)
  PROVE  /\ MainLeft' = MainLeft /\ WorkerLeft(w)' < WorkerLeft(w)
         /\ \A u \in Workers : WorkerLeft(u)' <= WorkerLeft(u)
<1>1. TypeOK /\ ptr \in 0 .. Capacity
  BY DEF IInv, TypeOK
<1>2. MainLeft' = MainLeft
  BY DEF Worker, Take, Check, Write, Advance, Post, LastPost, Exit, MainLeft
<1>3. WorkerLeft(w)' < WorkerLeft(w)
  <2>1. CASE Take(w)
    BY <1>1, <2>1 DEF Take, Goto, WorkerLeft, TypeOK
  <2>2. CASE Check(w)
    BY <1>1, <2>2 DEF Check, Goto, WorkerLeft, TypeOK
  <2>3. CASE Write(w)
    BY <1>1, <2>3 DEF Write, Goto, WorkerLeft, TypeOK
  <2>4. CASE Advance(w)
    BY <1>1, <2>4 DEF Advance, Goto, WorkerLeft, TypeOK
  <2>5. CASE Post(w)
    BY <1>1, <2>5 DEF Post, Goto, WorkerLeft, TypeOK
  <2>6. CASE LastPost(w)
    BY <1>1, <2>6 DEF LastPost, Goto, WorkerLeft, TypeOK
  <2>7. CASE Exit(w)
    BY <1>1, <2>7 DEF Exit, Goto, WorkerLeft, TypeOK
  <2>. QED
    BY <2>1, <2>2, <2>3, <2>4, <2>5, <2>6, <2>7 DEF Worker
<1>4. ASSUME NEW u \in Workers PROVE WorkerLeft(u)' <= WorkerLeft(u)
  <2>1. WorkerLeft(u) \in Nat
    BY <1>1, LeftIsNat DEF LeftOK
  <2>2. ptr' = ptr \/ ptr' = ptr + 1
    BY DEF Worker, Take, Check, Write, Advance, Post, LastPost, Exit
  <2>3. CASE u = w
    <3>1. TypeOK' /\ (TypeOK' => LeftOK')
      BY WorkerKeeps, LeftIsNat, PTL DEF IInv
    <3>2. WorkerLeft(w)' \in Nat
      BY <3>1 DEF LeftOK
    <3>. QED
      BY <1>3, <2>1, <2>3, <3>2
  <2>4. CASE u # w
    <3>1. wpc'[u] = wpc[u] /\ wpc[u] \in WorkerPlaces
      BY <1>1, <2>4 DEF TypeOK, Worker, Take, Check, Write, Advance, Post, LastPost, Exit, Goto
    <3>. QED
      BY <1>1, <2>2, <3>1 DEF WorkerLeft, WorkerPlaces
  <2>. QED
    BY <2>3, <2>4
<1>. QED
  BY <1>2, <1>3, <1>4

(* Every step brings one thread nearer to its end and none further from    *)
(* it, so there is a bound on the steps of every run of the program.       *)
THEOREM Winds == Spec => WindsDown
<1>1. IInv /\ MadeInv /\ [Next]_vars =>
        [/\ MainLeft' <= MainLeft
         /\ \A w \in Workers : WorkerLeft(w)' <= WorkerLeft(w)
         /\ MainLeft' < MainLeft \/ \E w \in Workers : WorkerLeft(w)' < WorkerLeft(w)]_vars
  <2>. SUFFICES ASSUME IInv, MadeInv, Next
                PROVE  /\ MainLeft' <= MainLeft
                       /\ \A w \in Workers : WorkerLeft(w)' <= WorkerLeft(w)
                       /\ MainLeft' < MainLeft \/ \E w \in Workers : WorkerLeft(w)' < WorkerLeft(w)
    OBVIOUS
  <2>1. MainLeft \in Nat /\ MainLeft' \in Nat
    <3>1. TypeOK /\ TypeOK'
      BY MainKeeps, WorkerKeeps DEF IInv, Next
    <3>2. TypeOK' => LeftOK'
      BY LeftIsNat, PTL
    <3>. QED
      BY <3>1, <3>2, LeftIsNat DEF LeftOK
  <2>2. CASE Main
    BY <2>1, <2>2, MainWinds
  <2>3. ASSUME NEW w \in Workers, Worker(w) 
        PROVE  /\ MainLeft' = MainLeft /\ WorkerLeft(w)' < WorkerLeft(w)
               /\ \A u \in Workers : WorkerLeft(u)' <= WorkerLeft(u)
    BY <2>3, WorkerWinds
  <2>. QED
    BY <2>1, <2>2, <2>3 DEF Next
<1>. QED
  BY <1>1, Inductive, AllMade, PTL DEF Spec, WindsDown

----------------------------------------------------------------------------
(* Nobody sleeps through what it waits for.                                *)

\* A sequence of distinct members of S.
Lined(q, S) ==
  q \in Seq(S) /\ \A m, n \in 1 .. Len(q) : q[m] = q[n] => m = n

\* Each runnable thread is in the queue, and once.
QueueOK ==
  /\ Lined(queue, Everyone)
  /\ DOMAIN attr = Everyone
  /\ \A t \in Everyone : attr[t].prio \in 0 .. MaxPrio

\* Who is awake, and what those who are not wait for.
AwakeInv ==
  /\ \A w \in Workers : Runnable(w) => wpc[w] \notin {"none", "exited"}
  /\ \A w \in Workers : wpc[w] \notin {"none", "exited"} /\ ~ Runnable(w) =>
       wpc[w] = "wait" /\ ~ Spins
  /\ ~ Runnable(MainThread) => \/ mpc \in {"print", "done"}
                               \/ mpc = "join" /\ wpc[i + 1] # "exited"

\* If a worker sleeps in sem_wait() though the semaphore is not 0, one that
\* is awake is about to take it.
WakeupKept ==
  sem > 0 /\ (\E w \in Workers : wpc[w] = "wait" /\ ~ Runnable(w)) =>
    \E w \in Workers : wpc[w] = "wait" /\ Runnable(w)

\* Somebody awake has a step to take, or main waits for its terminal.
AwakeGoesOn ==
  mpc # "done" => \/ mpc = "print" /\ ~ Runnable(MainThread)
                  \/ MainCan /\ Runnable(MainThread)
                  \/ \E w \in Workers : WorkerCan(w) /\ Runnable(w)

\* With sem_wait() no CPU time is lost: somebody has a CPU unless main waits
\* for its terminal, and whoever has one has a step to take or goes to sleep.
NoCPULost ==
  ~ Spins /\ mpc # "done" =>
    /\ \/ mpc = "print" /\ ~ Runnable(MainThread)
       \/ \E t \in Everyone : Runs(t)
    /\ \A w \in Workers : Runs(w) => WorkerCan(w) \/ (wpc[w] = "wait" /\ sem = 0)
    /\ Runs(MainThread) => MainCan \/ (mpc = "join" /\ wpc[i + 1] # "exited")

(* Taking a member out of such a sequence.                                 *)
LEMMA TakenOut ==
  ASSUME NEW S, NEW q, Lined(q, S), NEW t \in ToSet(q)
  PROVE  /\ Lined(RemoveFirst(q, t), S)
         /\ ToSet(RemoveFirst(q, t)) = ToSet(q) \ {t}
<1>. DEFINE r == RemoveFirst(q, t)
<1>0. q \in Seq(S) /\ Len(q) \in Nat /\ DOMAIN q = 1 .. Len(q)
  BY DEF Lined
<1>1. PICK p \in 1 .. Len(q) : q[p] = t
  BY <1>0 DEF ToSet
<1>2. {n \in 1 .. Len(q) : q[n] = t} = {p}
  BY <1>1 DEF Lined
<1>3. Min({p}) = p
  BY <1>0, <1>1 DEF Min
<1>4. SelectInSeq(q, LAMBDA v : v = t) = p
  BY <1>2, <1>3 DEF SelectInSeq
<1>5. r = RemoveAt(q, p)
  BY <1>1, <1>4 DEF RemoveFirst
<1>. HIDE DEF r
<1>6. r = SubSeq(q, 1, p - 1) \o SubSeq(q, p + 1, Len(q))
  BY <1>5 DEF RemoveAt
<1>7. /\ r \in Seq(S) /\ Len(r) = Len(q) - 1
      /\ \A n \in 1 .. Len(r) : r[n] = IF n < p THEN q[n] ELSE q[n + 1]
  <2>. DEFINE a == SubSeq(q, 1, p - 1)
             b == SubSeq(q, p + 1, Len(q))
  <2>1. /\ a \in Seq(S) /\ Len(a) = p - 1
        /\ \A n \in 1 .. p - 1 : a[n] = q[n]
    BY <1>0, <1>1, SubSeqProperties
  <2>2. /\ b \in Seq(S) /\ Len(b) = Len(q) - p
        /\ \A n \in 1 .. Len(q) - p : b[n] = q[p + n]
    <3>1. \A n \in p + 1 .. Len(q) : q[n] \in S
      BY <1>0, <1>1
    <3>2. p + 1 \in Int /\ Len(q) \in Int
      BY <1>0
    <3>3. /\ b \in Seq(S)
          /\ Len(b) = IF p + 1 <= Len(q) THEN Len(q) - (p + 1) + 1 ELSE 0
          /\ \A n \in 1 .. Len(q) - (p + 1) + 1 : b[n] = q[(p + 1) + n - 1]
      BY <3>1, <3>2, SubSeqProperties
    <3>4. /\ Len(q) - (p + 1) + 1 = Len(q) - p
          /\ \A n \in 1 .. Len(q) - p : (p + 1) + n - 1 = p + n
      BY <1>0
    <3>. HIDE DEF b
    <3>5. Len(b) = Len(q) - p
      <4>1. Len(b) = IF p + 1 <= Len(q) THEN Len(q) - (p + 1) + 1 ELSE 0
        BY <3>3
      <4>2. Len(q) \in Nat /\ p \in Nat /\ p <= Len(q)
        BY <1>0, <1>1
      <4>3. CASE p + 1 <= Len(q)
        BY <4>1, <4>2, <4>3
      <4>4. CASE ~ p + 1 <= Len(q)
        BY <4>1, <4>2, <4>4
      <4>. QED
        BY <4>3, <4>4
    <3>6. ASSUME NEW n \in 1 .. Len(q) - p PROVE b[n] = q[p + n]
      <4>1. n \in 1 .. Len(q) - (p + 1) + 1 /\ (p + 1) + n - 1 = p + n
        BY <1>0, <1>1
      <4>. QED
        BY <3>3, <4>1
    <3>. QED
      BY <3>3, <3>5, <3>6
  <2>3. r = a \o b
    BY <1>6
  <2>. HIDE DEF a, b
  <2>4. /\ r \in Seq(S) /\ Len(r) = Len(a) + Len(b)
        /\ \A n \in 1 .. Len(r) : r[n] = IF n <= Len(a) THEN a[n] ELSE b[n - Len(a)]
    <3>1. /\ r \in Seq(S) /\ Len(r) = Len(a) + Len(b)
          /\ \A n \in 1 .. Len(a) + Len(b) : r[n] = IF n <= Len(a) THEN a[n] ELSE b[n - Len(a)]
      BY <2>1, <2>2, <2>3, ConcatProperties
    <3>. QED
      BY <3>1
  <2>5. Len(r) = Len(q) - 1
    BY <1>0, <2>1, <2>2, <2>4
  <2>6. ASSUME NEW n \in 1 .. Len(r) PROVE r[n] = IF n < p THEN q[n] ELSE q[n + 1]
    <3>1. CASE n < p
      <4>1. n \in 1 .. p - 1 /\ n <= Len(a)
        BY <1>0, <1>1, <2>1, <3>1
      <4>. QED
        BY <2>1, <2>4, <3>1, <4>1
    <3>2. CASE ~ n < p
      <4>1. ~ n <= Len(a) /\ n - Len(a) \in 1 .. Len(q) - p /\ p + (n - Len(a)) = n + 1
        BY <1>0, <1>1, <2>1, <2>5, <3>2
      <4>. QED
        BY <2>2, <2>4, <3>2, <4>1
    <3>. QED
      BY <3>1, <3>2
  <2>. QED
    BY <2>4, <2>5, <2>6
<1>8. ASSUME NEW m \in 1 .. Len(r), NEW n \in 1 .. Len(r), r[m] = r[n]
      PROVE  m = n
  <2>. DEFINE at(x) == IF x < p THEN x ELSE x + 1
  <2>1. at(m) \in 1 .. Len(q) /\ at(n) \in 1 .. Len(q)
    BY <1>0, <1>1, <1>7
  <2>2. q[at(m)] = q[at(n)]
    BY <1>7, <1>8
  <2>3. at(m) = at(n)
    <3>. HIDE DEF at
    <3>. QED
      BY <2>1, <2>2 DEF Lined
  <2>. QED
    BY <1>1, <2>3
<1>9. ToSet(r) = ToSet(q) \ {t}
  <2>0. DOMAIN r = 1 .. Len(r)
    BY <1>7
  <2>1. ASSUME NEW x \in ToSet(r) PROVE x \in ToSet(q) /\ x # t
    <3>1. PICK n \in 1 .. Len(r) : x = r[n]
      BY <2>0 DEF ToSet
    <3>2. PICK a \in 1 .. Len(q) : x = q[a] /\ a # p
      BY <1>0, <1>1, <1>7, <3>1
    <3>. QED
      BY <1>0, <1>1, <3>2 DEF ToSet, Lined
  <2>2. ASSUME NEW x \in ToSet(q), x # t PROVE x \in ToSet(r)
    <3>1. PICK a \in 1 .. Len(q) : x = q[a]
      BY <1>0 DEF ToSet
    <3>2. a # p
      BY <1>1, <2>2, <3>1
    <3>3. \E n \in 1 .. Len(r) : x = r[n]
      <4>1. CASE a < p
        <5>1. a \in 1 .. Len(r) /\ r[a] = q[a]
          BY <1>0, <1>7, <4>1
        <5>. QED
          BY <3>1, <5>1
      <4>2. CASE a > p
        <5>1. a - 1 \in 1 .. Len(r) /\ r[a - 1] = q[a]
          BY <1>0, <1>7, <4>2
        <5>. QED
          BY <3>1, <5>1
      <4>. QED
        BY <3>2, <4>1, <4>2
    <3>. QED
      BY <2>0, <3>3 DEF ToSet
  <2>. QED
    BY <2>1, <2>2
<1>. QED
  BY <1>7, <1>8, <1>9 DEF Lined, r

(* Putting a new member at the end of such a sequence.                     *)
LEMMA PutLast ==
  ASSUME NEW S, NEW q, Lined(q, S), NEW t \in S, t \notin ToSet(q)
  PROVE  Lined(Append(q, t), S) /\ ToSet(Append(q, t)) = ToSet(q) \cup {t}
<1>0. q \in Seq(S) /\ Len(q) \in Nat /\ DOMAIN q = 1 .. Len(q)
  BY DEF Lined
<1>1. \A n \in 1 .. Len(q) : q[n] # t
  BY <1>0 DEF ToSet
<1>. DEFINE r == Append(q, t)
<1>2. /\ r \in Seq(S) /\ Len(r) = Len(q) + 1 /\ DOMAIN r = 1 .. Len(q) + 1
      /\ \A n \in 1 .. Len(q) : r[n] = q[n]
      /\ r[Len(q) + 1] = t
  BY <1>0
<1>. HIDE DEF r
<1>3. Lined(r, S)
  BY <1>0, <1>1, <1>2 DEF Lined
<1>4. ToSet(r) = ToSet(q) \cup {t}
  BY <1>0, <1>2 DEF ToSet
<1>. QED
  BY <1>3, <1>4 DEF r

(* Putting a new member at the front of such a sequence.                   *)
LEMMA PutFirst ==
  ASSUME NEW S, NEW q, Lined(q, S), NEW t \in S, t \notin ToSet(q)
  PROVE  Lined(<<t>> \o q, S) /\ ToSet(<<t>> \o q) = ToSet(q) \cup {t}
<1>0. q \in Seq(S) /\ Len(q) \in Nat /\ DOMAIN q = 1 .. Len(q)
  BY DEF Lined
<1>1. \A n \in 1 .. Len(q) : q[n] # t
  BY <1>0 DEF ToSet
<1>. DEFINE r == <<t>> \o q
<1>2. /\ r \in Seq(S) /\ Len(r) = Len(q) + 1 /\ DOMAIN r = 1 .. Len(q) + 1
      /\ \A n \in 2 .. Len(q) + 1 : r[n] = q[n - 1]
      /\ r[1] = t
  BY <1>0
<1>. HIDE DEF r
<1>3. Lined(r, S)
  <2>. SUFFICES ASSUME NEW m \in 1 .. Len(r), NEW n \in 1 .. Len(r), r[m] = r[n]
                PROVE  m = n
    BY <1>2 DEF Lined
  <2>1. CASE m = 1 \/ n = 1
    BY <1>0, <1>1, <1>2, <2>1
  <2>2. CASE m # 1 /\ n # 1
    <3>1. m - 1 \in 1 .. Len(q) /\ n - 1 \in 1 .. Len(q) /\ q[m - 1] = q[n - 1]
      BY <1>0, <1>2, <2>2
    <3>2. m - 1 = n - 1
      BY <3>1 DEF Lined
    <3>. QED
      BY <1>0, <1>2, <3>2
  <2>. QED
    BY <2>1, <2>2
<1>4. ToSet(r) = ToSet(q) \cup {t}
  <2>1. ASSUME NEW x \in ToSet(r) PROVE x \in ToSet(q) \cup {t}
    <3>1. PICK n \in 1 .. Len(q) + 1 : x = r[n]
      BY <1>2 DEF ToSet
    <3>2. n = 1 \/ n - 1 \in 1 .. Len(q)
      BY <1>0
    <3>. QED
      BY <1>0, <1>2, <3>1, <3>2 DEF ToSet
  <2>2. ASSUME NEW x \in ToSet(q) \cup {t} PROVE x \in ToSet(r)
    <3>1. CASE x = t
      BY <1>0, <1>2, <3>1 DEF ToSet
    <3>2. CASE x \in ToSet(q)
      <4>1. PICK n \in 1 .. Len(q) : x = q[n]
        BY <1>0, <3>2 DEF ToSet
      <4>2. n + 1 \in DOMAIN r /\ r[n + 1] = x
        BY <1>0, <1>2, <4>1
      <4>. QED
        BY <4>2 DEF ToSet
    <3>. QED
      BY <3>1, <3>2
  <2>. QED
    BY <2>1, <2>2
<1>. QED
  BY <1>3, <1>4 DEF r

(* What blocking and waking do to the queue.                               *)
LEMMA QueueMoves ==
  ASSUME QueueOK, NEW t \in Everyone
  PROVE  /\ Runnable(t) => /\ Lined(Blocked(t), Everyone)
                           /\ ToSet(Blocked(t)) = ToSet(queue) \ {t}
         /\ ~ Runnable(t) => /\ Lined(Woken(t), Everyone)
                             /\ ToSet(Woken(t)) = ToSet(queue) \cup {t}
<1>1. CASE Runnable(t)
  BY <1>1, TakenOut DEF QueueOK, Runnable, Blocked
<1>2. CASE ~ Runnable(t)
  BY <1>2, PutLast DEF QueueOK, Runnable, Woken
<1>. QED
  BY <1>1, <1>2

(* A change of priority leaves everybody runnable that was.                *)
LEMMA PriorityKeeps ==
  ASSUME QueueOK, NEW t \in Everyone, NEW a, SetPriority(t, a)
  PROVE  QueueOK' /\ ToSet(queue') = ToSet(queue)
<1>1. CASE UNCHANGED sched
  BY <1>1 DEF sched, QueueOK
<1>2. CASE Valid(a) /\ SetAttr(t, a)
  <2>1. a.prio \in 0 .. MaxPrio
    BY <1>2, PriorityAssumption DEF Valid
  <2>2. attr' = [attr EXCEPT ![t] = a]
    BY <1>2 DEF SetAttr
  <2>3. DOMAIN attr' = Everyone /\ \A u \in Everyone : attr'[u].prio \in 0 .. MaxPrio
    <3>1. DOMAIN attr' = Everyone
      BY <2>2 DEF QueueOK
    <3>2. ASSUME NEW u \in Everyone PROVE attr'[u].prio \in 0 .. MaxPrio
      <4>1. attr'[u] = IF u = t THEN a ELSE attr[u]
        BY <2>2 DEF QueueOK
      <4>. QED
        BY <2>1, <4>1 DEF QueueOK
    <3>. QED
      BY <3>1, <3>2
  <2>4. CASE ~ (Runnable(t) /\ a # attr[t])
    <3>1. queue' = queue
      BY <1>2, <2>4 DEF SetAttr
    <3>. QED
      BY <2>3, <3>1 DEF QueueOK
  <2>5. CASE Runnable(t) /\ a # attr[t]
    <3>. DEFINE rest == RemoveFirst(queue, t)
    <3>1. queue' \in {<<t>> \o rest, Append(rest, t)}
      BY <1>2, <2>5 DEF SetAttr
    <3>2. Lined(rest, Everyone) /\ ToSet(rest) = ToSet(queue) \ {t}
      BY <2>5, TakenOut DEF QueueOK, Runnable
    <3>. HIDE DEF rest
    <3>3. Lined(queue', Everyone) /\ ToSet(queue') = ToSet(rest) \cup {t}
      <4>1. t \notin ToSet(rest)
        BY <3>2
      <4>2. Lined(Append(rest, t), Everyone) /\ ToSet(Append(rest, t)) = ToSet(rest) \cup {t}
        BY <3>2, <4>1, PutLast
      <4>3. Lined(<<t>> \o rest, Everyone) /\ ToSet(<<t>> \o rest) = ToSet(rest) \cup {t}
        BY <3>2, <4>1, PutFirst, Zenon
      <4>. QED
        <5>1. CASE queue' = Append(rest, t)
          BY <4>2, <5>1
        <5>2. CASE queue' = <<t>> \o rest
          BY <4>3, <5>2
        <5>. QED
          BY <3>1, <5>1, <5>2
    <3>4. ToSet(queue') = ToSet(queue)
      BY <2>5, <3>2, <3>3 DEF Runnable
    <3>. QED
      BY <2>3, <3>3, <3>4 DEF QueueOK
  <2>. QED
    BY <2>4, <2>5
<1>. QED
  BY <1>1, <1>2 DEF SetPriority

(* So does the end of a slice.                                            *)
LEMMA TickKeeps ==
  ASSUME QueueOK, NEW t \in Everyone, Tick(t)
  PROVE  QueueOK' /\ ToSet(queue') = ToSet(queue)
<1>. DEFINE rest == RemoveFirst(queue, t)
<1>1. t \in ToSet(queue) /\ queue' = Append(rest, t) /\ attr' = attr
  BY DEF Tick, Runs, Runnable
<1>2. Lined(rest, Everyone) /\ ToSet(rest) = ToSet(queue) \ {t}
  BY <1>1, TakenOut DEF QueueOK
<1>. HIDE DEF rest
<1>3. Lined(queue', Everyone) /\ ToSet(queue') = ToSet(rest) \cup {t}
  <2>1. t \notin ToSet(rest)
    BY <1>2
  <2>. QED
    BY <1>1, <1>2, <2>1, PutLast
<1>. QED
  BY <1>1, <1>2, <1>3 DEF QueueOK

----------------------------------------------------------------------------
SleepInv == QueueOK /\ AwakeInv /\ WakeupKept

(* Steps that wake and put to sleep nobody.                                *)
LEMMA SameAwake ==
  ASSUME IInv, MadeInv, SleepInv, QueueOK', ToSet(queue') = ToSet(queue),
         \/ UNCHANGED vars
         \/ (Boost \/ Announce \/ Configure \/ Drop \/ Join) /\ Runnable(MainThread)
         \/ \E w \in Workers : /\ Take(w) \/ Check(w) \/ Write(w) \/ Advance(w)
                               /\ Runnable(w)
  PROVE  SleepInv'
<1>0. TypeOK /\ \A t : Runnable(t)' <=> Runnable(t)
  BY DEF IInv, Runnable
<1>1. CASE UNCHANGED vars
  BY <1>0, <1>1 DEF vars, SleepInv, AwakeInv, WakeupKept
<1>2. CASE (Boost \/ Announce \/ Configure \/ Drop \/ Join) /\ Runnable(MainThread)
  BY <1>0, <1>2 DEF SleepInv, AwakeInv, WakeupKept, Boost, Announce, Configure, Drop, Join
<1>3. ASSUME NEW w \in Workers, Take(w) \/ Check(w) \/ Write(w) \/ Advance(w), Runnable(w)
      PROVE  SleepInv'
  <2>1. /\ mpc' = mpc /\ i' = i
        /\ \A u \in Workers : u # w => wpc'[u] = wpc[u]
        /\ wpc[w] \in {"wait", "check", "write", "advance"}
        /\ wpc'[w] \in {"check", "write", "lastPost", "advance", "post"}
    BY <1>0, <1>3 DEF TypeOK, Take, Check, Write, Advance, Goto
  <2>2. AwakeInv'
    <3>1. \A u \in Workers : Runnable(u)' => wpc'[u] \notin {"none", "exited"}
      BY <1>0, <2>1 DEF SleepInv, AwakeInv
    <3>2. \A u \in Workers : wpc'[u] \notin {"none", "exited"} /\ ~ Runnable(u)' =>
            wpc'[u] = "wait" /\ ~ Spins
      BY <1>0, <1>3, <2>1 DEF SleepInv, AwakeInv
    <3>3. ~ Runnable(MainThread)' => \/ mpc' \in {"print", "done"}
                                     \/ mpc' = "join" /\ wpc'[i' + 1] # "exited"
      <4>1. mpc = "join" => i + 1 \in Workers
        BY <1>0 DEF TypeOK, Workers
      <4>. QED
        BY <1>0, <2>1, <4>1 DEF SleepInv, AwakeInv
    <3>. QED
      BY <3>1, <3>2, <3>3 DEF AwakeInv
  <2>3. WakeupKept'
    <3>1. CASE Take(w)
      <4>1. ~ sem' > 0
        BY <1>0, <3>1 DEF Take, TypeOK
      <4>. QED
        BY <4>1 DEF WakeupKept
    <3>2. CASE Check(w) \/ Write(w) \/ Advance(w)
      <4>1. wpc[w] # "wait" /\ wpc'[w] # "wait" /\ sem' = sem
        BY <2>1, <3>2 DEF Check, Write, Advance
      <4>2. \A u \in Workers : wpc'[u] = "wait" <=> wpc[u] = "wait"
        BY <2>1, <4>1
      <4>. QED
        BY <1>0, <4>1, <4>2 DEF SleepInv, WakeupKept
    <3>. QED
      BY <1>3, <3>1, <3>2
  <2>. QED
    BY <2>2, <2>3 DEF SleepInv
<1>. QED
  BY <1>1, <1>2, <1>3

(* Main's steps, those of printf() to a terminal included.                 *)
LEMMA MainSleeps ==
  ASSUME IInv, MadeInv, SleepInv, MainStep \/ Terminal
  PROVE  SleepInv'
<1>. USE DEF SleepInv
<1>0. TypeOK /\ MainThread \in Everyone /\ MainThread \notin Workers
  BY DEF IInv, MainThread, Everyone, Workers
<1>1. CASE MainStep /\ (TBoost \/ TAnnounce \/ TConfigure \/ TDrop \/ TJoin)
  <2>1. Runnable(MainThread)
    BY <1>1 DEF MainStep, Runs
  <2>2. Boost \/ Announce \/ Configure \/ Drop \/ Join
    BY <1>1 DEF TBoost, TAnnounce, TConfigure, TDrop, TJoin
  <2>3. mpc = "configure" => i + 1 \in Everyone
    BY <1>0 DEF TypeOK, Everyone, Workers
  <2>4. UNCHANGED sched \/ \E t \in Everyone : \E a : SetPriority(t, a)
    BY <1>0, <1>1, <2>3 DEF TBoost, TAnnounce, TConfigure, Configure, TDrop, TJoin
  <2>5. QueueOK' /\ ToSet(queue') = ToSet(queue)
    BY <2>4, PriorityKeeps DEF sched, QueueOK
  <2>. QED
    BY <2>1, <2>2, <2>5, SameAwake
<1>2. CASE MainStep /\ TCreate
  <2>1. /\ mpc = "create" /\ mpc' = "configure" /\ i' = i /\ sem' = sem
        /\ wpc' = [wpc EXCEPT ![i + 1] = "wait"]
        /\ i + 1 \in Workers /\ i + 1 \in Everyone
        /\ attr' = [attr EXCEPT ![i + 1] = attr[MainThread]]
        /\ queue' = Woken(i + 1)
    BY <1>0, <1>2 DEF TCreate, Create, TypeOK, Workers, Everyone
  <2>2. wpc[i + 1] = "none"
    <3>1. Made = 1 .. i /\ i + 1 \notin 1 .. i
      BY <1>0, <2>1 DEF Made, TypeOK
    <3>. QED
      BY <2>1, <3>1 DEF MadeInv
  <2>3. ~ Runnable(i + 1)
    BY <2>1, <2>2 DEF AwakeInv
  <2>4. Lined(queue', Everyone) /\ ToSet(queue') = ToSet(queue) \cup {i + 1}
    BY <2>1, <2>3, QueueMoves
  <2>5. QueueOK'
    <3>1. DOMAIN attr' = Everyone
      BY <2>1 DEF QueueOK
    <3>2. \A t \in Everyone : attr'[t].prio \in 0 .. MaxPrio
      BY <1>0, <2>1 DEF QueueOK
    <3>. QED
      BY <2>4, <3>1, <3>2 DEF QueueOK
  <2>6. /\ \A t : Runnable(t)' <=> Runnable(t) \/ t = i + 1
        /\ \A w \in Workers : wpc'[w] = IF w = i + 1 THEN "wait" ELSE wpc[w]
    BY <1>0, <2>1, <2>4 DEF Runnable, TypeOK
  <2>7. AwakeInv'
    BY <1>0, <2>1, <2>6 DEF AwakeInv
  <2>8. WakeupKept'
    <3>1. ~ sem' > 0
      BY <2>1 DEF IInv, OneToken, Started
    <3>. QED
      BY <3>1 DEF WakeupKept
  <2>. QED
    BY <2>5, <2>7, <2>8
<1>3. CASE MainStep /\ TStart
  <2>1. /\ mpc = "start" /\ mpc' = "drop" /\ wpc' = wpc /\ i' = i /\ attr' = attr
        /\ WakeWaiter
    BY <1>3 DEF TStart, Start, WakeWaiter
  <2>. DEFINE asleep == {w \in Workers : wpc[w] = "wait" /\ ~ Runnable(w)}
  <2>2. CASE asleep = {}
    <3>1. queue' = queue
      BY <2>1, <2>2 DEF WakeWaiter
    <3>2. QueueOK' /\ \A t : Runnable(t)' <=> Runnable(t)
      BY <2>1, <3>1 DEF QueueOK, Runnable
    <3>3. AwakeInv' /\ WakeupKept'
      BY <2>1, <2>2, <3>2 DEF AwakeInv, WakeupKept
    <3>. QED
      BY <3>2, <3>3
  <2>3. CASE asleep # {}
    <3>1. PICK v \in Workers : wpc[v] = "wait" /\ ~ Runnable(v) /\ queue' = Woken(v)
      BY <2>1, <2>3 DEF WakeWaiter
    <3>2. v \in Everyone
      BY DEF Everyone
    <3>3. Lined(queue', Everyone) /\ ToSet(queue') = ToSet(queue) \cup {v}
      BY <3>1, <3>2, QueueMoves
    <3>4. QueueOK' /\ \A t : Runnable(t)' <=> Runnable(t) \/ t = v
      BY <2>1, <3>3 DEF QueueOK, Runnable
    <3>5. AwakeInv' /\ WakeupKept'
      BY <2>1, <3>1, <3>4 DEF AwakeInv, WakeupKept
    <3>. QED
      BY <3>4, <3>5
  <2>. QED
    BY <2>2, <2>3
<1>4. CASE (MainStep /\ (JoinBlocks \/ TReport)) \/ (Runs(MainThread) /\ TerminalBusy)
  <2>1. /\ Runnable(MainThread) /\ queue' = Blocked(MainThread) /\ attr' = attr
        /\ wpc' = wpc /\ i' = i /\ sem' = sem
    BY <1>4 DEF MainStep, Runs, JoinBlocks, TReport, Report, TerminalBusy, vars
  <2>2. mpc' \in {"print", "done"} \/ (mpc' = "join" /\ wpc'[i' + 1] # "exited")
    BY <1>4 DEF JoinBlocks, TReport, Report, TerminalBusy, vars
  <2>3. Lined(queue', Everyone) /\ ToSet(queue') = ToSet(queue) \ {MainThread}
    BY <1>0, <2>1, QueueMoves
  <2>4. QueueOK' /\ \A w \in Workers : Runnable(w)' <=> Runnable(w)
    BY <1>0, <2>1, <2>3 DEF QueueOK, Runnable
  <2>5. AwakeInv' /\ WakeupKept'
    BY <2>1, <2>2, <2>4 DEF AwakeInv, WakeupKept
  <2>. QED
    BY <2>4, <2>5
<1>5. CASE TerminalReady
  <2>1. ~ Runnable(MainThread) /\ queue' = Woken(MainThread) /\ attr' = attr /\ UNCHANGED vars
    BY <1>5 DEF TerminalReady
  <2>2. Lined(queue', Everyone) /\ ToSet(queue') = ToSet(queue) \cup {MainThread}
    BY <1>0, <2>1, QueueMoves
  <2>3. /\ QueueOK' /\ Runnable(MainThread)'
        /\ \A w \in Workers : Runnable(w)' <=> Runnable(w)
    BY <1>0, <2>1, <2>2 DEF QueueOK, Runnable
  <2>4. AwakeInv' /\ WakeupKept'
    BY <2>1, <2>3 DEF AwakeInv, WakeupKept, vars
  <2>. QED
    BY <2>3, <2>4
<1>. QED
  BY <1>1, <1>2, <1>3, <1>4, <1>5 DEF MainStep, TMain, Terminal

(* The workers' steps: a post wakes a sleeper if there is one, and the end *)
(* of a thread wakes main if main sleeps until then.                       *)
LEMMA WorkerSleeps ==
  ASSUME IInv, SleepInv, MadeInv, NEW w \in Workers, WorkerStep(w)
  PROVE  SleepInv'
<1>. USE DEF SleepInv
<1>0. /\ TypeOK /\ w \in Everyone /\ w # MainThread /\ Runnable(w)
      /\ MainThread \in Everyone
      /\ mpc = "join" => i + 1 \in Workers
  BY DEF IInv, TypeOK, MainThread, Everyone, Workers, WorkerStep, Runs
<1>1. CASE (Take(w) \/ Check(w) \/ Write(w) \/ Advance(w)) /\ UNCHANGED sched
  <2>1. QueueOK' /\ queue' = queue
    BY <1>1 DEF sched, QueueOK
  <2>. QED
    BY <1>0, <1>1, <2>1, SameAwake
<1>2. CASE TakeBlocks(w)
  <2>1. /\ ~ Spins /\ wpc[w] = "wait" /\ sem = 0 /\ queue' = Blocked(w) /\ attr' = attr
        /\ UNCHANGED vars
    BY <1>2 DEF TakeBlocks
  <2>2. Lined(queue', Everyone) /\ ToSet(queue') = ToSet(queue) \ {w}
    BY <1>0, <2>1, QueueMoves
  <2>3. QueueOK' /\ \A t : Runnable(t)' <=> Runnable(t) /\ t # w
    BY <2>1, <2>2 DEF QueueOK, Runnable
  <2>4. AwakeInv'
    BY <1>0, <2>1, <2>3 DEF AwakeInv, vars
  <2>5. WakeupKept'
    BY <2>1 DEF WakeupKept, vars
  <2>. QED
    BY <2>3, <2>4, <2>5
<1>3. CASE TPost(w) \/ TLastPost(w)
  <2>1. /\ mpc' = mpc /\ i' = i /\ attr' = attr /\ WakeWaiter
        /\ wpc[w] \in {"post", "lastPost"} /\ wpc'[w] \in {"wait", "exit"}
        /\ \A u \in Workers : u # w => wpc'[u] = wpc[u]
    BY <1>0, <1>3 DEF TPost, TLastPost, Post, LastPost, Goto, WakeWaiter, TypeOK
  <2>. DEFINE asleep == {u \in Workers : wpc[u] = "wait" /\ ~ Runnable(u)}
  <2>2. CASE asleep = {}
    <3>1. queue' = queue
      BY <2>1, <2>2 DEF WakeWaiter
    <3>2. QueueOK' /\ \A t : Runnable(t)' <=> Runnable(t)
      BY <2>1, <3>1 DEF QueueOK, Runnable
    <3>3. AwakeInv'
      BY <1>0, <2>1, <3>2 DEF AwakeInv
    <3>4. WakeupKept'
      BY <1>0, <2>1, <2>2, <3>2 DEF WakeupKept
    <3>. QED
      BY <3>2, <3>3, <3>4
  <2>3. CASE asleep # {}
    <3>1. PICK v \in Workers : wpc[v] = "wait" /\ ~ Runnable(v) /\ queue' = Woken(v)
      BY <2>1, <2>3 DEF WakeWaiter
    <3>2. v \in Everyone /\ v # w
      BY <2>1, <3>1 DEF Everyone
    <3>3. Lined(queue', Everyone) /\ ToSet(queue') = ToSet(queue) \cup {v}
      BY <3>1, <3>2, QueueMoves
    <3>4. QueueOK' /\ \A t : Runnable(t)' <=> Runnable(t) \/ t = v
      BY <2>1, <3>3 DEF QueueOK, Runnable
    <3>5. AwakeInv'
      BY <1>0, <2>1, <3>1, <3>2, <3>4 DEF AwakeInv
    <3>6. WakeupKept'
      BY <2>1, <3>1, <3>2, <3>4 DEF WakeupKept
    <3>. QED
      BY <3>4, <3>5, <3>6
  <2>. QED
    BY <2>2, <2>3
<1>4. CASE TExit(w)
  <2>1. /\ mpc' = mpc /\ i' = i /\ attr' = attr /\ sem' = sem
        /\ wpc[w] = "exit" /\ wpc'[w] = "exited"
        /\ \A u \in Workers : u # w => wpc'[u] = wpc[u]
    BY <1>0, <1>4 DEF TExit, Exit, Goto, TypeOK
  <2>. DEFINE woken == mpc = "join" /\ i + 1 = w /\ ~ Runnable(MainThread)
              rest  == Blocked(w)
  <2>2. queue' = IF woken THEN Append(rest, MainThread) ELSE rest
    BY <1>4 DEF TExit
  <2>3. Lined(rest, Everyone) /\ ToSet(rest) = ToSet(queue) \ {w}
    BY <1>0, QueueMoves
  <2>. HIDE DEF rest
  <2>4. CASE woken
    <3>1. MainThread \notin ToSet(rest)
      BY <2>3, <2>4 DEF Runnable
    <3>2. Lined(queue', Everyone) /\ ToSet(queue') = ToSet(rest) \cup {MainThread}
      BY <1>0, <2>2, <2>3, <2>4, <3>1, PutLast
    <3>3. QueueOK' /\ \A t : Runnable(t)' <=> (Runnable(t) /\ t # w) \/ t = MainThread
      BY <2>1, <2>3, <3>2 DEF QueueOK, Runnable
    <3>4. AwakeInv'
      BY <1>0, <2>1, <3>3 DEF AwakeInv, MainThread, Workers
    <3>5. WakeupKept'
      BY <1>0, <2>1, <3>3 DEF WakeupKept, MainThread, Workers
    <3>. QED
      BY <3>3, <3>4, <3>5
  <2>5. CASE ~ woken
    <3>1. QueueOK' /\ \A t : Runnable(t)' <=> Runnable(t) /\ t # w
      BY <2>1, <2>2, <2>3, <2>5 DEF QueueOK, Runnable
    <3>2. AwakeInv'
      BY <1>0, <2>1, <2>5, <3>1 DEF AwakeInv
    <3>3. WakeupKept'
      BY <1>0, <2>1, <3>1 DEF WakeupKept
    <3>. QED
      BY <3>1, <3>2, <3>3
  <2>. QED
    BY <2>4, <2>5
<1>. QED
  BY <1>1, <1>2, <1>3, <1>4 DEF WorkerStep, TWorker

(* Everybody the program still needs is awake or will be woken.            *)
THEOREM SleepInductive == TSpec => []SleepInv
<1>1. TInit => SleepInv
  <2>. SUFFICES ASSUME TInit PROVE SleepInv
    OBVIOUS
  <2>1. queue = <<MainThread>> /\ MainThread \in Everyone
    BY DEF TInit, Everyone
  <2>2. Lined(queue, Everyone) /\ ToSet(queue) = {MainThread}
    <3>1. queue \in Seq(Everyone) /\ Len(queue) = 1 /\ queue[1] = MainThread /\ DOMAIN queue = {1}
      BY <2>1
    <3>. QED
      BY <3>1 DEF Lined, ToSet
  <2>3. QueueOK
    BY <2>2, PriorityAssumption DEF TInit, QueueOK, Plain
  <2>4. AwakeInv /\ WakeupKept
    BY <2>2 DEF TInit, Init, AwakeInv, WakeupKept, Runnable, MainThread, Workers
  <2>. QED
    BY <2>3, <2>4 DEF SleepInv
<1>2. IInv /\ MadeInv /\ SleepInv /\ [TNext]_allVars => SleepInv'
  <2>. SUFFICES ASSUME IInv, MadeInv, SleepInv, [TNext]_allVars PROVE SleepInv'
    OBVIOUS
  <2>1. CASE MainStep \/ Terminal
    BY <2>1, MainSleeps
  <2>2. ASSUME NEW w \in Workers, WorkerStep(w) PROVE SleepInv'
    BY <2>2, WorkerSleeps
  <2>3. ASSUME NEW t \in Everyone, SliceEnds(t) PROVE SleepInv'
    <3>1. QueueOK' /\ ToSet(queue') = ToSet(queue) /\ UNCHANGED vars
      BY <2>3, TickKeeps DEF SliceEnds, SleepInv
    <3>. QED
      BY <3>1, SameAwake
  <2>4. CASE UNCHANGED allVars
    <3>1. QueueOK' /\ ToSet(queue') = ToSet(queue) /\ UNCHANGED vars
      BY <2>4 DEF allVars, sched, SleepInv, QueueOK
    <3>. QED
      BY <3>1, SameAwake
  <2>. QED
    BY <2>1, <2>2, <2>3, <2>4 DEF TNext
<1>. QED
  BY <1>1, <1>2, Scheduled, Inductive, AllMade, PTL DEF TSpec

(* No wakeup is lost: if a worker sleeps in sem_wait() and the semaphore   *)
(* is not 0, somebody awake is about to take it.                           *)
THEOREM NoLostWakeup == TSpec => []WakeupKept
<1>1. SleepInv => WakeupKept
  BY DEF SleepInv
<1>. QED
  BY <1>1, SleepInductive, PTL

(* Who has a step to take is awake, or somebody awake has it instead.      *)
LEMMA AwakeCan == IInv /\ MadeInv /\ SleepInv => AwakeGoesOn
<1>. SUFFICES ASSUME IInv, MadeInv, SleepInv, mpc # "done"
              PROVE  \/ mpc = "print" /\ ~ Runnable(MainThread)
                     \/ MainCan /\ Runnable(MainThread)
                     \/ \E w \in Workers : WorkerCan(w) /\ Runnable(w)
  BY DEF AwakeGoesOn
<1>1. CASE MainCan
  BY <1>1 DEF SleepInv, AwakeInv, MainCan
<1>2. ASSUME NEW w \in Workers, WorkerCan(w)
      PROVE  \E v \in Workers : WorkerCan(v) /\ Runnable(v)
  <2>1. CASE Runnable(w)
    BY <1>2, <2>1
  <2>2. CASE ~ Runnable(w)
    <3>1. wpc[w] = "wait" /\ sem > 0
      BY <1>2, <2>2 DEF SleepInv, AwakeInv, WorkerCan
    <3>2. PICK v \in Workers : wpc[v] = "wait" /\ Runnable(v)
      BY <2>2, <3>1 DEF SleepInv, WakeupKept
    <3>. QED
      BY <3>1, <3>2 DEF WorkerCan
  <2>. QED
    BY <2>1, <2>2
<1>. QED
  BY <1>1, <1>2, SomebodyCan DEF NeverStuck

(* Whatever the scheduler does, it has a thread to run that has a step to  *)
(* take, unless main waits for its terminal or the program is through.     *)
THEOREM GoesOn == TSpec => []AwakeGoesOn
BY AwakeCan, SleepInductive, Scheduled, Inductive, AllMade, PTL

(* A set of numbers has a least one.                                       *)
LEMMA Least ==
  ASSUME NEW S, S \in SUBSET Nat, S # {}
  PROVE  \E m \in S : \A x \in S : m <= x
<1>. DEFINE Less == OpToRel(<, Nat)
<1>1. PICK m \in S : \A x \in S : <<x, m>> \notin Less
  <2>1. IsWellFoundedOn(Less, Nat)
    BY NatLessThanWellFounded
  <2>. HIDE DEF Less
  <2>. QED
    BY <2>1, WFMin
<1>2. ASSUME NEW x \in S PROVE m <= x
  <2>1. x \in Nat /\ m \in Nat /\ <<x, m>> \notin Less
    BY <1>1
  <2>. QED
    BY <2>1 DEF OpToRel
<1>. QED
  BY <1>2

(* The first of the threads of the highest priority in the queue has a     *)
(* CPU.                                                                    *)
LEMMA FirstRuns ==
  ASSUME QueueOK, NEW t0 \in ToSet(queue)
  PROVE  \E t \in Everyone : Runs(t)
<1>0. /\ queue \in Seq(Everyone) /\ Len(queue) \in Nat /\ DOMAIN queue = 1 .. Len(queue)
      /\ \A n \in 1 .. Len(queue) : queue[n] \in Everyone /\ attr[queue[n]].prio \in 0 .. MaxPrio
  BY DEF QueueOK, Lined
<1>. DEFINE Prio(n) == attr[queue[n]].prio
            Gaps    == {MaxPrio - Prio(n) : n \in 1 .. Len(queue)}
<1>1. PICK n0 \in 1 .. Len(queue) : queue[n0] = t0
  BY <1>0 DEF ToSet
<1>2. PICK h \in 1 .. Len(queue) : \A n \in 1 .. Len(queue) : Prio(n) <= Prio(h)
  <2>1. Gaps \in SUBSET Nat
    BY <1>0, PriorityAssumption
  <2>2. Gaps # {}
    BY <1>1
  <2>3. PICK g \in Gaps : \A x \in Gaps : g <= x
    <3>. HIDE DEF Gaps
    <3>. QED
      BY <2>1, <2>2, Least
  <2>4. PICK h \in 1 .. Len(queue) : g = MaxPrio - Prio(h)
    BY <2>3
  <2>5. ASSUME NEW n \in 1 .. Len(queue) PROVE Prio(n) <= Prio(h)
    <3>1. g <= MaxPrio - Prio(n)
      BY <2>3
    <3>2. Prio(n) \in 0 .. MaxPrio /\ Prio(h) \in 0 .. MaxPrio
      BY <1>0
    <3>. HIDE DEF Prio
    <3>. QED
      BY <2>4, <3>1, <3>2, PriorityAssumption
  <2>. QED
    BY <2>5
<1>. DEFINE Tops == {n \in 1 .. Len(queue) : Prio(n) = Prio(h)}
<1>3. PICK p \in Tops : \A x \in Tops : p <= x
  <2>1. Tops \in SUBSET Nat /\ Tops # {}
    BY <1>2
  <2>. HIDE DEF Tops
  <2>. QED
    BY <2>1, Least
<1>. DEFINE t == queue[p]
<1>4. t \in Everyone /\ Runnable(t)
  BY <1>0, <1>3 DEF Runnable, ToSet
<1>5. ASSUME NEW u \in ToSet(queue), Before(u, t) PROVE FALSE
  <2>1. PICK m \in DOMAIN queue, n \in DOMAIN queue :
          /\ queue[m] = u /\ queue[n] = t
          /\ \/ attr[u].prio > attr[t].prio
             \/ attr[u].prio = attr[t].prio /\ m < n
    BY <1>5 DEF Before
  <2>2. n = p
    BY <1>0, <1>3, <2>1 DEF QueueOK, Lined
  <2>3. Prio(m) <= Prio(h) /\ Prio(p) = Prio(h) /\ Prio(m) = attr[u].prio /\ Prio(p) = attr[t].prio
    BY <1>0, <1>2, <1>3, <2>1
  <2>4. Prio(m) \in Int /\ Prio(h) \in Int
    BY <1>0, <2>1
  <2>5. Prio(m) = Prio(h) /\ m < p
    <3>. HIDE DEF Prio
    <3>. QED
      BY <2>1, <2>2, <2>3, <2>4
  <2>6. m \in Tops
    BY <1>0, <2>1, <2>5
  <2>. QED
    BY <1>0, <1>3, <2>1, <2>5, <2>6
<1>6. {u \in ToSet(queue) : Before(u, t)} = {}
  BY <1>5
<1>7. Cardinality({u \in ToSet(queue) : Before(u, t)}) = 0
  BY <1>6, FS_EmptySet
<1>8. Runs(t)
  BY <1>4, <1>7, SchedulerAssumption DEF Runs
<1>. QED
  BY <1>4, <1>8

(* With sem_wait() the CPUs are never left to threads that get nowhere: a  *)
(* thread with a CPU has a step to take or gives the CPU up.               *)
THEOREM CPUsUsed == TSpec => []NoCPULost
<1>1. IInv /\ MadeInv /\ SleepInv => NoCPULost
  <2>. SUFFICES ASSUME IInv, MadeInv, SleepInv, ~ Spins, mpc # "done"
                PROVE  /\ \/ mpc = "print" /\ ~ Runnable(MainThread)
                          \/ \E t \in Everyone : Runs(t)
                       /\ \A w \in Workers : Runs(w) => WorkerCan(w) \/ (wpc[w] = "wait" /\ sem = 0)
                       /\ Runs(MainThread) => MainCan \/ (mpc = "join" /\ wpc[i + 1] # "exited")
    BY DEF NoCPULost
  <2>1. \/ mpc = "print" /\ ~ Runnable(MainThread)
        \/ \E t \in Everyone : Runs(t)
    BY AwakeCan, FirstRuns DEF AwakeGoesOn, Runnable, SleepInv
  <2>2. ASSUME NEW w \in Workers, Runs(w)
        PROVE  WorkerCan(w) \/ (wpc[w] = "wait" /\ sem = 0)
    BY <2>2 DEF SleepInv, AwakeInv, Runs, WorkerCan, IInv, TypeOK
  <2>3. Runs(MainThread) => MainCan \/ (mpc = "join" /\ wpc[i + 1] # "exited")
    BY DEF MainCan
  <2>. QED
    BY <2>1, <2>2, <2>3
<1>. QED
  BY <1>1, SleepInductive, Scheduled, Inductive, AllMade, PTL

(* Under the scheduler too a step of the program brings one thread nearer  *)
(* to its end and none further from it.                                    *)
THEOREM ScheduledWinds == TSpec => WindsDown
BY Scheduled, Winds, PTL
===========================================================================
