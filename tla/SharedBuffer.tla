---------------------------- MODULE SharedBuffer ----------------------------
(***************************************************************************)
(* The threads of T3/thread_runner.c and the memory they share, compiled   *)
(* without PMUTEX_H2: the buffer, the pointer into it and the semaphore    *)
(* that guards both.  Nothing is said here of which thread a CPU runs:     *)
(* that is ThreadRunner.                                                   *)
(*                                                                         *)
(* Worker w is the thread with id w - 1 and stands for its name, which no  *)
(* other thread has (PostProcessing says for which ids that is so).        *)
(***************************************************************************)
EXTENDS Integers, Sequences

CONSTANTS W,          \* thread_number
          Capacity    \* buff_size - 1

\* Without a thread post_processing() writes to an allocation of size 0.
ASSUME SharedBufferAssumption == W \in Nat \ {0} /\ Capacity \in Nat

Workers == 1 .. W
NUL     == 0          \* what calloc() leaves in the buffer

VARIABLES
  mpc,        \* where in main() the main thread is
  i,          \* local variable i of main(), of both its loops
  wpc,        \* wpc[w]: where in th_gen() worker w is
  sem,        \* value of sem_buff
  ptr,        \* buffer_ptr - buffer
  buffer      \* buffer[n], n = 0 .. buff_size - 1

vars == <<mpc, i, wpc, sem, ptr, buffer>>

MainPlaces   == {"boost", "print", "create", "configure", "start", "drop", "join",
                 "report", "done"}
WorkerPlaces == {"none", "wait", "check", "write", "advance", "post", "lastPost",
                 "exit", "exited"}

Init ==
  /\ mpc = "boost"
  /\ i = 0
  /\ wpc = [w \in Workers |-> "none"]
  /\ sem = 0
  /\ ptr = 0
  /\ buffer = [n \in 0 .. Capacity |-> NUL]

----------------------------------------------------------------------------
(* main().  Its calls of set_priority() change nothing in this module.     *)

\* Where the loop that creates the threads goes on, with k threads created.
CreateLoop(k) == IF k < W THEN "print" ELSE "start"

Boost ==
  /\ mpc = "boost"
  /\ mpc' = CreateLoop(0)
  /\ UNCHANGED <<i, wpc, sem, ptr, buffer>>

Announce ==
  /\ mpc = "print"
  /\ mpc' = "create"
  /\ UNCHANGED <<i, wpc, sem, ptr, buffer>>

Create ==
  /\ mpc = "create"
  /\ mpc' = "configure"
  /\ wpc' = [wpc EXCEPT ![i + 1] = "wait"]
  /\ UNCHANGED <<i, sem, ptr, buffer>>

Configure ==
  /\ mpc = "configure"
  /\ i' = i + 1
  /\ mpc' = CreateLoop(i + 1)
  /\ UNCHANGED <<wpc, sem, ptr, buffer>>

Start ==
  /\ mpc = "start"
  /\ sem' = sem + 1
  /\ mpc' = "drop"
  /\ UNCHANGED <<i, wpc, ptr, buffer>>

\* Where the loop that joins the threads goes on, with k threads joined.
JoinLoop(k) == IF k < W THEN "join" ELSE "report"

Drop ==
  /\ mpc = "drop"
  /\ i' = 0
  /\ mpc' = JoinLoop(0)
  /\ UNCHANGED <<wpc, sem, ptr, buffer>>

\* Faulty variant: main returns from pthread_join() before the thread ends.
JoinEarly ==
  /\ mpc = "join"
  /\ wpc[i + 1] # "none"
  /\ i' = i + 1
  /\ mpc' = JoinLoop(i + 1)
  /\ UNCHANGED <<wpc, sem, ptr, buffer>>

Join ==
  /\ mpc = "join"
  /\ wpc[i + 1] = "exited"
  /\ i' = i + 1
  /\ mpc' = JoinLoop(i + 1)
  /\ UNCHANGED <<wpc, sem, ptr, buffer>>

\* post_processing() and the end of the program.
Report ==
  /\ mpc = "report"
  /\ mpc' = "done"
  /\ UNCHANGED <<i, wpc, sem, ptr, buffer>>

Main == \/ Boost \/ Announce \/ Create \/ Configure \/ Start
        \/ Drop \/ Join \/ Report

----------------------------------------------------------------------------
(* th_gen().                                                               *)

Goto(w, place) == wpc' = [wpc EXCEPT ![w] = place]

\* A successful sem_wait() or sem_trywait(); a failed one changes nothing.
Take(w) ==
  /\ wpc[w] = "wait"
  /\ sem > 0
  /\ sem' = sem - 1
  /\ Goto(w, "check")
  /\ UNCHANGED <<mpc, i, ptr, buffer>>

Check(w) ==
  /\ wpc[w] = "check"
  /\ Goto(w, IF ptr = Capacity THEN "lastPost" ELSE "write")
  /\ UNCHANGED <<mpc, i, sem, ptr, buffer>>

\* *buffer_ptr = th_name.
Write(w) ==
  /\ wpc[w] = "write"
  /\ buffer' = [buffer EXCEPT ![ptr] = w]
  /\ Goto(w, "advance")
  /\ UNCHANGED <<mpc, i, sem, ptr>>

\* buffer_ptr++.
Advance(w) ==
  /\ wpc[w] = "advance"
  /\ ptr' = ptr + 1
  /\ Goto(w, "post")
  /\ UNCHANGED <<mpc, i, sem, buffer>>

Post(w) ==
  /\ wpc[w] = "post"
  /\ sem' = sem + 1
  /\ Goto(w, "wait")
  /\ UNCHANGED <<mpc, i, ptr, buffer>>

\* Faulty variant: the early return forgets the semaphore.
LastPostForgotten(w) ==
  /\ wpc[w] = "lastPost"
  /\ Goto(w, "exit")
  /\ UNCHANGED <<mpc, i, sem, ptr, buffer>>

\* The sem_post() on the way out.
LastPost(w) ==
  /\ wpc[w] = "lastPost"
  /\ sem' = sem + 1
  /\ Goto(w, "exit")
  /\ UNCHANGED <<mpc, i, ptr, buffer>>

Exit(w) ==
  /\ wpc[w] = "exit"
  /\ Goto(w, "exited")
  /\ UNCHANGED <<mpc, i, sem, ptr, buffer>>

Worker(w) == \/ Take(w) \/ Check(w) \/ Write(w) \/ Advance(w)
             \/ Post(w) \/ LastPost(w) \/ Exit(w)

Next == Main \/ \E w \in Workers : Worker(w)

Spec == Init /\ [][Next]_vars

----------------------------------------------------------------------------
(* Types of the variables.                                                 *)
TypeOK ==
  /\ mpc \in MainPlaces
  /\ i \in 0 .. W
  /\ wpc \in [Workers -> WorkerPlaces]
  /\ sem \in 0 .. 1
  /\ ptr \in 0 .. Capacity
  /\ buffer \in [0 .. Capacity -> Workers \cup {NUL}]
  /\ mpc = "boost" => i = 0
  /\ mpc \in {"print", "create", "configure", "join"} => i < W

Started == mpc \in {"drop", "join", "report", "done"}

\* The workers between a successful wait and the post that follows it.
Inside == {w \in Workers : wpc[w] \in {"check", "write", "advance", "post", "lastPost"}}

(* Once main has posted it, the one token is in the semaphore or with one  *)
(* worker: never lost on a path of th_gen(), never doubled.                *)
OneToken ==
  /\ ~ Started => sem = 0 /\ Inside = {}
  /\ Started => \/ sem = 1 /\ Inside = {}
                \/ sem = 0 /\ \E w \in Workers : Inside = {w}

\* The workers that have written a byte and not yet stepped over it.
Writing == {w \in Workers : wpc[w] = "advance"}

(* The buffer holds names up to the pointer and NULs from there on, except *)
(* for the byte a worker has written and not yet stepped over.             *)
FilledToPtr ==
  \A n \in 0 .. Capacity :
    CASE n < ptr                 -> buffer[n] \in Workers
      [] n = ptr /\ Writing # {} -> buffer[n] \in Writing
      [] OTHER                   -> buffer[n] = NUL

\* A worker past the end check has room, one past the exit check has none.
EndChecked ==
  \A w \in Workers : /\ wpc[w] \in {"write", "advance"} => ptr < Capacity
                     /\ wpc[w] \in {"lastPost", "exit", "exited"} => ptr = Capacity

\* The threads main has joined have exited.
Joined ==
  /\ mpc = "join" => \A w \in 1 .. i : wpc[w] = "exited"
  /\ mpc \in {"report", "done"} => \A w \in Workers : wpc[w] = "exited"

(* The inductive invariant of the shared buffer.                           *)
IInv == TypeOK /\ OneToken /\ FilledToPtr /\ EndChecked /\ Joined

----------------------------------------------------------------------------
(* The bytes stepped over are the abstract buffer: they are filled in      *)
(* order, each once, and reported when there is room for no more.          *)
filled   == [n \in 1 .. ptr |-> buffer[n - 1]]
reported == mpc = "done"

B == INSTANCE BufferFill

FillsBuffer == B!Spec
============================================================================
