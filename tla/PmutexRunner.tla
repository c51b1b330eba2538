---------------------------- MODULE PmutexRunner ----------------------------
(***************************************************************************)
(* thread_runner built with PMUTEX_H2: pmutex.c in place of the semaphore. *)
(* main() builds the lists of the pmutex while the workers spin on         *)
(* start_ths; then the workers run lock() and unlock() of FilterLock, each *)
(* step only on a CPU that Scheduler gives them.                           *)
(*                                                                         *)
(* pmutex_add() puts each node in front of the last one, and FilterLock    *)
(* numbers threads by the place of their node: the thread created first is *)
(* N, the last one 1.  thread_runner never calls pmutex_destroy(); the     *)
(* model lets main call it after the joins, the one place where it may.    *)
(***************************************************************************)
EXTENDS FilterLock, Priority

CONSTANTS
  Capacity,   \* buff_size - 1
  Requests    \* the <policy> and <priority> lists the program is given

ASSUME PmutexRunnerAssumption == Capacity \in Nat

MainThread == 0
Everyone   == Threads \cup {MainThread}

VARIABLES
  mpc,        \* where in main() the main thread is
  k,          \* local variable i of main()
  wpc,        \* wpc[t]: where in th_gen() thread t is
  start_ths,  \* the flag of that name
  nodes,      \* p->pnode: the owners of its nodes, from the head
  holds,      \* p->onhold: its nodes, each named for the thread it came with
  heap,       \* the cells malloc() has handed out and free() has not got back
  ptr,        \* buffer_ptr - buffer
  buffer,     \* buffer[n], n = 0 .. buff_size - 1
  asked       \* asked[t]: the policy and priority given for thread t

lists   == <<nodes, holds, heap>>
memory  == <<ptr, buffer>>
allVars == <<vars, sched, lists, memory, mpc, k, wpc, start_ths, asked>>

\* The thread main creates when its variable i is n.
Nth(n) == N - n

NUL == 0

PInit ==
  /\ Init
  /\ mpc = "boost" /\ k = 0
  /\ wpc = [t \in Threads |-> "none"]
  /\ start_ths = 0
  /\ nodes = <<>> /\ holds = <<>> /\ heap = {}       \* pmutex_create()
  /\ ptr = 0 /\ buffer = [n \in 0 .. Capacity |-> NUL]
  /\ queue = <<MainThread>>
  /\ attr = [t \in Everyone |-> Plain]
  /\ asked \in Requests

----------------------------------------------------------------------------
(* main().                                                                 *)

\* What main's steps leave alone, unless they say otherwise.
KeepRest == UNCHANGED <<vars, memory, asked>>

Boost ==
  /\ mpc = "boost" /\ mpc' = "print"
  /\ SetPriority(MainThread, Highest)
  /\ KeepRest /\ UNCHANGED <<k, wpc, start_ths, lists>>

Announce ==
  /\ mpc = "print" /\ mpc' = "create"
  /\ KeepRest /\ UNCHANGED <<k, wpc, start_ths, lists, sched>>

\* A new thread has the policy and priority of its creator.
Create ==
  /\ mpc = "create" /\ mpc' = "configure"
  /\ wpc' = [wpc EXCEPT ![Nth(k)] = "ready"]
  /\ attr' = [attr EXCEPT ![Nth(k)] = attr[MainThread]]
  /\ queue' = Woken(Nth(k))
  /\ KeepRest /\ UNCHANGED <<k, start_ths, lists>>

Configure ==
  /\ mpc = "configure" /\ mpc' = "add"
  /\ SetPriority(Nth(k), asked[Nth(k)])
  /\ KeepRest /\ UNCHANGED <<k, wpc, start_ths, lists>>

Cells(t) == {<<"pnode", t>>, <<"list", t>>, <<"hold", t>>}

\* Where the loop that creates the threads goes on.
CreateLoop == IF k + 1 < N THEN "print" ELSE "start"

\* Faulty variant: the workers start when the last one is yet to be added.
AddLate ==
  /\ mpc = "add" /\ mpc' = CreateLoop
  /\ nodes' = <<Nth(k)>> \o nodes
  /\ holds' = <<Nth(k)>> \o holds
  /\ heap' = heap \cup Cells(Nth(k))
  /\ k' = k + 1
  /\ start_ths' = IF k + 2 >= N THEN 1 ELSE 0
  /\ KeepRest /\ UNCHANGED <<wpc, sched>>

\* pmutex_add().
Add ==
  /\ mpc = "add" /\ mpc' = CreateLoop
  /\ nodes' = <<Nth(k)>> \o nodes
  /\ holds' = <<Nth(k)>> \o holds
  /\ heap' = heap \cup Cells(Nth(k))
  /\ k' = k + 1
  /\ KeepRest /\ UNCHANGED <<wpc, start_ths, sched>>

Start ==
  /\ mpc = "start" /\ mpc' = "drop"
  /\ start_ths' = 1
  /\ KeepRest /\ UNCHANGED <<k, wpc, lists, sched>>

Drop ==
  /\ mpc = "drop" /\ mpc' = "join"
  /\ k' = 0
  /\ SetPriority(MainThread, Plain)
  /\ KeepRest /\ UNCHANGED <<wpc, start_ths, lists>>

Join ==
  /\ mpc = "join"
  /\ wpc[Nth(k)] = "exited"
  /\ k' = k + 1
  /\ mpc' = IF k + 1 < N THEN "join" ELSE "joined"
  /\ KeepRest /\ UNCHANGED <<wpc, start_ths, lists, sched>>

JoinBlocks ==
  /\ mpc = "join"
  /\ wpc[Nth(k)] # "exited"
  /\ queue' = Blocked(MainThread)
  /\ KeepRest /\ UNCHANGED <<mpc, k, wpc, start_ths, lists, attr>>

\* Faulty variant: free(plist) alone.
DestroyNodeKeepData ==
  /\ mpc \in {"joined", "destroy"} /\ mpc' = "destroy"
  /\ nodes # <<>>
  /\ heap' = heap \ {<<"list", Head(nodes)>>}
  /\ nodes' = Tail(nodes)
  /\ KeepRest /\ UNCHANGED <<k, wpc, start_ths, holds, sched>>

\* pmutex_destroy(): one turn of each of its loops.
DestroyNode ==
  /\ mpc \in {"joined", "destroy"} /\ mpc' = "destroy"
  /\ nodes # <<>>
  /\ heap' = heap \ {<<"pnode", Head(nodes)>>, <<"list", Head(nodes)>>}
  /\ nodes' = Tail(nodes)
  /\ KeepRest /\ UNCHANGED <<k, wpc, start_ths, holds, sched>>

DestroyHold ==
  /\ mpc = "destroy" /\ nodes = <<>> /\ UNCHANGED mpc
  /\ holds # <<>>
  /\ heap' = heap \ {<<"hold", Head(holds)>>}
  /\ holds' = Tail(holds)
  /\ KeepRest /\ UNCHANGED <<k, wpc, start_ths, nodes, sched>>

\* post_processing() and the end of the program.
Report ==
  /\ mpc = "joined" \/ (mpc = "destroy" /\ nodes = <<>> /\ holds = <<>>)
  /\ mpc' = "done"
  /\ queue' = Blocked(MainThread)
  /\ KeepRest /\ UNCHANGED <<k, wpc, start_ths, lists, attr>>

Main == \/ Boost \/ Announce \/ Create \/ Configure \/ Add \/ Start \/ Drop
        \/ Join \/ JoinBlocks \/ DestroyNode \/ DestroyHold \/ Report

\* printf() to a terminal that is not ready puts main to sleep in it.
TerminalBusy ==
  /\ mpc = "print" /\ Runs(MainThread)
  /\ queue' = Blocked(MainThread)
  /\ UNCHANGED <<vars, lists, memory, mpc, k, wpc, start_ths, attr, asked>>

TerminalReady ==
  /\ mpc = "print" /\ ~ Runnable(MainThread)
  /\ queue' = Woken(MainThread)
  /\ UNCHANGED <<vars, lists, memory, mpc, k, wpc, start_ths, attr, asked>>

----------------------------------------------------------------------------
(* th_gen().                                                               *)

Goto(t, place) == wpc' = [wpc EXCEPT ![t] = place]

\* The end of while(start_ths == 0); its turns change nothing.
Begin(t) ==
  /\ wpc[t] = "ready" /\ start_ths = 1
  /\ Goto(t, "lock")
  /\ UNCHANGED <<vars, memory, sched>>

\* A step of lock(), and its return.
Locking(t) ==
  /\ wpc[t] = "lock"
  /\ Lock(t) \/ InLock(t)
  /\ Goto(t, IF pc'[t] = "critical" THEN "check" ELSE "lock")
  /\ UNCHANGED <<memory, sched>>

Check(t) ==
  /\ wpc[t] = "check"
  /\ Goto(t, IF ptr = Capacity THEN "lastUnlock" ELSE "write")
  /\ UNCHANGED <<vars, memory, sched>>

Write(t) ==
  /\ wpc[t] = "write"
  /\ buffer' = [buffer EXCEPT ![ptr] = t]
  /\ Goto(t, "advance")
  /\ UNCHANGED <<vars, ptr, sched>>

Advance(t) ==
  /\ wpc[t] = "advance"
  /\ ptr' = ptr + 1
  /\ Goto(t, "unlock")
  /\ UNCHANGED <<vars, buffer, sched>>

\* Faulty variant: the early return forgets unlock().
UnlockingNotLast(t) ==
  /\ wpc[t] \in {"unlock", "lastUnlock"}
  /\ IF wpc[t] = "unlock" THEN Unlock(t) /\ Goto(t, "lock")
                          ELSE UNCHANGED vars /\ Goto(t, "exit")
  /\ UNCHANGED <<memory, sched>>

Unlocking(t) ==
  /\ wpc[t] \in {"unlock", "lastUnlock"}
  /\ Unlock(t)
  /\ Goto(t, IF wpc[t] = "unlock" THEN "lock" ELSE "exit")
  /\ UNCHANGED <<memory, sched>>

\* The end of a thread wakes main if main waits to join that thread.
Exit(t) ==
  /\ wpc[t] = "exit"
  /\ Goto(t, "exited")
  /\ queue' = LET rest == Blocked(t)
              IN  IF mpc = "join" /\ Nth(k) = t /\ ~ Runnable(MainThread)
                  THEN Append(rest, MainThread) ELSE rest
  /\ UNCHANGED <<vars, memory, attr>>

Worker(t) ==
  /\ \/ Begin(t) \/ Locking(t) \/ Check(t) \/ Write(t) \/ Advance(t)
     \/ Unlocking(t) \/ Exit(t)
  /\ UNCHANGED <<mpc, k, start_ths, lists, asked>>

----------------------------------------------------------------------------
MainStep == Runs(MainThread) /\ Main

WorkerStep(t) == Runs(t) /\ Worker(t)

SliceEnds(t) ==
  Tick(t) /\ UNCHANGED <<vars, lists, memory, mpc, k, wpc, start_ths, asked>>

PNext == \/ MainStep \/ TerminalBusy \/ TerminalReady
         \/ \E t \in Threads : WorkerStep(t)
         \/ \E t \in Everyone : SliceEnds(t)

PSpec == PInit /\ [][PNext]_allVars

\* A thread that gets a CPU again and again gets its next step done; slices
\* end; terminals drain.
PFairness ==
  /\ SF_allVars(MainStep)
  /\ \A t \in Threads : SF_allVars(WorkerStep(t))
  /\ \A t \in Everyone : WF_allVars(SliceEnds(t))
  /\ WF_allVars(TerminalReady)

PFairSpec == PSpec /\ PFairness

----------------------------------------------------------------------------
\* The threads that may be walking the lists: inside th_gen()'s loop.
Walking == {t \in Threads : wpc[t] \notin {"none", "ready", "exit", "exited"}}

(* A thread that walks the lists finds them complete, with a level for     *)
(* each of its turns, and no cell of them has been given back: no one is   *)
(* added and nothing is freed under a lock() or an unlock().  This is what *)
(* FilterLock takes for granted of N, of the order and of the levels.      *)
ListsReady ==
  Walking # {} => /\ nodes = [n \in Threads |-> n]
                  /\ Len(holds) = N
                  /\ UNION {Cells(t) : t \in Threads} \subseteq heap

(* Every cell malloc() handed out hangs in the list it belongs to, or was  *)
(* freed once: pmutex_destroy() leaves nothing.                            *)
NoLeak ==
  heap = (UNION {{<<"pnode", t>>, <<"list", t>>} : t \in ToSet(nodes)})
           \cup {<<"hold", t>> : t \in ToSet(holds)}

(* The program ends.                                                       *)
Termination == <> (mpc = "done")

----------------------------------------------------------------------------
(* The build with the lock is one of SharedBuffer: its semaphore is 1 when *)
(* no thread is between lock() and unlock().                               *)
MainAt(place) ==
  CASE place = "add"                   -> "configure"
    [] place \in {"joined", "destroy"} -> "report"
    [] OTHER                           -> place

WorkerAt(place) ==
  CASE place \in {"ready", "lock"} -> "wait"
    [] place = "unlock"            -> "post"
    [] place = "lastUnlock"        -> "lastPost"
    [] OTHER                       -> place

token == IF start_ths = 1 /\ \A t \in Threads : pc[t] # "critical" THEN 1 ELSE 0

\* SharedBuffer numbers the workers in the order main creates them.
Renamed(f) == [w \in Threads |-> f[N + 1 - w]]

SB == INSTANCE SharedBuffer WITH
        W      <- N,
        mpc    <- MainAt(mpc),
        i      <- k,
        wpc    <- [w \in Threads |-> WorkerAt(Renamed(wpc)[w])],
        sem    <- token,
        buffer <- [n \in 0 .. Capacity |->
                     IF buffer[n] = NUL THEN NUL ELSE N + 1 - buffer[n]]

(* Every step of the build with the lock is one of the build with the      *)
(* semaphore or a stutter, so the buffer is filled as BufferFill says.     *)
ImplementsSemaphore == SB!Spec
============================================================================
