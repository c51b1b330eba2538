-------------------------------- MODULE SSTF --------------------------------
(***************************************************************************)
(* The I/O scheduler of modules/sstf-iosched: every request queue that     *)
(* selects "sstf" has a list of requests, and sstf_dispatch() takes from   *)
(* it the request whose sector is nearest to prev_sector.                  *)
(*                                                                         *)
(* The block layer is external.  It calls the functions of one queue under *)
(* that queue's lock, so calls for one queue exclude each other and calls  *)
(* for two queues do not; prev_sector belongs to the module, not to a      *)
(* queue, and no lock guards it.  The compiler is free to read it once for *)
(* a scan of the list or again for every request.                          *)
(***************************************************************************)
EXTENDS Integers, SequencesExt

CONSTANTS
  Queues,       \* the request queues of the machine's disks
  Sectors,      \* sectors requests start at, naturals
  MaxRequest,   \* bound: requests that arrive in all
  LongMax       \* LONG_MAX of the build (2^31 - 1 on the i686 target)

ASSUME SSTFAssumption == Sectors \subseteq Nat /\ LongMax \in Nat

None == -1      \* "-1 means 'just get the queue's head"

VARIABLES
  prev,         \* prev_sector
  list,         \* list[q]: nd->queue, as records of a request's id and sector
  phase,        \* phase[q]: what the block layer is doing with the queue
  pc,           \* pc[q]: where in sstf_dispatch() the queue's caller is
  at, best,     \* cursor and shortest, as positions in the list
  dist,         \* shortest_distance
  seen,         \* the value of prev_sector the scan last read
  arrived,      \* requests added to any queue so far: the last id given
  served,       \* ids handed to elv_dispatch_sort(), per queue in order
  merged,       \* ids taken out by sstf_merged_requests()
  last,         \* last[q]: sector q dispatched last since its init, or None
  writer        \* the queue whose function last wrote prev_sector

scan == <<pc, at, best, dist, seen>>
vars == <<prev, list, phase, scan, arrived, served, merged, last, writer>>

Init ==
  /\ prev = 0                                   \* a global's initial value
  /\ list = [q \in Queues |-> <<>>]
  /\ phase = [q \in Queues |-> "off"]
  /\ pc = [q \in Queues |-> "idle"]
  /\ at = [q \in Queues |-> 1] /\ best = [q \in Queues |-> 1]
  /\ dist = [q \in Queues |-> 0] /\ seen = [q \in Queues |-> None]
  /\ arrived = 0
  /\ served = [q \in Queues |-> <<>>] /\ merged = {}
  /\ last = [q \in Queues |-> None]
  /\ writer \in Queues

----------------------------------------------------------------------------
(* Sectors as long values.                                                 *)

\* (long)x, and the result of an arithmetic operation on longs.
Long(x) == ((x + LongMax + 1) % (2 * (LongMax + 1))) - (LongMax + 1)

\* sstf_labs_diff().
LabsDiff(x, y) == Long(IF x >= y THEN x - y ELSE y - x)

Pos(q, n) == Long(list[q][n].pos)

----------------------------------------------------------------------------
(* The functions of elevator_sstf that are not sstf_dispatch().            *)

\* sstf_init_queue(), when a queue selects this scheduler.  Without memory it
\* undoes what it has done and the queue keeps its scheduler.
InitQueue(q) ==
  /\ phase[q] = "off"
  /\ phase' = [phase EXCEPT ![q] = "on"]
  /\ prev' = None
  /\ writer' = q
  /\ list' = [list EXCEPT ![q] = <<>>]
  /\ last' = [last EXCEPT ![q] = None]
  /\ UNCHANGED <<scan, arrived, served, merged>>

AddRequest(q) ==
  /\ phase[q] = "on" /\ pc[q] = "idle"
  /\ arrived < MaxRequest
  /\ arrived' = arrived + 1
  /\ \E s \in Sectors :
       list' = [list EXCEPT ![q] = Append(@, [id |-> arrived + 1, pos |-> s])]
  /\ UNCHANGED <<prev, phase, scan, served, merged, last, writer>>

\* sstf_merged_requests(): the block layer has joined a request to the one
\* that ends where it starts.
MergedRequests(q) ==
  /\ phase[q] = "on" /\ pc[q] = "idle"
  /\ \E m, n \in DOMAIN list[q] :
       /\ list[q][n].pos = list[q][m].pos + 1
       /\ list' = [list EXCEPT ![q] = RemoveAt(@, n)]
       /\ merged' = merged \cup {list[q][n].id}
  /\ UNCHANGED <<prev, phase, scan, arrived, served, last, writer>>

\* Another scheduler is selected: from here on nothing is added, and the
\* block layer calls sstf_dispatch() until it returns 0.
StartLeaving(q) ==
  /\ phase[q] = "on" /\ pc[q] = "idle"
  /\ phase' = [phase EXCEPT ![q] = "leaving"]
  /\ UNCHANGED <<prev, list, scan, arrived, served, merged, last, writer>>

\* sstf_exit_queue().
ExitQueue(q) ==
  /\ phase[q] = "drained"
  /\ list[q] = <<>>                      \* BUG_ON() stops the machine otherwise
  /\ prev' = None
  /\ writer' = q
  /\ phase' = [phase EXCEPT ![q] = "off"]
  /\ UNCHANGED <<list, scan, arrived, served, merged, last>>

----------------------------------------------------------------------------
(* sstf_dispatch() and shortest_distance_request().                        *)

\* Faulty variant: 0 is returned as long as prev_sector is unknown.
DispatchNoneEarly(q) ==
  /\ phase[q] \in {"on", "leaving"} /\ pc[q] = "idle"
  /\ list[q] = <<>> \/ prev = None
  /\ phase' = [phase EXCEPT ![q] = IF @ = "leaving" THEN "drained" ELSE @]
  /\ UNCHANGED <<prev, list, scan, arrived, served, merged, last, writer>>

\* No request: sstf_dispatch() returns 0.
DispatchNone(q) ==
  /\ phase[q] \in {"on", "leaving"} /\ pc[q] = "idle"
  /\ list[q] = <<>>
  /\ phase' = [phase EXCEPT ![q] = IF @ = "leaving" THEN "drained" ELSE @]
  /\ UNCHANGED <<prev, list, scan, arrived, served, merged, last, writer>>

\* The first request of the list is the shortest so far, or the one to take.
DispatchFirst(q) ==
  /\ phase[q] \in {"on", "leaving"} /\ pc[q] = "idle"
  /\ list[q] # <<>>
  /\ pc' = [pc EXCEPT ![q] = IF prev > -1 THEN "scan" ELSE "take"]
  /\ at' = [at EXCEPT ![q] = 1]
  /\ best' = [best EXCEPT ![q] = 1]
  /\ dist' = [dist EXCEPT ![q] = IF prev > -1 THEN LabsDiff(prev, Pos(q, 1)) ELSE 0]
  /\ seen' = [seen EXCEPT ![q] = prev]
  /\ UNCHANGED <<prev, list, phase, arrived, served, merged, last, writer>>

\* One iteration of list_for_each_entry().
ScanRequest(q) ==
  /\ pc[q] = "scan"
  /\ at[q] \in DOMAIN list[q]
  /\ \E p \in {seen[q], prev} :
       LET d == LabsDiff(p, Pos(q, at[q]))
       IN  /\ seen' = [seen EXCEPT ![q] = p]
           /\ IF d < dist[q]
                THEN /\ best' = [best EXCEPT ![q] = at[q]]
                     /\ dist' = [dist EXCEPT ![q] = d]
                ELSE UNCHANGED <<best, dist>>
  /\ at' = [at EXCEPT ![q] = @ + 1]
  /\ pc' = [pc EXCEPT ![q] = IF at[q] = Len(list[q]) THEN "take" ELSE "scan"]
  /\ UNCHANGED <<prev, list, phase, arrived, served, merged, last, writer>>

\* Faulty variant: prev_sector is not updated.
TakeStale(q) ==
  /\ pc[q] = "take"
  /\ LET rq == list[q][best[q]]
     IN  /\ last' = [last EXCEPT ![q] = rq.pos]
         /\ served' = [served EXCEPT ![q] = Append(@, rq.id)]
  /\ list' = [list EXCEPT ![q] = RemoveAt(@, best[q])]
  /\ pc' = [pc EXCEPT ![q] = "idle"]
  /\ UNCHANGED <<prev, phase, at, best, dist, seen, arrived, merged, writer>>

\* Faulty variant: no list_del_init() of the request taken.
TakeKeep(q) ==
  /\ pc[q] = "take"
  /\ LET rq == list[q][best[q]]
     IN  /\ prev' = Long(rq.pos)
         /\ writer' = q
         /\ last' = [last EXCEPT ![q] = rq.pos]
         /\ served' = [served EXCEPT ![q] = Append(@, rq.id)]
  /\ pc' = [pc EXCEPT ![q] = "idle"]
  /\ UNCHANGED <<list, phase, at, best, dist, seen, arrived, merged>>

Take(q) ==
  /\ pc[q] = "take"
  /\ LET rq == list[q][best[q]]
     IN  /\ prev' = Long(rq.pos)
         /\ writer' = q
         /\ last' = [last EXCEPT ![q] = rq.pos]
         /\ served' = [served EXCEPT ![q] = Append(@, rq.id)]
  /\ list' = [list EXCEPT ![q] = RemoveAt(@, best[q])]
  /\ pc' = [pc EXCEPT ![q] = "idle"]
  /\ at' = [at EXCEPT ![q] = 1] /\ best' = [best EXCEPT ![q] = 1]
  /\ dist' = [dist EXCEPT ![q] = 0] /\ seen' = [seen EXCEPT ![q] = None]
  /\ UNCHANGED <<phase, arrived, merged>>

Dispatch(q) == DispatchNone(q) \/ DispatchFirst(q) \/ ScanRequest(q) \/ Take(q)

Next == \E q \in Queues :
          \/ InitQueue(q) \/ AddRequest(q) \/ MergedRequests(q)
          \/ StartLeaving(q) \/ ExitQueue(q) \/ Dispatch(q)

Spec == Init /\ [][Next]_vars

\* A call that has begun ends, and a switch to another scheduler goes through.
Fairness ==
  \A q \in Queues : /\ WF_vars(phase[q] = "leaving" /\ Dispatch(q))
                    /\ WF_vars(ExitQueue(q))

FairSpec == Spec /\ Fairness

----------------------------------------------------------------------------
Distance(x, y) == IF x >= y THEN x - y ELSE y - x

\* The request q is about to take is the one nearest to the request q
\* dispatched before it, the earliest of several; the first one of all is the
\* head of the list.
TakesNearest(q) ==
  IF last[q] = None THEN best[q] = 1
  ELSE LET D(n) == Distance(last[q], list[q][n].pos)
       IN  \A n \in DOMAIN list[q] :
             D(best[q]) < D(n) \/ (D(best[q]) = D(n) /\ best[q] <= n)

(* Every dispatch takes the nearest request (sstf-iosched.c:53-58).        *)
NearestTaken == \A q \in Queues : pc[q] = "take" => TakesNearest(q)

\* The sectors q compares, as far as they have one, are below LONG_MAX.
Narrow(q) ==
  last[q] <= LongMax /\ \A n \in DOMAIN list[q] : list[q][n].pos <= LongMax

(* A dispatch takes the nearest request if the sectors fit a long and no   *)
(* other queue has written prev_sector since this one did, whatever was    *)
(* added, merged, switched off and on and dispatched elsewhere before.     *)
NearestUndisturbed ==
  \A q \in Queues : pc[q] = "take" /\ writer = q /\ Narrow(q) => TakesNearest(q)

ids(q) == [n \in DOMAIN list[q] |-> list[q][n].id]
Ids(q) == ToSet(ids(q))

(* No request is lost or served twice: each one that arrived is in one     *)
(* list, once, or was dispatched, once, or merged into another; and the one*)
(* a dispatch has chosen is still in the list when it is taken out.        *)
Conserved ==
  /\ \A q \in Queues : IsInjective(ids(q)) /\ IsInjective(served[q])
  /\ \A q, r \in Queues : q # r => /\ Ids(q) \cap Ids(r) = {}
                                   /\ ToSet(served[q]) \cap ToSet(served[r]) = {}
  /\ \A q, r \in Queues : Ids(q) \cap ToSet(served[r]) = {}
  /\ \A q \in Queues : pc[q] # "idle" => best[q] \in DOMAIN list[q]
  /\ UNION {Ids(q) \cup ToSet(served[q]) : q \in Queues} = (1 .. arrived) \ merged

(* Selecting another scheduler succeeds: the list is drained and left, and *)
(* BUG_ON(!list_empty(&nd->queue)) of sstf_exit_queue() does not fire.     *)
LeavesEventually == \A q \in Queues : phase[q] = "leaving" ~> phase[q] = "off"
============================================================================
