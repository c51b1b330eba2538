----------------------- MODULE KernelModulesProofs ------------------------
(***************************************************************************)
(* The elevator, for any number of request queues, and simple_driver, for  *)
(* any number of processes and every length of text.                       *)
(*                                                                         *)
(* A queue that is to be left can be (NeverHeld), after a bounded number   *)
(* of its own steps (LeavingDrains).                                       *)
(***************************************************************************)
EXTENDS SSTF, SimpleDriver, SequenceTheorems, TLAPS

----------------------------------------------------------------------------
(* Arithmetic.                                                             *)

(* A remainder of what is smaller than the divisor.                        *)
LEMMA Remainder == ASSUME NEW a \in Nat, NEW b \in Nat, a < b PROVE a % b = a
OBVIOUS

(* Sectors are numbers.                                                    *)
LEMMA SectorType == \A s \in Sectors : s \in Nat /\ s \in Int
<1> SUFFICES ASSUME NEW s \in Sectors PROVE s \in Nat /\ s \in Int
  OBVIOUS
<1>1. s \in Nat
  BY SSTFAssumption, Zenon
<1> QED  BY <1>1

(* The cast leaves alone what fits a long.                                 *)
LEMMA LongFits == ASSUME NEW x \in Nat, x <= LongMax PROVE Long(x) = x
<1>1. (x + LongMax + 1) % (2 * (LongMax + 1)) = x + LongMax + 1
  BY Remainder, SSTFAssumption, 2 * (LongMax + 1) = LongMax + LongMax + 2
<1> QED  BY <1>1, SSTFAssumption DEF Long

(* Whatever it is given, it makes an integer.                              *)
LEMMA LongType == ASSUME NEW x \in Int PROVE Long(x) \in Int
<1>1. 2 * (LongMax + 1) \in Nat \ {0}
  BY SSTFAssumption
<1> QED  BY <1>1, SSTFAssumption DEF Long

(* The distance of sectors that fit a long is their distance.              *)
LEMMA DiffFits ==
  ASSUME NEW x \in Nat, NEW y \in Nat, x <= LongMax, y <= LongMax
  PROVE  LabsDiff(x, Long(y)) = Distance(x, y)
<1>1. Long(y) = y
  BY LongFits
<1>2. Distance(x, y) \in Nat /\ Distance(x, y) <= LongMax
  BY SSTFAssumption DEF Distance
<1> QED  BY <1>1, <1>2, LongFits DEF LabsDiff, Distance

(* A sequence with one element taken out.                                  *)
LEMMA TakenOut ==
  ASSUME NEW S, NEW s \in Seq(S), NEW k \in DOMAIN s
  PROVE  /\ RemoveAt(s, k) \in Seq(S)
         /\ Len(RemoveAt(s, k)) = Len(s) - 1
         /\ \A m \in 1 .. Len(s) - 1 : RemoveAt(s, k)[m] = IF m < k THEN s[m] ELSE s[m + 1]
<1>1. k \in 1 .. Len(s) /\ Len(s) \in Nat
  OBVIOUS
<1> DEFINE a == SubSeq(s, 1, k - 1)
           b == SubSeq(s, k + 1, Len(s))
<1>2. /\ a \in Seq(S) /\ Len(a) = k - 1
      /\ \A m \in 1 .. k - 1 : a[m] = s[m]
  BY <1>1, SubSeqProperties, \A m \in 1 .. k - 1 : s[m] \in S
<1>3. /\ b \in Seq(S) /\ Len(b) = Len(s) - k
      /\ \A m \in 1 .. Len(s) - k : b[m] = s[k + m]
  <2>1. \A m \in k + 1 .. Len(s) : s[m] \in S
    BY <1>1
  <2>2. /\ b \in Seq(S)
        /\ Len(b) = IF k + 1 <= Len(s) THEN Len(s) - (k + 1) + 1 ELSE 0
        /\ \A m \in 1 .. Len(s) - (k + 1) + 1 : b[m] = s[k + 1 + m - 1]
    BY <1>1, <2>1, SubSeqProperties
  <2> QED  BY <1>1, <2>2
<1> HIDE DEF a, b
<1>4. /\ a \o b \in Seq(S) /\ Len(a \o b) = Len(s) - 1
      /\ \A m \in 1 .. Len(s) - 1 : (a \o b)[m] = IF m <= k - 1 THEN a[m] ELSE b[m - (k - 1)]
  <2>1. Len(a) + Len(b) = Len(s) - 1
    BY <1>1, <1>2, <1>3
  <2>2. /\ a \o b \in Seq(S) /\ Len(a \o b) = Len(a) + Len(b)
        /\ \A m \in 1 .. Len(a) + Len(b) : (a \o b)[m] =
                    IF m <= Len(a) THEN a[m] ELSE b[m - Len(a)]
    BY <1>2, <1>3, ConcatProperties
  <2> QED  BY <1>2, <2>1, <2>2
<1>5. ASSUME NEW m \in 1 .. Len(s) - 1
      PROVE  (a \o b)[m] = IF m < k THEN s[m] ELSE s[m + 1]
  <2>1. CASE m < k
    BY <1>1, <1>2, <1>4, <2>1
  <2>2. CASE m >= k
    <3>1. m - (k - 1) \in 1 .. Len(s) - k /\ k + (m - (k - 1)) = m + 1
      BY <1>1, <2>2
    <3>2. b[m - (k - 1)] = s[m + 1]
      BY <1>3, <3>1
    <3>3. (a \o b)[m] = b[m - (k - 1)]
      <4>1. ~ (m <= k - 1)
        BY <1>1, <2>2
      <4>2. (a \o b)[m] = IF m <= k - 1 THEN a[m] ELSE b[m - (k - 1)]
        BY <1>4
      <4> QED  BY <4>1, <4>2
    <3> QED  BY <1>1, <2>2, <3>2, <3>3
  <2>3. m < k \/ m >= k
    BY <1>1
  <2> QED  BY <2>1, <2>2, <2>3
<1>6. RemoveAt(s, k) = a \o b
  BY DEF RemoveAt, a, b
<1> QED  BY <1>4, <1>5, <1>6

----------------------------------------------------------------------------
(* The invariant.                                                          *)

Request == [id : Nat, pos : Sectors]

TypeOK ==
  /\ prev \in Int /\ writer \in Queues
  /\ list \in [Queues -> Seq(Request)]
  /\ phase \in [Queues -> {"off", "on", "leaving", "drained"}]
  /\ pc \in [Queues -> {"idle", "scan", "take"}]
  /\ at \in [Queues -> Nat \ {0}] /\ best \in [Queues -> Nat \ {0}]
  /\ dist \in [Queues -> Int] /\ seen \in [Queues -> Int]
  /\ arrived \in Nat /\ merged \in SUBSET Nat
  /\ served \in [Queues -> Seq(Nat)]
  /\ last \in [Queues -> Sectors \cup {None}]

\* A queue that nobody uses is empty, and no call is under way for it.
Quiet(q) ==
  /\ phase[q] = "off" => list[q] = <<>>
  /\ phase[q] \in {"off", "drained"} => pc[q] = "idle"
  /\ pc[q] # "idle" => best[q] \in DOMAIN list[q]

\* Where request n may be, in which place of a list or of what was dispatched.
Waits(n, q, k)  == k \in DOMAIN list[q] /\ list[q][k].id = n
Was(n, q, k)    == k \in DOMAIN served[q] /\ served[q][k] = n

\* Every request is in one place, and one that was merged is in none.
Placed ==
  /\ merged \subseteq 1 .. arrived
  /\ \A n \in (1 .. arrived) \ merged : \E q \in Queues : \E k \in Nat : Waits(n, q, k) \/ Was(n, q, k)
  /\ \A q \in Queues, n, k \in Nat : Waits(n, q, k) \/ Was(n, q, k) => n \in (1 .. arrived) \ merged

OnePlace ==
  \A q, r \in Queues, n, k, l \in Nat :
    /\ Waits(n, q, k) /\ Waits(n, r, l) => q = r /\ k = l
    /\ Was(n, q, k) /\ Was(n, r, l) => q = r /\ k = l
    /\ ~ (Waits(n, q, k) /\ Was(n, r, l))

\* How far the k-th request of q is from the last one dispatched.
Far(q, k) == LabsDiff(prev, Pos(q, k))

\* The k-th request of q is the one to take of the first ones up to m.
Best(q, k, m) ==
  \A n \in 1 .. m : Far(q, k) < Far(q, n) \/ (Far(q, k) = Far(q, n) /\ k <= n)

\* What holds of the queue that was the last to write prev_sector.
Sound(q) ==
  writer = q =>
    /\ phase[q] # "off" => prev = IF last[q] = None THEN None ELSE Long(last[q])
    /\ pc[q] = "scan" => /\ prev > -1 /\ seen[q] = prev
                         /\ at[q] \in DOMAIN list[q]
                         /\ best[q] = 1 \/ best[q] < at[q]
                         /\ dist[q] = Far(q, best[q])
                         /\ Best(q, best[q], at[q] - 1)
    /\ pc[q] = "take" => IF prev > -1 THEN Best(q, best[q], Len(list[q])) ELSE best[q] = 1

IInv ==
  /\ TypeOK /\ Placed /\ OnePlace
  /\ \A q \in Queues : Quiet(q) /\ Sound(q)

----------------------------------------------------------------------------
(* Initially there are no requests.                                        *)
LEMMA Starts == Init => IInv
<1> SUFFICES ASSUME Init PROVE IInv
  OBVIOUS
<1> USE DEF Init, None
<1>1. TypeOK
  BY DEF TypeOK
<1>2. Placed /\ OnePlace
  BY DEF Placed, OnePlace, Waits, Was
<1>3. \A q \in Queues : Quiet(q) /\ Sound(q)
  BY DEF Quiet, Sound
<1> QED  BY <1>1, <1>2, <1>3 DEF IInv

----------------------------------------------------------------------------
(* Steps of a queue.                                                       *)

Step(q) == \/ InitQueue(q) \/ AddRequest(q) \/ MergedRequests(q)
           \/ StartLeaving(q) \/ ExitQueue(q) \/ Dispatch(q)

(* The far end of a distance is an integer.                                *)
LEMMA PosType == ASSUME TypeOK, NEW q \in Queues, NEW k \in DOMAIN list[q]
                 PROVE  list[q][k] \in Request /\ Pos(q, k) \in Int
<1>1. list[q][k] \in Request
  BY DEF TypeOK
<1>2. list[q][k].pos \in Sectors
  BY <1>1 DEF Request
<1>3. list[q][k].pos \in Int
  BY <1>2, SectorType, Zenon
<1> QED  BY <1>1, <1>3, LongType DEF Pos

(* A list that is not empty has a first request.                           *)
LEMMA FirstOne == ASSUME TypeOK, NEW q \in Queues, list[q] # <<>> PROVE 1 \in DOMAIN list[q]
BY DEF TypeOK

(* A distance is a number.                                                 *)
LEMMA DiffType == ASSUME NEW x \in Int, NEW y \in Int PROVE LabsDiff(x, y) \in Int
BY LongType DEF LabsDiff

(* Every step of a queue keeps the types.                                  *)
LEMMA TypeKept == ASSUME IInv, NEW q \in Queues, Step(q) PROVE TypeOK'
<1> USE DEF IInv, TypeOK, scan, None
<1>1. CASE InitQueue(q)
  BY <1>1, SMTT(30) DEF InitQueue
<1>2. CASE AddRequest(q)
  <2>1. PICK s \in Sectors : list' = [list EXCEPT ![q] = Append(@, [id |-> arrived + 1, pos |-> s])]
    BY <1>2 DEF AddRequest
  <2>2. [id |-> arrived + 1, pos |-> s] \in Request
    BY DEF Request
  <2>3. list' \in [Queues -> Seq(Request)]
    BY <2>1, <2>2
  <2>4. /\ arrived' \in Nat
        /\ UNCHANGED <<prev, phase, scan, served, merged, last, writer>>
    BY <1>2 DEF AddRequest
  <2> QED  BY <2>3, <2>4
<1>3. CASE MergedRequests(q)
  <2>1. PICK n \in DOMAIN list[q] : /\ list' = [list EXCEPT ![q] = RemoveAt(@, n)]
                                    /\ merged' = merged \cup {list[q][n].id}
    BY <1>3 DEF MergedRequests
  <2>2. list[q][n].id \in Nat
    BY PosType DEF Request
  <2>3. list' \in [Queues -> Seq(Request)]
    BY <2>1, TakenOut
  <2> QED  BY <1>3, <2>1, <2>2, <2>3 DEF MergedRequests
<1>4. CASE StartLeaving(q)
  BY <1>4 DEF StartLeaving
<1>5. CASE ExitQueue(q)
  BY <1>5, SMTT(30) DEF ExitQueue
<1>6. CASE DispatchNone(q)
  BY <1>6 DEF DispatchNone
<1>7. CASE DispatchFirst(q)
  <2>1. 1 \in DOMAIN list[q]
    BY <1>7, FirstOne DEF DispatchFirst
  <2>2. LabsDiff(prev, Pos(q, 1)) \in Int
    BY <2>1, PosType, DiffType
  <2> QED  BY <1>7, <2>2, SMTT(30) DEF DispatchFirst
<1>8. CASE ScanRequest(q)
  <2>1. PICK p \in {seen[q], prev} :
          LET d == LabsDiff(p, Pos(q, at[q]))
          IN  /\ seen' = [seen EXCEPT ![q] = p]
              /\ IF d < dist[q]
                   THEN /\ best' = [best EXCEPT ![q] = at[q]]
                        /\ dist' = [dist EXCEPT ![q] = d]
                   ELSE UNCHANGED <<best, dist>>
    BY <1>8 DEF ScanRequest
  <2>2. p \in Int /\ LabsDiff(p, Pos(q, at[q])) \in Int
    <3>1. p \in Int /\ at[q] \in DOMAIN list[q]
      BY <1>8, <2>1 DEF ScanRequest
    <3> QED  BY <3>1, PosType, DiffType
  <2>3. seen' \in [Queues -> Int] /\ dist' \in [Queues -> Int] /\ best' \in [Queues -> Nat \ {0}]
    <3>1. /\ seen' = [seen EXCEPT ![q] = p]
          /\ \/ best' = best /\ dist' = dist
             \/ /\ best' = [best EXCEPT ![q] = at[q]]
                /\ dist' = [dist EXCEPT ![q] = LabsDiff(p, Pos(q, at[q]))]
      BY <2>1
    <3>2. seen' \in [Queues -> Int]
      BY <2>2, <3>1, SMTT(30)
    <3>3. at[q] \in Nat \ {0}
      OBVIOUS
    <3> DEFINE d == LabsDiff(p, Pos(q, at[q]))
    <3>4. d \in Int
      BY <2>2
    <3> HIDE DEF d
    <3>5. [dist EXCEPT ![q] = d] \in [Queues -> Int]
      BY <3>4, SMTT(30)
    <3>6. [best EXCEPT ![q] = at[q]] \in [Queues -> Nat \ {0}]
      BY <3>3, SMTT(30)
    <3> QED  BY <3>1, <3>2, <3>5, <3>6 DEF d
  <2>4. at' \in [Queues -> Nat \ {0}] /\ pc' \in [Queues -> {"idle", "scan", "take"}]
    <3>1. /\ at' = [at EXCEPT ![q] = @ + 1]
          /\ pc' = [pc EXCEPT ![q] = IF at[q] = Len(list[q]) THEN "take" ELSE "scan"]
      BY <1>8 DEF ScanRequest
    <3> QED  BY <3>1, SMTT(30)
  <2>5. UNCHANGED <<prev, list, phase, arrived, served, merged, last, writer>>
    BY <1>8 DEF ScanRequest
  <2> QED  BY <2>3, <2>4, <2>5
<1>9. CASE Take(q)
  <2>1. list[q][best[q]] \in Request
    BY <1>9, PosType DEF Take, Quiet
  <2>2. /\ list[q][best[q]].pos \in Sectors /\ list[q][best[q]].id \in Nat
        /\ Long(list[q][best[q]].pos) \in Int
    <3>1. list[q][best[q]].pos \in Sectors /\ list[q][best[q]].id \in Nat
      BY <2>1 DEF Request
    <3>2. list[q][best[q]].pos \in Int
      BY <3>1, SectorType, Zenon
    <3> QED  BY <3>1, <3>2, LongType
  <2>3. list' \in [Queues -> Seq(Request)]
    BY <1>9, TakenOut DEF Take, Quiet
  <2>4. served' \in [Queues -> Seq(Nat)]
    BY <1>9, <2>2 DEF Take
  <2>5. prev' \in Int /\ writer' \in Queues /\ last' \in [Queues -> Sectors \cup {None}]
    BY <1>9, <2>2 DEF Take
  <2>6. /\ pc' \in [Queues -> {"idle", "scan", "take"}]
        /\ at' \in [Queues -> Nat \ {0}] /\ best' \in [Queues -> Nat \ {0}]
        /\ dist' \in [Queues -> Int] /\ seen' \in [Queues -> Int]
        /\ UNCHANGED <<phase, arrived, merged>>
    BY <1>9, SMTT(30) DEF Take
  <2> QED  BY <2>3, <2>4, <2>5, <2>6
<1> QED  BY <1>1, <1>2, <1>3, <1>4, <1>5, <1>6, <1>7, <1>8, <1>9 DEF Step, Dispatch

(* Where the other requests are when the m-th one of q is taken out.       *)
LEMMA Shifts ==
  ASSUME TypeOK, NEW q \in Queues, NEW m \in DOMAIN list[q],
         list' = [list EXCEPT ![q] = RemoveAt(@, m)]
  PROVE  \A n, k \in Nat, r \in Queues :
           Waits(n, r, k)' <=> Waits(n, r, IF r = q /\ k >= m THEN k + 1 ELSE k)
<1> SUFFICES ASSUME NEW n \in Nat, NEW k \in Nat, NEW r \in Queues
             PROVE  Waits(n, r, k)' <=> Waits(n, r, IF r = q /\ k >= m THEN k + 1 ELSE k)
  OBVIOUS
<1>1. list[q] \in Seq(Request) /\ list[r] \in Seq(Request) /\ DOMAIN list = Queues
  BY DEF TypeOK
<1>2. CASE r # q
  <2>1. list'[r] = list[r]
    BY <1>1, <1>2
  <2> QED  BY <1>2, <2>1 DEF Waits
<1>3. CASE r = q
  <2>1. list'[q] = RemoveAt(list[q], m)
    BY <1>1
  <2>2. /\ list'[q] \in Seq(Request) /\ Len(list'[q]) = Len(list[q]) - 1
        /\ \A j \in 1 .. Len(list[q]) - 1 :
             list'[q][j] = IF j < m THEN list[q][j] ELSE list[q][j + 1]
    BY <1>1, <2>1, TakenOut
  <2>3. /\ DOMAIN list'[q] = 1 .. Len(list[q]) - 1 /\ DOMAIN list[q] = 1 .. Len(list[q])
        /\ m \in 1 .. Len(list[q]) /\ Len(list[q]) \in Nat
    BY <1>1, <2>2
  <2>4. CASE k < m
    <3>1. k \in DOMAIN list'[q] <=> k \in DOMAIN list[q]
      BY <2>3, <2>4
    <3>2. k \in DOMAIN list'[q] => list'[q][k] = list[q][k]
      BY <2>2, <2>3, <2>4
    <3>3. ~ (k >= m)
      BY <2>3, <2>4
    <3> QED  BY <1>3, <3>1, <3>2, <3>3 DEF Waits
  <2>5. CASE k >= m
    <3>1. k \in DOMAIN list'[q] <=> k + 1 \in DOMAIN list[q]
      BY <2>3, <2>5
    <3>2. k \in DOMAIN list'[q] => list'[q][k] = list[q][k + 1]
      <4>1. ~ (k < m)
        BY <2>3, <2>5
      <4> QED  BY <2>2, <2>3, <4>1
    <3> QED  BY <1>3, <2>5, <3>1, <3>2 DEF Waits
  <2>6. k < m \/ k >= m
    BY <2>3
  <2> QED  BY <2>4, <2>5, <2>6
<1> QED  BY <1>2, <1>3

(* ... and when one is put behind them.                                    *)
LEMMA Appends ==
  ASSUME TypeOK, NEW q \in Queues, NEW e \in Request,
         list' = [list EXCEPT ![q] = Append(@, e)]
  PROVE  \A n, k \in Nat, r \in Queues :
           Waits(n, r, k)' <=> Waits(n, r, k) \/ (r = q /\ k = Len(list[q]) + 1 /\ n = e.id)
<1> SUFFICES ASSUME NEW n \in Nat, NEW k \in Nat, NEW r \in Queues
             PROVE  Waits(n, r, k)' <=>
                      Waits(n, r, k) \/ (r = q /\ k = Len(list[q]) + 1 /\ n = e.id)
  OBVIOUS
<1>1. list[q] \in Seq(Request) /\ DOMAIN list = Queues
  BY DEF TypeOK
<1>2. CASE r # q
  <2>1. list'[r] = list[r]
    BY <1>1, <1>2
  <2> QED  BY <1>2, <2>1 DEF Waits
<1>3. CASE r = q
  <2>1. list'[q] = Append(list[q], e)
    BY <1>1
  <2>2. /\ DOMAIN list'[q] = 1 .. Len(list[q]) + 1 /\ DOMAIN list[q] = 1 .. Len(list[q])
        /\ Len(list[q]) \in Nat
        /\ \A j \in 1 .. Len(list[q]) : list'[q][j] = list[q][j]
        /\ list'[q][Len(list[q]) + 1] = e
    BY <1>1, <2>1
  <2>3. CASE k \in 1 .. Len(list[q])
    BY <1>3, <2>2, <2>3 DEF Waits
  <2>4. CASE k = Len(list[q]) + 1
    BY <1>3, <2>2, <2>4 DEF Waits
  <2>5. CASE k \notin 1 .. Len(list[q]) + 1
    BY <1>3, <2>2, <2>5 DEF Waits
  <2> QED  BY <2>2, <2>3, <2>4, <2>5
<1> QED  BY <1>2, <1>3

(* ... and what was dispatched when one more is.                           *)
LEMMA Serves ==
  ASSUME TypeOK, NEW q \in Queues, NEW i \in Nat,
         served' = [served EXCEPT ![q] = Append(@, i)]
  PROVE  \A n, k \in Nat, r \in Queues :
           Was(n, r, k)' <=> Was(n, r, k) \/ (r = q /\ k = Len(served[q]) + 1 /\ n = i)
<1> SUFFICES ASSUME NEW n \in Nat, NEW k \in Nat, NEW r \in Queues
             PROVE  Was(n, r, k)' <=>
                      Was(n, r, k) \/ (r = q /\ k = Len(served[q]) + 1 /\ n = i)
  OBVIOUS
<1>1. served[q] \in Seq(Nat) /\ DOMAIN served = Queues
  BY DEF TypeOK
<1>2. CASE r # q
  <2>1. served'[r] = served[r]
    BY <1>1, <1>2
  <2> QED  BY <1>2, <2>1 DEF Was
<1>3. CASE r = q
  <2>1. served'[q] = Append(served[q], i)
    BY <1>1
  <2>2. /\ DOMAIN served'[q] = 1 .. Len(served[q]) + 1 /\ DOMAIN served[q] = 1 .. Len(served[q])
        /\ Len(served[q]) \in Nat
        /\ \A j \in 1 .. Len(served[q]) : served'[q][j] = served[q][j]
        /\ served'[q][Len(served[q]) + 1] = i
    BY <1>1, <2>1
  <2>3. CASE k \in 1 .. Len(served[q])
    BY <1>3, <2>2, <2>3 DEF Was
  <2>4. CASE k = Len(served[q]) + 1
    BY <1>3, <2>2, <2>4 DEF Was
  <2>5. CASE k \notin 1 .. Len(served[q]) + 1
    BY <1>3, <2>2, <2>5 DEF Was
  <2> QED  BY <2>2, <2>3, <2>4, <2>5
<1> QED  BY <1>2, <1>3

(* Requests stay where they are as long as no list changes.                *)
LEMMA SamePlaces ==
  ASSUME Placed, OnePlace, UNCHANGED <<list, served, arrived, merged>> PROVE Placed' /\ OnePlace'
<1>1. \A q \in Queues, n, k \in Nat : (Waits(n, q, k)' <=> Waits(n, q, k)) /\ (Was(n, q, k)' <=> Was(n, q, k))
  BY DEF Waits, Was
<1>2. Placed'
  <2>1. arrived' = arrived /\ merged' = merged
    OBVIOUS
  <2>2. \A n \in (1 .. arrived) \ merged : \E q \in Queues : \E k \in Nat : Waits(n, q, k)' \/ Was(n, q, k)'
    BY DEF Placed, Waits, Was
  <2> QED  BY <1>1, <2>1, <2>2 DEF Placed
<1>3. OnePlace'
  BY <1>1 DEF OnePlace
<1> QED  BY <1>2, <1>3

(* A request that comes is a new one.                                      *)
LEMMA AddKeepsPlaces ==
  ASSUME IInv, NEW q \in Queues, AddRequest(q) PROVE Placed' /\ OnePlace'
<1>1. TypeOK /\ Placed /\ OnePlace
  BY DEF IInv
<1>2. arrived \in Nat /\ arrived' = arrived + 1 /\ merged' = merged /\ served' = served
  BY <1>1 DEF TypeOK, AddRequest
<1>3. PICK s \in Sectors : list' = [list EXCEPT ![q] = Append(@, [id |-> arrived + 1, pos |-> s])]
  BY DEF AddRequest
<1> DEFINE e == [id |-> arrived + 1, pos |-> s]
           new == Len(list[q]) + 1
<1>4. e \in Request /\ e.id = arrived + 1
  BY <1>2 DEF Request
<1>5. new \in Nat
  BY <1>1 DEF TypeOK
<1>6. list' = [list EXCEPT ![q] = Append(@, e)]
  BY <1>3
<1> HIDE DEF e, new
<1>7. \A n, k \in Nat, r \in Queues :
        Waits(n, r, k)' <=> Waits(n, r, k) \/ (r = q /\ k = new /\ n = arrived + 1)
  BY <1>1, <1>4, <1>6, Appends DEF new
<1>8. \A n, k \in Nat, r \in Queues : Was(n, r, k)' <=> Was(n, r, k)
  BY <1>2 DEF Was
<1>9. \A n, k \in Nat, r \in Queues : Waits(n, r, k) \/ Was(n, r, k) => n # arrived + 1
  BY <1>1, <1>2 DEF Placed
<1>10. OnePlace'
  BY <1>1, <1>7, <1>8, <1>9 DEF OnePlace
<1>11. (1 .. arrived') \ merged' = ((1 .. arrived) \ merged) \cup {arrived + 1}
  <2>1. 1 .. arrived' = (1 .. arrived) \cup {arrived + 1} /\ arrived + 1 \notin 1 .. arrived
    BY <1>2
  <2> QED  BY <1>1, <1>2, <2>1 DEF Placed
<1>12. \A r \in Queues, n, k \in Nat :
         Waits(n, r, k)' \/ Was(n, r, k)' => n \in (1 .. arrived') \ merged'
  BY <1>1, <1>7, <1>8, <1>11 DEF Placed
<1>13. ASSUME NEW n \in (1 .. arrived') \ merged'
       PROVE  \E r \in Queues : \E k \in Nat : Waits(n, r, k)' \/ Was(n, r, k)'
  <2>1. CASE n = arrived + 1
    <3>1. n \in Nat
      BY <1>2, <2>1
    <3> QED  BY <1>5, <1>7, <2>1, <3>1
  <2>2. CASE n \in (1 .. arrived) \ merged
    <3>1. PICK r \in Queues, k \in Nat : Waits(n, r, k) \/ Was(n, r, k)
      BY <1>1, <2>2 DEF Placed
    <3>2. n \in Nat
      BY <1>2, <2>2
    <3> QED  BY <1>7, <1>8, <3>1, <3>2
  <2> QED  BY <1>11, <2>1, <2>2
<1>14. merged' \subseteq 1 .. arrived'
  BY <1>1, <1>2 DEF Placed
<1> QED  BY <1>10, <1>12, <1>13, <1>14 DEF Placed

(* A request that is taken out is the only one that goes.                  *)
LEMMA OthersStay ==
  ASSUME IInv, NEW q \in Queues, NEW m \in DOMAIN list[q],
         list' = [list EXCEPT ![q] = RemoveAt(@, m)]
  PROVE  /\ list[q][m].id \in (1 .. arrived) \ merged
         /\ \A n, k \in Nat, r \in Queues :
              Waits(n, r, k)' => n # list[q][m].id /\ \E l \in Nat : Waits(n, r, l)
         /\ \A n, k \in Nat, r \in Queues :
              Waits(n, r, k) /\ n # list[q][m].id => \E l \in Nat : Waits(n, r, l)'
         /\ \A n, k, l \in Nat, r, t \in Queues :
              Waits(n, r, k)' /\ Waits(n, t, l)' => r = t /\ k = l
<1>1. TypeOK /\ Placed /\ OnePlace
  BY DEF IInv
<1> DEFINE id == list[q][m].id
<1>2. m \in Nat \ {0} /\ id \in Nat /\ Waits(id, q, m)
  <2>1. m \in 1 .. Len(list[q])
    BY <1>1 DEF TypeOK
  <2>2. list[q][m] \in Request
    BY <1>1, PosType
  <2> QED  BY <2>1, <2>2 DEF Request, Waits
<1> HIDE DEF id
<1>3. \A n, k \in Nat, r \in Queues :
        Waits(n, r, k)' <=> Waits(n, r, IF r = q /\ k >= m THEN k + 1 ELSE k)
  BY <1>1, Shifts
<1>4. id \in (1 .. arrived) \ merged
  BY <1>1, <1>2 DEF Placed
<1>5. ASSUME NEW n \in Nat, NEW k \in Nat, NEW r \in Queues, Waits(n, r, k)'
      PROVE  n # id /\ \E l \in Nat : Waits(n, r, l)
  <2>1. CASE r = q /\ k >= m
    <3>1. Waits(n, r, k + 1) /\ k + 1 \in Nat /\ k + 1 # m
      BY <1>2, <1>3, <1>5, <2>1
    <3> QED  BY <1>1, <1>2, <2>1, <3>1 DEF OnePlace
  <2>2. CASE ~ (r = q /\ k >= m)
    <3>1. Waits(n, r, k) /\ ~ (r = q /\ k = m)
      BY <1>2, <1>3, <1>5, <2>2
    <3> QED  BY <1>1, <1>2, <3>1 DEF OnePlace
  <2> QED  BY <2>1, <2>2
<1>6. ASSUME NEW n \in Nat, NEW k \in Nat, NEW r \in Queues, Waits(n, r, k), n # id
      PROVE  \E l \in Nat : Waits(n, r, l)'
  <2>1. ~ (r = q /\ k = m)
    BY <1>6 DEF Waits, id
  <2>2. CASE r = q /\ k > m
    <3>1. k - 1 \in Nat /\ k - 1 >= m /\ (k - 1) + 1 = k
      BY <1>2, <2>2
    <3>2. Waits(n, r, k - 1)'
      BY <1>3, <1>6, <2>2, <3>1
    <3> QED  BY <3>1, <3>2
  <2>3. CASE ~ (r = q /\ k >= m)
    BY <1>3, <1>6, <2>3
  <2>4. r = q /\ k # m => k > m \/ ~ (k >= m)
    BY <1>2
  <2> QED  BY <2>1, <2>2, <2>3, <2>4
<1>7. ASSUME NEW n \in Nat, NEW k \in Nat, NEW l \in Nat, NEW r \in Queues, NEW t \in Queues,
             Waits(n, r, k)', Waits(n, t, l)'
      PROVE  r = t /\ k = l
  <2> DEFINE sk == IF r = q /\ k >= m THEN k + 1 ELSE k
             sl == IF t = q /\ l >= m THEN l + 1 ELSE l
  <2>1. sk \in Nat /\ sl \in Nat
    OBVIOUS
  <2>2. Waits(n, r, sk) /\ Waits(n, t, sl)
    BY <1>3, <1>7
  <2>3. r = t /\ sk = sl
    <3> HIDE DEF sk, sl
    <3> QED  BY <1>1, <2>1, <2>2 DEF OnePlace
  <2> QED  BY <1>2, <2>3
<1> QED  BY <1>4, <1>5, <1>6, <1>7 DEF id

(* A request that is merged is in no place any more.                       *)
LEMMA MergeKeepsPlaces ==
  ASSUME IInv, NEW q \in Queues, MergedRequests(q) PROVE Placed' /\ OnePlace'
<1>1. TypeOK /\ Placed /\ OnePlace
  BY DEF IInv
<1>2. PICK m \in DOMAIN list[q] : /\ list' = [list EXCEPT ![q] = RemoveAt(@, m)]
                                  /\ merged' = merged \cup {list[q][m].id}
  BY DEF MergedRequests
<1> DEFINE id == list[q][m].id
<1>3. /\ id \in (1 .. arrived) \ merged
      /\ \A n, k \in Nat, r \in Queues :
           Waits(n, r, k)' => n # id /\ \E l \in Nat : Waits(n, r, l)
      /\ \A n, k \in Nat, r \in Queues :
           Waits(n, r, k) /\ n # id => \E l \in Nat : Waits(n, r, l)'
      /\ \A n, k, l \in Nat, r, t \in Queues :
           Waits(n, r, k)' /\ Waits(n, t, l)' => r = t /\ k = l
  BY <1>2, OthersStay
<1>4. arrived \in Nat /\ arrived' = arrived /\ served' = served /\ merged' = merged \cup {id}
  BY <1>1, <1>2 DEF TypeOK, MergedRequests
<1>5. Waits(id, q, m) /\ m \in Nat /\ id \in Nat
  <2>1. m \in Nat /\ id \in Nat
    BY <1>1, <1>3, <1>4, SMTT(30) DEF TypeOK
  <2> QED  BY <2>1 DEF Waits
<1> HIDE DEF id
<1>6. \A n, k \in Nat, r \in Queues : Was(n, r, k)' <=> Was(n, r, k)
  BY <1>4 DEF Was
<1>7. OnePlace'
  BY <1>1, <1>3, <1>6 DEF OnePlace
<1>8. \A n, k \in Nat, r \in Queues : Was(n, r, k) => n # id
  BY <1>1, <1>5 DEF OnePlace
<1>9. \A r \in Queues, n, k \in Nat :
        Waits(n, r, k)' \/ Was(n, r, k)' => n \in (1 .. arrived') \ merged'
  BY <1>1, <1>3, <1>4, <1>6, <1>8 DEF Placed
<1>10. ASSUME NEW n \in (1 .. arrived') \ merged'
       PROVE  \E r \in Queues : \E k \in Nat : Waits(n, r, k)' \/ Was(n, r, k)'
  <2>1. n \in (1 .. arrived) \ merged /\ n # id /\ n \in Nat
    BY <1>4
  <2>2. PICK r \in Queues, k \in Nat : Waits(n, r, k) \/ Was(n, r, k)
    BY <1>1, <2>1 DEF Placed
  <2> QED  BY <1>3, <1>6, <2>1, <2>2
<1>11. merged' \subseteq 1 .. arrived'
  BY <1>1, <1>3, <1>4 DEF Placed
<1> QED  BY <1>7, <1>9, <1>10, <1>11 DEF Placed

(* A request that is taken goes from the list to what was dispatched.      *)
LEMMA TakeKeepsPlaces ==
  ASSUME IInv, NEW q \in Queues, Take(q) PROVE Placed' /\ OnePlace'
<1>1. TypeOK /\ Placed /\ OnePlace /\ Quiet(q)
  BY DEF IInv
<1> DEFINE m   == best[q]
           id  == list[q][m].id
           new == Len(served[q]) + 1
<1>2. m \in DOMAIN list[q] /\ list' = [list EXCEPT ![q] = RemoveAt(@, m)]
  BY <1>1 DEF Take, Quiet
<1>3. /\ id \in (1 .. arrived) \ merged
      /\ \A n, k \in Nat, r \in Queues :
           Waits(n, r, k)' => n # id /\ \E l \in Nat : Waits(n, r, l)
      /\ \A n, k \in Nat, r \in Queues :
           Waits(n, r, k) /\ n # id => \E l \in Nat : Waits(n, r, l)'
      /\ \A n, k, l \in Nat, r, t \in Queues :
           Waits(n, r, k)' /\ Waits(n, t, l)' => r = t /\ k = l
  BY <1>2, OthersStay
<1>4. arrived \in Nat /\ arrived' = arrived /\ merged' = merged
  BY <1>1 DEF TypeOK, Take
<1>5. Waits(id, q, m) /\ m \in Nat /\ id \in Nat
  <2>1. m \in Nat /\ id \in Nat
    BY <1>1, <1>2, <1>3, <1>4, SMTT(30) DEF TypeOK
  <2> QED  BY <1>2, <2>1 DEF Waits
<1>6. served' = [served EXCEPT ![q] = Append(@, id)]
  BY DEF Take
<1>7. new \in Nat
  BY <1>1 DEF TypeOK
<1> HIDE DEF id, m
<1>8. \A n, k \in Nat, r \in Queues :
        Was(n, r, k)' <=> Was(n, r, k) \/ (r = q /\ k = new /\ n = id)
  BY <1>1, <1>5, <1>6, Serves
<1> HIDE DEF new
<1>9. \A n, k \in Nat, r \in Queues : Was(n, r, k) => n # id
  BY <1>1, <1>5 DEF OnePlace
<1>10. OnePlace'
  BY <1>1, <1>3, <1>8, <1>9 DEF OnePlace
<1>11. \A r \in Queues, n, k \in Nat :
         Waits(n, r, k)' \/ Was(n, r, k)' => n \in (1 .. arrived') \ merged'
  BY <1>1, <1>3, <1>4, <1>8 DEF Placed
<1>12. ASSUME NEW n \in (1 .. arrived') \ merged'
       PROVE  \E r \in Queues : \E k \in Nat : Waits(n, r, k)' \/ Was(n, r, k)'
  <2>1. n \in (1 .. arrived) \ merged /\ n \in Nat
    BY <1>4
  <2>2. CASE n = id
    BY <1>5, <1>7, <1>8, <2>2
  <2>3. CASE n # id
    <3>1. PICK r \in Queues, k \in Nat : Waits(n, r, k) \/ Was(n, r, k)
      BY <1>1, <2>1 DEF Placed
    <3> QED  BY <1>3, <1>8, <2>1, <2>3, <3>1
  <2> QED  BY <2>2, <2>3
<1>13. merged' \subseteq 1 .. arrived'
  BY <1>1, <1>4 DEF Placed
<1> QED  BY <1>10, <1>11, <1>12, <1>13 DEF Placed

(* No step loses a request or has one twice.                               *)
LEMMA PlacesKept == ASSUME IInv, NEW q \in Queues, Step(q) PROVE Placed' /\ OnePlace'
<1>1. TypeOK /\ Placed /\ OnePlace /\ Quiet(q)
  BY DEF IInv
<1>2. CASE InitQueue(q)
  <2>1. list' = list
    BY <1>1, <1>2 DEF InitQueue, Quiet, TypeOK
  <2> QED  BY <1>1, <1>2, <2>1, SamePlaces DEF InitQueue
<1>3. CASE AddRequest(q)
  BY <1>3, AddKeepsPlaces
<1>4. CASE MergedRequests(q)
  BY <1>4, MergeKeepsPlaces
<1>5. CASE StartLeaving(q) \/ ExitQueue(q) \/ DispatchNone(q) \/ DispatchFirst(q) \/ ScanRequest(q)
  <2>1. UNCHANGED <<list, served, arrived, merged>>
    BY <1>5 DEF StartLeaving, ExitQueue, DispatchNone, DispatchFirst, ScanRequest
  <2> QED  BY <1>1, <2>1, SamePlaces
<1>6. CASE Take(q)
  BY <1>6, TakeKeepsPlaces
<1> QED  BY <1>2, <1>3, <1>4, <1>5, <1>6 DEF Step, Dispatch

(* Between its calls a queue that is switched off is empty, and what a     *)
(* call has chosen stays in the list until it ends.                        *)
LEMMA QuietKept == ASSUME IInv, NEW q \in Queues, Step(q), NEW r \in Queues PROVE Quiet(r)'
<1>1. TypeOK /\ Quiet(q) /\ Quiet(r)
  BY DEF IInv
<1> USE <1>1 DEF TypeOK, Quiet, scan
<1>2. CASE InitQueue(q)
  BY <1>2 DEF InitQueue
<1>3. CASE AddRequest(q)
  BY <1>3 DEF AddRequest
<1>4. CASE MergedRequests(q)
  BY <1>4 DEF MergedRequests
<1>5. CASE StartLeaving(q)
  BY <1>5 DEF StartLeaving
<1>6. CASE ExitQueue(q)
  BY <1>6 DEF ExitQueue
<1>7. CASE DispatchNone(q)
  BY <1>7 DEF DispatchNone
<1>8. CASE DispatchFirst(q)
  <2>1. 1 \in DOMAIN list[q]
    BY <1>8, FirstOne DEF DispatchFirst
  <2> QED  BY <1>8, <2>1 DEF DispatchFirst
<1>9. CASE ScanRequest(q)
  <2>1. best' = best \/ best' = [best EXCEPT ![q] = at[q]]
    BY <1>9 DEF ScanRequest
  <2> QED  BY <1>9, <2>1 DEF ScanRequest
<1>10. CASE Take(q)
  BY <1>10 DEF Take
<1> QED  BY <1>2, <1>3, <1>4, <1>5, <1>6, <1>7, <1>8, <1>9, <1>10 DEF Step, Dispatch

(* What holds of the last writer of prev_sector does not depend on what    *)
(* other queues do.                                                        *)
LEMMA OthersDoNotDisturb ==
  ASSUME IInv, NEW r \in Queues,
         writer' = r => /\ writer = r /\ prev' = prev
                        /\ phase'[r] # "off" => phase[r] # "off"
                        /\ pc'[r] = pc[r] /\ last'[r] = last[r]
                        /\ pc[r] # "idle" => /\ list'[r] = list[r] /\ at'[r] = at[r]
                                             /\ best'[r] = best[r] /\ dist'[r] = dist[r]
                                             /\ seen'[r] = seen[r]
  PROVE  Sound(r)'
<1> SUFFICES ASSUME writer' = r PROVE Sound(r)'
  BY DEF Sound
<1>1. Sound(r)
  BY DEF IInv
<1> QED  BY <1>1 DEF Sound, Best, Far, Pos

(* One turn of the loop keeps the best of the requests so far.             *)
LEMMA ScanKeepsBest ==
  ASSUME IInv, NEW q \in Queues, ScanRequest(q), writer = q PROVE Sound(q)'
<1>1. TypeOK /\ Sound(q) /\ pc[q] = "scan"
  BY DEF IInv, ScanRequest
<1> DEFINE a == at[q]
           b == best[q]
           d == Far(q, a)
<1>2. /\ prev > -1 /\ seen[q] = prev /\ a \in DOMAIN list[q]
      /\ b = 1 \/ b < a
      /\ dist[q] = Far(q, b) /\ Best(q, b, a - 1)
  BY <1>1 DEF Sound
<1>3. /\ a \in Nat \ {0} /\ b \in Nat \ {0} /\ prev \in Int
      /\ a \in 1 .. Len(list[q]) /\ Len(list[q]) \in Nat
  BY <1>1, <1>2 DEF TypeOK
<1>4. \A n \in DOMAIN list[q] : Far(q, n) \in Int
  BY <1>1, <1>3, PosType, DiffType DEF Far
<1>5. /\ UNCHANGED <<prev, list, writer, last, phase>>
      /\ at'[q] = a + 1
      /\ pc'[q] = IF a = Len(list[q]) THEN "take" ELSE "scan"
  BY <1>1 DEF ScanRequest, TypeOK
<1>6. /\ seen'[q] = prev
      /\ IF d < dist[q] THEN best'[q] = a /\ dist'[q] = d
                        ELSE best'[q] = b /\ dist'[q] = dist[q]
  BY <1>1, <1>2 DEF ScanRequest, TypeOK, Far
<1>7. \A n : Far(q, n)' = Far(q, n)
  BY <1>5 DEF Far, Pos
<1>8. b \in DOMAIN list[q] /\ DOMAIN list[q] = 1 .. Len(list[q])
  BY <1>1, <1>2, <1>3 DEF TypeOK
<1>9. best'[q] = 1 \/ best'[q] < a + 1
  BY <1>2, <1>3, <1>6
<1>10. dist'[q] = Far(q, best'[q])
  BY <1>2, <1>6
<1>11. Best(q, best'[q], a)
  <2> SUFFICES ASSUME NEW n \in 1 .. a
               PROVE  \/ Far(q, best'[q]) < Far(q, n)
                      \/ Far(q, best'[q]) = Far(q, n) /\ best'[q] <= n
    BY DEF Best
  <2>1. Far(q, n) \in Int /\ Far(q, a) \in Int /\ Far(q, b) \in Int
    BY <1>2, <1>3, <1>4, <1>8, SMTT(30)
  <2>2. n # a => Far(q, b) < Far(q, n) \/ (Far(q, b) = Far(q, n) /\ b <= n)
    <3>1. n # a => n \in 1 .. a - 1
      BY <1>3
    <3> QED  BY <1>2, <3>1 DEF Best
  <2> HIDE DEF a, b
  <2>3. CASE Far(q, a) < Far(q, b)
    <3>1. best'[q] = a
      BY <1>2, <1>6, <2>3
    <3> QED  BY <1>3, <2>1, <2>2, <2>3, <3>1
  <2>4. CASE ~ (Far(q, a) < Far(q, b))
    <3>1. best'[q] = b
      BY <1>2, <1>6, <2>4
    <3>2. n = a => Far(q, b) < Far(q, n) \/ (Far(q, b) = Far(q, n) /\ b <= n)
      BY <1>2, <1>3, <2>1, <2>4
    <3> QED  BY <2>2, <3>1, <3>2
  <2> QED  BY <2>3, <2>4
<1>12. CASE a = Len(list[q])
  <2>1. pc'[q] = "take"
    BY <1>5, <1>12
  <2>2. Best(q, best[q], Len(list[q]))'
    BY <1>5, <1>11, <1>12 DEF Best, Far, Pos
  <2> QED  BY <1>1, <1>2, <1>5, <2>1, <2>2 DEF Sound
<1>13. CASE a # Len(list[q])
  <2>1. pc'[q] = "scan" /\ at'[q] \in DOMAIN list'[q] /\ at'[q] - 1 = a
    BY <1>3, <1>5, <1>8, <1>13
  <2>2. Best(q, best'[q], a) /\ dist'[q] = Far(q, best'[q])
    BY <1>10, <1>11
  <2>3. Best(q, best[q], at[q] - 1)' /\ (dist[q] = Far(q, best[q]))'
    BY <1>5, <2>1, <2>2 DEF Best, Far, Pos
  <2> QED  BY <1>1, <1>2, <1>5, <1>6, <1>9, <2>1, <2>3 DEF Sound
<1> QED  BY <1>12, <1>13

(* Steps of a queue leave alone what other queues have.                    *)
LEMMA Others ==
  ASSUME IInv, NEW q \in Queues, Step(q), NEW r \in Queues, r # q
  PROVE  /\ phase'[r] = phase[r] /\ pc'[r] = pc[r] /\ last'[r] = last[r]
         /\ list'[r] = list[r] /\ at'[r] = at[r] /\ best'[r] = best[r]
         /\ dist'[r] = dist[r] /\ seen'[r] = seen[r]
         /\ writer' = r => writer = r /\ prev' = prev
<1> USE DEF IInv, TypeOK, scan
<1>1. CASE InitQueue(q)
  BY <1>1 DEF InitQueue
<1>2. CASE AddRequest(q)
  BY <1>2 DEF AddRequest
<1>3. CASE MergedRequests(q)
  BY <1>3 DEF MergedRequests
<1>4. CASE StartLeaving(q)
  BY <1>4 DEF StartLeaving
<1>5. CASE ExitQueue(q)
  BY <1>5 DEF ExitQueue
<1>6. CASE DispatchNone(q)
  BY <1>6 DEF DispatchNone
<1>7. CASE DispatchFirst(q)
  BY <1>7 DEF DispatchFirst
<1>8. CASE ScanRequest(q)
  <2>1. /\ best' = best \/ best' = [best EXCEPT ![q] = at[q]]
        /\ \E d : dist' = dist \/ dist' = [dist EXCEPT ![q] = d]
        /\ \E p : seen' = [seen EXCEPT ![q] = p]
    BY <1>8 DEF ScanRequest
  <2> QED  BY <1>8, <2>1 DEF ScanRequest
<1>9. CASE Take(q)
  BY <1>9 DEF Take
<1> QED  BY <1>1, <1>2, <1>3, <1>4, <1>5, <1>6, <1>7, <1>8, <1>9 DEF Step, Dispatch

(* A dispatch begins with the first request.                               *)
LEMMA FirstIsBest ==
  ASSUME IInv, NEW q \in Queues, DispatchFirst(q), writer = q PROVE Sound(q)'
<1>1. TypeOK /\ Sound(q) /\ 1 \in DOMAIN list[q]
  BY FirstOne DEF IInv, DispatchFirst
<1>2. /\ at'[q] = 1 /\ best'[q] = 1 /\ seen'[q] = prev
      /\ pc'[q] = IF prev > -1 THEN "scan" ELSE "take"
      /\ prev > -1 => dist'[q] = Far(q, 1)
      /\ UNCHANGED <<prev, list, phase, last, writer>>
  BY <1>1 DEF DispatchFirst, TypeOK, Far
<1>3. Best(q, best[q], at[q] - 1)'
  BY <1>2 DEF Best
<1>4. prev > -1 => (dist[q] = Far(q, best[q]))'
  BY <1>2 DEF Far, Pos
<1> QED  BY <1>1, <1>2, <1>3, <1>4 DEF Sound

(* Every step keeps what holds of a queue that was the last to write.      *)
LEMMA UndisturbedKept ==
  ASSUME IInv, NEW q \in Queues, Step(q), NEW r \in Queues PROVE Sound(r)'
<1>1. TypeOK /\ Sound(q) /\ Quiet(q)
  BY DEF IInv
<1>2. CASE r # q
  BY <1>2, Others, OthersDoNotDisturb
<1>3. CASE r = q
  <2>1. CASE InitQueue(q)
    <3>1. prev' = None /\ last'[q] = None /\ pc'[q] = "idle"
      BY <1>1, <2>1 DEF InitQueue, TypeOK, Quiet, scan
    <3> QED  BY <1>3, <3>1 DEF Sound
  <2>2. CASE AddRequest(q) \/ MergedRequests(q) \/ StartLeaving(q) \/ DispatchNone(q)
    <3>1. /\ UNCHANGED <<prev, writer, pc, last>> /\ pc[q] = "idle"
          /\ phase'[q] # "off" => phase[q] # "off"
      BY <1>1, <2>2 DEF AddRequest, MergedRequests, StartLeaving, DispatchNone, scan, TypeOK
    <3> QED  BY <1>3, <3>1, OthersDoNotDisturb
  <2>3. CASE ExitQueue(q)
    <3>1. phase'[q] = "off" /\ pc'[q] = "idle"
      BY <1>1, <2>3 DEF ExitQueue, TypeOK, Quiet, scan
    <3> QED  BY <1>3, <3>1 DEF Sound
  <2>4. CASE DispatchFirst(q)
    <3>1. writer' = writer
      BY <2>4 DEF DispatchFirst
    <3> QED  BY <1>3, <2>4, <3>1, FirstIsBest DEF Sound
  <2>5. CASE ScanRequest(q)
    <3>1. writer' = writer
      BY <2>5 DEF ScanRequest
    <3> QED  BY <1>3, <2>5, <3>1, ScanKeepsBest DEF Sound
  <2>6. CASE Take(q)
    <3>1. list[q][best[q]] \in Request
      BY <1>1, <2>6, PosType DEF Take, Quiet
    <3>2. list[q][best[q]].pos # None
      BY <3>1, SectorType DEF Request, None
    <3>3. /\ prev' = Long(last'[q]) /\ last'[q] = list[q][best[q]].pos
          /\ pc'[q] = "idle"
      BY <1>1, <2>6 DEF Take, TypeOK
    <3> QED  BY <1>3, <3>2, <3>3 DEF Sound
  <2> QED  BY <2>1, <2>2, <2>3, <2>4, <2>5, <2>6 DEF Step, Dispatch
<1> QED  BY <1>2, <1>3

(* Nothing changes when no variable does.                                  *)
LEMMA StuttersKeep == IInv /\ UNCHANGED vars => IInv'
<1> SUFFICES ASSUME IInv, UNCHANGED vars PROVE IInv'
  OBVIOUS
<1> USE DEF IInv, vars, scan
<1>1. TypeOK'
  BY DEF TypeOK
<1>2. Placed' /\ OnePlace'
  BY SamePlaces
<1>3. \A q \in Queues : Quiet(q)'
  BY DEF Quiet
<1>4. \A q \in Queues : Sound(q)'
  BY OthersDoNotDisturb
<1> QED  BY <1>1, <1>2, <1>3, <1>4

----------------------------------------------------------------------------
(* The theorems.                                                           *)

(* For every number of queues and of requests the invariant holds.         *)
THEOREM Inductive == Spec => []IInv
<1>1. IInv /\ [Next]_vars => IInv'
  <2> SUFFICES ASSUME IInv, [Next]_vars PROVE IInv'
    OBVIOUS
  <2>1. ASSUME NEW q \in Queues, Step(q) PROVE IInv'
    BY <2>1, TypeKept, PlacesKept, QuietKept, UndisturbedKept DEF IInv
  <2> QED  BY <2>1, StuttersKeep DEF Next, Step
<1> QED  BY Starts, <1>1, PTL DEF Spec

(* No request is lost or dispatched twice, and what a dispatch has chosen  *)
(* is in the list when it is taken out.                                    *)
THEOREM Conserves == Spec => []Conserved
<1>1. IInv => Conserved
  <2> SUFFICES ASSUME IInv PROVE Conserved
    OBVIOUS
  <2>1. TypeOK /\ Placed /\ OnePlace /\ \A q \in Queues : Quiet(q)
    BY DEF IInv
  <2>2. \A q \in Queues : /\ DOMAIN ids(q) = DOMAIN list[q]
                          /\ \A k \in DOMAIN list[q] : ids(q)[k] = list[q][k].id
    BY DEF ids
  <2>3. \A q \in Queues : \A k \in DOMAIN list[q] :
          k \in Nat /\ list[q][k].id \in Nat /\ Waits(list[q][k].id, q, k)
    <3> SUFFICES ASSUME NEW q \in Queues, NEW k \in DOMAIN list[q]
                 PROVE  k \in Nat /\ list[q][k].id \in Nat /\ Waits(list[q][k].id, q, k)
      OBVIOUS
    <3>1. list[q][k] \in Request
      BY <2>1, PosType
    <3> QED  BY <2>1, <3>1, SMTT(30) DEF TypeOK, Request, Waits
  <2>4. \A q \in Queues : \A k \in DOMAIN served[q] :
          k \in Nat /\ served[q][k] \in Nat /\ Was(served[q][k], q, k)
    BY <2>1, SMTT(30) DEF TypeOK, Was
  <2>5. \A q \in Queues : \A n : n \in Ids(q) <=> \E k \in Nat : n \in Nat /\ Waits(n, q, k)
    BY <2>2, <2>3 DEF Ids, ToSet, Waits
  <2>6. \A q \in Queues : \A n : n \in ToSet(served[q]) <=> \E k \in Nat : n \in Nat /\ Was(n, q, k)
    BY <2>4 DEF ToSet, Was
  <2>7. \A q \in Queues : IsInjective(ids(q)) /\ IsInjective(served[q])
    <3> SUFFICES ASSUME NEW q \in Queues PROVE IsInjective(ids(q)) /\ IsInjective(served[q])
      OBVIOUS
    <3>1. ASSUME NEW k \in DOMAIN ids(q), NEW l \in DOMAIN ids(q), ids(q)[k] = ids(q)[l]
          PROVE  k = l
      <4>1. /\ k \in Nat /\ l \in Nat /\ ids(q)[k] \in Nat
            /\ Waits(ids(q)[k], q, k) /\ Waits(ids(q)[k], q, l)
        BY <2>2, <2>3, <3>1
      <4> QED  BY <2>1, <4>1 DEF OnePlace
    <3>2. ASSUME NEW k \in DOMAIN served[q], NEW l \in DOMAIN served[q],
                 served[q][k] = served[q][l]
          PROVE  k = l
      <4>1. /\ k \in Nat /\ l \in Nat /\ served[q][k] \in Nat
            /\ Was(served[q][k], q, k) /\ Was(served[q][k], q, l)
        BY <2>4, <3>2
      <4> QED  BY <2>1, <4>1 DEF OnePlace
    <3> QED  BY <3>1, <3>2 DEF IsInjective
  <2>8. \A q, r \in Queues : q # r => /\ Ids(q) \cap Ids(r) = {}
                                      /\ ToSet(served[q]) \cap ToSet(served[r]) = {}
    BY <2>1, <2>5, <2>6 DEF OnePlace
  <2>9. \A q, r \in Queues : Ids(q) \cap ToSet(served[r]) = {}
    BY <2>1, <2>5, <2>6 DEF OnePlace
  <2>10. \A q \in Queues : pc[q] # "idle" => best[q] \in DOMAIN list[q]
    BY <2>1 DEF Quiet
  <2>11. UNION {Ids(q) \cup ToSet(served[q]) : q \in Queues} = (1 .. arrived) \ merged
    <3>1. ASSUME NEW n \in (1 .. arrived) \ merged
          PROVE  \E q \in Queues : n \in Ids(q) \cup ToSet(served[q])
      <4>1. PICK q \in Queues, k \in Nat : Waits(n, q, k) \/ Was(n, q, k)
        BY <2>1 DEF Placed
      <4>2. n \in Nat
        BY <2>1 DEF TypeOK
      <4> QED  BY <2>5, <2>6, <4>1, <4>2
    <3>2. ASSUME NEW q \in Queues, NEW n \in Ids(q) \cup ToSet(served[q])
          PROVE  n \in (1 .. arrived) \ merged
      <4>1. PICK k \in Nat : n \in Nat /\ (Waits(n, q, k) \/ Was(n, q, k))
        BY <2>5, <2>6
      <4> QED  BY <2>1, <4>1 DEF Placed
    <3> QED  BY <3>1, <3>2
  <2> QED  BY <2>7, <2>8, <2>9, <2>10, <2>11 DEF Conserved
<1> QED  BY Inductive, <1>1, PTL

(* A queue that was the last to write prev_sector takes the nearest        *)
(* request, if the sectors fit a long.                                     *)
THEOREM Nearest == Spec => []NearestUndisturbed
<1>1. IInv => NearestUndisturbed
  <2> SUFFICES ASSUME IInv, NEW q \in Queues, pc[q] = "take", writer = q, Narrow(q)
               PROVE  TakesNearest(q)
    BY DEF NearestUndisturbed
  <2>1. TypeOK /\ Quiet(q) /\ Sound(q)
    BY DEF IInv
  <2>2. /\ prev = IF last[q] = None THEN None ELSE Long(last[q])
        /\ IF prev > -1 THEN Best(q, best[q], Len(list[q])) ELSE best[q] = 1
    BY <2>1 DEF Quiet, Sound
  <2>3. CASE last[q] = None
    <3>1. best[q] = 1
      BY <2>2, <2>3 DEF None
    <3> QED  BY <2>3, <3>1 DEF TakesNearest
  <2>4. CASE last[q] # None
    <3>1. last[q] \in Sectors
      BY <2>1, <2>4 DEF TypeOK
    <3>2. last[q] \in Nat /\ last[q] <= LongMax
      BY <3>1, SectorType DEF Narrow
    <3>3. prev = last[q] /\ prev > -1
      BY <2>2, <2>4, <3>2, LongFits
    <3>4. ASSUME NEW n \in DOMAIN list[q] PROVE Far(q, n) = Distance(last[q], list[q][n].pos)
      <4>1. list[q][n] \in Request
        BY <2>1, PosType
      <4>2. list[q][n].pos \in Sectors
        BY <4>1 DEF Request
      <4>3. list[q][n].pos \in Nat /\ list[q][n].pos <= LongMax
        BY <4>2, SectorType DEF Narrow
      <4> QED  BY <3>2, <3>3, <4>3, DiffFits DEF Far, Pos
    <3>5. best[q] \in DOMAIN list[q] /\ DOMAIN list[q] = 1 .. Len(list[q])
      BY <2>1 DEF Quiet, TypeOK
    <3>6. Best(q, best[q], Len(list[q]))
      BY <2>2, <3>3
    <3> QED  BY <2>4, <3>4, <3>5, <3>6 DEF TakesNearest, Best
  <2> QED  BY <2>3, <2>4
<1> QED  BY Inductive, <1>1, PTL

----------------------------------------------------------------------------
(* Leaving the scheduler.                                                  *)

\* How many steps of its own the call of sstf_dispatch() for q still takes.
CallLeft(q) == CASE pc[q] = "idle" -> Len(list[q]) + 2
                 [] pc[q] = "scan" -> Len(list[q]) + 2 - at[q]
                 [] pc[q] = "take" -> 1

\* The cursor is in the list while a scan goes on, and what was drained is
\* empty.
DrainInv(q) == /\ pc[q] = "scan" => at[q] \in DOMAIN list[q]
               /\ phase[q] = "drained" => list[q] = <<>>

\* A queue on its way out can do the next step of a dispatch, and one that is
\* drained passes the BUG_ON() of sstf_exit_queue().
CanLeave ==
  \A q \in Queues :
    /\ phase[q] = "leaving" => \/ pc[q] = "idle"
                               \/ pc[q] = "scan" /\ at[q] \in DOMAIN list[q]
                               \/ pc[q] = "take" /\ best[q] \in DOMAIN list[q]
    /\ phase[q] = "drained" => list[q] = <<>>

\* While a queue is on its way out no step makes its list longer or takes it
\* back into use, and its own steps shorten the call or the list.
Drains ==
  [][\A q \in Queues : phase[q] = "leaving" =>
       \/ phase'[q] = "drained" /\ Dispatch(q)
       \/ /\ phase'[q] = "leaving"
          /\ \/ ~ Dispatch(q) /\ UNCHANGED <<list[q], pc[q], at[q]>>
             \/ Len(list'[q]) < Len(list[q])
             \/ list'[q] = list[q] /\ CallLeft(q)' \in Nat /\ CallLeft(q)' < CallLeft(q)]_vars

(* A step keeps a cursor in its list and a drained list empty.             *)
LEMMA DrainKept ==
  ASSUME IInv, NEW q \in Queues, DrainInv(q), NEW r \in Queues, DrainInv(r), Step(q)
  PROVE  DrainInv(r)'
<1>1. TypeOK /\ Quiet(q) /\ Quiet(r)
  BY DEF IInv
<1> USE <1>1 DEF TypeOK, Quiet, DrainInv, scan
<1>2. CASE InitQueue(q)
  BY <1>2 DEF InitQueue
<1>3. CASE AddRequest(q)
  BY <1>3 DEF AddRequest
<1>4. CASE MergedRequests(q)
  BY <1>4 DEF MergedRequests
<1>5. CASE StartLeaving(q) \/ ExitQueue(q) \/ DispatchNone(q)
  BY <1>5 DEF StartLeaving, ExitQueue, DispatchNone
<1>6. CASE DispatchFirst(q)
  <2>1. 1 \in DOMAIN list[q]
    BY <1>6, FirstOne DEF DispatchFirst
  <2> QED  BY <1>6, <2>1 DEF DispatchFirst
<1>7. CASE ScanRequest(q)
  <2>1. /\ pc[q] = "scan" /\ at[q] \in DOMAIN list[q] /\ at' = [at EXCEPT ![q] = @ + 1]
        /\ pc' = [pc EXCEPT ![q] = IF at[q] = Len(list[q]) THEN "take" ELSE "scan"]
        /\ UNCHANGED <<list, phase>>
    BY <1>7 DEF ScanRequest
  <2>2. /\ Len(list[q]) \in Nat /\ DOMAIN list[q] = 1 .. Len(list[q])
        /\ at[q] \in 1 .. Len(list[q])
    <3>1. list[q] \in Seq(Request)
      OBVIOUS
    <3> HIDE DEF Request
    <3> QED  BY <2>1, <3>1, LenProperties
  <2>3. at[q] # Len(list[q]) => at[q] + 1 \in 1 .. Len(list[q])
    <3> DEFINE a == at[q]
               n == Len(list[q])
    <3>1. n \in Nat /\ a \in 1 .. n
      BY <2>2
    <3> HIDE DEF a, n
    <3>2. a # n => a + 1 \in 1 .. n
      BY <3>1
    <3> QED  BY <3>2 DEF a, n
  <2> QED  BY <2>1, <2>2, <2>3
<1>8. CASE Take(q)
  BY <1>8 DEF Take
<1> QED  BY <1>2, <1>3, <1>4, <1>5, <1>6, <1>7, <1>8 DEF Step, Dispatch

(* Both hold in every state.                                               *)
LEMMA DrainInductive == Spec => [](IInv /\ \A q \in Queues : DrainInv(q))
<1>1. Init => \A q \in Queues : DrainInv(q)
  BY DEF Init, DrainInv
<1>2. IInv /\ (\A q \in Queues : DrainInv(q)) /\ [Next]_vars =>
        (\A q \in Queues : DrainInv(q))'
  <2>1. UNCHANGED vars => \A q \in Queues : DrainInv(q)' <=> DrainInv(q)
    BY DEF vars, scan, DrainInv
  <2> QED  BY <2>1, DrainKept DEF Next, Step
<1> QED  BY <1>1, <1>2, Inductive, PTL DEF Spec

(* Nothing stops a queue from being left: its dispatch can go on until the *)
(* list is empty, which is what sstf_exit_queue() insists on.              *)
THEOREM NeverHeld == Spec => []CanLeave
<1>1. IInv /\ (\A q \in Queues : DrainInv(q)) => CanLeave
  BY DEF IInv, TypeOK, Quiet, DrainInv, CanLeave
<1> QED  BY <1>1, DrainInductive, PTL

(* A dispatch shortens the call, or the list.                              *)
LEMMA DispatchShortens ==
  ASSUME IInv, NEW q \in Queues, DrainInv(q), phase[q] = "leaving", Dispatch(q)
  PROVE  \/ phase'[q] = "drained"
         \/ /\ phase'[q] = "leaving"
            /\ \/ Len(list'[q]) < Len(list[q])
               \/ list'[q] = list[q] /\ CallLeft(q)' \in Nat /\ CallLeft(q)' < CallLeft(q)
<1>1. TypeOK /\ Quiet(q) /\ Len(list[q]) \in Nat /\ list[q] \in Seq(Request)
  <2>1. TypeOK /\ Quiet(q)
    BY DEF IInv
  <2>2. list[q] \in Seq(Request)
    BY <2>1 DEF TypeOK
  <2> HIDE DEF Request
  <2> QED  BY <2>1, <2>2, LenProperties
<1> USE DEF CallLeft
<1>2. CASE DispatchNone(q)
  BY <1>1, <1>2 DEF DispatchNone, TypeOK
<1>3. CASE DispatchFirst(q)
  <2>1. /\ pc[q] = "idle" /\ pc'[q] \in {"scan", "take"} /\ at'[q] = 1
        /\ list' = list /\ phase' = phase
    BY <1>1, <1>3 DEF DispatchFirst, TypeOK
  <2> QED  BY <1>1, <2>1
<1>4. CASE ScanRequest(q)
  <2>1. /\ pc[q] = "scan" /\ at[q] \in DOMAIN list[q] /\ at'[q] = at[q] + 1
        /\ pc'[q] = IF at[q] = Len(list[q]) THEN "take" ELSE "scan"
        /\ list' = list /\ phase' = phase
    BY <1>1, <1>4 DEF ScanRequest, TypeOK
  <2>2. at[q] \in 1 .. Len(list[q])
    BY <1>1, <2>1
  <2>3. CASE at[q] = Len(list[q])
    BY <1>1, <2>1, <2>2, <2>3
  <2>4. CASE at[q] # Len(list[q])
    <3>1. pc'[q] = "scan" /\ list'[q] = list[q]
      BY <2>1, <2>4
    <3>2. /\ CallLeft(q) = Len(list[q]) + 2 - at[q]
          /\ CallLeft(q)' = Len(list[q]) + 2 - (at[q] + 1)
      BY <2>1, <3>1
    <3>3. at[q] + 1 \in 1 .. Len(list[q])
      BY <1>1, <2>2, <2>4
    <3>4. CallLeft(q)' \in Nat /\ CallLeft(q)' < CallLeft(q)
      <4> HIDE DEF CallLeft
      <4> QED  BY <1>1, <2>2, <3>2, <3>3
    <3> QED  BY <2>1, <3>1, <3>4
  <2> QED  BY <2>3, <2>4
<1>5. CASE Take(q)
  <2>1. /\ best[q] \in DOMAIN list[q] /\ phase' = phase
        /\ list'[q] = RemoveAt(list[q], best[q])
    BY <1>1, <1>5 DEF Take, TypeOK, Quiet
  <2>2. Len(list'[q]) = Len(list[q]) - 1
    BY <1>1, <2>1, TakenOut
  <2> QED  BY <1>1, <2>1, <2>2
<1> QED  BY <1>2, <1>3, <1>4, <1>5 DEF Dispatch

(* Any other step leaves a queue on its way out as it is.                  *)
LEMMA OthersLeaveAlone ==
  ASSUME IInv, NEW q \in Queues, phase[q] = "leaving", NEW r \in Queues, Step(r),
         ~ (r = q /\ Dispatch(q))
  PROVE  phase'[q] = "leaving" /\ UNCHANGED <<list[q], pc[q], at[q]>>
<1> USE DEF IInv, TypeOK, scan
<1>1. CASE r = q
  BY <1>1 DEF Step, InitQueue, AddRequest, MergedRequests, StartLeaving, ExitQueue
<1>2. CASE r # q
  BY <1>2 DEF Step, InitQueue, AddRequest, MergedRequests, StartLeaving, ExitQueue,
              Dispatch, DispatchNone, DispatchFirst, ScanRequest, Take
<1> QED  BY <1>1, <1>2

(* So a queue that another scheduler is selected for is left after a       *)
(* bounded number of its own steps, whatever the other queues do.          *)
THEOREM LeavingDrains == Spec => Drains
<1>1. IInv /\ (\A q \in Queues : DrainInv(q)) /\ [Next]_vars =>
        [\A q \in Queues : phase[q] = "leaving" =>
          \/ phase'[q] = "drained" /\ Dispatch(q)
          \/ /\ phase'[q] = "leaving"
             /\ \/ ~ Dispatch(q) /\ UNCHANGED <<list[q], pc[q], at[q]>>
                \/ Len(list'[q]) < Len(list[q])
                \/ list'[q] = list[q] /\ CallLeft(q)' \in Nat /\ CallLeft(q)' < CallLeft(q)]_vars
  <2> SUFFICES ASSUME IInv, \A q \in Queues : DrainInv(q), Next,
                      NEW q \in Queues, phase[q] = "leaving"
               PROVE  \/ phase'[q] = "drained" /\ Dispatch(q)
                      \/ /\ phase'[q] = "leaving"
                         /\ \/ ~ Dispatch(q) /\ UNCHANGED <<list[q], pc[q], at[q]>>
                            \/ Len(list'[q]) < Len(list[q])
                            \/ /\ list'[q] = list[q]
                               /\ CallLeft(q)' \in Nat /\ CallLeft(q)' < CallLeft(q)
    OBVIOUS
  <2>1. CASE Dispatch(q)
    BY <2>1, DispatchShortens
  <2>2. CASE ~ Dispatch(q)
    <3>1. PICK r \in Queues : Step(r)
      BY DEF Next, Step
    <3> QED  BY <2>2, <3>1, OthersLeaveAlone
  <2> QED  BY <2>1, <2>2
<1> QED  BY <1>1, DrainInductive, PTL DEF Spec, Drains

----------------------------------------------------------------------------
(* simple_driver.                                                          *)

Phases == {"out", "class", "device", "in", "unclass", "unclass again", "unregister", "stuck"}
Files  == {"closed", "opening", "idle", "print", "refuse", "measure", "store",
           "copy", "stranded", "killed"}

DriverTypeOK ==
  /\ module \in Phases
  /\ message \in Texts \cup {NoLetters, Empty, Mixed}
  /\ size_of_message \in Nat /\ numberOpens \in Nat
  /\ call \in [Clients -> Files] /\ reg \in [Clients -> Nat] /\ dirty \subseteq Clients
  /\ \A c \in Clients : call[c] = "print" => reg[c] \in Shorts
  /\ mine \in [Clients -> Texts \cup {NoText}] /\ met \in BOOLEAN

\* Where the module is says what it has in the kernel.
Registered ==
  kernel = CASE module = "out"                   -> {}
             [] module = "in"                    -> {"major", "class", "device"}
             [] module \in {"device", "unclass"} -> {"major", "class"}
             [] OTHER                            -> {"major"}

\* Nobody else is in the driver since c wrote the text, and it goes its way.
Alone(c) ==
  mine[c] # NoText =>
    /\ Busy \subseteq {c} /\ call[c] \in {"print", "measure", "store", "idle", "copy"}
    /\ call[c] \in {"print", "measure", "copy"} => c \notin dirty
    /\ IF call[c] = "print" THEN mine[c] = Text(c, reg[c]) ELSE message = mine[c]
    /\ call[c] \in {"idle", "copy"} => size_of_message = Total(mine[c].len)
    /\ call[c] \in {"store", "copy"} => reg[c] = Total(mine[c].len)

\* The write of c is the only one since the last that met another, and its
\* text and the length of it go their way, whoever reads meanwhile.
Single(c) ==
  ~ met /\ c \in Writing =>
    /\ Writing \subseteq {c} /\ c \notin dirty
    /\ IF call[c] \in {"print", "refuse"} THEN message = Mixed ELSE message \in Texts
    /\ call[c] = "store" => reg[c] = Total(message.len)

DriverInv ==
  /\ DriverTypeOK /\ Registered /\ SizeUnlessMet
  /\ \A c \in Clients : Alone(c) /\ Single(c)

----------------------------------------------------------------------------
(* Texts and lengths.                                                      *)

(* Texts of clients are none of the contents message has otherwise.        *)
LEMMA TextsAre ==
  /\ \A c \in Clients, len \in Shorts : Text(c, len) \in Texts
  /\ \A t \in Texts : t.len \in Shorts /\ t.len \in Nat
  /\ {NoLetters, Empty, Mixed, NoText} \cap Texts = {}
  /\ NoLetters # Mixed /\ Empty # Mixed
<1>1. \A t \in Texts : \E c \in Clients, len \in Shorts : t = [by |-> c, len |-> len]
  BY DEF Texts, Text
<1>2. \A t \in Texts : t.by \in Clients /\ t.len \in Shorts
  BY <1>1
<1>3. Shorts \subseteq Nat
  BY SimpleDriverAssumption DEF Shorts
<1>4. /\ NoLetters.by = "(0 letters)" /\ Empty.by = "empty" /\ Mixed.by = "mixed"
      /\ NoText.by = "none"
  BY DEF NoLetters, Empty, Mixed, NoText, Text
<1>5. {NoLetters, Empty, Mixed, NoText} \cap Texts = {}
  BY <1>2, <1>4, SimpleDriverAssumption
<1>6. \A c \in Clients, len \in Shorts : Text(c, len) \in Texts
  BY DEF Texts
<1>7. NoLetters # Mixed /\ Empty # Mixed
  BY <1>4
<1> QED  BY <1>2, <1>3, <1>5, <1>6, <1>7

(* Lengths are numbers.                                                    *)
LEMMA TotalType == \A len \in Nat : Total(len) \in Nat /\ Suffix(len) \in Nat
BY DEF Total, Suffix

(* strlen() of a client's text that stands still is its length; of any     *)
(* other contents it is a number.                                          *)
LEMMA StrlenIs ==
  ASSUME NEW c \in Clients
  PROVE  /\ c \notin dirty /\ message \in Texts => Strlen(c) = {Total(message.len)}
         /\ Strlen(c) \subseteq Nat
<1>1. Lengths \subseteq Nat
  <2>1. Shorts \subseteq Nat
    BY SimpleDriverAssumption DEF Shorts
  <2> QED  BY <2>1, TotalType DEF Lengths
<1>2. message \in Texts => Total(message.len) \in Nat
  BY TextsAre, TotalType
<1> QED  BY <1>1, <1>2 DEF Strlen

(* Who is busy is writing or copying, and where that is.                   *)
LEMMA BusyIs ==
  \A c \in Clients :
    /\ c \in Writing <=> call[c] \in {"print", "measure", "store", "refuse"}
    /\ c \in Copying <=> call[c] = "copy"
    /\ c \in Busy <=> call[c] \in {"print", "measure", "store", "refuse", "copy"}
    /\ c \in Printing => c \in Writing
BY DEF Writing, Copying, Busy, Printing

----------------------------------------------------------------------------
(* Each step keeps the invariant.                                          *)

(* The invariant holds before the module is loaded.                        *)
LEMMA DriverStarts == DInit => DriverInv
<1> SUFFICES ASSUME DInit PROVE DriverInv
  OBVIOUS
<1> USE DEF DInit
<1>1. DriverTypeOK
  BY DEF DriverTypeOK, Phases, Files
<1>2. Registered /\ SizeUnlessMet /\ \A c \in Clients : Alone(c) /\ Single(c)
  BY TextsAre, BusyIs DEF Registered, SizeUnlessMet, Alone, Single
<1> QED  BY <1>1, <1>2 DEF DriverInv

(* What the module does without touching the files.                        *)
LEMMA ModuleKeeps ==
  ASSUME DriverInv,
         \/ RegisterChrdev \/ ClassCreate \/ DeviceCreate \/ DeviceDestroy
         \/ ClassUnregister \/ ClassDestroy
  PROVE  DriverInv'
<1> USE DEF DriverInv
<1>1. /\ message' = message /\ size_of_message' = size_of_message /\ numberOpens' = numberOpens
      /\ call' = call /\ reg' = reg /\ dirty' = dirty /\ mine' = mine /\ met' = met
  BY DEF RegisterChrdev, ClassCreate, DeviceCreate, DeviceDestroy, ClassUnregister, ClassDestroy,
         KeepCalls, driver, history
<1>2. module' \in Phases /\ Registered'
  <2>1. CASE RegisterChrdev
    BY <2>1 DEF RegisterChrdev, Registered, DriverTypeOK, Phases
  <2>2. CASE ClassCreate
    BY <2>2 DEF ClassCreate, Registered, DriverTypeOK, Phases
  <2>3. CASE DeviceCreate
    BY <2>3 DEF DeviceCreate, Registered, DriverTypeOK, Phases
  <2>4. CASE DeviceDestroy
    BY <2>4 DEF DeviceDestroy, Registered, DriverTypeOK, Phases
  <2>5. CASE ClassUnregister
    BY <2>5 DEF ClassUnregister, Registered, DriverTypeOK, Phases
  <2>6. CASE ClassDestroy
    BY <2>6 DEF ClassDestroy, Registered, DriverTypeOK, Phases
  <2> QED  BY <2>1, <2>2, <2>3, <2>4, <2>5, <2>6
<1>3. Writing' = Writing /\ Copying' = Copying /\ Busy' = Busy
  BY <1>1 DEF Writing, Copying, Busy
<1>4. DriverTypeOK' /\ SizeUnlessMet' /\ \A c \in Clients : Alone(c)' /\ Single(c)'
  BY <1>1, <1>2, <1>3 DEF DriverTypeOK, SizeUnlessMet, Alone, Single
<1> QED  BY <1>2, <1>4

(* The device's number is given back, as the last step of loading that     *)
(* failed or of unloading.                                                 *)
LEMMA UnregisterKeeps ==
  ASSUME DriverInv, UnregisterChrdev
  PROVE  DriverInv'
<1> USE DEF DriverInv, UnregisterChrdev
<1>1. DriverTypeOK'
  BY DEF DriverTypeOK, Phases, Files
<1>2. Registered'
  BY DEF Registered
<1>3. SizeUnlessMet' /\ \A c \in Clients : Alone(c)'
  BY TextsAre DEF SizeUnlessMet, Alone
<1>4. ASSUME NEW c \in Clients PROVE Single(c)'
  <2>1. call'[c] \in {"closed", "stranded"}
    OBVIOUS
  <2> QED  BY <2>1 DEF Single, Writing
<1> QED  BY <1>1, <1>2, <1>3, <1>4

(* The steps of a call that are not about the message.                     *)
LEMMA OpenCloseKeeps ==
  ASSUME DriverInv, NEW c \in Clients,
         OpenLoad(c) \/ OpenStore(c) \/ Release(c) \/ Oops(c)
  PROVE  DriverInv'
<1> USE DEF DriverInv
<1>1. PICK place \in {"closed", "opening", "idle", "killed"} :
        /\ call' = [call EXCEPT ![c] = place]
        /\ call[c] \in {"closed", "opening", "idle", "stranded"}
        /\ place = "idle" => call[c] = "opening"
  BY DEF OpenLoad, OpenStore, Release, Oops, Return, Goto
<1>2. /\ module' = module /\ kernel' = kernel /\ message' = message /\ met' = met
      /\ size_of_message' = size_of_message /\ numberOpens' \in Nat
      /\ reg' \in [Clients -> Nat] /\ \A d \in Clients \ {c} : reg'[d] = reg[d]
      /\ dirty' \subseteq dirty
  BY DEF OpenLoad, OpenStore, Release, Oops, Return, Keep, driver, history, DriverTypeOK
<1>3. /\ mine' \in [Clients -> Texts \cup {NoText}] /\ \A d \in Clients \ {c} : mine'[d] = mine[d]
      /\ mine'[c] = NoText
  BY DEF OpenLoad, OpenStore, Release, Oops, history, DriverTypeOK, Alone
<1>4. /\ call' \in [Clients -> Files] /\ call'[c] = place
      /\ \A d \in Clients \ {c} : call'[d] = call[d]
  BY <1>1 DEF DriverTypeOK, Files
<1>5. DriverTypeOK' /\ Registered'
  BY <1>1, <1>2, <1>3, <1>4 DEF DriverTypeOK, Registered
<1>6. Writing' = Writing /\ Copying' = Copying /\ Busy' = Busy
  BY <1>1, <1>4 DEF Writing, Copying, Busy
<1>7. SizeUnlessMet'
  BY <1>2, <1>6 DEF SizeUnlessMet
<1>8. ASSUME NEW d \in Clients PROVE Alone(d)' /\ Single(d)'
  <2>1. CASE d = c
    BY <1>1, <1>3, <1>6, <2>1, BusyIs DEF Alone, Single
  <2>2. CASE d # c
    BY <1>2, <1>3, <1>4, <1>6, <2>2 DEF Alone, Single
  <2> QED  BY <2>1, <2>2
<1> QED  BY <1>5, <1>7, <1>8

(* A write begins: what the others wrote counts no longer.                 *)
LEMMA WriteBeginKeeps ==
  ASSUME DriverInv, NEW c \in Clients, WriteBegin(c)
  PROVE  DriverInv'
<1> USE DEF DriverInv
<1> DEFINE fits(len) == len < Bytes
<1>1. PICK len \in Lens :
        /\ call[c] = "idle"
        /\ call' = [call EXCEPT ![c] = IF fits(len) THEN "print" ELSE "refuse"]
        /\ reg' = [reg EXCEPT ![c] = len]
        /\ Undisturbed(c, IF fits(len) THEN Text(c, len) ELSE NoText)
  BY DEF WriteBegin, Goto
<1>2. /\ module' = module /\ kernel' = kernel /\ message' = Mixed /\ met' = (Writing # {})
      /\ size_of_message' = size_of_message /\ numberOpens' = numberOpens
      /\ dirty' = Overlap(c) \cup Printing \cup Measuring \cup Copying
  BY DEF WriteBegin, Keep
<1>3. fits(len) => len \in Shorts /\ Text(c, len) \in Texts
  BY TextsAre DEF Shorts
<1>4. /\ call' \in [Clients -> Files] /\ reg' \in [Clients -> Nat] /\ reg'[c] = len
      /\ call'[c] = IF fits(len) THEN "print" ELSE "refuse"
      /\ \A d \in Clients \ {c} : call'[d] = call[d] /\ reg'[d] = reg[d]
  <2>1. len \in Nat
    BY SimpleDriverAssumption
  <2> QED  BY <1>1, <2>1 DEF DriverTypeOK, Files
<1> HIDE DEF fits
<1>5. mine' = [d \in Clients |-> IF d = c /\ Busy = {} /\ fits(len) THEN Text(c, len) ELSE NoText]
  BY <1>1 DEF Undisturbed
<1>6. dirty' \subseteq Clients /\ (Writing = {} => c \notin dirty')
  <2>1. Printing \subseteq Writing /\ Measuring \subseteq Writing /\ Writing \subseteq Clients
    BY DEF Printing, Measuring, Writing
  <2>2. c \notin Copying /\ Copying \subseteq Clients
    BY <1>1 DEF Copying
  <2>3. Overlap(c) \subseteq Clients /\ (Printing = {} => c \notin Overlap(c))
    BY DEF Overlap, DriverTypeOK
  <2> QED  BY <1>2, <2>1, <2>2, <2>3
<1>7. DriverTypeOK' /\ Registered'
  <2>1. mine' \in [Clients -> Texts \cup {NoText}]
    BY <1>3, <1>5
  <2>2. \A d \in Clients : call'[d] = "print" => reg'[d] \in Shorts
    BY <1>3, <1>4 DEF DriverTypeOK
  <2> QED  BY <1>2, <1>4, <1>6, <2>1, <2>2 DEF DriverTypeOK, Registered
<1>8. c \in Writing' /\ Writing' \subseteq Writing \cup {c} /\ Busy' \subseteq Busy \cup {c}
  BY <1>4 DEF Writing, Copying, Busy
<1>9. SizeUnlessMet'
  BY <1>8 DEF SizeUnlessMet
<1>10. ASSUME NEW d \in Clients PROVE Alone(d)'
  <2> SUFFICES ASSUME mine'[d] # NoText PROVE Alone(d)'
    BY DEF Alone
  <2>1. d = c /\ Busy = {} /\ fits(len) /\ mine'[c] = Text(c, len)
    BY <1>5
  <2>2. Writing = {}
    BY <2>1 DEF Busy
  <2> QED  BY <1>4, <1>6, <1>8, <2>1, <2>2 DEF Alone
<1>11. ASSUME NEW d \in Clients PROVE Single(d)'
  <2> SUFFICES ASSUME ~ met', d \in Writing' PROVE Single(d)'
    BY DEF Single
  <2>1. Writing = {} /\ d = c
    BY <1>2, <1>8
  <2> QED  BY <1>2, <1>4, <1>6, <1>8, <2>1 DEF Single
<1> QED  BY <1>7, <1>9, <1>10, <1>11

(* A read begins: what the others wrote counts no longer for them, and     *)
(* nothing changes for who is writing.                                     *)
LEMMA ReadBeginKeeps ==
  ASSUME DriverInv, NEW c \in Clients, ReadBegin(c)
  PROVE  DriverInv'
<1> USE DEF DriverInv
<1>1. /\ module' = module /\ kernel' = kernel /\ message' = message /\ met' = met
      /\ size_of_message' = size_of_message /\ numberOpens' = numberOpens
      /\ call[c] = "idle" /\ dirty' = Overlap(c) /\ Undisturbed(c, mine[c])
  BY DEF ReadBegin, Keep, driver
<1>2. /\ call' \in [Clients -> Files] /\ call'[c] = "copy"
      /\ reg' \in [Clients -> Nat] /\ reg'[c] = size_of_message
      /\ \A d \in Clients \ {c} : call'[d] = call[d] /\ reg'[d] = reg[d]
  BY DEF ReadBegin, Goto, DriverTypeOK, Files
<1>3. /\ Writing' = Writing /\ c \notin Writing /\ Busy' = Busy \cup {c}
      /\ Printing \subseteq Writing /\ Writing \subseteq Busy
  BY <1>1, <1>2 DEF Writing, Copying, Busy, Printing
<1>4. mine' = [d \in Clients |-> IF d = c /\ Busy = {} THEN mine[c] ELSE NoText]
  BY <1>1 DEF Undisturbed
<1>5. /\ dirty' \subseteq Clients /\ (Busy = {} => c \notin dirty')
      /\ \A d \in Clients \ {c} : d \in dirty' <=> d \in dirty
  BY <1>1, <1>3 DEF Overlap, DriverTypeOK
<1>6. DriverTypeOK' /\ Registered'
  <2>1. mine' \in [Clients -> Texts \cup {NoText}]
    BY <1>4 DEF DriverTypeOK
  <2> QED  BY <1>1, <1>2, <1>5, <2>1 DEF DriverTypeOK, Registered
<1>7. SizeUnlessMet'
  BY <1>1, <1>3 DEF SizeUnlessMet
<1>8. ASSUME NEW d \in Clients PROVE Alone(d)'
  <2> SUFFICES ASSUME mine'[d] # NoText PROVE Alone(d)'
    BY DEF Alone
  <2>1. d = c /\ Busy = {} /\ mine'[c] = mine[c]
    BY <1>4
  <2>2. message = mine[c] /\ size_of_message = Total(mine[c].len)
    BY <1>1, <2>1 DEF Alone
  <2> QED  BY <1>1, <1>2, <1>3, <1>5, <2>1, <2>2 DEF Alone
<1>9. ASSUME NEW d \in Clients PROVE Single(d)'
  <2> SUFFICES ASSUME d \in Writing PROVE Single(d)'
    BY <1>3 DEF Single
  <2>1. d # c
    BY <1>3
  <2> QED  BY <1>1, <1>2, <1>3, <1>5, <2>1 DEF Single
<1> QED  BY <1>6, <1>7, <1>8, <1>9

(* A call that is under way goes on: whoever else was undisturbed is not.  *)
LEMMA OthersSilent ==
  ASSUME DriverInv, NEW c \in Clients, c \in Busy, NEW d \in Clients, d # c
  PROVE  mine[d] = NoText
BY DEF DriverInv, Alone

(* What a write does after its sprintf() has begun.                        *)
LEMMA WriteGoesOnKeeps ==
  ASSUME DriverInv, NEW c \in Clients,
         PrintEnd(c) \/ Measure(c) \/ StoreSize(c) \/ RefuseEnd(c)
  PROVE  DriverInv'
<1> USE DEF DriverInv
<1>1. /\ call[c] \in {"print", "measure", "store", "refuse"} /\ call' \in [Clients -> Files]
      /\ call'[c] = CASE call[c] = "print" -> "measure" [] call[c] = "measure" -> "store"
                      [] OTHER -> "idle"
      /\ \A d \in Clients \ {c} : call'[d] = call[d]
  BY DEF PrintEnd, Measure, StoreSize, RefuseEnd, Return, Goto, DriverTypeOK, Files
<1>2. /\ PrintEnd(c) <=> call[c] = "print"
      /\ Measure(c) <=> call[c] = "measure"
      /\ StoreSize(c) <=> call[c] = "store"
      /\ RefuseEnd(c) <=> call[c] = "refuse"
  BY DEF PrintEnd, Measure, StoreSize, RefuseEnd
<1>3. /\ module' = module /\ kernel' = kernel /\ numberOpens' = numberOpens
      /\ mine' = mine /\ met' = met
  BY DEF PrintEnd, Measure, StoreSize, RefuseEnd, Return, Keep, driver, history
<1>4. /\ reg' \in [Clients -> Nat] /\ \A d \in Clients \ {c} : reg'[d] = reg[d]
      /\ dirty' \subseteq Clients
  <2>1. CASE Measure(c)
    BY <2>1, StrlenIs DEF Measure, DriverTypeOK
  <2>2. CASE ~ Measure(c)
    BY <2>2 DEF PrintEnd, StoreSize, RefuseEnd, Return, Overlap, DriverTypeOK
  <2> QED  BY <2>1, <2>2
<1>5. message' \in Texts \cup {NoLetters, Empty, Mixed} /\ size_of_message' \in Nat
  <2>1. CASE PrintEnd(c) \/ RefuseEnd(c)
    BY <2>1, TextsAre DEF PrintEnd, RefuseEnd, Printed, DriverTypeOK
  <2>2. CASE Measure(c) \/ StoreSize(c)
    BY <2>2 DEF Measure, StoreSize, driver, DriverTypeOK
  <2> QED  BY <2>1, <2>2
<1>6. DriverTypeOK' /\ Registered'
  <2>1. \A d \in Clients : call'[d] = "print" => reg'[d] \in Shorts
    BY <1>1, <1>4 DEF DriverTypeOK
  <2> QED  BY <1>1, <1>3, <1>4, <1>5, <2>1 DEF DriverTypeOK, Registered
<1>7. /\ c \in Writing /\ c \in Busy /\ Busy' \subseteq Busy
      /\ Writing' = IF call[c] \in {"print", "measure"} THEN Writing ELSE Writing \ {c}
  BY <1>1 DEF Writing, Copying, Busy
<1>8. c \notin dirty => /\ call[c] = "print" => message' = Text(c, reg[c])
                        /\ call[c] = "refuse" => message' = NoLetters
                        /\ call[c] \in {"measure", "store"} => message' = message
                        /\ call[c] = "measure" /\ message \in Texts =>
                             reg'[c] = Total(message.len)
  <2>1. CASE Measure(c)
    BY <1>2, <2>1, StrlenIs DEF Measure, driver, DriverTypeOK
  <2>2. CASE ~ Measure(c)
    BY <1>2, <2>2 DEF PrintEnd, StoreSize, RefuseEnd, Printed
  <2> QED  BY <2>1, <2>2
<1>9. call[c] = "store" => message' = message /\ size_of_message' = reg[c]
  BY <1>2 DEF StoreSize
<1>10. Writing \subseteq {c} /\ c \notin dirty => c \notin dirty'
  <2>1. Writing \subseteq {c} => Printing \ {c} = {}
    BY BusyIs DEF Printing
  <2> QED  BY <2>1 DEF PrintEnd, Measure, StoreSize, RefuseEnd, Return, Overlap
<1>11. ~ met => /\ Writing \subseteq {c} /\ c \notin dirty /\ c \notin dirty'
                /\ IF call[c] \in {"print", "refuse"} THEN message = Mixed ELSE message \in Texts
                /\ call[c] = "store" => reg[c] = Total(message.len)
  BY <1>7, <1>10 DEF Single
<1>12. SizeUnlessMet'
  <2> SUFFICES ASSUME Writing' = {}, ~ met, message' \in Texts
               PROVE  size_of_message' \in {0, Total(message'.len)}
    BY <1>3 DEF SizeUnlessMet
  <2>1. call[c] \in {"store", "refuse"}
    BY <1>1, <1>7
  <2>2. call[c] = "store"
    BY <1>8, <1>11, <2>1, TextsAre
  <2> QED  BY <1>9, <1>11, <2>2
<1>13. ASSUME NEW d \in Clients PROVE Single(d)'
  <2> SUFFICES ASSUME ~ met, d \in Writing' PROVE Single(d)'
    BY <1>3 DEF Single
  <2>1. d = c /\ Writing' \subseteq {c} /\ call[c] \in {"print", "measure"}
    BY <1>7, <1>11
  <2>2. call[c] = "print" => message' \in Texts
    BY <1>8, <1>11, TextsAre DEF DriverTypeOK
  <2> QED  BY <1>1, <1>8, <1>11, <2>1, <2>2 DEF Single
<1>14. ASSUME NEW d \in Clients PROVE Alone(d)'
  <2> SUFFICES ASSUME mine[d] # NoText PROVE Alone(d)'
    BY <1>3 DEF Alone
  <2>1. d = c
    BY <1>7, OthersSilent
  <2>2. Busy \subseteq {c} /\ Writing \subseteq {c} /\ call[c] # "refuse"
    BY <1>1, <2>1 DEF Alone, Busy
  <2>3. CASE call[c] = "print"
    BY <1>1, <1>3, <1>7, <1>8, <1>10, <2>1, <2>2, <2>3 DEF Alone
  <2>4. CASE call[c] = "measure"
    <3>1. message = mine[c] /\ mine[c] \in Texts /\ c \notin dirty
      BY <2>1, <2>4 DEF Alone, DriverTypeOK
    <3> QED  BY <1>1, <1>3, <1>7, <1>8, <2>1, <2>2, <2>4, <3>1 DEF Alone
  <2>5. CASE call[c] = "store"
    BY <1>1, <1>3, <1>7, <1>9, <2>1, <2>2, <2>5 DEF Alone
  <2> QED  BY <1>1, <2>2, <2>3, <2>4, <2>5
<1> QED  BY <1>6, <1>12, <1>13, <1>14

(* copy_to_user() ends, well or not.                                       *)
LEMMA ReadGoesOnKeeps ==
  ASSUME DriverInv, NEW c \in Clients, ReadEnd(c) \/ ReadFault(c)
  PROVE  DriverInv'
<1> USE DEF DriverInv
<1>1. /\ call[c] = "copy" /\ call' \in [Clients -> Files] /\ call'[c] = "idle"
      /\ \A d \in Clients \ {c} : call'[d] = call[d]
  BY DEF ReadEnd, ReadFault, Return, Goto, DriverTypeOK, Files
<1>2. /\ module' = module /\ kernel' = kernel /\ numberOpens' = numberOpens
      /\ message' = message /\ met' = met /\ size_of_message' \in {size_of_message, 0}
      /\ reg' \in [Clients -> Nat] /\ \A d \in Clients \ {c} : reg'[d] = reg[d]
      /\ dirty' = dirty \ {c}
  BY DEF ReadEnd, ReadFault, Return, Keep, driver, history, DriverTypeOK
<1>3. /\ mine' \in [Clients -> Texts \cup {NoText}]
      /\ \A d \in Clients \ {c} : mine'[d] = mine[d]
      /\ mine'[c] # NoText => mine'[c] = mine[c] /\ size_of_message' = size_of_message
  BY DEF ReadEnd, ReadFault, driver, history, DriverTypeOK
<1>4. DriverTypeOK' /\ Registered'
  <2>1. \A d \in Clients : call'[d] = "print" => reg'[d] \in Shorts
    BY <1>1, <1>2 DEF DriverTypeOK
  <2> QED  BY <1>1, <1>2, <1>3, <2>1 DEF DriverTypeOK, Registered
<1>5. Writing' = Writing /\ c \notin Writing /\ c \in Busy /\ Busy' \subseteq Busy
  BY <1>1 DEF Writing, Copying, Busy
<1>6. SizeUnlessMet'
  BY <1>2, <1>5 DEF SizeUnlessMet
<1>7. ASSUME NEW d \in Clients PROVE Single(d)'
  BY <1>1, <1>2, <1>5 DEF Single
<1>8. ASSUME NEW d \in Clients PROVE Alone(d)'
  <2> SUFFICES ASSUME mine'[d] # NoText PROVE Alone(d)'
    BY DEF Alone
  <2>1. d = c
    BY <1>3, <1>5, OthersSilent
  <2> QED  BY <1>1, <1>2, <1>3, <1>5, <2>1 DEF Alone
<1> QED  BY <1>4, <1>6, <1>7, <1>8

(* For every number of clients and whatever fails while the module is      *)
(* loaded, the invariant of the driver holds in every reachable state.     *)
THEOREM DriverInductive == DSpec => []DriverInv
<1>1. DriverInv /\ [DNext]_deviceVars => DriverInv'
  <2> SUFFICES ASSUME DriverInv, [DNext]_deviceVars PROVE DriverInv'
    OBVIOUS
  <2>1. CASE Module
    BY <2>1, ModuleKeeps, UnregisterKeeps DEF Module
  <2>2. ASSUME NEW c \in Clients, Call(c) PROVE DriverInv'
    BY <2>2, OpenCloseKeeps, WriteBeginKeeps, ReadBeginKeeps, WriteGoesOnKeeps, ReadGoesOnKeeps
       DEF Call
  <2>3. CASE UNCHANGED deviceVars
    BY <2>3 DEF deviceVars, driver, history, DriverInv, DriverTypeOK, Registered, Alone, Single,
                SizeUnlessMet, Writing, Copying, Busy
  <2> QED  BY <2>1, <2>2, <2>3 DEF DNext
<1> QED  BY <1>1, DriverStarts, PTL DEF DSpec

(* An insmod that failed, or an rmmod that came to its end, leaves nothing *)
(* in the kernel, and the device is there only with its class and number.  *)
THEOREM LeavesNothing == DSpec => []NothingLeft
<1>1. DriverInv => NothingLeft
  BY DEF DriverInv, DriverTypeOK, Phases, Registered, NothingLeft
<1> QED  BY <1>1, DriverInductive, PTL

(* A client whose calls nobody came between reads exactly what it wrote.   *)
THEOREM ReadsOwn == DSpec => []OwnReply
<1>1. DriverInv => OwnReply
  BY DEF DriverInv, Alone, OwnReply, Copying
<1> QED  BY <1>1, DriverInductive, PTL

(* A write that meets no other puts the size right, whatever the writes    *)
(* before it did to one another and whoever reads meanwhile.               *)
THEOREM SizesHeal == DSpec => []SizeUnlessMet
<1>1. DriverInv => SizeUnlessMet
  BY DEF DriverInv
<1> QED  BY <1>1, DriverInductive, PTL
===========================================================================
