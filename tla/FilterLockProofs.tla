-------------------------- MODULE FilterLockProofs --------------------------
(***************************************************************************)
(* The Filter lock of T3/pmutex.c is a mutex for every number of threads.  *)
(*                                                                         *)
(* The inductive invariant IInv says of every level k that its victim is   *)
(* posted there (VictimPosted), that a victim which found the other nodes  *)
(* below k, or left the wait that way, is posted alone (ScannedClear,      *)
(* VictimAlone), and that at most N - k threads are past it (FilterBound). *)
(* The last part is what a thread leaving a wait could break; the others   *)
(* show that it leaves somebody behind or is alone.                        *)
(*                                                                         *)
(* And nobody waits for ever for somebody who waits: of the threads inside *)
(* the lock one at the highest level is not held back (DeadlockFree), and  *)
(* what such a thread still has to scan runs out (WaitEnds).               *)
(***************************************************************************)
EXTENDS FilterLock, FiniteSetTheorems, WellFoundedInduction, TLAPS

USE NAssumption

(* The set of threads past a level is finite, so it can be counted.        *)
LEMMA PastFinite ==
  ASSUME TypeOK, NEW k \in Int
  PROVE  IsFiniteSet(Past(k)) /\ Cardinality(Past(k)) \in Nat
<1>1. IsFiniteSet(Threads)
  BY FS_Interval DEF Threads
<1>2. Past(k) \in SUBSET Threads
  BY DEF Past
<1>3. IsFiniteSet(Past(k))
  BY <1>1, <1>2, FS_Subset
<1>. QED
  BY <1>3, FS_CardinalityType

(* The initial state satisfies the inductive invariant.                    *)
LEMMA InitIInv == Init => IInv
<1>. SUFFICES ASSUME Init PROVE IInv
  OBVIOUS
<1>1. TypeOK
  BY DEF Init, TypeOK, Places, Levels
<1>2. \A t \in Threads : LevelShown(t)
  BY DEF Init, LevelShown
<1>3. Endpoints
  BY DEF Init, Endpoints
<1>4. VictimPosted /\ ScannedClear /\ VictimAlone
  BY DEF Init, VictimPosted, ScannedClear, VictimAlone, Posted, Levels
<1>5. FilterBound
  <2>. SUFFICES ASSUME NEW k \in 0 .. N - 1
                PROVE  Cardinality(Past(k)) <= N - k
    BY DEF FilterBound
  <2>1. CASE k = 0
    <3>1. Past(0) = Threads
      BY DEF Past, Init, Threads
    <3>2. Cardinality(Threads) = N
      BY FS_Interval DEF Threads
    <3>. QED
      BY <2>1, <3>1, <3>2
  <2>2. CASE k # 0
    <3>1. Past(k) = {}
      BY <2>2 DEF Past, Init
    <3>. QED
      BY <3>1, FS_EmptySet
  <2>. QED
    BY <2>1, <2>2
<1>. QED
  BY <1>1, <1>2, <1>3, <1>4, <1>5 DEF IInv

(* Steps that leave every loop variable i alone leave the counts alone.    *)
LEMMA BoundKept ==
  ASSUME FilterBound, UNCHANGED i
  PROVE  FilterBound'
BY DEF FilterBound, Past

(* What the for statement does to the thread at it and to the others.      *)
LEMMA AtLevelEffect ==
  ASSUME TypeOK, NEW t \in Threads, NEW k \in 1 .. N, AtLevel(t, k)
  PROVE  /\ i' \in [Threads -> 1 .. N]
         /\ pc' \in [Threads -> Places]
         /\ i'[t] = k
         /\ k < N => pc'[t] = "setLevel"
         /\ k = N => pc'[t] = "critical"
         /\ \A u \in Threads : u # t => i'[u] = i[u] /\ pc'[u] = pc[u]
         /\ \A u \in Threads : pc'[u] \notin {"idle", "critical"} => i'[u] \in Levels
BY DEF TypeOK, Places, AtLevel, Levels

(* A thread at the end of a wait goes on to the next level.                *)
LEMMA WaitOver ==
  ASSUME TypeOK, NEW t \in Threads,
         \/ CheckVictim(t) /\ onhold[i[t]] # t
         \/ LeaveWait(t)
  PROVE  /\ i[t] \in Levels
         /\ i[t] + 1 \in 1 .. N
         /\ AtLevel(t, i[t] + 1)
         /\ j' \in [Threads -> 1 .. N + 1]
         /\ UNCHANGED <<level, onhold>>
<1>1. pc[t] \in {"checkVictim", "scan"}
  BY DEF CheckVictim, LeaveWait
<1>2. i[t] \in Levels
  BY <1>1 DEF TypeOK
<1>3. i[t] + 1 \in 1 .. N
  BY <1>2 DEF Levels
<1>4. AtLevel(t, i[t] + 1) /\ UNCHANGED <<level, onhold>>
  BY DEF CheckVictim, LeaveWait
<1>5. j' \in [Threads -> 1 .. N + 1]
  BY DEF CheckVictim, LeaveWait, TypeOK
<1>. QED
  BY <1>2, <1>3, <1>4, <1>5

(* Every step keeps the types.                                             *)
LEMMA TypeStep == TypeOK /\ [Next]_vars => TypeOK'
<1>. SUFFICES ASSUME TypeOK, [Next]_vars PROVE TypeOK'
  OBVIOUS
<1>1. ASSUME NEW t \in Threads, Lock(t) PROVE TypeOK'
  <2>1. AtLevel(t, 1) /\ UNCHANGED <<level, onhold, j>> /\ 1 \in 1 .. N
    BY <1>1 DEF Lock
  <2>. QED
    BY <2>1, AtLevelEffect DEF TypeOK
<1>2. ASSUME NEW t \in Threads, SetLevel(t) PROVE TypeOK'
  <2>1. i[t] \in Levels
    BY <1>2 DEF SetLevel, TypeOK
  <2>2. level' \in [Threads -> 0 .. N - 1]
    BY <1>2, <2>1 DEF SetLevel, TypeOK, Levels
  <2>. QED
    BY <1>2, <2>2 DEF SetLevel, TypeOK, Places
<1>3. ASSUME NEW t \in Threads, SetVictim(t) PROVE TypeOK'
  BY <1>3 DEF SetVictim, TypeOK, Places
<1>4. ASSUME NEW t \in Threads, CheckVictim(t) PROVE TypeOK'
  <2>1. CASE onhold[i[t]] = t
    BY <1>4, <2>1 DEF CheckVictim, TypeOK, Places
  <2>2. CASE onhold[i[t]] # t
    BY <1>4, <2>2, WaitOver, AtLevelEffect DEF TypeOK
  <2>. QED
    BY <2>1, <2>2
<1>5. ASSUME NEW t \in Threads, Scan(t) PROVE TypeOK'
  <2>1. j[t] \in Threads /\ Threads = 1 .. N
    BY <1>5 DEF Scan, Threads
  <2>2. j[t] + 1 \in 1 .. N + 1 /\ 1 \in 1 .. N + 1
    BY <2>1
  <2>3. j' = [j EXCEPT ![t] = 1] \/ j' = [j EXCEPT ![t] = j[t] + 1]
    BY <1>5 DEF Scan
  <2>4. j' \in [Threads -> 1 .. N + 1]
    BY <2>2, <2>3 DEF TypeOK
  <2>. QED
    BY <1>5, <2>4 DEF Scan, TypeOK, Places
<1>6. ASSUME NEW t \in Threads, LeaveWait(t) PROVE TypeOK'
  BY <1>6, WaitOver, AtLevelEffect DEF TypeOK
<1>7. ASSUME NEW t \in Threads, Unlock(t) PROVE TypeOK'
  BY <1>7 DEF Unlock, TypeOK, Places
<1>8. CASE UNCHANGED vars
  BY <1>8 DEF vars, TypeOK
<1>. QED
  BY <1>1, <1>2, <1>3, <1>4, <1>5, <1>6, <1>7, <1>8 DEF Next, InLock

----------------------------------------------------------------------------
(* A step of t does not touch the place of another thread.                 *)
LEMMA OthersStay ==
  ASSUME TypeOK, NEW t \in Threads, Lock(t) \/ InLock(t) \/ Unlock(t)
  PROVE  \A u \in Threads : u # t => /\ pc'[u] = pc[u] /\ i'[u] = i[u]
                                     /\ j'[u] = j[u] /\ level'[u] = level[u]
BY DEF Lock, InLock, SetLevel, SetVictim, CheckVictim, Scan, LeaveWait, Unlock,
       AtLevel, TypeOK

(* Every step keeps the endpoints of the loop variables.                   *)
LEMMA EndpointsStep ==
  ASSUME TypeOK, Endpoints, NEW t \in Threads, Lock(t) \/ InLock(t) \/ Unlock(t)
  PROVE  Endpoints'
<1>. SUFFICES /\ pc'[t] = "idle" => i'[t] = 1
              /\ pc'[t] = "critical" => i'[t] = N
              /\ pc'[t] # "scan" => j'[t] = 1
  BY OthersStay DEF Endpoints
<1>0. pc[t] # "scan" => j[t] = 1
  BY DEF Endpoints
<1>1. CASE Lock(t)
  BY <1>0, <1>1, AtLevelEffect DEF Lock
<1>2. CASE SetLevel(t) \/ SetVictim(t)
  BY <1>0, <1>2 DEF SetLevel, SetVictim, TypeOK
<1>3. CASE Scan(t) \/ (CheckVictim(t) /\ onhold[i[t]] = t)
  BY <1>3 DEF CheckVictim, Scan, TypeOK
<1>4. CASE CheckVictim(t) /\ onhold[i[t]] # t
  <2>1. j'[t] = 1
    BY <1>0, <1>4 DEF CheckVictim
  <2>. QED
    BY <1>4, <2>1, WaitOver, AtLevelEffect
<1>5. CASE LeaveWait(t)
  <2>1. j'[t] = 1
    BY <1>5 DEF LeaveWait, TypeOK
  <2>. QED
    BY <1>5, <2>1, WaitOver, AtLevelEffect
<1>6. CASE Unlock(t)
  BY <1>0, <1>6 DEF Unlock, TypeOK
<1>. QED
  BY <1>1, <1>2, <1>3, <1>4, <1>5, <1>6 DEF InLock

(* Every step keeps the level field in step with its owner.                *)
LEMMA LevelStep ==
  ASSUME TypeOK, Endpoints, \A u \in Threads : LevelShown(u),
         NEW t \in Threads, Lock(t) \/ InLock(t) \/ Unlock(t)
  PROVE  \A u \in Threads : LevelShown(u)'
<1>. SUFFICES LevelShown(t)'
  BY OthersStay DEF LevelShown
<1>0. LevelShown(t)
  OBVIOUS
<1>1. CASE Lock(t)
  <2>1. level'[t] = 0 /\ i'[t] = 1 /\ pc'[t] = IF 1 < N THEN "setLevel" ELSE "critical"
    BY <1>0, <1>1 DEF Lock, AtLevel, TypeOK, LevelShown
  <2>. QED
    BY <2>1 DEF LevelShown
<1>2. CASE SetLevel(t)
  <2>1. level'[t] = i[t] /\ i'[t] = i[t] /\ pc'[t] = "setVictim"
    BY <1>2 DEF SetLevel, TypeOK
  <2>. QED
    BY <2>1 DEF LevelShown
<1>3. CASE SetVictim(t) \/ Scan(t) \/ (CheckVictim(t) /\ onhold[i[t]] = t)
  <2>1. /\ pc[t] \in {"setVictim", "checkVictim", "scan"}
        /\ pc'[t] \in {"checkVictim", "scan"}
        /\ i'[t] = i[t] /\ level'[t] = level[t]
    BY <1>3 DEF SetVictim, CheckVictim, Scan, TypeOK
  <2>. QED
    BY <1>0, <2>1 DEF LevelShown
<1>4. CASE (CheckVictim(t) /\ onhold[i[t]] # t) \/ LeaveWait(t)
  <2>1. pc[t] \in {"checkVictim", "scan"}
    BY <1>4 DEF CheckVictim, LeaveWait
  <2>2. level[t] = i[t]
    BY <1>0, <2>1 DEF LevelShown
  <2>3. i[t] \in 1 .. N /\ AtLevel(t, i[t] + 1) /\ level' = level /\ i[t] + 1 \in 1 .. N
    BY <1>4, WaitOver DEF TypeOK
  <2>4. i'[t] = i[t] + 1 /\ pc'[t] = IF i[t] + 1 < N THEN "setLevel" ELSE "critical"
    BY <2>3 DEF AtLevel, TypeOK
  <2>. QED
    BY <2>2, <2>3, <2>4 DEF LevelShown
<1>5. CASE Unlock(t)
  <2>1. level'[t] = 0 /\ pc'[t] = "idle"
    BY <1>5 DEF Unlock, TypeOK
  <2>. QED
    BY <2>1 DEF LevelShown
<1>. QED
  BY <1>1, <1>2, <1>3, <1>4, <1>5 DEF InLock

----------------------------------------------------------------------------
(* Posting at a level happens in SetVictim and is taken back in Unlock;    *)
(* every other step of lock() leaves the victims and the posted alone.     *)
LEMMA PostedKept ==
  ASSUME TypeOK, Endpoints, NEW t \in Threads,
         Lock(t) \/ SetLevel(t) \/ CheckVictim(t) \/ Scan(t) \/ LeaveWait(t)
  PROVE  /\ onhold' = onhold
         /\ \A u \in Threads, k \in Levels : Posted(u, k)' <=> Posted(u, k)
<1>1. onhold' = onhold
  BY WaitOver DEF Lock, SetLevel, CheckVictim, Scan, LeaveWait
<1>2. ASSUME NEW k \in Levels PROVE Posted(t, k)' <=> Posted(t, k)
  <2>0. i[t] \in 1 .. N /\ k \in 1 .. N - 1
    BY DEF TypeOK, Levels
  <2>1. CASE Lock(t)
    <3>1. i[t] = 1 /\ pc[t] = "idle" /\ i'[t] = 1 /\ pc'[t] \in {"setLevel", "critical"}
      BY <2>1, AtLevelEffect DEF Lock, Endpoints, AtLevel, TypeOK
    <3>. QED
      BY <3>1 DEF Posted
  <2>2. CASE SetLevel(t)
    <3>1. i'[t] = i[t] /\ pc[t] = "setLevel" /\ pc'[t] = "setVictim"
      BY <2>2 DEF SetLevel, TypeOK
    <3>. QED
      BY <3>1 DEF Posted
  <2>3. CASE Scan(t) \/ (CheckVictim(t) /\ onhold[i[t]] = t)
    <3>1. i'[t] = i[t] /\ {pc[t], pc'[t]} \subseteq {"checkVictim", "scan"}
      BY <2>3 DEF Scan, CheckVictim, TypeOK
    <3>. QED
      BY <3>1 DEF Posted
  <2>4. CASE LeaveWait(t) \/ (CheckVictim(t) /\ onhold[i[t]] # t)
    <3>1. pc[t] \in {"checkVictim", "scan"}
      BY <2>4 DEF CheckVictim, LeaveWait
    <3>2. AtLevel(t, i[t] + 1)
      BY <2>4, WaitOver
    <3>3. i'[t] = i[t] + 1 /\ pc'[t] \in {"setLevel", "critical"}
      BY <3>2 DEF AtLevel, TypeOK
    <3>. QED
      BY <2>0, <3>1, <3>3 DEF Posted
  <2>. QED
    BY <2>1, <2>2, <2>3, <2>4
<1>3. \A u \in Threads, k \in Levels : u # t => (Posted(u, k)' <=> Posted(u, k))
  BY OthersStay DEF InLock, Posted
<1>. QED
  BY <1>1, <1>2, <1>3

(* SetVictim makes t the posted victim of its level, and nothing else.     *)
LEMMA PostedByVictim ==
  ASSUME TypeOK, NEW t \in Threads, SetVictim(t)
  PROVE  /\ i[t] \in Levels /\ i' = i /\ pc'[t] = "checkVictim"
         /\ onhold' = [onhold EXCEPT ![i[t]] = t]
         /\ onhold'[i[t]] = t
         /\ \A k \in Levels : k # i[t] => onhold'[k] = onhold[k]
         /\ Posted(t, i[t])'
         /\ \A u \in Threads, k \in Levels :
              u # t \/ k # i[t] => (Posted(u, k)' <=> Posted(u, k))
<1>1. /\ i[t] \in Levels /\ i' = i /\ pc[t] = "setVictim" /\ pc'[t] = "checkVictim"
      /\ onhold' = [onhold EXCEPT ![i[t]] = t]
      /\ \A u \in Threads : u # t => pc'[u] = pc[u]
  BY DEF SetVictim, TypeOK
<1>2. onhold'[i[t]] = t /\ \A k \in Levels : k # i[t] => onhold'[k] = onhold[k]
  BY <1>1 DEF TypeOK
<1>3. Posted(t, i[t])'
  BY <1>1 DEF Posted
<1>4. \A u \in Threads, k \in Levels :
        u # t \/ k # i[t] => (Posted(u, k)' <=> Posted(u, k))
  BY <1>1 DEF Posted
<1>. QED
  BY <1>1, <1>2, <1>3, <1>4

(* The holder is posted at every level; unlock() takes all of it back.     *)
LEMMA PostedByUnlock ==
  ASSUME TypeOK, Endpoints, NEW t \in Threads, Unlock(t)
  PROVE  /\ onhold' = onhold /\ i[t] = N /\ i'[t] = 1 /\ pc'[t] = "idle"
         /\ \A k \in Levels : i[t] > k /\ Posted(t, k) /\ ~ Posted(t, k)'
         /\ \A u \in Threads, k \in Levels : u # t => (Posted(u, k)' <=> Posted(u, k))
<1>1. /\ onhold' = onhold /\ pc[t] = "critical" /\ i'[t] = 1 /\ pc'[t] = "idle"
      /\ i[t] = N
  BY DEF Unlock, TypeOK, Endpoints
<1>2. \A k \in Levels : k \in Int /\ 1 <= k /\ k < N
  BY DEF Levels
<1>3. \A k \in Levels : i[t] > k /\ Posted(t, k) /\ ~ Posted(t, k)'
  BY <1>1, <1>2 DEF Posted
<1>4. \A u \in Threads, k \in Levels : u # t => (Posted(u, k)' <=> Posted(u, k))
  BY OthersStay DEF Posted
<1>. QED
  BY <1>1, <1>3, <1>4

----------------------------------------------------------------------------
(* The victim of a level stays posted: a victim that unlocks was alone, so *)
(* it leaves nobody posted at the level behind.                            *)
LEMMA VictimPostedStep ==
  ASSUME TypeOK, Endpoints, VictimPosted, VictimAlone,
         NEW t \in Threads, Lock(t) \/ InLock(t) \/ Unlock(t)
  PROVE  VictimPosted'
<1>. SUFFICES ASSUME NEW k \in Levels, NEW u \in Threads, Posted(u, k)'
              PROVE  \E w \in Threads : onhold'[k] = w /\ Posted(w, k)'
  BY DEF VictimPosted, Posted
<1>0. ASSUME Posted(u, k)
      PROVE  \E w \in Threads : onhold[k] = w /\ Posted(w, k)
  BY <1>0 DEF VictimPosted
<1>1. CASE Lock(t) \/ SetLevel(t) \/ CheckVictim(t) \/ Scan(t) \/ LeaveWait(t)
  <2>1. onhold' = onhold /\ Posted(u, k)
    BY <1>1, PostedKept
  <2>. QED
    BY <1>0, <1>1, <2>1, PostedKept
<1>2. CASE SetVictim(t)
  <2>1. CASE k = i[t]
    BY <1>2, <2>1, PostedByVictim DEF Posted
  <2>2. CASE k # i[t]
    <3>1. Posted(u, k) /\ onhold'[k] = onhold[k]
      BY <1>2, <2>2, PostedByVictim
    <3>. QED
      BY <1>0, <1>2, <2>2, <3>1, PostedByVictim
  <2>. QED
    BY <2>1, <2>2
<1>3. CASE Unlock(t)
  <2>1. u # t /\ Posted(u, k)
    BY <1>3, PostedByUnlock
  <2>2. onhold[k] # t
    BY <1>3, <2>1, PostedByUnlock DEF VictimAlone
  <2>. QED
    BY <1>0, <1>3, <2>1, <2>2, PostedByUnlock
<1>. QED
  BY <1>1, <1>2, <1>3 DEF InLock

(* A node below level k shows an owner that is not posted at k.            *)
LEMMA BelowNotPosted ==
  ASSUME TypeOK, Endpoints, NEW u \in Threads, LevelShown(u), NEW k \in Levels,
         level[u] < k
  PROVE  ~ Posted(u, k)
<1>1. /\ k \in Int /\ 1 <= k /\ k <= N - 1 /\ i[u] \in Int
      /\ pc[u] = "idle" => i[u] = 1
  BY DEF Levels, TypeOK, Endpoints
<1>. QED
  BY <1>1 DEF LevelShown, Posted, TypeOK, Places

(* What a scanning victim has seen stays true of the nodes it has passed.  *)
LEMMA ScannedClearStep ==
  ASSUME TypeOK, Endpoints, \A u \in Threads : LevelShown(u), ScannedClear,
         NEW t \in Threads, Lock(t) \/ InLock(t) \/ Unlock(t)
  PROVE  ScannedClear'
<1>0. TypeOK'
  BY TypeStep DEF Next, InLock
<1>. SUFFICES ASSUME NEW v \in Threads, pc'[v] = "scan",
                     NEW k \in Levels, i'[v] = k, onhold'[k] = v,
                     NEW u \in Threads, u < j'[v], u # v
              PROVE  ~ Posted(u, k)'
  BY <1>0 DEF ScannedClear, Posted, TypeOK
<1>1. ASSUME v # t, onhold[k] = v
      PROVE  ~ Posted(u, k)
  BY <1>1, OthersStay DEF ScannedClear
<1>2. CASE v # t /\ (Lock(t) \/ SetLevel(t) \/ CheckVictim(t) \/ Scan(t) \/ LeaveWait(t))
  BY <1>1, <1>2, PostedKept
<1>3. CASE v # t /\ SetVictim(t)
  <2>1. k # i[t] /\ onhold[k] = v
    BY <1>3, PostedByVictim
  <2>. QED
    BY <1>1, <1>3, <2>1, PostedByVictim
<1>4. CASE v # t /\ Unlock(t)
  BY <1>1, <1>4, PostedByUnlock
<1>5. CASE v = t /\ CheckVictim(t)
  <2>1. pc'[t] = "scan" /\ u < j'[t]
    BY <1>5
  <2>2. j'[t] = 1
    BY <1>5 DEF CheckVictim, Endpoints
  <2>. QED
    BY <2>1, <2>2 DEF Threads
<1>6. CASE v = t /\ Scan(t)
  <2>1. /\ pc[t] = "scan" /\ j[t] \in Threads /\ i[t] = k /\ onhold[k] = t
        /\ j'[t] = j[t] + 1
        /\ ~ (j[t] # t /\ level[j[t]] >= k)
    BY <1>6 DEF Scan, TypeOK
  <2>2. u < j[t] \/ u = j[t]
    BY <1>6, <2>1 DEF Threads
  <2>3. CASE u < j[t]
    BY <1>6, <2>1, <2>3, PostedKept DEF ScannedClear
  <2>4. CASE u = j[t]
    <3>1. level[u] < k
      BY <1>6, <2>1, <2>4 DEF TypeOK, Levels
    <3>. QED
      BY <1>6, <3>1, BelowNotPosted, PostedKept
  <2>. QED
    BY <2>2, <2>3, <2>4
<1>7. CASE v = t /\ (Lock(t) \/ SetLevel(t) \/ SetVictim(t) \/ LeaveWait(t) \/ Unlock(t))
  BY <1>7, WaitOver DEF Lock, SetLevel, SetVictim, LeaveWait, Unlock, AtLevel, TypeOK
<1>. QED
  BY <1>2, <1>3, <1>4, <1>5, <1>6, <1>7 DEF InLock

(* A victim past the wait of its level stays alone there: it got past it   *)
(* only because a whole scan found nobody, or because somebody else had    *)
(* become the victim.                                                      *)
LEMMA VictimAloneStep ==
  ASSUME TypeOK, Endpoints, ScannedClear, VictimAlone,
         NEW t \in Threads, Lock(t) \/ InLock(t) \/ Unlock(t)
  PROVE  VictimAlone'
<1>. SUFFICES ASSUME NEW k \in Levels, NEW v \in Threads, onhold'[k] = v, i'[v] > k,
                     NEW u \in Threads, u # v
              PROVE  ~ Posted(u, k)'
  BY DEF VictimAlone, Posted
<1>1. ASSUME onhold[k] = v, i[v] > k
      PROVE  ~ Posted(u, k)
  BY <1>1 DEF VictimAlone
<1>2. CASE i'[v] = i[v]
  <2>1. CASE Lock(t) \/ SetLevel(t) \/ CheckVictim(t) \/ Scan(t) \/ LeaveWait(t)
    BY <1>1, <1>2, <2>1, PostedKept
  <2>2. CASE SetVictim(t)
    <3>1. k # i[t]
      BY <1>2, <2>2, PostedByVictim DEF Levels
    <3>. QED
      BY <1>1, <1>2, <2>2, <3>1, PostedByVictim
  <2>3. CASE Unlock(t)
    <3>1. ~ Posted(u, k)
      BY <1>1, <1>2, <2>3, PostedByUnlock
    <3>. QED
      BY <2>3, <3>1, PostedByUnlock
  <2>. QED
    BY <2>1, <2>2, <2>3 DEF InLock
<1>3. CASE i'[v] # i[v]
  <2>1. v = t
    BY <1>3, OthersStay
  <2>2. ~ Unlock(t)
    <3>1. i'[t] = 1 => ~ i'[v] > k
      BY <2>1 DEF Levels
    <3>. QED
      BY <3>1, PostedByUnlock
  <2>3. (CheckVictim(t) /\ onhold[i[t]] # t) \/ LeaveWait(t)
    BY <1>3, <2>1, <2>2, AtLevelEffect
       DEF Lock, InLock, SetLevel, SetVictim, CheckVictim, Scan, Endpoints
  <2>4. /\ onhold[k] = t /\ i'[t] = i[t] + 1 /\ i[t] \in Levels
    BY <2>1, <2>3, WaitOver, AtLevelEffect
  <2>5. i[t] > k \/ i[t] = k
    BY <2>1, <2>4 DEF Levels
  <2>6. CASE i[t] > k
    BY <1>1, <2>1, <2>3, <2>4, <2>6, PostedKept
  <2>7. CASE i[t] = k
    <3>1. LeaveWait(t) /\ pc[t] = "scan" /\ j[t] = N + 1
      BY <2>3, <2>4, <2>7 DEF LeaveWait
    <3>2. u < j[t]
      BY <3>1 DEF Threads
    <3>3. ~ Posted(u, k)
      BY <2>1, <2>4, <2>7, <3>1, <3>2 DEF ScannedClear
    <3>. QED
      BY <3>1, <3>3, PostedKept
  <2>. QED
    BY <2>5, <2>6, <2>7
<1>. QED
  BY <1>2, <1>3

----------------------------------------------------------------------------
(* Taking one thread away from a finite set of threads, or having fewer,   *)
(* lowers the count.                                                       *)
LEMMA FewerPast ==
  ASSUME TypeOK, NEW k \in Int, NEW S, S \subseteq Past(k)
  PROVE  /\ Cardinality(S) <= Cardinality(Past(k))
         /\ \A w \in Past(k) : w \notin S => Cardinality(S) <= Cardinality(Past(k)) - 1
<1>1. IsFiniteSet(Past(k)) /\ Cardinality(Past(k)) \in Nat
  BY PastFinite
<1>2. Cardinality(S) <= Cardinality(Past(k))
  BY <1>1, FS_Subset
<1>3. ASSUME NEW w \in Past(k), w \notin S
      PROVE  Cardinality(S) <= Cardinality(Past(k)) - 1
  <2>1. S \subseteq Past(k) \ {w}
    BY <1>3
  <2>2. /\ IsFiniteSet(Past(k) \ {w})
        /\ Cardinality(Past(k) \ {w}) = Cardinality(Past(k)) - 1
    BY <1>1, <1>3, FS_RemoveElement
  <2>. QED
    BY <2>1, <2>2, FS_Subset
<1>. QED
  BY <1>2, <1>3

(* Leaving the wait of a level keeps the bound: the thread is alone at the *)
(* level, or the level's victim, another thread, stays behind.             *)
LEMMA BoundAfterWait ==
  ASSUME TypeOK, VictimPosted, ScannedClear, VictimAlone, FilterBound,
         NEW t \in Threads,
         (CheckVictim(t) /\ onhold[i[t]] # t) \/ LeaveWait(t)
  PROVE  FilterBound'
<1>. DEFINE L == i[t]
<1>1. /\ L \in Levels /\ L \in Int /\ 1 <= L /\ L <= N - 1
      /\ i'[t] = L + 1
      /\ \A u \in Threads : u # t => i'[u] = i[u]
  BY WaitOver, AtLevelEffect DEF Levels
<1>2. pc[t] \in {"checkVictim", "scan"}
  BY DEF CheckVictim, LeaveWait
<1>3. Posted(t, L)
  BY <1>2 DEF Posted
<1>. SUFFICES ASSUME NEW k \in 0 .. N - 1
              PROVE  Cardinality(Past(k)') <= N - k
  BY DEF FilterBound
<1>4. CASE k # L
  <2>1. Past(k)' = Past(k)
    BY <1>1, <1>4 DEF Past, TypeOK
  <2>. QED
    BY <2>1 DEF FilterBound
<1>5. CASE k = L /\ onhold[L] = t
  <2>1. LeaveWait(t) /\ pc[t] = "scan" /\ j[t] = N + 1
    BY <1>5 DEF LeaveWait
  <2>2. \A u \in Threads : u # t => ~ Posted(u, L)
    BY <1>5, <2>1 DEF ScannedClear, Threads
  <2>3. Past(k)' = {t}
    BY <1>1, <1>5, <2>2 DEF Past, Posted
  <2>4. Cardinality({t}) = 1
    BY FS_Singleton
  <2>. QED
    BY <1>1, <1>5, <2>3, <2>4
<1>6. CASE k = L /\ onhold[L] # t
  <2>. DEFINE w == onhold[L]
  <2>1. w \in Threads /\ Posted(w, L) /\ w # t
    BY <1>1, <1>3, <1>6 DEF VictimPosted
  <2>2. i[w] = L
    BY <1>1, <1>3, <2>1 DEF VictimAlone, Posted
  <2>3. w \in Past(L - 1) /\ w \notin Past(k)' /\ Past(k)' \subseteq Past(L - 1)
    BY <1>1, <1>6, <2>1, <2>2 DEF Past, TypeOK
  <2>4. Cardinality(Past(k)') <= Cardinality(Past(L - 1)) - 1
    BY <1>1, <2>3, FewerPast
  <2>5. Cardinality(Past(L - 1)) <= N - (L - 1)
    BY <1>1 DEF FilterBound
  <2>6. Cardinality(Past(L - 1)) \in Nat /\ Cardinality(Past(k)') \in Int
    <3>1. IsFiniteSet(Past(L - 1)) /\ Cardinality(Past(L - 1)) \in Nat
      BY <1>1, PastFinite
    <3>. QED
      BY <2>3, <3>1, FS_Subset, FS_CardinalityType
  <2>. QED
    BY <1>1, <1>6, <2>4, <2>5, <2>6
<1>. QED
  BY <1>4, <1>5, <1>6

(* Every step keeps the bound of every level.                              *)
LEMMA BoundStep ==
  ASSUME TypeOK, Endpoints, VictimPosted, ScannedClear, VictimAlone, FilterBound,
         NEW t \in Threads, Lock(t) \/ InLock(t) \/ Unlock(t)
  PROVE  FilterBound'
<1>1. CASE Lock(t)
  <2>1. i[t] = 1 /\ i' = [i EXCEPT ![t] = 1]
    BY <1>1 DEF Lock, AtLevel, Endpoints
  <2>2. i' = i
    BY <2>1 DEF TypeOK
  <2>. QED
    BY <2>2, BoundKept
<1>2. CASE SetLevel(t) \/ SetVictim(t) \/ Scan(t) \/ (CheckVictim(t) /\ onhold[i[t]] = t)
  BY <1>2, BoundKept DEF SetLevel, SetVictim, Scan, CheckVictim
<1>3. CASE (CheckVictim(t) /\ onhold[i[t]] # t) \/ LeaveWait(t)
  BY <1>3, BoundAfterWait
<1>4. CASE Unlock(t)
  <2>. SUFFICES ASSUME NEW k \in 0 .. N - 1
                PROVE  Cardinality(Past(k)') <= N - k
    BY DEF FilterBound
  <2>1. /\ i[t] = N /\ i'[t] = 1
        /\ \A u \in Threads : u # t => i'[u] = i[u]
    BY <1>4, PostedByUnlock, OthersStay
  <2>2. Past(k)' \subseteq Past(k)
    BY <2>1 DEF Past
  <2>3. Cardinality(Past(k)') <= Cardinality(Past(k)) /\ Cardinality(Past(k)) <= N - k
    BY <2>2, FewerPast DEF FilterBound
  <2>4. Cardinality(Past(k)) \in Nat /\ Cardinality(Past(k)') \in Nat
    <3>1. IsFiniteSet(Past(k)) /\ Cardinality(Past(k)) \in Nat
      BY PastFinite
    <3>. QED
      BY <2>2, <3>1, FS_Subset, FS_CardinalityType
  <2>. QED
    BY <2>3, <2>4
<1>. QED
  BY <1>1, <1>2, <1>3, <1>4 DEF InLock

----------------------------------------------------------------------------
(* The inductive invariant holds of every number of threads.               *)
THEOREM Inductive == Spec => []IInv
<1>1. Init => IInv
  BY InitIInv
<1>2. IInv /\ [Next]_vars => IInv'
  <2>. SUFFICES ASSUME IInv, [Next]_vars PROVE IInv'
    OBVIOUS
  <2>. USE DEF IInv
  <2>1. CASE UNCHANGED vars
    <3>. USE <2>1 DEF vars
    <3>1. TypeOK' /\ FilterBound'
      BY TypeStep, BoundKept
    <3>2. (\A u \in Threads : LevelShown(u))' /\ Endpoints'
      BY DEF LevelShown, Endpoints
    <3>3. VictimPosted' /\ ScannedClear' /\ VictimAlone'
      BY DEF VictimPosted, ScannedClear, VictimAlone, Posted
    <3>. QED
      BY <3>1, <3>2, <3>3
  <2>2. ASSUME NEW t \in Threads, Lock(t) \/ InLock(t) \/ Unlock(t)
        PROVE  IInv'
    <3>1. TypeOK' /\ Endpoints' /\ \A u \in Threads : LevelShown(u)'
      BY <2>2, TypeStep, EndpointsStep, LevelStep
    <3>2. VictimPosted' /\ ScannedClear' /\ VictimAlone'
      BY <2>2, VictimPostedStep, ScannedClearStep, VictimAloneStep
    <3>3. FilterBound'
      BY <2>2, BoundStep
    <3>. QED
      BY <3>1, <3>2, <3>3
  <2>. QED
    BY <2>1, <2>2 DEF Next
<1>. QED
  BY <1>1, <1>2, PTL DEF Spec

(* The variables keep their types.                                         *)
THEOREM TypeCorrect == Spec => []TypeOK
<1>1. IInv => TypeOK
  BY DEF IInv
<1>. QED
  BY <1>1, Inductive, PTL

(* At most one thread is between lock() and unlock(): both of two would be *)
(* past level N - 1, which lets one thread through.                        *)
LEMMA IInvExcludes == IInv => MutualExclusion
<1>. SUFFICES ASSUME IInv, NEW t \in Threads, NEW u \in Threads,
                     pc[t] = "critical", pc[u] = "critical", t # u
              PROVE  FALSE
  BY DEF MutualExclusion
<1>1. i[t] = N /\ i[u] = N
  BY DEF IInv, Endpoints
<1>2. {t, u} \subseteq Past(N - 1)
  BY <1>1 DEF Past
<1>3. IsFiniteSet(Past(N - 1)) /\ Cardinality(Past(N - 1)) \in Nat
  BY PastFinite DEF IInv
<1>4. Cardinality(Past(N - 1)) <= 1
  BY DEF IInv, FilterBound
<1>5. Cardinality({t, u}) <= Cardinality(Past(N - 1))
  BY <1>2, <1>3, FS_Subset
<1>6. Cardinality({t, u}) = 2
  <2>1. IsFiniteSet({t}) /\ Cardinality({t}) = 1
    BY FS_Singleton
  <2>2. Cardinality({t} \cup {u}) = 2
    BY <2>1, FS_AddElement
  <2>. QED
    BY <2>2
<1>. QED
  BY <1>3, <1>4, <1>5, <1>6

(* At most one thread is between lock() and unlock().                      *)
THEOREM Exclusion == Spec => []MutualExclusion
BY Inductive, IInvExcludes, PTL

(* Every level lets one thread fewer through than the one before it.       *)
THEOREM Filters == Spec => []FilterBound
<1>1. IInv => FilterBound
  BY DEF IInv
<1>. QED
  BY <1>1, Inductive, PTL

----------------------------------------------------------------------------
(* The lock implements the abstract mutex: lock() is tried from idle, the  *)
(* last level's exit is the entry and needs the critical section empty,    *)
(* unlock() is the exit, and the steps between are invisible.              *)
LEMMA PhaseStays ==
  ASSUME TypeOK, NEW t \in Threads, Lock(t) \/ InLock(t) \/ Unlock(t),
         phase'[t] = phase[t]
  PROVE  UNCHANGED phase
<1>1. \A u \in Threads : phase'[u] = phase[u]
  BY OthersStay DEF phase
<1>. QED
  BY <1>1 DEF phase

(* A step of lock() or unlock() changes the phase of its thread only.      *)
LEMMA PhaseMoves ==
  ASSUME TypeOK, NEW t \in Threads, Lock(t) \/ InLock(t) \/ Unlock(t),
         NEW x, phase'[t] = x
  PROVE  phase' = [phase EXCEPT ![t] = x]
<1>1. \A u \in Threads : u # t => phase'[u] = phase[u]
  BY OthersStay DEF phase
<1>. QED
  BY <1>1 DEF phase

(* Every step of lock() and unlock() is a step of the abstract mutex or    *)
(* none.                                                                   *)
THEOREM Implements == Spec => ImplementsMutex
<1>1. Init => M!Init
  BY DEF Init, M!Init, phase
<1>2. ASSUME IInv, IInv', [Next]_vars
      PROVE  [M!Next]_(M!vars)
  <2>. USE DEF IInv
  <2>9. TypeOK /\ TypeOK'
    BY <1>2
  <2>0. MutualExclusion'
    <3>1. IInv' => MutualExclusion'
      BY IInvExcludes, PTL
    <3>. QED
      BY <1>2, <3>1
  <2>1. CASE UNCHANGED vars
    BY <2>1 DEF vars, phase, M!vars
  <2>2. ASSUME NEW t \in Threads, Lock(t) \/ InLock(t) \/ Unlock(t)
        PROVE  [M!Next]_(M!vars)
    <3>1. phase'[t] = CASE pc'[t] = "idle"     -> "idle"
                        [] pc'[t] = "critical" -> "critical"
                        [] OTHER               -> "trying"
      BY DEF phase
    <3>2. phase[t] = CASE pc[t] = "idle"     -> "idle"
                       [] pc[t] = "critical" -> "critical"
                       [] OTHER              -> "trying"
      BY DEF phase
    <3>3. CASE phase'[t] = phase[t]
      BY <2>9, <2>2, <3>3, PhaseStays DEF M!vars
    <3>4. CASE Lock(t) /\ phase'[t] = "trying"
      <4>1. phase[t] = "idle"
        BY <3>2, <3>4 DEF Lock
      <4>. QED
        BY <2>9, <3>4, <4>1, PhaseMoves DEF M!Next, M!Try
    <3>5. CASE phase[t] # "critical" /\ phase'[t] = "critical"
      <4>1. pc'[t] = "critical" /\ pc[t] # "critical"
        BY <3>1, <3>2, <3>5
      <4>2. \A u \in Threads : phase[u] # "critical"
        <5>1. \A u \in Threads : u # t => pc'[u] # "critical" /\ pc'[u] = pc[u]
          BY <2>9, <2>0, <2>2, <4>1, OthersStay DEF MutualExclusion
        <5>. QED
          BY <4>1, <5>1 DEF phase
      <4>3. phase' = [phase EXCEPT ![t] = "critical"]
        BY <2>9, <2>2, <3>5, PhaseMoves
      <4>. QED
        BY <3>5, <4>2, <4>3 DEF M!Next, M!Enter
    <3>6. CASE Unlock(t)
      <4>1. phase[t] = "critical" /\ phase'[t] = "idle"
        BY <2>9, <3>1, <3>2, <3>6 DEF Unlock, TypeOK
      <4>2. phase' = [phase EXCEPT ![t] = "idle"]
        BY <2>9, <3>6, <4>1, PhaseMoves
      <4>. QED
        BY <4>1, <4>2 DEF M!Next, M!Exit
    <3>7. CASE Lock(t) /\ phase'[t] # "trying" /\ phase'[t] # phase[t]
      <4>1. phase[t] = "idle" /\ phase'[t] = "critical"
        BY <3>1, <3>2, <3>7 DEF Lock
      <4>. QED
        BY <3>5, <4>1
    <3>8. CASE InLock(t) /\ phase'[t] # phase[t]
      <4>1. /\ pc[t] \in {"setLevel", "setVictim", "checkVictim", "scan"}
            /\ pc'[t] \in Places /\ pc'[t] # "idle"
        BY <1>2, <3>8 DEF InLock, SetLevel, SetVictim, CheckVictim, Scan, LeaveWait,
                          AtLevel, TypeOK, Places
      <4>2. phase[t] = "trying" /\ phase'[t] = "critical"
        BY <3>1, <3>2, <3>8, <4>1 DEF Places
      <4>. QED
        BY <3>5, <4>2
    <3>. QED
      BY <2>2, <3>3, <3>4, <3>6, <3>7, <3>8
  <2>. QED
    BY <1>2, <2>1, <2>2 DEF Next
<1>. QED
  BY <1>1, <1>2, Inductive, PTL DEF Spec, ImplementsMutex, M!Spec

----------------------------------------------------------------------------
(* Nobody waits for ever because everybody waits.                          *)

\* Inside the wait of its level.
Waits(t) == pc[t] \in {"checkVictim", "scan"}

\* What lets neither test of the wait succeed while nobody else moves.
HeldBack(t) == /\ Waits(t)
               /\ onhold[i[t]] = t
               /\ \E u \in Threads : u # t /\ level[u] >= i[t]

\* Somebody who has called lock() and not returned from unlock() yet can go
\* on by itself.
NoDeadlock ==
  (\E t \in Threads : pc[t] # "idle") =>
    \E t \in Threads : pc[t] # "idle" /\ ~ HeldBack(t)

\* How many steps of its own a thread that is not held back needs to be at
\* the end of the wait.
StepsLeft(t) ==
  IF onhold[i[t]] = t THEN IF pc[t] = "scan" THEN N + 2 - j[t] ELSE N + 2
                      ELSE IF pc[t] = "scan" THEN N + 3 - j[t] ELSE 1

\* A thread that is not held back leaves the wait in that many steps, and is
\* held back before that only if another one comes up to its level, which
\* is about to make itself the victim.
WaitWindsDown ==
  [][\A t \in Threads : Waits(t) /\ ~ HeldBack(t) =>
       /\ InLock(t) => \/ i'[t] = i[t] + 1
                       \/ /\ Waits(t)' /\ ~ HeldBack(t)' /\ i'[t] = i[t]
                          /\ StepsLeft(t)' < StepsLeft(t) /\ StepsLeft(t)' > 0
       /\ HeldBack(t)' => \E u \in Threads : /\ u # t /\ SetLevel(u)
                                             /\ i[u] = i[t]]_vars

(* Among threads that all are busy one is as high as any.                  *)
LEMMA TopOne ==
  ASSUME TypeOK, NEW t0 \in Threads, pc[t0] # "idle"
  PROVE  \E t \in Threads : /\ pc[t] # "idle"
                            /\ \A u \in Threads : pc[u] # "idle" => i[u] <= i[t]
<1> DEFINE Busy == {t \in Threads : pc[t] # "idle"}
           Gap  == {N - i[t] : t \in Busy}
           Less == OpToRel(<, Nat)
<1>1. Gap \subseteq Nat /\ N - i[t0] \in Gap
  BY DEF TypeOK
<1>2. IsWellFoundedOn(Less, Nat)
  BY NatLessThanWellFounded
<1>3. PICK g \in Gap : \A x \in Gap : <<x, g>> \notin Less
  <2> HIDE DEF Less, Gap
  <2> QED  BY <1>1, <1>2, WFMin
<1>4. PICK t \in Busy : g = N - i[t]
  BY <1>3
<1>5. ASSUME NEW u \in Threads, pc[u] # "idle"
      PROVE  i[u] <= i[t]
  <2>1. N - i[u] \in Gap /\ N - i[u] \in Nat /\ g \in Nat
    BY <1>1, <1>3, <1>5
  <2>2. ~ (N - i[u] < g)
    BY <1>3, <2>1 DEF OpToRel
  <2>3. i[u] \in Int /\ i[t] \in Int
    BY DEF TypeOK
  <2>. QED
    BY <1>4, <2>2, <2>3
<1>. QED
  BY <1>4, <1>5

(* A thread as high as any: who it finds at its level or above stands at   *)
(* its level, and is the victim's successor or about to be.                *)
LEMMA HighestGoesOn == IInv => NoDeadlock
<1>. SUFFICES ASSUME IInv, NEW t0 \in Threads, pc[t0] # "idle"
              PROVE  \E t \in Threads : pc[t] # "idle" /\ ~ HeldBack(t)
  BY DEF NoDeadlock
<1>0. TypeOK
  BY DEF IInv
<1>1. PICK t \in Threads : /\ pc[t] # "idle"
                           /\ \A u \in Threads : pc[u] # "idle" => i[u] <= i[t]
  BY <1>0, TopOne
<1>2. CASE ~ HeldBack(t)
  BY <1>1, <1>2
<1>3. CASE HeldBack(t)
  <2>1. PICK u \in Threads : u # t /\ level[u] >= i[t]
    BY <1>3 DEF HeldBack
  <2>2. /\ i[t] \in Levels /\ i[u] \in 1 .. N /\ level[u] \in 0 .. N - 1
        /\ pc[u] \in Places
    BY <1>0, <1>3 DEF HeldBack, Waits, TypeOK, Places
  <2>3. pc[u] # "idle"
    BY <2>1, <2>2 DEF IInv, LevelShown, Levels
  <2>4. i[u] <= i[t]
    BY <1>1, <2>3
  <2>5. pc[u] # "setLevel"
    BY <2>1, <2>2, <2>4 DEF IInv, LevelShown, Levels
  <2>6. pc[u] # "critical"
    BY <2>2, <2>4 DEF IInv, Endpoints, Levels
  <2>7. i[u] = i[t]
    BY <2>1, <2>2, <2>3, <2>4, <2>5, <2>6 DEF IInv, LevelShown, Levels
  <2>8. onhold[i[u]] # u
    BY <1>3, <2>1, <2>7 DEF HeldBack
  <2>. QED
    BY <2>3, <2>8 DEF HeldBack
<1>. QED
  BY <1>2, <1>3

(* Whenever a thread is inside lock() or holds the mutex, some such thread *)
(* can go on by itself.                                                    *)
THEOREM DeadlockFree == Spec => []NoDeadlock
BY HighestGoesOn, Inductive, PTL

(* The steps of a thread that nobody holds back.                           *)
LEMMA OwnProgress ==
  ASSUME IInv, NEW t \in Threads, Waits(t), ~ HeldBack(t), InLock(t)
  PROVE  \/ i'[t] = i[t] + 1
         \/ /\ Waits(t)' /\ ~ HeldBack(t)' /\ i'[t] = i[t]
            /\ StepsLeft(t)' < StepsLeft(t) /\ StepsLeft(t)' > 0
<1>1. /\ TypeOK /\ i[t] \in Levels /\ j[t] \in 1 .. N + 1
      /\ pc[t] # "scan" => j[t] = 1
  BY DEF IInv, TypeOK, Endpoints, Waits
<1>2. ~ SetLevel(t) /\ ~ SetVictim(t)
  BY DEF Waits, SetLevel, SetVictim
<1>3. CASE CheckVictim(t)
  <2>1. CASE onhold[i[t]] = t
    <3>1. pc' = [pc EXCEPT ![t] = "scan"] /\ UNCHANGED <<level, onhold, i, j>>
      BY <1>3, <2>1 DEF CheckVictim
    <3>2. pc'[t] = "scan" /\ pc[t] = "checkVictim"
      BY <1>1, <1>3, <3>1 DEF TypeOK, CheckVictim
    <3>. QED
      BY <1>1, <2>1, <3>1, <3>2 DEF HeldBack, Waits, StepsLeft
  <2>2. CASE onhold[i[t]] # t
    BY <1>1, <1>3, <2>2 DEF CheckVictim, AtLevel, TypeOK
  <2>. QED
    BY <2>1, <2>2
<1>4. CASE Scan(t)
  <2>0. pc[t] = "scan" /\ j[t] \in Threads /\ UNCHANGED <<level, onhold, i>>
    BY <1>4 DEF Scan
  <2>1. CASE j[t] # t /\ level[j[t]] >= i[t]
    <3>1. pc'[t] = "checkVictim" /\ j'[t] = 1
      BY <1>1, <1>4, <2>1 DEF Scan, TypeOK
    <3>2. onhold[i[t]] # t
      BY <2>0, <2>1 DEF HeldBack, Waits
    <3>. QED
      BY <1>1, <2>0, <3>1, <3>2 DEF HeldBack, Waits, StepsLeft, Threads
  <2>2. CASE ~ (j[t] # t /\ level[j[t]] >= i[t])
    <3>1. pc'[t] = "scan" /\ j'[t] = j[t] + 1
      BY <1>1, <1>4, <2>0, <2>2 DEF Scan, TypeOK
    <3>. QED
      BY <1>1, <2>0, <3>1 DEF HeldBack, Waits, StepsLeft, Threads
  <2>. QED
    BY <2>1, <2>2
<1>5. CASE LeaveWait(t)
  BY <1>1, <1>5 DEF LeaveWait, AtLevel, TypeOK
<1>. QED
  BY <1>2, <1>3, <1>4, <1>5 DEF InLock

(* What can come to hold a waiting thread back.                            *)
LEMMA HeldByComer ==
  ASSUME IInv, [Next]_vars, NEW t \in Threads, Waits(t), ~ HeldBack(t), HeldBack(t)'
  PROVE  \E u \in Threads : u # t /\ SetLevel(u) /\ i[u] = i[t]
<1>1. TypeOK /\ i[t] \in Levels
  BY DEF IInv, TypeOK, Waits
<1>2. CASE UNCHANGED vars
  BY <1>2 DEF vars, HeldBack, Waits
<1>3. ASSUME NEW u \in Threads, Lock(u) \/ InLock(u) \/ Unlock(u)
      PROVE  u # t /\ SetLevel(u) /\ i[u] = i[t]
  <2>1. u # t
    <3>1. CASE u = t
      <4>1. InLock(t)
        BY <1>3, <3>1 DEF Waits, Lock, Unlock
      <4>2. i'[t] = i[t] + 1
        BY <4>1, OwnProgress
      <4>3. ~ Waits(t)'
        BY <1>1, <4>1, <4>2 DEF InLock, SetLevel, SetVictim, CheckVictim, Scan,
                                LeaveWait, AtLevel, TypeOK, Waits, Levels
      <4>. QED
        BY <4>3 DEF HeldBack
    <3>. QED
      BY <3>1
  <2>2. /\ pc'[t] = pc[t] /\ i'[t] = i[t]
        /\ \A v \in Threads : v # u => level'[v] = level[v]
    BY <1>1, <1>3, <2>1 DEF TypeOK, Lock, InLock, Unlock, SetLevel, SetVictim,
         CheckVictim, Scan, LeaveWait, AtLevel
  <2>3. onhold[i[t]] = t
    <3>1. onhold'[i[t]] = t
      BY <2>2 DEF HeldBack
    <3>2. onhold'[i[t]] = onhold[i[t]] \/ onhold'[i[t]] = u
      BY <1>1, <1>3 DEF TypeOK, Lock, InLock, Unlock, SetLevel, SetVictim,
           CheckVictim, Scan, LeaveWait
    <3>. QED
      BY <2>1, <3>1, <3>2
  <2>4. level'[u] >= i[t] /\ level[u] < i[t]
    <3>1. PICK v \in Threads : v # t /\ level'[v] >= i[t]
      BY <2>2 DEF HeldBack
    <3>2. \A w \in Threads : w # t => ~ level[w] >= i[t]
      BY <2>3 DEF HeldBack
    <3>3. level[u] \in 0 .. N - 1 /\ i[t] \in 1 .. N
      BY <1>1 DEF TypeOK
    <3>. QED
      BY <2>1, <2>2, <3>1, <3>2, <3>3
  <2>5. SetLevel(u)
    <3>1. level'[u] # level[u]
      <4>1. level[u] \in 0 .. N - 1 /\ i[t] \in 1 .. N
        BY <1>1 DEF TypeOK
      <4>. QED
        BY <2>4, <4>1
    <3>2. level'[u] = 0 \/ SetLevel(u)
      BY <1>1, <1>3, <3>1 DEF TypeOK, Lock, InLock, Unlock, SetVictim,
           CheckVictim, Scan, LeaveWait
    <3>. QED
      BY <1>1, <2>4, <3>2 DEF Levels
  <2>6. level[u] = i[u] - 1 /\ level'[u] = i[u] /\ i[u] \in 1 .. N
    BY <1>1, <2>5 DEF SetLevel, TypeOK, IInv, LevelShown
  <2>. QED
    BY <1>1, <2>1, <2>4, <2>5, <2>6 DEF Levels
<1>. QED
  BY <1>2, <1>3 DEF Next

(* A thread that is not held back is through its wait in a bounded number  *)
(* of steps of its own, unless another one comes up to its level.          *)
THEOREM WaitEnds == Spec => WaitWindsDown
<1>1. IInv /\ [Next]_vars =>
        [\A t \in Threads : Waits(t) /\ ~ HeldBack(t) =>
           /\ InLock(t) => \/ i'[t] = i[t] + 1
                           \/ /\ Waits(t)' /\ ~ HeldBack(t)' /\ i'[t] = i[t]
                              /\ StepsLeft(t)' < StepsLeft(t) /\ StepsLeft(t)' > 0
           /\ HeldBack(t)' => \E u \in Threads : /\ u # t /\ SetLevel(u)
                                                 /\ i[u] = i[t]]_vars
  BY OwnProgress, HeldByComer
<1>. QED
  BY <1>1, Inductive, PTL DEF Spec, WaitWindsDown
============================================================================
