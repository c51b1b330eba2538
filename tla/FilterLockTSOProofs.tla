------------------------ MODULE FilterLockTSOProofs ------------------------
(***************************************************************************)
(* lock() and unlock() on one x86 CPU, whatever the number of threads and  *)
(* the length of the store buffer: they are a mutex (OneCPUExclusion), and *)
(* one of the threads can always go on (OneCPUDeadlockFree).               *)
(*                                                                         *)
(* What a load returns is the youngest store to the word, pending or not.  *)
(* A store makes its value the youngest; a drain moves the oldest store of *)
(* all, so it changes what memory holds and not what a load returns.       *)
(* So the threads see a memory without buffers, and what is proved of the  *)
(* lock there holds here.                                                  *)
(***************************************************************************)
EXTENDS FilterLockTSO, SequenceTheorems, WellFoundedInduction, TLAPS

USE TSOAssumption

\* What the threads see while all of them run on one CPU.
TheCPU == CHOOSE c \in CPUs : TRUE

Seen == INSTANCE FilterLock WITH
          level  <- [t \in Threads |-> Load(TheCPU, LevelOf(t))],
          onhold <- [k \in Levels |-> Load(TheCPU, VictimOf(k))]

----------------------------------------------------------------------------
(* Youngest stores.                                                        *)

(* A set of positions in a sequence that is not empty has a greatest one,  *)
(* and Max is that.                                                        *)
LEMMA MaxIs ==
  ASSUME NEW len \in Nat, NEW own \in SUBSET (1 .. len), own # {}
  PROVE  Max(own) \in own /\ \A n \in own : n <= Max(own)
<1> DEFINE After == {n \in Nat : len - n \in own}
           Less == {ss \in Nat \X Nat : ss[1] < ss[2]}
<1>1. After \subseteq Nat /\ After # {}
  <2>1. PICK n \in own : TRUE
    OBVIOUS
  <2>2. n \in 1 .. len
    BY <2>1
  <2>3. len - n \in Nat /\ len - (len - n) = n
    BY <2>2
  <2>4. len - n \in After
    BY <2>1, <2>3
  <2> QED  BY <2>4
<1>2. IsWellFoundedOn(Less, Nat)
  BY NatLessThanWellFounded DEF OpToRel
<1>3. PICK m \in After : \A x \in After : <<x, m>> \notin Less
  <2> HIDE DEF After, Less
  <2> QED  BY <1>1, <1>2, WFMin
<1>4. \A x \in After : m <= x
  <2> SUFFICES ASSUME NEW x \in After PROVE m <= x
    OBVIOUS
  <2>1. x \in Nat /\ m \in Nat /\ <<x, m>> \notin Less
    BY <1>3
  <2>2. ~ (x < m)
    BY <2>1
  <2> QED  BY <2>1, <2>2
<1>5. len - m \in own /\ \A n \in own : len - m >= n
  <2>1. len - m \in own /\ m \in Nat
    BY <1>3
  <2>2. ASSUME NEW n \in own PROVE len - m >= n
    <3>1. n \in 1 .. len
      OBVIOUS
    <3>2. len - n \in Nat /\ len - (len - n) = n
      BY <3>1
    <3>3. m <= len - n
      BY <1>4, <3>2
    <3> QED  BY <2>1, <3>1, <3>3
  <2> QED  BY <2>1, <2>2
<1> QED
  <2>1. Max(own) \in own /\ \A n \in own : Max(own) >= n
    BY <1>5 DEF Max
  <2>2. \A n \in own : n \in Int
    OBVIOUS
  <2> QED  BY <2>1, <2>2

\* The stores to w among those of s.
To(s, w) == {n \in DOMAIN s : s[n].word = w}

\* A word's last value in s, or in memory m if s has none.
Youngest(m, s, w) == IF To(s, w) = {} THEN m[w] ELSE s[Max(To(s, w))].val

Stores == [word : Words, val : Nat]

(* Positions in a buffer.                                                  *)
LEMMA ToIs ==
  ASSUME NEW s \in Seq(Stores), NEW w
  PROVE  /\ Len(s) \in Nat /\ To(s, w) \in SUBSET (1 .. Len(s))
         /\ To(s, w) # {} => /\ Max(To(s, w)) \in To(s, w)
                             /\ \A n \in To(s, w) : n <= Max(To(s, w))
<1>1. Len(s) \in Nat /\ To(s, w) \in SUBSET (1 .. Len(s))
  BY DEF To
<1> QED  BY <1>1, MaxIs

(* A store is what the next load of its word returns, and of no other.     *)
LEMMA AfterStore ==
  ASSUME NEW m, NEW s \in Seq(Stores), NEW w \in Words, NEW v \in Nat, NEW x
  PROVE  Youngest(m, Append(s, [word |-> w, val |-> v]), x)
           = IF x = w THEN v ELSE Youngest(m, s, x)
<1> DEFINE r == [word |-> w, val |-> v]
           longer == Append(s, r)
<1>1. r \in Stores /\ r.word = w /\ r.val = v
  BY DEF Stores
<1> HIDE DEF r
<1>2. /\ longer \in Seq(Stores) /\ Len(longer) = Len(s) + 1
      /\ longer[Len(s) + 1] = r /\ \A n \in 1 .. Len(s) : longer[n] = s[n]
  BY <1>1
<1> HIDE DEF longer
<1>3. /\ Len(s) \in Nat /\ DOMAIN s = 1 .. Len(s) /\ DOMAIN longer = 1 .. Len(s) + 1
  BY <1>2
<1>4. CASE x = w
  <2>1. Len(s) + 1 \in To(longer, x)
    BY <1>1, <1>2, <1>3, <1>4 DEF To
  <2>2. Max(To(longer, x)) \in 1 .. Len(s) + 1 /\ Len(s) + 1 <= Max(To(longer, x))
    BY <1>2, <2>1, ToIs
  <2>3. Max(To(longer, x)) = Len(s) + 1
    BY <1>3, <2>2
  <2> QED  BY <1>1, <1>2, <1>4, <2>1, <2>3 DEF Youngest, r, longer
<1>5. CASE x # w
  <2>1. To(longer, x) = To(s, x)
    BY <1>1, <1>2, <1>3, <1>5 DEF To
  <2>2. CASE To(s, x) = {}
    BY <1>5, <2>1, <2>2 DEF Youngest, r, longer
  <2>3. CASE To(s, x) # {}
    <3>1. longer[Max(To(s, x))] = s[Max(To(s, x))]
      BY <1>2, <2>3, ToIs
    <3> QED  BY <1>5, <2>1, <2>3, <3>1 DEF Youngest, r, longer
  <2> QED  BY <2>2, <2>3
<1> QED  BY <1>4, <1>5

(* A drain moves the oldest store to memory: no load returns anything else *)
(* than before.                                                            *)
LEMMA AfterDrain ==
  ASSUME NEW m \in [Words -> Nat], NEW s \in Seq(Stores), s # <<>>, NEW x \in Words
  PROVE  Youngest([m EXCEPT ![Head(s).word] = Head(s).val], Tail(s), x) = Youngest(m, s, x)
<1> DEFINE rest == Tail(s)
           M == [m EXCEPT ![Head(s).word] = Head(s).val]
<1>1. /\ rest \in Seq(Stores) /\ Len(s) \in Nat /\ Len(s) > 0 /\ Len(rest) = Len(s) - 1
      /\ Head(s) = s[1] /\ \A n \in 1 .. Len(rest) : rest[n] = s[n + 1]
  BY HeadTailProperties
<1>2. s[1].word \in Words /\ M[x] = IF s[1].word = x THEN s[1].val ELSE m[x]
  <2>1. s[1] \in Stores
    BY <1>1
  <2> QED  BY <1>1, <2>1 DEF Stores
<1> HIDE DEF rest, M
<1>3. /\ DOMAIN s = 1 .. Len(s) /\ DOMAIN rest = 1 .. Len(rest)
  BY <1>1
<1>4. \A n \in 1 .. Len(rest) : n \in To(rest, x) <=> n + 1 \in To(s, x)
  BY <1>1, <1>3 DEF To
<1>5. CASE To(rest, x) # {}
  <2> DEFINE last == Max(To(rest, x))
             all  == Max(To(s, x))
  <2>1. last \in To(rest, x) /\ last \in 1 .. Len(rest) /\ \A n \in To(rest, x) : n <= last
    BY <1>1, <1>5, ToIs
  <2> HIDE DEF last
  <2>2. last + 1 \in To(s, x)
    BY <1>4, <2>1
  <2>3. all \in To(s, x) /\ all \in 1 .. Len(s) /\ last + 1 <= all
    BY <2>2, ToIs
  <2> HIDE DEF all
  <2>4. all - 1 \in 1 .. Len(rest) /\ (all - 1) + 1 = all
    BY <1>1, <2>1, <2>3
  <2>5. all - 1 <= last
    BY <1>4, <2>1, <2>3, <2>4
  <2>6. all = last + 1
    BY <2>1, <2>3, <2>5
  <2>7. rest[last].val = s[all].val
    BY <1>1, <2>1, <2>6
  <2> QED  BY <1>5, <2>2, <2>7 DEF Youngest, last, all, rest, M
<1>6. CASE To(rest, x) = {}
  <2>1. \A n \in To(s, x) : n = 1
    <3> SUFFICES ASSUME NEW n \in To(s, x), n # 1 PROVE FALSE
      OBVIOUS
    <3>1. n \in 1 .. Len(s)
      BY ToIs
    <3>2. n - 1 \in 1 .. Len(rest) /\ (n - 1) + 1 = n
      BY <1>1, <3>1
    <3> QED  BY <1>4, <1>6, <3>2
  <2>2. CASE s[1].word = x
    <3>1. 1 \in To(s, x)
      BY <1>1, <1>3, <2>2 DEF To
    <3>2. Max(To(s, x)) = 1
      BY <2>1, <3>1, ToIs
    <3> QED  BY <1>2, <1>6, <2>2, <3>1, <3>2 DEF Youngest, rest, M
  <2>3. CASE s[1].word # x
    <3>1. To(s, x) = {}
      BY <2>1, <2>3 DEF To
    <3> QED  BY <1>2, <1>6, <2>3, <3>1 DEF Youngest, rest, M
  <2> QED  BY <2>2, <2>3
<1> QED  BY <1>5, <1>6

----------------------------------------------------------------------------
(* Loads and stores of the one CPU the threads are on.                     *)

OneCPU == \A t \in Threads : cpu[t] = TheCPU

Places == {"idle", "setLevel", "setVictim", "checkVictim", "scan", "critical"}

\* Types, and that the other CPUs have nothing to drain.
TSOInv ==
  /\ mem \in [Words -> Nat] /\ sb \in [CPUs -> Seq(Stores)]
  /\ pc \in [Threads -> Places] /\ i \in [Threads -> 1 .. N]
  /\ \A t \in Threads : pc[t] \notin {"idle", "critical"} => i[t] \in Levels
  /\ \A c \in CPUs \ {TheCPU} : sb[c] = <<>>

(* A load returns the youngest store.                                      *)
LEMMA LoadIs == \A w : Load(TheCPU, w) = Youngest(mem, sb[TheCPU], w)
BY DEF Load, Youngest, To

(* The fields lock() uses are different words.                             *)
LEMMA WordsAre ==
  /\ \A t \in Threads : LevelOf(t) \in Words
  /\ \A k \in Levels : VictimOf(k) \in Words
  /\ \A t, u \in Threads : LevelOf(t) = LevelOf(u) => t = u
  /\ \A k, l \in Levels : VictimOf(k) = VictimOf(l) => k = l
  /\ \A t \in Threads, k \in Levels : LevelOf(t) # VictimOf(k)
BY DEF Words, LevelOf, VictimOf

(* What a thread stores, all threads load.                                 *)
LEMMA StoreSeen ==
  ASSUME OneCPU, TSOInv, NEW t \in Threads, NEW w \in Words, NEW v \in Nat, Store(t, w, v)
  PROVE  /\ \A x : Load(TheCPU, x)' = IF x = w THEN v ELSE Load(TheCPU, x)
         /\ mem' = mem /\ sb' \in [CPUs -> Seq(Stores)]
         /\ \A c \in CPUs \ {TheCPU} : sb'[c] = <<>>
<1>1. /\ TheCPU \in CPUs /\ cpu[t] = TheCPU /\ sb[TheCPU] \in Seq(Stores)
      /\ sb \in [CPUs -> Seq(Stores)]
  BY DEF OneCPU, TSOInv, TheCPU
<1>2. [word |-> w, val |-> v] \in Stores
  BY DEF Stores
<1>3. Append(sb[TheCPU], [word |-> w, val |-> v]) \in Seq(Stores)
  BY <1>1, <1>2, AppendProperties
<1>4. /\ sb' = [sb EXCEPT ![TheCPU] = Append(sb[TheCPU], [word |-> w, val |-> v])]
      /\ mem' = mem
  BY <1>1 DEF Store
<1>5. /\ sb' \in [CPUs -> Seq(Stores)]
      /\ sb'[TheCPU] = Append(sb[TheCPU], [word |-> w, val |-> v])
      /\ \A c \in CPUs \ {TheCPU} : sb'[c] = sb[c]
  BY <1>1, <1>3, <1>4
<1>6. ASSUME NEW x PROVE Load(TheCPU, x)' = IF x = w THEN v ELSE Load(TheCPU, x)
  <2>1. Load(TheCPU, x)' = Youngest(mem, sb'[TheCPU], x)
    BY <1>4 DEF Load, Youngest, To
  <2> QED  BY <1>1, <1>5, <2>1, AfterStore, LoadIs
<1> QED  BY <1>4, <1>5, <1>6 DEF TSOInv

(* Nobody sees a drain.                                                    *)
LEMMA DrainSeen ==
  ASSUME TSOInv, NEW c \in CPUs, Drain(c)
  PROVE  /\ \A x \in Words : Load(TheCPU, x)' = Load(TheCPU, x)
         /\ mem' \in [Words -> Nat] /\ sb' \in [CPUs -> Seq(Stores)]
         /\ \A d \in CPUs \ {TheCPU} : sb'[d] = <<>>
<1>1. /\ c = TheCPU /\ sb[c] \in Seq(Stores) /\ sb[c] # <<>>
      /\ mem \in [Words -> Nat] /\ sb \in [CPUs -> Seq(Stores)]
  BY DEF TSOInv, Drain
<1>2. Head(sb[c]) \in Stores /\ Tail(sb[c]) \in Seq(Stores)
  BY <1>1, HeadTailProperties
<1>3. /\ mem' = [mem EXCEPT ![Head(sb[c]).word] = Head(sb[c]).val]
      /\ sb' = [sb EXCEPT ![c] = Tail(sb[c])]
  BY DEF Drain
<1>4. /\ mem' \in [Words -> Nat] /\ sb' \in [CPUs -> Seq(Stores)]
      /\ sb'[c] = Tail(sb[c]) /\ \A d \in CPUs \ {c} : sb'[d] = sb[d]
  BY <1>1, <1>2, <1>3 DEF Stores
<1>5. ASSUME NEW x \in Words PROVE Load(TheCPU, x)' = Load(TheCPU, x)
  <2>1. Load(TheCPU, x)' = Youngest(mem', sb'[TheCPU], x)
    BY DEF Load, Youngest, To
  <2>2. Load(TheCPU, x) = Youngest(mem, sb[c], x)
    BY <1>1, LoadIs
  <2>3. Youngest([mem EXCEPT ![Head(sb[c]).word] = Head(sb[c]).val], Tail(sb[c]), x)
          = Youngest(mem, sb[c], x)
    BY <1>1, AfterDrain
  <2>4. Load(TheCPU, x)' = Youngest([mem EXCEPT ![Head(sb[c]).word] = Head(sb[c]).val], Tail(sb[c]), x)
    BY <1>1, <1>3, <1>4, <2>1
  <2> QED  BY <2>2, <2>3, <2>4
<1> QED  BY <1>1, <1>4, <1>5 DEF TSOInv

----------------------------------------------------------------------------
(* What the threads see.                                                   *)
SeenLevel  == [t \in Threads |-> Load(TheCPU, LevelOf(t))]
SeenOnhold == [k \in Levels |-> Load(TheCPU, VictimOf(k))]

(* A store to a level is seen as an assignment to the field.               *)
LEMMA LevelSeen ==
  ASSUME OneCPU, TSOInv, NEW t \in Threads, NEW v \in Nat, Store(t, LevelOf(t), v)
  PROVE  SeenLevel' = [SeenLevel EXCEPT ![t] = v] /\ SeenOnhold' = SeenOnhold
<1>1. \A x : Load(TheCPU, x)' = IF x = LevelOf(t) THEN v ELSE Load(TheCPU, x)
  BY StoreSeen, WordsAre
<1> QED  BY <1>1, WordsAre DEF SeenLevel, SeenOnhold

(* And so is a store to a victim.                                          *)
LEMMA VictimSeen ==
  ASSUME OneCPU, TSOInv, NEW t \in Threads, NEW k \in Levels, Store(t, VictimOf(k), t)
  PROVE  SeenOnhold' = [SeenOnhold EXCEPT ![k] = t] /\ SeenLevel' = SeenLevel
<1>1. t \in Nat
  BY DEF Threads
<1>2. \A x : Load(TheCPU, x)' = IF x = VictimOf(k) THEN t ELSE Load(TheCPU, x)
  BY <1>1, StoreSeen, WordsAre
<1> QED  BY <1>2, WordsAre DEF SeenLevel, SeenOnhold

(* A step that stores nothing changes nothing of it.                       *)
LEMMA NothingSeen ==
  ASSUME UNCHANGED <<mem, sb>>
  PROVE  SeenLevel' = SeenLevel /\ SeenOnhold' = SeenOnhold
BY DEF SeenLevel, SeenOnhold, Load

(* A step of a thread is a step of FilterLock and keeps the types.         *)
LEMMA ThreadSeen ==
  ASSUME OneCPU, TSOInv, NEW t \in Threads, Lock(t) \/ InLock(t) \/ Unlock(t)
  PROVE  TSOInv' /\ Seen!Next
<1>1. /\ cpu[t] = TheCPU /\ i[t] \in 1 .. N /\ i[t] \in Nat
      /\ pc[t] \notin {"idle", "critical"} =>
           /\ i[t] \in Levels /\ i[t] + 1 \in 1 .. N
           /\ i[t] + 1 < N => i[t] + 1 \in Levels
  BY DEF OneCPU, TSOInv, Levels
<1>2. CASE Lock(t)
  <2>1. SeenLevel' = SeenLevel /\ SeenOnhold' = SeenOnhold
    BY <1>2, NothingSeen DEF Lock
  <2>2. Seen!Lock(t)
    BY <1>2, <2>1 DEF Lock, AtLevel, Seen!Lock, Seen!AtLevel, SeenLevel, SeenOnhold
  <2>3. TSOInv'
    BY <1>2 DEF Lock, AtLevel, TSOInv, Places, Levels
  <2> QED  BY <2>2, <2>3 DEF Seen!Next, Seen!Threads, Threads
<1>3. CASE SetLevel(t)
  <2>1. Store(t, LevelOf(t), i[t])
    BY <1>3 DEF SetLevel
  <2>2. Seen!SetLevel(t)
    BY <1>1, <1>3, <2>1, LevelSeen DEF SetLevel, Seen!SetLevel, SeenLevel, SeenOnhold
  <2>3. TSOInv'
    BY <1>1, <1>3, <2>1, StoreSeen, WordsAre DEF SetLevel, TSOInv, Places
  <2> QED  BY <2>2, <2>3 DEF Seen!Next, Seen!InLock, Seen!Threads, Threads
<1>4. CASE SetVictim(t)
  <2>1. Store(t, VictimOf(i[t]), t) /\ i[t] \in Levels /\ t \in Nat
    BY <1>1, <1>4 DEF SetVictim, Threads
  <2>2. Seen!SetVictim(t)
    BY <1>4, <2>1, VictimSeen DEF SetVictim, Seen!SetVictim, SeenLevel, SeenOnhold
  <2>3. TSOInv'
    BY <1>4, <2>1, StoreSeen, WordsAre DEF SetVictim, TSOInv, Places
  <2> QED  BY <2>2, <2>3 DEF Seen!Next, Seen!InLock, Seen!Threads, Threads
<1>5. CASE CheckVictim(t)
  <2>1. /\ SeenLevel' = SeenLevel /\ SeenOnhold' = SeenOnhold
        /\ i[t] \in Levels /\ SeenOnhold[i[t]] = Load(cpu[t], VictimOf(i[t]))
    BY <1>1, <1>5, NothingSeen DEF CheckVictim, SeenOnhold
  <2>2. Seen!CheckVictim(t)
    BY <1>5, <2>1 DEF CheckVictim, AtLevel, Seen!CheckVictim, Seen!AtLevel, SeenLevel, SeenOnhold
  <2>3. TSOInv'
    BY <1>1, <1>5 DEF CheckVictim, AtLevel, TSOInv, Places
  <2> QED  BY <2>2, <2>3 DEF Seen!Next, Seen!InLock, Seen!Threads, Threads
<1>6. CASE Scan(t)
  <2>1. /\ SeenLevel' = SeenLevel /\ SeenOnhold' = SeenOnhold
        /\ j[t] \in Threads /\ SeenLevel[j[t]] = Load(cpu[t], LevelOf(j[t]))
    BY <1>1, <1>6, NothingSeen DEF Scan, SeenLevel
  <2>2. Seen!Scan(t)
    BY <1>6, <2>1 DEF Scan, Seen!Scan, SeenLevel, SeenOnhold, Seen!Threads, Threads
  <2>3. TSOInv'
    BY <1>1, <1>6 DEF Scan, TSOInv, Places
  <2> QED  BY <2>2, <2>3 DEF Seen!Next, Seen!InLock, Seen!Threads, Threads
<1>7. CASE LeaveWait(t)
  <2>1. SeenLevel' = SeenLevel /\ SeenOnhold' = SeenOnhold
    BY <1>7, NothingSeen DEF LeaveWait
  <2>2. Seen!LeaveWait(t)
    BY <1>7, <2>1 DEF LeaveWait, AtLevel, Seen!LeaveWait, Seen!AtLevel, SeenLevel, SeenOnhold
  <2>3. TSOInv'
    BY <1>1, <1>7 DEF LeaveWait, AtLevel, TSOInv, Places
  <2> QED  BY <2>2, <2>3 DEF Seen!Next, Seen!InLock, Seen!Threads, Threads
<1>8. CASE Unlock(t)
  <2>1. Store(t, LevelOf(t), 0)
    BY <1>8 DEF Unlock
  <2>2. Seen!Unlock(t)
    BY <1>8, <2>1, LevelSeen DEF Unlock, Seen!Unlock, SeenLevel, SeenOnhold
  <2>3. TSOInv'
    BY <1>8, SMTT(40), <2>1, StoreSeen, WordsAre DEF Unlock, TSOInv, Places
  <2> QED  BY <2>2, <2>3 DEF Seen!Next, Seen!Threads, Threads
<1> QED  BY <1>2, <1>3, <1>4, <1>5, <1>6, <1>7, <1>8 DEF InLock

----------------------------------------------------------------------------
(* With one CPU, what the threads see starts and moves as FilterLock says, *)
(* and the types hold throughout.                                          *)
LEMMA SeenMoves ==
  ASSUME OneCPU
  PROVE  /\ Init => TSOInv /\ Seen!Init
         /\ TSOInv /\ [Next]_vars => TSOInv' /\ [Seen!Next]_(Seen!vars)
<1>1. Init => TSOInv /\ Seen!Init
  <2> SUFFICES ASSUME Init PROVE TSOInv /\ Seen!Init
    OBVIOUS
  <2>1. TSOInv
    BY DEF Init, TSOInv, Places
  <2>2. TheCPU \in CPUs /\ sb[TheCPU] = <<>>
    BY DEF Init, TheCPU
  <2>3. \A w \in Words : Load(TheCPU, w) = 0
    BY <2>2 DEF Init, Load
  <2>4. Seen!Init
    BY <2>3, WordsAre DEF Init, Seen!Init, Seen!Threads, Seen!Levels, Seen!Nobody, Threads, Levels
  <2> QED  BY <2>1, <2>4
<1>2. TSOInv /\ [Next]_vars => TSOInv' /\ [Seen!Next]_(Seen!vars)
  <2> SUFFICES ASSUME TSOInv, [Next]_vars PROVE TSOInv' /\ [Seen!Next]_(Seen!vars)
    OBVIOUS
  <2>1. ASSUME NEW t \in Threads, Lock(t) \/ InLock(t) \/ Unlock(t)
        PROVE  TSOInv' /\ Seen!Next
    BY <2>1, ThreadSeen
  <2>2. ASSUME NEW c \in CPUs, Drain(c) PROVE TSOInv' /\ UNCHANGED Seen!vars
    <3>1. pc' = pc /\ i' = i /\ j' = j
      BY <2>2 DEF Drain
    <3>2. SeenLevel' = SeenLevel /\ SeenOnhold' = SeenOnhold
      BY <2>2, DrainSeen, WordsAre DEF SeenLevel, SeenOnhold
    <3>3. TSOInv'
      BY <2>2, <3>1, DrainSeen DEF TSOInv
    <3> QED  BY <3>1, <3>2, <3>3 DEF Seen!vars, SeenLevel, SeenOnhold
  <2>3. CASE UNCHANGED vars
    <3>1. TSOInv'
      BY <2>3 DEF vars, TSOInv
    <3>2. SeenLevel' = SeenLevel /\ SeenOnhold' = SeenOnhold
      BY <2>3, NothingSeen DEF vars
    <3> QED  BY <2>3, <3>1, <3>2 DEF vars, Seen!vars, SeenLevel, SeenOnhold
  <2> QED  BY <2>1, <2>2, <2>3 DEF Next
<1> QED  BY <1>1, <1>2

(* On one CPU the threads see a memory without buffers.  This is so of any *)
(* program, and says nothing of pmutex.c: it is the bridge over which what *)
(* is proved of the lock (FilterLockProofs) comes to the buffers.          *)
LEMMA OneCPUSees == ASSUME OneCPU PROVE Spec => Seen!Spec
BY SeenMoves, PTL DEF Spec, Seen!Spec

(* And the types hold in every state.                                      *)
LEMMA OneCPUTypes == ASSUME OneCPU PROVE Spec => []TSOInv
BY SeenMoves, PTL DEF Spec

\* What is proved of the lock without buffers, of what the threads see.
Buffered == INSTANCE FilterLockProofs WITH level <- SeenLevel, onhold <- SeenOnhold

(* What is seen is a run of the lock without buffers.                      *)
LEMMA SeenIsBuffered == Seen!Spec => Buffered!Spec
<1>1. Seen!Init => Buffered!Init
  BY DEF Seen!Init, Buffered!Init, SeenLevel, SeenOnhold, Seen!Threads, Buffered!Threads,
         Seen!Levels, Buffered!Levels, Seen!Nobody, Buffered!Nobody
<1>2. [Seen!Next]_(Seen!vars) => [Buffered!Next]_(Buffered!vars)
  BY DEF Seen!Next, Seen!vars, Seen!Lock, Seen!InLock, Seen!Unlock, Seen!SetLevel, Seen!SetVictim,
         Seen!CheckVictim, Seen!Scan, Seen!LeaveWait, Seen!AtLevel, Seen!Threads,
         Buffered!Next, Buffered!vars, Buffered!Lock, Buffered!InLock, Buffered!Unlock,
         Buffered!SetLevel, Buffered!SetVictim, Buffered!CheckVictim, Buffered!Scan,
         Buffered!LeaveWait, Buffered!AtLevel, Buffered!Threads, SeenLevel, SeenOnhold
<1> QED  BY <1>1, <1>2, PTL DEF Seen!Spec, Buffered!Spec

(* On one CPU at most one thread is between lock() and unlock().           *)
THEOREM OneCPUExclusion == ASSUME OneCPU PROVE Spec => []MutualExclusion
<1>1. Buffered!MutualExclusion => MutualExclusion
  BY DEF Buffered!MutualExclusion, MutualExclusion, Buffered!Threads, Threads
<1> QED  BY <1>1, SeenIsBuffered, OneCPUSees, Buffered!Exclusion, PTL

\* Every load by t of what it waits for returns what keeps it waiting.
SeesItselfHeld(t) ==
  /\ pc[t] \in {"checkVictim", "scan"}
  /\ Load(cpu[t], VictimOf(i[t])) = t
  /\ \E u \in Threads : u # t /\ Load(cpu[t], LevelOf(u)) >= i[t]

(* On one CPU, whatever is pending, one of the threads that are in lock()  *)
(* or hold the mutex reads what lets it go on.                             *)
THEOREM OneCPUDeadlockFree ==
  ASSUME OneCPU
  PROVE  Spec => []((\E t \in Threads : pc[t] # "idle") =>
                       \E t \in Threads : pc[t] # "idle" /\ ~ SeesItselfHeld(t))
<1>1. TSOInv /\ Buffered!NoDeadlock =>
        ((\E t \in Threads : pc[t] # "idle") =>
           \E t \in Threads : pc[t] # "idle" /\ ~ SeesItselfHeld(t))
  <2> SUFFICES ASSUME TSOInv, Buffered!NoDeadlock, \E t \in Threads : pc[t] # "idle"
               PROVE  \E t \in Threads : pc[t] # "idle" /\ ~ SeesItselfHeld(t)
    OBVIOUS
  <2>1. PICK t \in Threads : pc[t] # "idle" /\ ~ Buffered!HeldBack(t)
    BY DEF Buffered!NoDeadlock, Buffered!Threads, Threads
  <2>2. ASSUME SeesItselfHeld(t) PROVE Buffered!HeldBack(t)
    <3>1. pc[t] \in {"checkVictim", "scan"} /\ i[t] \in Levels /\ cpu[t] = TheCPU
      BY <2>2 DEF SeesItselfHeld, TSOInv, OneCPU
    <3>2. SeenOnhold[i[t]] = t
      BY <2>2, <3>1 DEF SeesItselfHeld, SeenOnhold
    <3>3. \E u \in Threads : u # t /\ SeenLevel[u] >= i[t]
      BY <2>2, <3>1 DEF SeesItselfHeld, SeenLevel
    <3> QED  BY <3>1, <3>2, <3>3 DEF Buffered!HeldBack, Buffered!Waits, Buffered!Threads, Threads
  <2> QED  BY <2>1, <2>2
<1> QED  BY <1>1, OneCPUTypes, SeenIsBuffered, OneCPUSees, Buffered!DeadlockFree, PTL
============================================================================
