------------------------- MODULE BuildrootProofs --------------------------
(***************************************************************************)
(* The steps of package builds, for every set of packages, dependencies,   *)
(* number of patches and versions, and whichever packages are overridden.  *)
(*                                                                         *)
(* Of the stamps of one package those up to the build make a chain, of     *)
(* which the ones that are there always are a beginning (Layered), because *)
(* the targets that remove stamps begin at the end of the chain (Clean).   *)
(* So only target_installed ever becomes older than what it is made from   *)
(* (Settled), a step that runs has no stamp or is that one (Ready), and    *)
(* what a stamp stands for is whole while it is there (WholeTree, WholeObj,*)
(* WholeInst).                                                             *)
(*                                                                         *)
(* The files of a configuration, for every number of saves and writes.     *)
(*                                                                         *)
(* And its values, for all Kconfig files without recursive dependencies:   *)
(* there is one way to give the symbols values that fit (CalcIs), as a     *)
(* least symbol two ways differ at depends only on what they agree on      *)
(* (WorthOnce), so a file that says enough is enough (FileKeeps).          *)
(*                                                                         *)
(* The rules of expr.c for two operands and for a comparison keep their    *)
(* value, for every symbol, and for m.                                     *)
(***************************************************************************)
EXTENDS PackageBuild, ConfFiles, Kconfig, FiniteSetTheorems, WellFoundedInduction, TLAPS

USE PackageBuildAssumption

Again == {"reinstall", "rebuild", "reconfigure"}

Names == {"downloaded", "extracted", "patched", "configured", "built", "rsynced",
          "staging_installed", "target_installed", "images_installed"}

TypeOK ==
  /\ stamps \subseteq Stamps /\ old \subseteq stamps
  /\ src \in [Packages -> Versions]
  /\ tree \in [Packages -> Nat] /\ obj \in [Packages -> Nat]
  /\ listed \in [Packages -> SUBSET (1 .. Patches)]
  /\ applied \in [Packages -> Seq(Nat)]
  /\ DOMAIN inst = Packages /\ \A p \in Packages : inst[p] \in [Installs(p) -> Nat]
  /\ inst = [p \in Packages |-> inst[p]]
  /\ op \in [call : Again \cup {"none", "make"}, pkgs : SUBSET Packages, over : BOOLEAN]
  /\ todo \subseteq Names
  /\ step \in Stamps \cup {Idle}
  /\ at \in Nat

\* The make that runs, or none, and what it does first.
Called ==
  /\ op.over => todo = {} /\ step = Idle
  /\ todo # {} => step = Idle
  /\ op.call \in Again => \E p \in Packages : op.pkgs = {p} /\ todo \subseteq Removed(op.call, p)
  /\ op.call \notin Again => todo = {}

\* t is made from s, and s has no business with what others install.
Follows(s, t) == <<s, t>> \in Sequencing /\ s # "staging_installed"

Layered ==
  \A p \in Packages : \A s, t \in Steps(p) :
    Follows(s, t) /\ <<p, t>> \in stamps => <<p, s>> \in stamps

Settled == \A n \in old : n[2] = "target_installed"

\* What is removed after others is removed before those are made again.
Clean ==
  \A p \in op.pkgs : \A s \in todo, t \in Names :
    Follows(s, t) => t \in todo \/ <<p, t>> \notin stamps

Ready ==
  step # Idle => /\ step \notin UpToDate
                 /\ \A m \in Stamps : <<m, step>> \in Needs => m \in UpToDate

WholeTree ==
  \A p \in Packages :
    <<p, "extracted">> \in stamps \/ <<p, "rsynced">> \in stamps => tree[p] \in Versions

WholeObj == \A p \in Packages : <<p, "built">> \in stamps => obj[p] \in Versions

WholeInst ==
  \A p \in Packages : \A s \in Installs(p) : <<p, s>> \in UpToDate => inst[p][s] = obj[p]

\* The first k patches, whole and in order.
Full(k) == [i \in 1 .. k |-> i]

\* The patches of p: the first is noted before any is applied, and after an
\* interruption that is all apply-patches.sh needs to stop at.
Applied(p) ==
  /\ listed[p] = {} => applied[p] = <<>>
  /\ listed[p] # {} => 1 \in listed[p]
  /\ <<p, "patched">> \in stamps => applied[p] = Full(Patches) /\ (Patches > 0 => listed[p] # {})
  /\ step = <<p, "patched">> /\ at > 0 =>
       /\ <<p, "patched">> \notin stamps
       /\ applied[p] = Full(at \div 2) /\ listed[p] = 1 .. (at + 1) \div 2

\* foo-rebuild takes the user's sources.
Newest ==
  op.call \in {"rebuild", "reconfigure"} => \A p \in op.pkgs \cap Overridden :
    /\ <<p, "rsynced">> \in stamps => "rsynced" \in todo \/ tree[p] = src[p]
    /\ <<p, "built">> \in stamps => "built" \in todo \/ obj[p] = src[p]

Ended == op.over => Goal(op.pkgs) \subseteq UpToDate

IInv ==
  /\ TypeOK /\ Called /\ Layered /\ Settled /\ Clean /\ Ready
  /\ WholeTree /\ WholeObj /\ WholeInst
  /\ \A p \in Packages \ Overridden : Applied(p)
  /\ Newest /\ Ended

----------------------------------------------------------------------------
(* The stamps and what they need.                                          *)

(* The steps of a package have names, its installations among them.        *)
LEMMA StepsNamed ==
  \A p \in Packages : /\ Steps(p) \subseteq Names /\ Installs(p) \subseteq Steps(p)
                      /\ Installs(p) \subseteq {"staging_installed", "target_installed",
                                                "images_installed"}
BY DEF Steps, Installs, Names

(* A stamp is a package with one of its steps.                             *)
LEMMA StampsAre ==
  /\ \A p \in Packages : \A s : <<p, s>> \in Stamps <=> s \in Steps(p)
  /\ \A n \in Stamps : n = <<n[1], n[2]>> /\ n[1] \in Packages /\ n[2] \in Steps(n[1])
BY DEF Stamps

(* No step at all is not a step.                                           *)
LEMMA IdleIsNone == Idle \notin Stamps /\ \A p, s : s \in Names => <<p, s>> # Idle
<1>1. "none" \notin Names
  BY DEF Names
<1>2. \A p, s : s \in Names => <<p, s>> # Idle
  BY <1>1 DEF Idle
<1> QED  BY <1>2, StampsAre, StepsNamed

(* What a step is made from is a step before it of the same package.       *)
LEMMA Made ==
  /\ \A p, q \in Packages : \A s, t : <<<<p, s>>, <<q, t>>>> \in MadeFrom <=> p = q /\ <<s, t>> \in Sequencing
  /\ \A s, t : <<s, t>> \in Sequencing =>
       s \in Names \ {"target_installed", "images_installed", "rsynced"} /\ t \in Names
<1>1. \A s, t : <<s, t>> \in Sequencing =>
       s \in Names \ {"target_installed", "images_installed", "rsynced"} /\ t \in Names
  BY DEF Sequencing, Names
<1>2. \A e \in Sequencing : e = <<e[1], e[2]>>
  BY DEF Sequencing
<1>3. ASSUME NEW p \in Packages, NEW q \in Packages, NEW s, NEW t, <<<<p, s>>, <<q, t>>>> \in MadeFrom
      PROVE  p = q /\ <<s, t>> \in Sequencing
  BY <1>2, <1>3 DEF MadeFrom
<1>4. ASSUME NEW p \in Packages, NEW s, NEW t, <<s, t>> \in Sequencing
      PROVE  <<<<p, s>>, <<p, t>>>> \in MadeFrom
  BY <1>4 DEF MadeFrom
<1> QED  BY <1>1, <1>3, <1>4

(* A stamp needs what make names as its prerequisites ...                  *)
LEMMA Direct ==
  ASSUME NEW m \in Stamps, NEW n \in Stamps, <<m, n>> \in MadeFrom \cup OrderOnly
  PROVE  <<m, n>> \in Needs
<1>1. m \in Prerequisites(n)
  BY DEF Prerequisites
<1>2. m \in NeededBy(n)
  BY <1>1 DEF NeededBy
<1> QED  BY <1>2 DEF Needs

(* ... and what those need.                                                *)
LEMMA Further ==
  ASSUME NEW k \in Stamps, NEW m \in Stamps, NEW n \in Stamps,
         <<k, m>> \in Needs, <<m, n>> \in Needs
  PROVE  <<k, n>> \in Needs
<1>1. k \in NeededBy(m) /\ m \in NeededBy(n)
  BY DEF Needs
<1>2. ASSUME NEW S \in Closed, Prerequisites(n) \subseteq S PROVE k \in S
  <2>1. m \in S
    BY <1>1, <1>2 DEF NeededBy
  <2>2. Prerequisites(m) \subseteq S
    BY <2>1 DEF Closed
  <2> QED  BY <1>1, <2>2 DEF NeededBy
<1>3. k \in NeededBy(n)
  BY <1>2 DEF NeededBy
<1> QED  BY <1>3 DEF Needs

----------------------------------------------------------------------------
(* The initial state.                                                      *)

(* Nothing is asked for, nothing has to be there.                          *)
LEMMA NoGoal == Goal({}) = {}
BY DEF Goal

(* The invariant holds where nothing is built yet.                         *)
LEMMA Starts == BInit => IInv
<1> SUFFICES ASSUME BInit PROVE IInv
  OBVIOUS
<1> USE DEF BInit, Rest
<1>1. TypeOK
  <2>1. \A p \in Packages : [s \in Installs(p) |-> Nothing] \in [Installs(p) -> Nat]
    BY DEF Nothing
  <2> QED  BY <2>1 DEF TypeOK, Versions, Nothing
<1>2. Called /\ Layered /\ Settled /\ Clean /\ Ready
  BY DEF Called, Layered, Settled, Clean, Ready, Again
<1>3. WholeTree /\ WholeObj /\ WholeInst
  BY DEF WholeTree, WholeObj, WholeInst, UpToDate
<1>4. ASSUME NEW p \in Packages \ Overridden PROVE Applied(p)
  BY DEF Applied
<1>5. Newest /\ Ended
  BY NoGoal DEF Newest, Ended
<1> QED  BY <1>1, <1>2, <1>3, <1>4, <1>5 DEF IInv

----------------------------------------------------------------------------
(* The calls.                                                              *)

(* A call of make, with or without a target that removes stamps.           *)
LEMMA CallKeeps ==
  ASSUME IInv, NEW pkgs \in SUBSET Packages,
         \/ Make(pkgs)
         \/ \E call \in Again, p \in Packages : pkgs = {p} /\ MakeAgain(call, p)
  PROVE  IInv'
<1> USE DEF IInv
<1>0. PICK call \in Again \cup {"make"} :
        /\ op.over /\ op' = [call |-> call, pkgs |-> pkgs, over |-> FALSE]
        /\ stamps' = stamps /\ old' = old /\ src' = src /\ tree' = tree /\ listed' = listed
        /\ applied' = applied /\ obj' = obj /\ inst' = inst /\ step' = step /\ at' = at
        /\ \/ call = "make" /\ todo' = {}
           \/ call # "make" /\ \E p \in Packages : pkgs = {p} /\ todo' = Removed(call, p)
  BY DEF Make, MakeAgain, Call, files, Waiting, Called, Again
<1>1. op'.call = call /\ op'.pkgs = pkgs /\ op'.over = FALSE /\ step' = Idle
  BY <1>0 DEF Called
<1>2. todo' \subseteq Names
  BY <1>0 DEF Removed, Names
<1>3. TypeOK'
  BY <1>0, <1>2 DEF TypeOK
<1>4. Called' /\ Layered' /\ Settled' /\ Ready'
  BY <1>0, <1>1 DEF Called, Layered, Settled, Ready, Again
<1>5. Clean'
  <2>1. CASE call = "make"
    BY <1>0, <2>1 DEF Clean
  <2>2. ASSUME NEW p \in Packages, pkgs = {p}, todo' = Removed(call, p),
               NEW s \in todo', NEW t \in Names, Follows(s, t)
        PROVE  t \in todo'
    BY <2>2 DEF Removed, Follows, Sequencing
  <2> QED  BY <1>0, <1>1, <2>1, <2>2 DEF Clean
<1>6. (WholeTree /\ WholeObj /\ WholeInst)'
  BY <1>0 DEF WholeTree, WholeObj, WholeInst, UpToDate
<1>7. ASSUME NEW p \in Packages \ Overridden PROVE Applied(p)'
  BY <1>0 DEF Applied
<1>8. Newest' /\ Ended'
  <2>1. CASE call = "make"
    BY <1>1, <2>1 DEF Newest, Ended
  <2>2. ASSUME NEW p \in Packages, pkgs = {p}, todo' = Removed(call, p)
        PROVE  Newest' /\ Ended'
    BY <1>1, <2>2 DEF Newest, Ended, Removed
  <2> QED  BY <1>0, <2>1, <2>2
<1> QED  BY <1>3, <1>4, <1>5, <1>6, <1>7, <1>8

(* One stamp is removed: the later ones of its chain are gone already.     *)
LEMMA RemoveStampKeeps ==
  ASSUME IInv, RemoveStamp
  PROVE  IInv'
<1> USE DEF IInv
<1>0. PICK p \in op.pkgs, s \in todo :
        /\ \A t \in todo : Rank(s) <= Rank(t)
        /\ todo' = todo \ {s} /\ stamps' = stamps \ {<<p, s>>} /\ old' = old \ {<<p, s>>}
        /\ src' = src /\ tree' = tree /\ listed' = listed /\ applied' = applied
        /\ obj' = obj /\ inst' = inst /\ op' = op /\ step' = step /\ at' = at
  BY DEF RemoveStamp, files
<1>1. op.call \in Again /\ op.pkgs = {p} /\ p \in Packages /\ todo \subseteq Removed(op.call, p)
      /\ ~ op.over /\ step = Idle
  BY DEF Called
<1>2. TypeOK' /\ Called' /\ Settled' /\ Ready'
  BY <1>0, <1>1 DEF TypeOK, Called, Settled, Ready
<1>3. ASSUME NEW t \in todo PROVE ~ Follows(s, t)
  <2>1. Rank(s) <= Rank(t)
    BY <1>0
  <2>2. SUFFICES ASSUME Follows(s, t) PROVE FALSE
    OBVIOUS
  <2>3. \/ s = "configured" /\ t = "built"
        \/ s = "built" /\ t \in {"staging_installed", "target_installed", "images_installed"}
    BY <1>1, <2>2 DEF Follows, Sequencing, Removed
  <2> QED  BY <2>1, <2>3 DEF Rank
<1>4. Layered'
  <2> SUFFICES ASSUME NEW q \in Packages, NEW a \in Steps(q), NEW b \in Steps(q),
                      Follows(a, b), <<q, b>> \in stamps', <<q, a>> \notin stamps'
               PROVE  FALSE
    BY DEF Layered
  <2>1. <<q, a>> = <<p, s>> /\ <<q, b>> \in stamps
    BY <1>0 DEF Layered
  <2>2. b \in todo
    BY <1>1, <2>1, StepsNamed DEF Clean
  <2> QED  BY <1>3, <2>1, <2>2
<1>5. Clean'
  BY <1>0, <1>1 DEF Clean
<1>6. UpToDate' \subseteq UpToDate
  BY <1>0 DEF UpToDate
<1>7. (WholeTree /\ WholeObj /\ WholeInst)'
  BY <1>0, <1>6 DEF WholeTree, WholeObj, WholeInst
<1>8. ASSUME NEW q \in Packages \ Overridden PROVE Applied(q)'
  BY <1>0 DEF Applied
<1>9. Newest' /\ Ended'
  BY <1>0, <1>1 DEF Newest, Ended
<1> QED  BY <1>2, <1>4, <1>5, <1>7, <1>8, <1>9

(* dirclean takes all stamps of a package at once.                         *)
LEMMA DircleanKeeps ==
  ASSUME IInv, NEW p \in Packages, Dirclean(p)
  PROVE  IInv'
<1> USE DEF IInv
<1>0. /\ op' = Rest /\ stamps' = {n \in stamps : n[1] # p} /\ old' = {n \in old : n[1] # p}
      /\ tree' = [tree EXCEPT ![p] = Nothing] /\ obj' = [obj EXCEPT ![p] = Nothing]
      /\ listed' = [listed EXCEPT ![p] = {}] /\ applied' = [applied EXCEPT ![p] = <<>>]
      /\ src' = src /\ inst' = inst /\ todo' = {} /\ step' = Idle /\ at' = at
  BY DEF Dirclean, Waiting, Called
<1>1. /\ \A q, s : <<q, s>> \in stamps' => q # p /\ <<q, s>> \in stamps
      /\ \A q, s : <<q, s>> \in UpToDate' => q # p /\ <<q, s>> \in UpToDate
  BY <1>0 DEF UpToDate
<1>2. TypeOK'
  BY <1>0 DEF TypeOK, Nothing, Rest
<1>3. Called' /\ Settled' /\ Clean' /\ Ready'
  BY <1>0 DEF Called, Settled, Clean, Ready, Rest, Again
<1>4. Layered'
  BY <1>0, <1>1 DEF Layered
<1>5. (WholeTree /\ WholeObj /\ WholeInst)'
  BY <1>0, <1>1 DEF WholeTree, WholeObj, WholeInst, TypeOK
<1>6. ASSUME NEW q \in Packages \ Overridden PROVE Applied(q)'
  BY <1>0, <1>1, IdleIsNone DEF Applied, TypeOK, Names
<1>7. Newest' /\ Ended'
  BY <1>0, NoGoal DEF Newest, Ended, Rest
<1> QED  BY <1>2, <1>3, <1>4, <1>5, <1>6, <1>7

(* The user edits the sources of an overridden package.                    *)
LEMMA EditKeeps ==
  ASSUME IInv, NEW p \in Packages, Edit(p)
  PROVE  IInv'
<1> USE DEF IInv
<1>0. /\ op' = Rest /\ src' = [src EXCEPT ![p] = @ + 1] /\ src[p] < MaxVersion
      /\ stamps' = stamps /\ old' = old /\ tree' = tree /\ listed' = listed /\ applied' = applied
      /\ obj' = obj /\ inst' = inst /\ todo' = {} /\ step' = Idle /\ at' = at /\ step = Idle
  BY DEF Edit, Waiting, Called, files
<1>1. TypeOK'
  <2>1. src' \in [Packages -> Versions]
    BY <1>0 DEF TypeOK, Versions
  <2> QED  BY <1>0, <2>1 DEF TypeOK, Rest
<1>2. (Called /\ Layered /\ Settled /\ Clean /\ Ready)'
  BY <1>0 DEF Called, Layered, Settled, Clean, Ready, Rest, Again
<1>3. (WholeTree /\ WholeObj /\ WholeInst)'
  BY <1>0 DEF WholeTree, WholeObj, WholeInst, UpToDate
<1>4. ASSUME NEW q \in Packages \ Overridden PROVE Applied(q)'
  BY <1>0 DEF Applied
<1>5. Newest' /\ Ended'
  BY <1>0, NoGoal DEF Newest, Ended, Rest
<1> QED  BY <1>1, <1>2, <1>3, <1>4, <1>5

(* Whatever the step had done, no stamp stands for it.                     *)
LEMMA StopKeeps ==
  ASSUME IInv, Stop, UNCHANGED <<stamps, old, src, files>>
  PROVE  IInv'
<1> USE DEF IInv
<1>0. /\ op' = Rest /\ src' = src
      /\ stamps' = stamps /\ old' = old /\ tree' = tree /\ listed' = listed /\ applied' = applied
      /\ obj' = obj /\ inst' = inst /\ todo' = {} /\ step' = Idle /\ at' = 0
  BY DEF Stop, files
<1>1. TypeOK'
  BY <1>0 DEF TypeOK, Rest
<1>2. (Called /\ Layered /\ Settled /\ Clean /\ Ready)'
  BY <1>0 DEF Called, Layered, Settled, Clean, Ready, Rest, Again
<1>3. (WholeTree /\ WholeObj /\ WholeInst)'
  BY <1>0 DEF WholeTree, WholeObj, WholeInst, UpToDate
<1>4. ASSUME NEW q \in Packages \ Overridden PROVE Applied(q)'
  BY <1>0 DEF Applied
<1>5. Newest' /\ Ended'
  BY <1>0, NoGoal DEF Newest, Ended, Rest
<1> QED  BY <1>1, <1>2, <1>3, <1>4, <1>5

----------------------------------------------------------------------------
(* The patches of a package.                                               *)

(* Noting a patch and applying it are two steps of at.                     *)
LEMMA Halves ==
  ASSUME NEW n \in Nat
  PROVE  /\ n \div 2 \in Nat
         /\ n % 2 = 0 => (n + 1) \div 2 = n \div 2 /\ (n + 2) \div 2 = n \div 2 + 1
         /\ n % 2 = 0 /\ n # 0 => n \div 2 > 0
         /\ n % 2 = 1 => /\ (n + 1) \div 2 = n \div 2 + 1 /\ (n + 2) \div 2 = n \div 2 + 1
                         /\ n > 0
BY SMT

(* The next patch follows those that are applied.                          *)
LEMMA OnePatchMore ==
  ASSUME NEW k \in Nat
  PROVE  Append(Full(k), k + 1) = Full(k + 1)
<1> Full(k) \in Seq(Nat) /\ Len(Full(k)) = k
  BY DEF Full
<1> QED  BY DEF Full

(* While a package is patched nothing else changes than these.             *)
LEMMA PatchingKeeps ==
  ASSUME IInv, NEW p \in Packages, step = <<p, "patched">>,
         listed' \in [Packages -> SUBSET (1 .. Patches)], applied' \in [Packages -> Seq(Nat)],
         at' \in Nat, UNCHANGED <<op, todo, step, stamps, old, src, tree, obj, inst>>,
         p \notin Overridden => Applied(p)',
         \A q \in Packages \ {p} : listed'[q] = listed[q] /\ applied'[q] = applied[q]
  PROVE  IInv'
<1> USE DEF IInv
<1>1. TypeOK'
  BY DEF TypeOK
<1>2. (Called /\ Layered /\ Settled /\ Clean /\ Ready)'
  BY DEF Called, Layered, Settled, Clean, Ready, UpToDate
<1>3. (WholeTree /\ WholeObj /\ WholeInst)'
  BY DEF WholeTree, WholeObj, WholeInst, UpToDate
<1>4. ASSUME NEW q \in Packages \ Overridden PROVE Applied(q)'
  BY DEF Applied
<1>5. Newest' /\ Ended'
  BY DEF Newest, Ended, UpToDate
<1> QED  BY <1>1, <1>2, <1>3, <1>4, <1>5

(* No patch is applied to the user's own sources.                          *)
LEMMA NotOverridden ==
  ASSUME TypeOK, NEW p \in Packages, step = <<p, "patched">>
  PROVE  p \notin Overridden
<1>1. <<p, "patched">> # Idle
  BY IdleIsNone DEF Names
<1>2. "patched" \in Steps(p)
  BY <1>1, StampsAre DEF TypeOK
<1> QED  BY <1>2 DEF Steps, Installs

(* A patch is noted.                                                       *)
LEMMA RecordPatchKeeps ==
  ASSUME IInv, NEW p \in Packages, RecordPatch(p)
  PROVE  IInv'
<1>0. /\ step = <<p, "patched">> /\ at % 2 = 0 /\ at \div 2 < Patches
      /\ stamps' = stamps /\ old' = old /\ src' = src /\ tree' = tree /\ applied' = applied
      /\ obj' = obj /\ inst' = inst
  BY DEF RecordPatch
<1>1. TypeOK /\ p \notin Overridden /\ Applied(p)
  BY <1>0, NotOverridden DEF IInv
<1> DEFINE i == at \div 2 + 1
<1>2. at \in Nat /\ i \in 1 .. Patches /\ i - 1 = at \div 2
  <2>1. at \in Nat
    BY <1>1 DEF TypeOK
  <2>2. at \div 2 \in Nat
    BY <2>1, Halves
  <2> QED  BY <1>0, <2>1, <2>2
<1>3. CASE Stop /\ UNCHANGED listed
  BY <1>0, <1>3, StopKeeps DEF files
<1>4. CASE /\ i \notin listed[p] /\ at' = at + 1
           /\ listed' = [listed EXCEPT ![p] = @ \cup {i}] /\ UNCHANGED <<op, todo, step>>
  <2>1. /\ listed' \in [Packages -> SUBSET (1 .. Patches)]
        /\ listed'[p] = listed[p] \cup {i}
        /\ \A q \in Packages \ {p} : listed'[q] = listed[q]
    BY <1>1, <1>2, <1>4, SMTT(30) DEF TypeOK
  <2>2. applied[p] = Full(i - 1) /\ listed[p] = 1 .. (i - 1) /\ <<p, "patched">> \notin stamps
    <3>1. CASE at = 0
      <4>1. i = 1
        BY <3>1
      <4>2. listed[p] = {}
        BY <1>1, <1>4, <4>1 DEF Applied
      <4>3. applied[p] = <<>> /\ <<p, "patched">> \notin stamps
        BY <1>1, <1>2, <4>2 DEF Applied
      <4>4. Full(0) = <<>> /\ 1 .. 0 = {}
        BY DEF Full
      <4> QED  BY <4>1, <4>2, <4>3, <4>4
    <3>2. CASE at # 0
      BY <1>0, <1>1, <1>2, <3>2, Halves DEF Applied
    <3> QED  BY <3>1, <3>2
  <2>3. at' \div 2 = i - 1 /\ (at' + 1) \div 2 = i
    BY <1>0, <1>2, <1>4, Halves
  <2>4. listed'[p] = 1 .. i /\ 1 \in listed'[p]
    BY <1>2, <2>1, <2>2
  <2>5. Applied(p)'
    BY <1>0, <1>4, <2>2, <2>3, <2>4 DEF Applied
  <2>6. applied' \in [Packages -> Seq(Nat)] /\ at' \in Nat
    BY <1>0, <1>1, <1>2, <1>4 DEF TypeOK
  <2> QED  BY <1>0, <1>4, <2>1, <2>5, <2>6, PatchingKeeps
<1> QED  BY <1>3, <1>4 DEF RecordPatch

(* A patch is applied, or fails.                                           *)
LEMMA ApplyPatchKeeps ==
  ASSUME IInv, NEW p \in Packages, ApplyPatch(p)
  PROVE  IInv'
<1>0. /\ step = <<p, "patched">> /\ at % 2 = 1
      /\ stamps' = stamps /\ old' = old /\ src' = src /\ tree' = tree /\ listed' = listed
      /\ obj' = obj /\ inst' = inst
  BY DEF ApplyPatch
<1>1. TypeOK /\ p \notin Overridden /\ Applied(p)
  BY <1>0, NotOverridden DEF IInv
<1> DEFINE k == at \div 2
<1>2. at \in Nat /\ k \in Nat /\ (at + 1) \div 2 = k + 1 /\ (at + 2) \div 2 = k + 1 /\ at > 0
  BY <1>0, <1>1, Halves DEF TypeOK
<1>3. <<p, "patched">> \notin stamps /\ applied[p] = Full(k) /\ listed[p] = 1 .. (k + 1)
  BY <1>0, <1>1, <1>2 DEF Applied
<1>4. CASE /\ applied' = [applied EXCEPT ![p] = Append(@, k + 1)]
           /\ at' = at + 1 /\ UNCHANGED <<op, todo, step>>
  <2>1. applied' \in [Packages -> Seq(Nat)] /\ applied'[p] = Full(k + 1)
    <3>1. applied \in [Packages -> Seq(Nat)] /\ k + 1 \in Nat
      BY <1>1, <1>2, SMTT(30) DEF TypeOK
    <3>2. Append(applied[p], k + 1) \in Seq(Nat)
      BY <3>1
    <3>3. applied'[p] = Append(applied[p], k + 1)
      BY <1>4, <3>1
    <3> QED  BY <1>2, <1>3, <1>4, <3>1, <3>2, <3>3, OnePatchMore
  <2>2. at' \div 2 = k + 1 /\ (at' + 1) \div 2 = k + 1
    <3>1. (at + 2) \div 2 = k + 1 /\ at' + 1 = at + 2 /\ at' = at + 1
      BY <1>2, <1>4
    <3> QED  BY <1>2, <3>1
  <2>3. 1 \in listed'[p]
    BY <1>0, <1>2, <1>3
  <2>4. Applied(p)'
    BY <1>0, <1>3, <1>4, <2>1, <2>2, <2>3 DEF Applied
  <2>5. /\ \A q \in Packages \ {p} : listed'[q] = listed[q] /\ applied'[q] = applied[q]
        /\ listed' \in [Packages -> SUBSET (1 .. Patches)] /\ at' \in Nat
    <3>1. applied \in [Packages -> Seq(Nat)] /\ listed \in [Packages -> SUBSET (1 .. Patches)]
      BY <1>1 DEF TypeOK
    <3> QED  BY <1>0, <1>2, <1>4, <3>1
  <2> QED  BY <1>0, <1>4, <2>1, <2>4, <2>5, PatchingKeeps
<1>5. CASE applied' = [applied EXCEPT ![p] = Append(@, 0)] /\ Stop
  <2>0. /\ op' = Rest /\ todo' = {} /\ step' = Idle /\ at' = 0
    BY <1>5 DEF Stop
  <2>1. applied' \in [Packages -> Seq(Nat)] /\ \A q \in Packages \ {p} : applied'[q] = applied[q]
    BY <1>1, <1>5 DEF TypeOK
  <2> USE DEF IInv
  <2>2. TypeOK'
    BY <1>0, <2>0, <2>1 DEF TypeOK, Rest
  <2>3. (Called /\ Layered /\ Settled /\ Clean /\ Ready)'
    BY <1>0, <2>0 DEF Called, Layered, Settled, Clean, Ready, Rest, Again
  <2>4. (WholeTree /\ WholeObj /\ WholeInst)'
    BY <1>0 DEF WholeTree, WholeObj, WholeInst, UpToDate
  <2>5. ASSUME NEW q \in Packages \ Overridden PROVE Applied(q)'
    <3>1. 1 \in listed[p]
      BY <1>2, <1>3
    <3>5. step' # <<q, "patched">>
      BY <2>0, IdleIsNone DEF Names
    <3>2. CASE q = p
      BY <1>0, <1>3, <3>1, <3>5, <3>2 DEF Applied
    <3>3. CASE q # p
      BY <1>0, <2>1, <3>3, <3>5 DEF Applied
    <3> QED  BY <3>2, <3>3
  <2>6. Newest' /\ Ended'
    BY <2>0, NoGoal DEF Newest, Ended, Rest
  <2> QED  BY <2>2, <2>3, <2>4, <2>5, <2>6
<1> QED  BY <1>4, <1>5 DEF ApplyPatch

----------------------------------------------------------------------------
(* A step begins and ends.                                                 *)

(* What is up to date follows what it is made from, and a step that begins *)
(* or runs has no stamp, unless it is that of target_installed.            *)
LEMMA Unstamped ==
  ASSUME IInv, NEW n \in Stamps, n \notin UpToDate
  PROVE  n \in stamps => n[2] = "target_installed"
BY DEF IInv, UpToDate, Settled

(* What make is to bring about are stamps.                                 *)
LEMMA GoalStamps ==
  ASSUME NEW pkgs \in SUBSET Packages
  PROVE  Goal(pkgs) \subseteq Stamps
BY StepsNamed, StampsAre DEF Goal

(* What inst is when p has put its files where s puts them, or none.       *)
LEMMA Put ==
  ASSUME TypeOK, NEW p \in Packages, NEW s, NEW v \in Nat,
         inst' = IF s \in Installs(p) THEN [inst EXCEPT ![p][s] = v] ELSE inst
  PROVE  /\ DOMAIN inst' = Packages /\ inst' = [q \in Packages |-> inst'[q]]
         /\ \A q \in Packages : inst'[q] \in [Installs(q) -> Nat]
         /\ s \in Installs(p) => inst'[p][s] = v
         /\ \A q \in Packages : \A x \in Installs(q) : <<q, x>> # <<p, s>> => inst'[q][x] = inst[q][x]
<1>1. CASE s \notin Installs(p)
  BY <1>1 DEF TypeOK
<1>2. CASE s \in Installs(p)
  <2> DEFINE row == [inst[p] EXCEPT ![s] = v]
  <2>1. /\ DOMAIN inst = Packages /\ inst = [q \in Packages |-> inst[q]]
        /\ \A q \in Packages : inst[q] \in [Installs(q) -> Nat]
    BY DEF TypeOK
  <2>2. row \in [Installs(p) -> Nat] /\ row[s] = v /\ \A x \in Installs(p) \ {s} : row[x] = inst[p][x]
    BY <1>2, <2>1
  <2>3. inst' = [inst EXCEPT ![p] = row]
    BY <1>2
  <2> HIDE DEF row
  <2>4. inst' = [q \in Packages |-> IF q = p THEN row ELSE inst[q]]
    BY <2>1, <2>3
  <2> QED  BY <2>1, <2>2, <2>4, ZenonT(40)
<1> QED  BY <1>1, <1>2

(* A step begins: what its stamp stood for is no longer whole, so the      *)
(* stamp must not be there.                                                *)
LEMMA BeginKeeps ==
  ASSUME IInv, Making, NEW n \in Goal(op.pkgs), Begin(n)
  PROVE  IInv'
<1> USE DEF IInv
<1>1. n \in Stamps /\ ~ op.over /\ todo = {} /\ step = Idle
  BY GoalStamps DEF TypeOK, Making, Waiting
<1>2. PICK p \in Packages : \E x \in Steps(p) : n = <<p, x>>
  BY <1>1, StampsAre
<1>3. PICK s \in Steps(p) : n = <<p, s>>
  BY <1>2
<1>0. /\ n \notin UpToDate /\ \A m \in Stamps : <<m, n>> \in Needs => m \in UpToDate
      /\ step' = n /\ at' = 0
      /\ tree' = IF s \in {"extracted", "rsynced"} THEN [tree EXCEPT ![p] = Torn] ELSE tree
      /\ obj'  = IF s = "built" THEN [obj EXCEPT ![p] = Torn] ELSE obj
      /\ inst' = IF s \in Installs(p) THEN [inst EXCEPT ![p][s] = Torn] ELSE inst
      /\ stamps' = stamps /\ old' = old /\ src' = src /\ listed' = listed /\ applied' = applied
      /\ op' = op /\ todo' = todo
  BY <1>3 DEF Begin
<1>4. UpToDate' = UpToDate /\ UpToDate \subseteq stamps /\ stamps \subseteq Stamps
  BY <1>0 DEF UpToDate, TypeOK
<1>5. s # "target_installed" => <<p, s>> \notin stamps
  BY <1>0, <1>1, <1>3, Unstamped
<1>6. /\ Torn \in Nat
      /\ \A q \in Packages : q # p => tree'[q] = tree[q] /\ obj'[q] = obj[q] /\ inst'[q] = inst[q]
  BY <1>0 DEF TypeOK, Torn
<1>7. TypeOK'
  <2>1. tree' \in [Packages -> Nat] /\ obj' \in [Packages -> Nat]
    BY <1>0, <1>6 DEF TypeOK
  <2>2. /\ DOMAIN inst' = Packages /\ inst' = [q \in Packages |-> inst'[q]]
        /\ \A q \in Packages : inst'[q] \in [Installs(q) -> Nat]
    BY <1>0, <1>6, Put
  <2> QED  BY <1>0, <1>1, <2>1, <2>2 DEF TypeOK
<1>8. (Called /\ Layered /\ Settled /\ Clean)'
  BY <1>0, <1>1 DEF Called, Layered, Settled, Clean
<1>9. Ready'
  BY <1>0, <1>4 DEF Ready
<1>10. WholeTree'
  <2> SUFFICES ASSUME NEW q \in Packages, <<q, "extracted">> \in stamps \/ <<q, "rsynced">> \in stamps
               PROVE  tree'[q] \in Versions
    BY <1>0 DEF WholeTree
  <2>1. tree[q] \in Versions
    BY DEF WholeTree
  <2>2. CASE q = p
    <3>1. ~ ("extracted" \in Steps(p) /\ "rsynced" \in Steps(p))
      BY DEF Steps, Installs
    <3>2. s \notin {"extracted", "rsynced"}
      BY <1>4, <1>5, <2>2, <3>1, StampsAre
    <3> QED  BY <1>0, <2>1, <2>2, <3>2
  <2> QED  BY <1>6, <2>1, <2>2
<1>11. WholeObj'
  BY <1>0, <1>5, <1>6 DEF WholeObj
<1>12. WholeInst'
  <2> SUFFICES ASSUME NEW q \in Packages, NEW x \in Installs(q), <<q, x>> \in UpToDate
               PROVE  inst'[q][x] = obj'[q]
    BY <1>4 DEF WholeInst
  <2>1. inst[q][x] = obj[q]
    BY DEF WholeInst
  <2>2. CASE q = p
    <3>1. x # s
      BY <1>0, <1>3, <2>2
    <3>2. inst'[p][x] = inst[p][x]
      BY <1>0, <2>2, <3>1 DEF TypeOK
    <3>3. <<p, "built">> \in stamps
      <4>1. Follows("built", x) /\ x \in Steps(p) /\ "built" \in Steps(p)
        BY <2>2, StepsNamed DEF Follows, Sequencing, Steps
      <4> QED  BY <1>4, <2>2, <4>1 DEF Layered
    <3>4. s # "built"
      BY <1>5, <3>3
    <3> QED  BY <1>0, <2>1, <2>2, <3>2, <3>4
  <2> QED  BY <1>6, <2>1, <2>2
<1>13. ASSUME NEW q \in Packages \ Overridden PROVE Applied(q)'
  BY <1>0 DEF Applied
<1>14. Newest'
  <2> SUFFICES ASSUME op.call \in {"rebuild", "reconfigure"}, NEW q \in op.pkgs \cap Overridden
               PROVE  /\ <<q, "rsynced">> \in stamps => tree'[q] = src[q]
                      /\ <<q, "built">> \in stamps => obj'[q] = src[q]
    BY <1>0, <1>1 DEF Newest
  <2>1. /\ <<q, "rsynced">> \in stamps => tree[q] = src[q]
        /\ <<q, "built">> \in stamps => obj[q] = src[q]
    BY <1>1 DEF Newest
  <2>2. "extracted" \notin Steps(q)
    BY DEF Steps, Installs
  <2>3. CASE q = p
    BY <1>0, <1>5, <2>1, <2>2, <2>3
  <2>4. CASE q # p
    BY <1>6, <2>1, <2>4
  <2> QED  BY <2>3, <2>4
<1>15. Ended'
  BY <1>0, <1>1 DEF Ended
<1> QED  BY <1>7, <1>8, <1>9, <1>10, <1>11, <1>12, <1>13, <1>14, <1>15

(* A step of p from its configuration on runs on whole sources.            *)
LEMMA OnSources ==
  ASSUME IInv, NEW p \in Packages, step \in {<<p, "configured">>, <<p, "built">>}
  PROVE  /\ tree[p] \in Versions
         /\ p \in Overridden => <<p, "rsynced">> \in stamps
         /\ \A m \in Stamps : <<m, <<p, "configured">>>> \in Needs => m \in UpToDate
<1> USE DEF IInv
<1> DEFINE c == <<p, "configured">>
           b == <<p, "built">>
<1>1. c \in Stamps /\ b \in Stamps /\ step # Idle /\ UpToDate \subseteq stamps
  BY IdleIsNone, StampsAre DEF Steps, UpToDate
<1>2. <<c, b>> \in Needs
  BY <1>1, Direct, Made DEF Sequencing
<1>3. ASSUME NEW m \in Stamps, <<m, c>> \in Needs PROVE m \in UpToDate
  BY <1>1, <1>2, <1>3, Further DEF Ready
<1>4. CASE p \in Overridden
  <2>1. <<p, "rsynced">> \in Stamps
    BY <1>4, StampsAre DEF Steps
  <2>2. <<<<p, "rsynced">>, c>> \in OrderOnly
    BY <1>4 DEF OrderOnly
  <2>3. <<p, "rsynced">> \in UpToDate
    BY <1>1, <1>3, <2>1, <2>2, Direct
  <2> QED  BY <1>1, <1>3, <1>4, <2>3 DEF WholeTree
<1>5. CASE p \notin Overridden
  <2>1. {"extracted", "patched"} \subseteq Steps(p)
    BY <1>5 DEF Steps
  <2>2. <<<<p, "patched">>, c>> \in MadeFrom
    BY Made DEF Sequencing
  <2>3. <<p, "patched">> \in stamps
    BY <1>1, <1>3, <2>1, <2>2, Direct, StampsAre
  <2>4. <<p, "extracted">> \in stamps
    BY <2>1, <2>3 DEF Layered, Follows, Sequencing
  <2> QED  BY <1>3, <1>5, <2>4 DEF WholeTree
<1> QED  BY <1>4, <1>5

(* make ends when nothing is left to do.                                   *)
LEMMA FinishKeeps ==
  ASSUME IInv, Finish
  PROVE  IInv'
<1> USE DEF IInv
<1>0. /\ op' = [op EXCEPT !.over = TRUE] /\ Goal(op.pkgs) \subseteq UpToDate
      /\ todo = {} /\ step = Idle
      /\ stamps' = stamps /\ old' = old /\ src' = src /\ tree' = tree /\ listed' = listed
      /\ applied' = applied /\ obj' = obj /\ inst' = inst /\ todo' = todo /\ step' = step /\ at' = at
  BY DEF Finish, Making, files
<1>1. TypeOK' /\ op'.call = op.call /\ op'.pkgs = op.pkgs
  BY <1>0 DEF TypeOK
<1>2. (Called /\ Layered /\ Settled /\ Clean /\ Ready)'
  BY <1>0, <1>1 DEF Called, Layered, Settled, Clean, Ready
<1>3. (WholeTree /\ WholeObj /\ WholeInst)'
  BY <1>0 DEF WholeTree, WholeObj, WholeInst, UpToDate
<1>4. ASSUME NEW q \in Packages \ Overridden PROVE Applied(q)'
  BY <1>0 DEF Applied
<1>5. Newest' /\ Ended'
  BY <1>0, <1>1 DEF Newest, Ended, UpToDate
<1> QED  BY <1>1, <1>2, <1>3, <1>4, <1>5

(* When a step ends, its stamp follows the stamps it is made from, and the *)
(* only one that may be there already and be made from it is that of       *)
(* target_installed.                                                       *)
LEMMA EndStamps ==
  ASSUME IInv, step # Idle, End(step)
  PROVE  /\ step \in Stamps /\ stamps' = stamps \cup {step} /\ stamps' \subseteq Stamps
         /\ old' \subseteq stamps'
         /\ UpToDate' \subseteq UpToDate \cup {step}
         /\ Layered' /\ Settled'
<1> USE DEF IInv
<1>1. PICK p \in Packages : \E x \in Steps(p) : step = <<p, x>>
  BY StampsAre DEF TypeOK
<1>2. PICK s \in Steps(p) : step = <<p, s>>
  BY <1>1
<1>3. /\ stamps' = stamps \cup {step}
      /\ old' = (old \ {step}) \cup {m \in stamps : <<step, m>> \in MadeFrom}
      /\ stamps \subseteq Stamps /\ old \subseteq stamps /\ step \in Stamps
      /\ step \notin UpToDate /\ \A m \in Stamps : <<m, step>> \in Needs => m \in UpToDate
  BY DEF End, TypeOK, Ready
<1>4. Layered'
  <2> SUFFICES ASSUME NEW q \in Packages, NEW a \in Steps(q), NEW b \in Steps(q),
                      Follows(a, b), <<q, b>> \in stamps'
               PROVE  <<q, a>> \in stamps'
    BY DEF Layered
  <2>1. CASE <<q, b>> = step
    <3>1. <<q, a>> \in Stamps /\ <<<<q, a>>, step>> \in MadeFrom
      BY <2>1, Made, StampsAre DEF Follows
    <3> QED  BY <1>3, <3>1, Direct DEF UpToDate
  <2>2. CASE <<q, b>> \in stamps
    BY <1>3, <2>2 DEF Layered
  <2> QED  BY <1>3, <2>1, <2>2
<1>5. Settled'
  <2> SUFFICES ASSUME NEW m \in stamps, <<step, m>> \in MadeFrom
               PROVE  m[2] = "target_installed"
    BY <1>3 DEF Settled
  <2>1. PICK q \in Packages : \E x \in Steps(q) : m = <<q, x>>
    BY <1>3, StampsAre
  <2>2. PICK t \in Steps(q) : m = <<q, t>>
    BY <2>1
  <2>3. q = p /\ <<s, t>> \in Sequencing /\ s # "target_installed"
    BY <1>2, <2>2, Made
  <2>4. CASE s = "staging_installed"
    BY <2>2, <2>3, <2>4 DEF Sequencing
  <2>5. CASE s # "staging_installed"
    <3>1. step \in stamps
      BY <1>2, <2>2, <2>3, <2>5 DEF Layered, Follows
    <3>2. step[2] = "target_installed"
      BY <1>3, <3>1, Unstamped
    <3> QED  BY <1>2, <2>3, <3>2
  <2> QED  BY <2>4, <2>5
<1>6. UpToDate' \subseteq UpToDate \cup {step}
  BY <1>3 DEF UpToDate
<1>7. old' \subseteq stamps'
  BY <1>3
<1> QED  BY <1>3, <1>4, <1>5, <1>6, <1>7

(* A step ends and leaves its stamp.                                       *)
LEMMA EndKeeps ==
  ASSUME IInv, step # Idle, End(step)
  PROVE  IInv'
<1> USE DEF IInv
<1>1. PICK p \in Packages : \E x \in Steps(p) : step = <<p, x>>
  BY StampsAre DEF TypeOK
<1>2. PICK s \in Steps(p) : step = <<p, s>>
  BY <1>1
<1>0. /\ s = "patched" => at = 2 * Patches
      /\ step' = Idle /\ at' = 0
      /\ tree' = CASE s = "extracted" -> [tree EXCEPT ![p] = 1]
                   [] s = "rsynced"   -> [tree EXCEPT ![p] = src[p]]
                   [] OTHER           -> tree
      /\ obj'  = IF s = "built" THEN [obj EXCEPT ![p] = tree[p]] ELSE obj
      /\ inst' = IF s \in Installs(p) THEN [inst EXCEPT ![p][s] = obj[p]] ELSE inst
      /\ src' = src /\ listed' = listed /\ applied' = applied /\ op' = op /\ todo' = {}
      /\ todo = {} /\ ~ op.over
      /\ old' = (old \ {step}) \cup {m \in stamps : <<step, m>> \in MadeFrom}
  BY <1>2 DEF End, Called
<1>3. /\ stamps' = stamps \cup {<<p, s>>} /\ UpToDate' \subseteq UpToDate \cup {<<p, s>>}
      /\ stamps' \subseteq Stamps /\ old' \subseteq stamps' /\ Layered' /\ Settled'
  BY <1>2, EndStamps
<1>4. /\ tree[p] \in Nat /\ obj[p] \in Nat /\ src[p] \in Versions /\ 1 \in Versions
      /\ Versions \subseteq Nat
  BY DEF TypeOK, Versions
<1>5. TypeOK'
  <2>1. tree' \in [Packages -> Nat]
    <3>1. CASE s = "extracted"
      BY <1>0, <1>4, <3>1 DEF TypeOK
    <3>2. CASE s = "rsynced"
      BY <1>0, <1>4, <3>2 DEF TypeOK
    <3>3. CASE s \notin {"extracted", "rsynced"}
      BY <1>0, <3>3 DEF TypeOK
    <3> QED  BY <3>1, <3>2, <3>3
  <2>2. obj' \in [Packages -> Nat]
    BY <1>0, <1>4 DEF TypeOK
  <2>3. /\ DOMAIN inst' = Packages /\ inst' = [q \in Packages |-> inst'[q]]
        /\ \A q \in Packages : inst'[q] \in [Installs(q) -> Nat]
    BY <1>0, <1>4, Put
  <2> QED  BY <1>0, <1>3, <2>1, <2>2, <2>3 DEF TypeOK
<1>6. (Called /\ Clean /\ Ready /\ Ended)'
  BY <1>0 DEF Called, Clean, Ready, Ended
<1>7. /\ \A q \in Packages : q # p => tree'[q] = tree[q] /\ obj'[q] = obj[q]
      /\ s = "extracted" => tree'[p] = 1
      /\ s = "rsynced" => tree'[p] = src[p]
      /\ s \notin {"extracted", "rsynced"} => tree' = tree
      /\ s = "built" => obj'[p] = tree[p]
      /\ s # "built" => obj' = obj
  BY <1>0 DEF TypeOK
<1>8. WholeTree'
  BY <1>3, <1>4, <1>7 DEF WholeTree
<1>9. WholeObj'
  BY <1>2, <1>3, <1>7, OnSources DEF WholeObj
<1>10. WholeInst'
  <2> SUFFICES ASSUME NEW q \in Packages, NEW x \in Installs(q), <<q, x>> \in UpToDate'
               PROVE  inst'[q][x] = obj'[q]
    BY DEF WholeInst
  <2>1. CASE <<q, x>> = <<p, s>>
    <3>1. inst'[p][s] = obj[p] /\ s # "built"
      BY <1>0, <1>4, <2>1, Put, StepsNamed
    <3> QED  BY <1>7, <2>1, <3>1
  <2>2. CASE <<q, x>> # <<p, s>>
    <3>1. inst'[q][x] = inst[q][x] /\ inst[q][x] = obj[q]
      BY <1>0, <1>3, <1>4, <2>2, Put DEF WholeInst
    <3>2. ~ (s = "built" /\ q = p)
      <4> SUFFICES ASSUME s = "built", q = p PROVE FALSE
        OBVIOUS
      <4>1. <<step, <<q, x>>>> \in MadeFrom
        BY <1>2, Made, StepsNamed DEF Sequencing
      <4>2. <<q, x>> \in stamps
        BY <1>3, <2>2 DEF UpToDate
      <4> QED  BY <1>0, <4>1, <4>2 DEF UpToDate
    <3> QED  BY <1>7, <3>1, <3>2
  <2> QED  BY <2>1, <2>2
<1>11. ASSUME NEW q \in Packages \ Overridden PROVE Applied(q)'
  <2>1. CASE <<q, "patched">> = <<p, s>>
    <3>1. Applied(q) /\ at = 2 * Patches /\ step = <<q, "patched">>
      BY <1>0, <1>2, <2>1
    <3>2. applied[q] = Full(Patches) /\ (Patches > 0 => listed[q] # {})
      <4>1. CASE Patches = 0
        <5>1. listed[q] = {}
          BY <4>1 DEF TypeOK
        <5>2. Full(0) = <<>>
          BY DEF Full
        <5> QED  BY <3>1, <4>1, <5>1, <5>2 DEF Applied
      <4>2. CASE Patches > 0
        <5>1. at > 0 /\ at \div 2 = Patches /\ (at + 1) \div 2 = Patches
          BY <3>1, <4>2
        <5>2. applied[q] = Full(Patches) /\ listed[q] = 1 .. Patches
          BY <3>1, <5>1 DEF Applied
        <5> QED  BY <4>2, <5>2
      <4> QED  BY <4>1, <4>2
    <3>3. step' # <<q, "patched">>
      BY <1>0, IdleIsNone DEF Names
    <3> QED  BY <1>0, <3>1, <3>2, <3>3 DEF Applied
  <2>2. CASE <<q, "patched">> # <<p, s>>
    <3>1. <<q, "patched">> \in stamps' => <<q, "patched">> \in stamps
      BY <1>3, <2>2
    <3>2. step' # <<q, "patched">>
      BY <1>0, IdleIsNone DEF Names
    <3> QED  BY <1>0, <3>1, <3>2 DEF Applied
  <2> QED  BY <2>1, <2>2
<1>12. Newest'
  <2> SUFFICES ASSUME op.call \in {"rebuild", "reconfigure"}, NEW q \in op.pkgs \cap Overridden
               PROVE  /\ <<q, "rsynced">> \in stamps' => tree'[q] = src[q]
                      /\ <<q, "built">> \in stamps' => obj'[q] = src[q]
    BY <1>0 DEF Newest
  <2>1. /\ <<q, "rsynced">> \in stamps => tree[q] = src[q]
        /\ <<q, "built">> \in stamps => obj[q] = src[q]
    BY <1>0 DEF Newest
  <2>2. CASE q = p
    <3>1. s # "extracted"
      BY <2>2 DEF Steps, Installs
    <3>2. s = "built" => tree[p] = src[p]
      BY <1>2, <2>1, <2>2, OnSources
    <3> QED  BY <1>3, <1>7, <2>1, <2>2, <3>1, <3>2
  <2>3. CASE q # p
    <3>1. q \in Packages
      BY DEF TypeOK
    <3> QED  BY <1>3, <1>7, <2>1, <2>3, <3>1
  <2> QED  BY <2>2, <2>3
<1> QED  BY <1>3, <1>5, <1>6, <1>8, <1>9, <1>10, <1>11, <1>12

----------------------------------------------------------------------------
(* The invariant holds of the program: it holds at the start, and every    *)
(* call of make, every step of a package, every patch, every interruption  *)
(* and every edit of a source directory keeps it.                          *)
THEOREM Inductive == BSpec => []IInv
<1>1. BInit => IInv
  BY Starts
<1>2. IInv /\ [BNext]_buildVars => IInv'
  <2> SUFFICES ASSUME IInv, [BNext]_buildVars PROVE IInv'
    OBVIOUS
  <2>1. ASSUME NEW pkgs \in SUBSET Packages, Make(pkgs) PROVE IInv'
    BY <2>1, CallKeeps
  <2>2. ASSUME NEW call \in Again, NEW p \in Packages, MakeAgain(call, p) PROVE IInv'
    <3>1. {p} \in SUBSET Packages
      OBVIOUS
    <3> QED  BY <2>2, <3>1, CallKeeps
  <2>3. CASE RemoveStamp
    BY <2>3, RemoveStampKeeps
  <2>4. ASSUME NEW p \in Packages, Dirclean(p) PROVE IInv'
    BY <2>4, DircleanKeeps
  <2>5. ASSUME NEW p \in Packages, Edit(p) PROVE IInv'
    BY <2>5, EditKeeps
  <2>6. CASE Interrupted
    BY <2>6, StopKeeps DEF Interrupted
  <2>7. ASSUME NEW p \in Packages, RecordPatch(p) PROVE IInv'
    BY <2>7, RecordPatchKeeps
  <2>8. ASSUME NEW p \in Packages, ApplyPatch(p) PROVE IInv'
    BY <2>8, ApplyPatchKeeps
  <2>9. ASSUME Making, NEW n \in Goal(op.pkgs), Begin(n) PROVE IInv'
    BY <2>9, BeginKeeps
  <2>10. CASE step # Idle /\ End(step)
    BY <2>10, EndKeeps
  <2>11. CASE Finish
    BY <2>11, FinishKeeps
  <2>12. CASE UNCHANGED buildVars
    <3>1. UNCHANGED <<stamps, old, src, tree, listed, applied, obj, inst, op, todo, step, at>>
      BY <2>12 DEF buildVars, files, make
    <3> USE <3>1 DEF IInv
    <3>2. TypeOK' /\ UpToDate' = UpToDate
      BY DEF TypeOK, UpToDate
    <3>3. (Called /\ Layered /\ Settled /\ Clean /\ Newest /\ Ended)'
      BY <3>2 DEF Called, Layered, Settled, Clean, Newest, Ended
    <3>4. (Ready /\ WholeTree /\ WholeObj /\ WholeInst)'
      BY <3>2 DEF Ready, WholeTree, WholeObj, WholeInst
    <3>5. ASSUME NEW p \in Packages \ Overridden PROVE Applied(p)'
      BY DEF Applied
    <3> QED  BY <3>2, <3>3, <3>4, <3>5
  <2> QED  BY <2>1, <2>2, <2>3, <2>4, <2>5, <2>6, <2>7, <2>8, <2>9, <2>10, <2>11, <2>12
           DEF BNext, Again
<1> QED  BY <1>1, <1>2, PTL DEF BSpec

----------------------------------------------------------------------------
(* What the invariant says of the properties.                              *)

(* A package whose "patched" stamp is there has every one of its patches   *)
(* once, in order and whole, however often the make was killed or a patch  *)
(* was rejected.                                                           *)
THEOREM PatchesOnce == BSpec => []PatchedOnce
<1>1. IInv => PatchedOnce
  BY DEF IInv, Applied, PatchedOnce, Full
<1> QED  BY <1>1, Inductive, PTL

(* No step up to a package's build runs while its stamp is there.          *)
THEOREM BuildsOnce == BSpec => []NeverRebuilt
<1>1. ASSUME IInv, step \in stamps PROVE step[2] \in Installs(step[1])
  <2>1. step \in Stamps /\ step # Idle
    BY <1>1, IdleIsNone DEF IInv, TypeOK
  <2>2. step[2] = "target_installed"
    BY <1>1, <2>1, Unstamped DEF IInv, Ready
  <2> QED  BY <2>2 DEF Installs
<1>2. IInv => NeverRebuilt
  BY <1>1 DEF NeverRebuilt
<1> QED  BY <1>2, Inductive, PTL

(* Whoever installed anything of a package has built it whole.             *)
LEMMA InstalledIsWhole ==
  ASSUME IInv, NEW p \in Packages, NEW s \in Installs(p), <<p, s>> \in UpToDate
  PROVE  /\ <<p, "built">> \in stamps
         /\ inst[p][s] = obj[p] /\ obj[p] \in Versions
<1>1. Follows("built", s) /\ {"built", s} \subseteq Steps(p) /\ <<p, s>> \in stamps
  BY StepsNamed DEF Follows, Sequencing, Steps, UpToDate
<1>2. <<p, "built">> \in stamps
  BY <1>1 DEF IInv, Layered
<1> QED  BY <1>2 DEF IInv, WholeObj, WholeInst

(* A make that ends well leaves every package of its goal installed, in    *)
(* all places as it was built last, and foo-rebuild and foo-reconfigure    *)
(* leave the user's own sources built.                                     *)
THEOREM EndsWell == BSpec => []EndsInstalled
<1>1. ASSUME IInv, op.over, NEW n \in Goal(op.pkgs), n[2] \in Installs(n[1])
      PROVE  inst[n[1]][n[2]] = obj[n[1]] /\ obj[n[1]] \in Versions
  <2>1. n \in Stamps /\ n \in UpToDate
    BY <1>1, GoalStamps DEF IInv, TypeOK, Ended
  <2>2. n = <<n[1], n[2]>> /\ n[1] \in Packages
    BY <2>1, StampsAre
  <2> QED  BY <1>1, <2>1, <2>2, InstalledIsWhole
<1>2. ASSUME IInv, op.over, op.call \in {"rebuild", "reconfigure"}, NEW p \in op.pkgs \cap Overridden
      PROVE  obj[p] = src[p]
  <2>1. p \in Packages /\ todo = {}
    BY <1>2 DEF IInv, TypeOK, Called
  <2>2. "target_installed" \in Installs(p)
    BY DEF Installs
  <2>3. <<p, "target_installed">> \in Goal(op.pkgs)
    BY <1>2, <2>2 DEF Goal
  <2>4. <<p, "built">> \in stamps
    BY <1>2, <2>1, <2>2, <2>3, InstalledIsWhole DEF IInv, Ended
  <2> QED  BY <1>2, <2>1, <2>4 DEF IInv, Newest
<1>3. IInv => EndsInstalled
  BY <1>1, <1>2 DEF EndsInstalled
<1> QED  BY <1>3, Inductive, PTL

(* A package is configured and built only on whole sources, when all that  *)
(* it depends on is installed whole; it is patched only when the sources   *)
(* it names are there, and patched or synchronized.                        *)
THEOREM DependenciesFirst == BSpec => []DepsFirst
<1>1. ASSUME IInv, NEW p \in Packages, step \in {<<p, "configured">>, <<p, "built">>},
             NEW d \in Deps[p], NEW s \in Installs(d)
      PROVE  inst[d][s] \in Versions
  <2>1. d \in Packages /\ <<d, s>> \in Stamps /\ <<p, "configured">> \in Stamps
    BY StampsAre, StepsNamed DEF Steps
  <2>2. <<<<d, s>>, <<p, "configured">>>> \in Installed(p)
    BY DEF Installed
  <2>3. <<<<d, s>>, <<p, "configured">>>> \in Needs
    BY <2>1, <2>2, Direct DEF OrderOnly
  <2> QED  BY <1>1, <2>1, <2>3, OnSources, InstalledIsWhole
<1>2. ASSUME IInv, NEW p \in Packages, step = <<p, "patched">>, NEW d \in PatchDeps[p]
      PROVE  tree[d] \in Versions /\ (d \notin Overridden => 0 \notin ToSet(applied[d]))
  <2> DEFINE m == <<d, IF d \in Overridden THEN "rsynced" ELSE "patched">>
  <2>1. d \in Packages /\ m \in Stamps /\ step \in Stamps /\ step # Idle
    BY <1>2, StampsAre, IdleIsNone DEF IInv, TypeOK, Steps, Names
  <2>2. <<m, step>> \in Patched(p)
    BY <1>2 DEF Patched
  <2>3. m \in stamps
    BY <1>2, <2>1, <2>2, Direct DEF IInv, Ready, UpToDate, OrderOnly
  <2>4. CASE d \in Overridden
    BY <1>2, <2>1, <2>3, <2>4 DEF IInv, WholeTree
  <2>5. CASE d \notin Overridden
    <3>1. <<d, "patched">> \in stamps /\ {"extracted", "patched"} \subseteq Steps(d)
      BY <2>3, <2>5 DEF Steps
    <3>2. <<d, "extracted">> \in stamps
      BY <1>2, <2>1, <3>1 DEF IInv, Layered, Follows, Sequencing
    <3>3. applied[d] = Full(Patches)
      BY <1>2, <2>1, <2>5, <3>1 DEF IInv, Applied
    <3>4. 0 \notin ToSet(Full(Patches))
      BY DEF Full, ToSet
    <3> QED  BY <1>2, <2>1, <3>2, <3>3, <3>4 DEF IInv, WholeTree
  <2> QED  BY <2>4, <2>5
<1>3. IInv => DepsFirst
  BY <1>1, <1>2, OnSources DEF DepsFirst
<1> QED  BY <1>3, Inductive, PTL

----------------------------------------------------------------------------
(* A make gets to its end.                                                 *)

\* No package depends on itself by way of others, and there are finitely many:
\* make drops a circular dependency.
Acyclic == IsFiniteSet(Packages) /\ \A n \in Stamps : <<n, n>> \notin Needs

\* A make that was called can remove its next stamp, begin or go on with a
\* step, or finish.
MakeNeverStuck ==
  \/ op.over
  \/ todo # {} /\ \E p \in op.pkgs, s \in todo : \A t \in todo : Rank(s) <= Rank(t)
  \/ /\ step # Idle
     /\ IF step[2] # "patched" THEN TRUE
        ELSE at = 2 * Patches \/ (at % 2 = 0 /\ at \div 2 < Patches) \/ at % 2 = 1
  \/ /\ Making
     /\ \/ Goal(op.pkgs) \subseteq UpToDate
        \/ \E n \in Goal(op.pkgs) \ UpToDate :
             \A m \in Stamps : <<m, n>> \in Needs => m \in UpToDate

\* Up to date, with all that is needed for it.
Firm == {n \in UpToDate : \A m \in Stamps : <<m, n>> \in Needs => m \in UpToDate}

\* From its first step on a make takes nothing back that is up to date with
\* all it needs; a step that ends well gets there, and none begins that is.
OncePerMake ==
  [][~ op.over /\ todo = {} =>
       /\ Firm \subseteq Firm'
       /\ step = Idle /\ step' # Idle => step' \notin Firm
       /\ step # Idle /\ step' = Idle /\ ~ op'.over => step \in Firm' \ Firm
       /\ step # Idle /\ step' = step => at' = at + 1 /\ at' <= 2 * Patches]_buildVars

(* The number of patches that were begun is at most that of the patches.   *)
LEMMA PatchesLeft ==
  ASSUME IInv, NEW p \in Packages, step = <<p, "patched">>
  PROVE  p \notin Overridden /\ at \in 0 .. 2 * Patches
<1>1. step \in Stamps
  BY IdleIsNone DEF IInv, TypeOK, Names
<1>2. p \notin Overridden
  BY <1>1, StampsAre DEF Steps, Installs
<1>3. CASE at = 0
  BY <1>2, <1>3
<1>4. CASE at # 0
  <2>1. at \in Nat /\ at > 0
    BY <1>4 DEF IInv, TypeOK
  <2>2. 1 .. (at + 1) \div 2 \subseteq 1 .. Patches
    BY <1>2, <2>1 DEF IInv, TypeOK, Applied
  <2>3. (at + 1) \div 2 \in 1 .. (at + 1) \div 2
    BY <2>1
  <2>4. (at + 1) \div 2 <= Patches
    BY <2>2, <2>3
  <2> QED  BY <1>2, <2>1, <2>4
<1> QED  BY <1>3, <1>4

(* There are finitely many stamps.                                         *)
LEMMA StampsFinite == IsFiniteSet(Packages) => IsFiniteSet(Stamps)
<1> SUFFICES ASSUME IsFiniteSet(Packages) PROVE IsFiniteSet(Stamps)
  OBVIOUS
<1>1. IsFiniteSet(Names)
  <2>1. \A S, x : IsFiniteSet(S) => IsFiniteSet(S \cup {x})
    BY FS_AddElement
  <2>2. Names = {} \cup {"downloaded"} \cup {"extracted"} \cup {"patched"} \cup {"configured"}
                   \cup {"built"} \cup {"rsynced"} \cup {"staging_installed"}
                   \cup {"target_installed"} \cup {"images_installed"}
    BY DEF Names
  <2> QED  BY <2>1, <2>2, FS_EmptySet
<1>2. IsFiniteSet(Packages \X Names)
  BY <1>1, FS_Product
<1>3. Stamps \subseteq Packages \X Names
  BY StepsNamed, StampsAre
<1> QED  BY <1>2, <1>3, FS_Subset

(* Of stamps that are missing one has all it needs, or needs one outside.  *)
LEMMA FirstMissing ==
  ASSUME Acyclic, NEW S \in SUBSET Stamps, S # {}
  PROVE  \E n \in S : \A m \in S : <<m, n>> \notin Needs
<1> DEFINE Below(n) == {m \in Stamps : <<m, n>> \in Needs}
           Sizes == {Cardinality(Below(n)) : n \in S}
           Less == {ss \in Nat \X Nat : ss[1] < ss[2]}
<1>1. \A n : IsFiniteSet(Below(n)) /\ Cardinality(Below(n)) \in Nat
  BY StampsFinite, FS_Subset, FS_CardinalityType DEF Acyclic
<1>2. Sizes \subseteq Nat /\ Sizes # {}
  BY <1>1
<1>3. IsWellFoundedOn(Less, Nat)
  BY NatLessThanWellFounded DEF OpToRel
<1>4. PICK k \in Sizes : \A x \in Sizes : <<x, k>> \notin Less
  <2> HIDE DEF Sizes, Less
  <2> QED  BY <1>2, <1>3, WFMin
<1>5. PICK n \in S : k = Cardinality(Below(n))
  OBVIOUS
<1>6. ASSUME NEW m \in S, <<m, n>> \in Needs PROVE FALSE
  <2>1. Below(m) \subseteq Below(n)
    BY <1>6, Further
  <2>2. m \in Below(n) /\ m \notin Below(m)
    BY <1>6 DEF Acyclic
  <2> HIDE DEF Below
  <2>3. Cardinality(Below(m)) < Cardinality(Below(n))
    <3>1. /\ Cardinality(Below(m)) <= Cardinality(Below(n))
          /\ Cardinality(Below(m)) = Cardinality(Below(n)) => Below(m) = Below(n)
      BY <1>1, <2>1, FS_Subset
    <3> QED  BY <1>1, <2>2, <3>1
  <2>4. Cardinality(Below(m)) \in Sizes
    OBVIOUS
  <2> QED  BY <1>1, <1>4, <1>5, <2>3, <2>4
<1> QED  BY <1>6

(* What the stamps of a goal need is of the goal.                          *)
LEMMA GoalNeeds ==
  ASSUME NEW pkgs \in SUBSET Packages, NEW n \in Goal(pkgs), NEW m \in Stamps, <<m, n>> \in Needs
  PROVE  m \in Goal(pkgs)
<1> DEFINE ends == UNION {{p} \X Installs(p) : p \in pkgs}
<1>1. Goal(pkgs) = ends \cup {x \in Stamps : \E e \in ends : <<x, e>> \in Needs}
  BY DEF Goal
<1>2. ends \subseteq Stamps /\ n \in Stamps
  BY GoalStamps, StepsNamed, StampsAre
<1> HIDE DEF ends
<1>3. CASE n \in ends
  BY <1>1, <1>3
<1>4. ASSUME NEW e \in ends, <<n, e>> \in Needs PROVE m \in Goal(pkgs)
  BY <1>1, <1>2, <1>4, Further
<1> QED  BY <1>1, <1>3, <1>4

(* Whatever was built, interrupted, removed and edited before, a make that *)
(* was called does not come to a place from where it can go nowhere.       *)
THEOREM MakesGoOn == ASSUME Acyclic PROVE BSpec => []MakeNeverStuck
<1>1. IInv => MakeNeverStuck
  <2> SUFFICES ASSUME IInv, ~ op.over PROVE MakeNeverStuck
    BY DEF MakeNeverStuck
  <2> USE DEF IInv
  <2>1. CASE todo # {}
    <3>1. PICK p \in Packages : op.pkgs = {p} /\ todo \subseteq Removed(op.call, p)
      BY <2>1 DEF Called
    <3>2. \A s \in todo : Rank(s) \in 1 .. 6
      BY <3>1 DEF Removed, Rank
    <3>3. \E s \in todo : \A t \in todo : Rank(s) <= Rank(t)
      <4>1. CASE \E s \in todo : Rank(s) = 1
        BY <3>2, <4>1
      <4>2. CASE \E s \in todo : Rank(s) = 2 /\ \A t \in todo : Rank(t) # 1
        BY <3>2, <4>2
      <4>3. CASE \A s \in todo : Rank(s) \notin {1, 2}
        <5>1. "staging_installed" \notin todo
          BY <4>3 DEF Rank
        <5>2. CASE \E s \in todo : Rank(s) = 3
          BY <3>2, <4>3, <5>2
        <5>3. CASE (\A s \in todo : Rank(s) # 3) /\ \E s \in todo : Rank(s) = 4
          BY <3>2, <4>3, <5>3
        <5>4. CASE (\A s \in todo : Rank(s) \notin {3, 4}) /\ \E s \in todo : Rank(s) = 5
          BY <3>2, <4>3, <5>4
        <5>5. CASE \A s \in todo : Rank(s) \notin {3, 4, 5}
          BY <2>1, <3>2, <4>3, <5>5
        <5> QED  BY <5>2, <5>3, <5>4, <5>5
      <4> QED  BY <4>1, <4>2, <4>3
    <3> QED  BY <2>1, <3>1, <3>3 DEF MakeNeverStuck
  <2>2. CASE step # Idle
    <3>1. PICK p \in Packages : \E x \in Steps(p) : step = <<p, x>>
      BY <2>2, StampsAre DEF TypeOK
    <3>2. step[2] = "patched" => step = <<p, "patched">>
      BY <3>1
    <3>3. step[2] = "patched" => at \in 0 .. 2 * Patches
      BY <3>2, PatchesLeft
    <3>4. at \in 0 .. 2 * Patches =>
            at = 2 * Patches \/ (at % 2 = 0 /\ at \div 2 < Patches) \/ at % 2 = 1
      OBVIOUS
    <3> QED  BY <2>2, <3>3, <3>4 DEF MakeNeverStuck
  <2>3. CASE todo = {} /\ step = Idle
    <3> DEFINE missing == Goal(op.pkgs) \ UpToDate
    <3>1. missing \in SUBSET Stamps /\ Making
      BY <2>3, GoalStamps DEF TypeOK, Making, Waiting
    <3>2. CASE missing = {}
      BY <3>1, <3>2 DEF MakeNeverStuck
    <3>3. CASE missing # {}
      <4>1. PICK n \in missing : \A m \in missing : <<m, n>> \notin Needs
        BY <3>1, <3>3, FirstMissing
      <4>2. \A m \in Stamps : <<m, n>> \in Needs => m \in Goal(op.pkgs)
        BY GoalNeeds DEF TypeOK
      <4> QED  BY <3>1, <4>1, <4>2 DEF MakeNeverStuck
    <3> QED  BY <3>2, <3>3
  <2> QED  BY <2>1, <2>2, <2>3
<1> QED  BY <1>1, Inductive, PTL

(* The end of a step makes others old, but none that was up to date with   *)
(* all it needs: the step was not.                                         *)
LEMMA EndIsFirm ==
  ASSUME IInv, step # Idle, End(step)
  PROVE  Firm \subseteq Firm' /\ step \in Firm' \ Firm
<1> USE DEF IInv
<1>1. /\ step \in Stamps /\ step \notin UpToDate /\ UpToDate \subseteq Stamps
      /\ \A m \in Stamps : <<m, step>> \in Needs => m \in UpToDate
      /\ stamps' = stamps \cup {step}
      /\ old' = (old \ {step}) \cup {m \in stamps : <<step, m>> \in MadeFrom}
  BY DEF TypeOK, Ready, End, UpToDate
<1>2. \A m \in UpToDate : <<step, m>> \notin Needs => m \in UpToDate'
  <2> SUFFICES ASSUME NEW m \in UpToDate, <<step, m>> \notin Needs PROVE m \in UpToDate'
    OBVIOUS
  <2>1. m \in Stamps /\ m \in stamps /\ m \notin old /\ <<step, m>> \notin MadeFrom
    BY <1>1, Direct DEF UpToDate
  <2> QED  BY <1>1, <2>1 DEF UpToDate
<1>3. <<step, step>> \notin MadeFrom /\ step \in UpToDate'
  <2>1. PICK p \in Packages : \E x \in Steps(p) : step = <<p, x>>
    BY <1>1, StampsAre
  <2>2. PICK s \in Steps(p) : step = <<p, s>>
    BY <2>1
  <2>3. <<s, s>> \notin Sequencing
    BY DEF Sequencing
  <2>4. <<step, step>> \notin MadeFrom
    BY <2>2, <2>3, Made
  <2> QED  BY <1>1, <2>4 DEF UpToDate
<1>4. ASSUME NEW n \in Firm PROVE n \in Firm'
  <2>1. n \in UpToDate /\ n \in Stamps /\ \A m \in Stamps : <<m, n>> \in Needs => m \in UpToDate
    BY <1>1 DEF Firm
  <2>2. <<step, n>> \notin Needs
    BY <1>1, <2>1
  <2>3. \A m \in Stamps : <<m, n>> \in Needs => <<step, m>> \notin Needs
    BY <1>1, <2>1, <2>2, Further
  <2> QED  BY <1>2, <2>1, <2>2, <2>3 DEF Firm
<1>5. step \in Firm'
  <2>1. \A m \in Stamps : <<m, step>> \in Needs => <<step, m>> \notin Needs
    BY <1>1, Further
  <2> QED  BY <1>1, <1>2, <1>3, <2>1 DEF Firm
<1>6. step \notin Firm
  BY <1>1 DEF Firm
<1> QED  BY <1>4, <1>5, <1>6

(* A make runs every step at most once, whatever the order it takes them   *)
(* in; so it is at an end after as many as its goal has.                   *)
THEOREM EachStepOnce == BSpec => OncePerMake
<1>1. ASSUME IInv, BNext, ~ op.over, todo = {}
      PROVE  /\ Firm \subseteq Firm'
             /\ step = Idle /\ step' # Idle => step' \notin Firm
             /\ step # Idle /\ step' = Idle /\ ~ op'.over => step \in Firm' \ Firm
             /\ step # Idle /\ step' = step => at' = at + 1 /\ at' <= 2 * Patches
  <2> USE <1>1 DEF IInv
  <2>1. UNCHANGED <<stamps, old>> => Firm' = Firm
    BY DEF Firm, UpToDate
  <2>2. CASE step # Idle /\ End(step)
    BY <2>2, EndIsFirm DEF End
  <2>3. CASE Interrupted \/ Finish
    BY <2>1, <2>3, Called DEF Interrupted, Finish, Stop, Rest, Making, files
  <2>4. ASSUME Making, NEW n \in Goal(op.pkgs), Begin(n)
        PROVE  UNCHANGED <<stamps, old>> /\ step = Idle /\ step' = n /\ n \notin UpToDate
    BY <2>4 DEF Begin, Making
  <2>5. ASSUME NEW p \in Packages, RecordPatch(p) \/ ApplyPatch(p)
        PROVE  /\ UNCHANGED <<stamps, old>> /\ step = <<p, "patched">>
               /\ \/ op'.over /\ step' = Idle
                  \/ step' = step /\ at' = at + 1 /\ at # 2 * Patches
    <3>1. Patches \in Nat /\ at \in Nat
      BY DEF TypeOK
    <3>2. (2 * Patches) % 2 = 0 /\ (2 * Patches) \div 2 = Patches
      BY <3>1
    <3> QED  BY <2>5, <3>1, <3>2 DEF RecordPatch, ApplyPatch, Stop, Rest
  <2>6. ASSUME NEW p \in Packages, RecordPatch(p) \/ ApplyPatch(p)
        PROVE  step' = step => at' <= 2 * Patches
    <3>1. step = <<p, "patched">>
      BY <2>5, <2>6
    <3>2. at \in 0 .. 2 * Patches
      BY <3>1, PatchesLeft
    <3>3. step # Idle
      BY <3>1, IdleIsNone DEF Names
    <3> QED  BY <2>5, <2>6, <3>2, <3>3
  <2>7. \/ step # Idle /\ End(step)
        \/ Interrupted \/ Finish
        \/ Making /\ \E n \in Goal(op.pkgs) : Begin(n)
        \/ \E p \in Packages : RecordPatch(p) \/ ApplyPatch(p)
    BY DEF BNext, Make, MakeAgain, Call, Waiting, Dirclean, Edit, RemoveStamp
  <2>8. CASE Making /\ \E n \in Goal(op.pkgs) : Begin(n)
    BY <2>1, <2>4, <2>8 DEF Firm
  <2>9. CASE \E p \in Packages : RecordPatch(p) \/ ApplyPatch(p)
    <3>1. PICK p \in Packages : RecordPatch(p) \/ ApplyPatch(p)
      BY <2>9
    <3>2. step # Idle
      BY <2>5, <3>1, IdleIsNone DEF Names
    <3> QED  BY <2>1, <2>5, <2>6, <3>1, <3>2
  <2> QED  BY <2>2, <2>3, <2>7, <2>8, <2>9
<1>2. IInv /\ [BNext]_buildVars =>
        [~ op.over /\ todo = {} =>
           /\ Firm \subseteq Firm'
           /\ step = Idle /\ step' # Idle => step' \notin Firm
           /\ step # Idle /\ step' = Idle /\ ~ op'.over => step \in Firm' \ Firm
           /\ step # Idle /\ step' = step => at' = at + 1 /\ at' <= 2 * Patches]_buildVars
  BY <1>1
<1> QED  BY <1>2, Inductive, PTL DEF BSpec, OncePerMake

----------------------------------------------------------------------------
(* The files of a configuration.                                           *)

(* There is a number of versions.                                          *)
LEMMA MaxSavedNat == MaxSaved \in Nat
BY ConfFilesAssumption

USE MaxSavedNat

Saving   == {"write", "close", "backup", "replace"}
Deriving == {"split", "fill", "header", "tristate", "auto"}
Says     == 0 .. MaxSaved + 1
FileType == [v : Says, t : Nat]

ConfTypeOK ==
  /\ config \in FileType /\ config_old \in FileType /\ tmpconfig \in [Procs -> FileType]
  /\ auto_conf \in FileType /\ autoconf_h \in Says /\ tristate \in Says /\ autotmp \in FileType
  /\ stage \in [Procs -> {"rest"} \cup Saving \cup Deriving] /\ stage["menuconfig"] \notin Deriving
  /\ has \in [Procs -> 0 .. MaxSaved] /\ saved \in 0 .. MaxSaved
  /\ clock \in Nat /\ overlap \in BOOLEAN

\* No file is renamed to .config before it is written to its end.
InFull ==
  /\ config = NoFile \/ Whole(config)
  /\ \A p \in Procs :
       /\ stage[p] \in Saving => has[p] # Absent
       /\ stage[p] \in {"backup", "replace"} => Whole(tmpconfig[p]) /\ tmpconfig[p].v = has[p]

\* No file is younger than the clock.
Past ==
  /\ config.t <= clock /\ auto_conf.t <= clock /\ autotmp.t <= clock
  /\ \A p \in Procs : tmpconfig[p].t <= clock

Apart == \A p, q \in Procs : p # q => stage[p] = "rest" \/ stage[q] = "rest"

\* What is about to become .config is younger than auto.conf.
Younger ==
  \A p \in Procs : stage[p] \in {"backup", "replace"} => auto_conf.t < tmpconfig[p].t

\* Until auto.conf is renamed make goes on taking it for out of date.
Derives ==
  /\ stage["make"] \in Deriving =>
       Outdated /\ Whole(config) /\ has["make"] = config.v
  /\ stage["make"] \in {"header", "tristate", "auto"} => autotmp.v = config.v
  /\ stage["make"] \in {"tristate", "auto"} => autoconf_h = config.v
  /\ stage["make"] = "auto" => tristate = config.v

UpToDateAll ==
  config # NoFile /\ ~ Outdated =>
    auto_conf.v = config.v /\ autoconf_h = config.v /\ tristate = config.v

ConfInv ==
  /\ ConfTypeOK /\ InFull /\ Past
  /\ ~ overlap => Apart /\ Younger /\ Derives /\ UpToDateAll

----------------------------------------------------------------------------
(* Files and places.                                                       *)

(* Files that are not there, written in part, and whole.                   *)
LEMMA FilesAre ==
  /\ NoFile \in FileType /\ NoFile.v = 0 /\ NoFile.t = 0
  /\ PartialFile \in FileType /\ PartialFile.v = MaxSaved + 1 /\ PartialFile.t = 0
  /\ \A v \in 1 .. MaxSaved, t \in Nat :
       /\ File(v, t) \in FileType /\ File(v, t).v = v /\ File(v, t).t = t
       /\ Whole(File(v, t))
  /\ \A f \in FileType : /\ f.v \in Says /\ f.t \in Nat
                         /\ Whole(f) <=> f.v \in 1 .. MaxSaved
                         /\ Whole(f) => f # NoFile
BY DEF NoFile, PartialFile, File, FileType, Says, Whole, Absent, Part

(* A program goes to its next place.                                       *)
LEMMA ProceedIs ==
  ASSUME ConfTypeOK, NEW p \in Procs, NEW place \in {"rest"} \cup Saving \cup Deriving,
         Proceed(p, place), p = "menuconfig" => place \notin Deriving
  PROVE  /\ stage' \in [Procs -> {"rest"} \cup Saving \cup Deriving] /\ stage'["menuconfig"] \notin Deriving
         /\ stage'[p] = place /\ \A q \in Procs \ {p} : stage'[q] = stage[q]
         /\ overlap' \in BOOLEAN
         /\ ~ overlap' => ~ overlap
         /\ ~ overlap' /\ place # "rest" => \A q \in Procs \ {p} : stage[q] = "rest"
         /\ ~ overlap' /\ place # "rest" => Apart'
         /\ Apart /\ place = "rest" => Apart'
<1>1. /\ stage' \in [Procs -> {"rest"} \cup Saving \cup Deriving]
      /\ stage'[p] = place /\ \A q \in Procs \ {p} : stage'[q] = stage[q]
  BY DEF Proceed, ConfTypeOK
<1>2. /\ overlap' \in BOOLEAN /\ (~ overlap' => ~ overlap)
      /\ ~ overlap' /\ place # "rest" => \A q \in Procs \ {p} : stage[q] = "rest"
  BY DEF Proceed, ConfTypeOK
<1>3. stage'["menuconfig"] \notin Deriving
  BY <1>1 DEF ConfTypeOK, Procs
<1>4. /\ ~ overlap' /\ place # "rest" => Apart'
      /\ Apart /\ place = "rest" => Apart'
  BY <1>1, <1>2 DEF Apart
<1> QED  BY <1>1, <1>2, <1>3, <1>4

----------------------------------------------------------------------------
(* Each step keeps the invariant.                                          *)

(* Before anything is saved there are no files.                            *)
LEMMA ConfStarts == ASSUME ConfInit PROVE ConfInv
<1> USE DEF ConfInit, Procs
<1>1. ConfTypeOK
  <2>1. 0 \in 0 .. MaxSaved /\ 0 \in 0 .. MaxSaved + 1
    OBVIOUS
  <2>2. /\ has \in [Procs -> 0 .. MaxSaved] /\ saved \in 0 .. MaxSaved
        /\ autoconf_h \in Says /\ tristate \in Says
    BY <2>1 DEF Says, Absent
  <2>3. /\ stage \in [Procs -> {"rest"} \cup Saving \cup Deriving] /\ stage["menuconfig"] \notin Deriving
    BY DEF Deriving
  <2>4. tmpconfig \in [Procs -> FileType]
    BY FilesAre
  <2> QED  BY <2>2, <2>3, <2>4, FilesAre DEF ConfTypeOK
<1>2. InFull /\ Past
  BY FilesAre DEF InFull, Past, Saving
<1>3. Apart /\ Younger /\ Derives /\ UpToDateAll
  BY DEF Apart, Younger, Derives, UpToDateAll, Deriving
<1> QED  BY <1>1, <1>2, <1>3 DEF ConfInv

(* Menuconfig, or make, begins.                                            *)
LEMMA SaveBegins ==
  ASSUME ConfInv, Save \/ SilentOldConfig
  PROVE  ConfInv'
<1> USE FilesAre DEF ConfInv
<1>1. /\ config' = config /\ config_old' = config_old /\ tmpconfig' = tmpconfig
      /\ auto_conf' = auto_conf /\ autoconf_h' = autoconf_h /\ tristate' = tristate
      /\ autotmp' = autotmp /\ clock' = clock
  BY DEF Save, SilentOldConfig, autofiles, KeepTime
<1>2. PICK p \in Procs, place \in {"write", "split"} :
        /\ stage[p] = "rest" /\ Proceed(p, place)
        /\ saved' \in 0 .. MaxSaved /\ has' \in [Procs -> 0 .. MaxSaved]
        /\ \A q \in Procs \ {p} : has'[q] = has[q]
        /\ has'[p] # Absent
        /\ place = "split" => p = "make" /\ Outdated /\ Whole(config) /\ has'[p] = config.v
  <2>1. CASE Save
    <3>1. saved + 1 \in 1 .. MaxSaved
      BY <2>1 DEF Save, ConfTypeOK
    <3>2. has' = [has EXCEPT !["menuconfig"] = saved + 1] /\ saved' = saved + 1
          /\ stage["menuconfig"] = "rest" /\ Proceed("menuconfig", "write")
      BY <2>1 DEF Save
    <3>3. "menuconfig" \in Procs /\ has'["menuconfig"] = saved + 1
      BY <3>2 DEF Procs, ConfTypeOK
    <3> QED  BY <3>1, <3>2, <3>3 DEF ConfTypeOK, Absent
  <2>2. CASE SilentOldConfig
    <3>1. /\ "make" \in Procs /\ stage["make"] = "rest" /\ Outdated /\ Whole(config)
          /\ config.v \in 1 .. MaxSaved
      BY <2>2 DEF SilentOldConfig, Procs, InFull, ConfTypeOK
    <3>2. CASE Proceed("make", "split") /\ saved' = saved /\ has' = [has EXCEPT !["make"] = config.v]
      <4>1. has'["make"] = config.v
        BY <3>1, <3>2 DEF ConfTypeOK
      <4> QED  BY <3>1, <3>2, <4>1 DEF ConfTypeOK, Absent
    <3>3. CASE /\ saved < MaxSaved /\ Proceed("make", "write")
               /\ saved' = saved + 1 /\ has' = [has EXCEPT !["make"] = saved + 1]
      <4>1. has'["make"] = saved + 1 /\ saved + 1 \in 1 .. MaxSaved
        BY <3>1, <3>3 DEF ConfTypeOK
      <4> QED  BY <3>1, <3>3, <4>1 DEF ConfTypeOK, Absent
    <3> QED  BY <2>2, <3>2, <3>3 DEF SilentOldConfig
  <2> QED  BY <2>1, <2>2
<1>3. /\ stage' \in [Procs -> {"rest"} \cup Saving \cup Deriving] /\ stage'["menuconfig"] \notin Deriving
      /\ stage'[p] = place /\ \A q \in Procs \ {p} : stage'[q] = stage[q]
      /\ overlap' \in BOOLEAN
      /\ ~ overlap' => ~ overlap
      /\ ~ overlap' => Apart' /\ \A q \in Procs \ {p} : stage[q] = "rest"
  <2>1. /\ place \in {"rest"} \cup Saving \cup Deriving /\ place # "rest"
        /\ p = "menuconfig" => place \notin Deriving
    BY <1>2 DEF Saving, Deriving
  <2> QED  BY <1>2, <2>1, ProceedIs
<1>4. ConfTypeOK'
  BY <1>1, <1>2, <1>3 DEF ConfTypeOK
<1>5. InFull' /\ Past'
  BY <1>1, <1>2, <1>3 DEF InFull, Past, Saving
<1>6. ASSUME ~ overlap' PROVE Younger' /\ Derives' /\ UpToDateAll'
  BY <1>1, <1>2, <1>3, <1>6 DEF Younger, Derives, UpToDateAll, Outdated, Deriving, Procs
<1> QED  BY <1>3, <1>4, <1>5, <1>6

(* .config is saved.                                                       *)
LEMMA OpenKeeps ==
  ASSUME ConfInv, NEW p \in Procs, Open(p)
  PROVE  ConfInv'
<1> USE FilesAre DEF ConfInv
<1>1. /\ config' = config /\ config_old' = config_old /\ saved' = saved /\ has' = has
      /\ auto_conf' = auto_conf /\ autoconf_h' = autoconf_h /\ tristate' = tristate
      /\ autotmp' = autotmp /\ clock' = clock
      /\ tmpconfig' = [tmpconfig EXCEPT ![p] = PartialFile]
      /\ stage[p] = "write" /\ Proceed(p, "close")
  BY DEF Open, autofiles, KeepTime
<1>2. /\ stage' \in [Procs -> {"rest"} \cup Saving \cup Deriving] /\ stage'["menuconfig"] \notin Deriving
      /\ stage'[p] = "close" /\ \A q \in Procs \ {p} : stage'[q] = stage[q]
      /\ overlap' \in BOOLEAN
      /\ ~ overlap' => ~ overlap /\ Apart'
  BY <1>1, ProceedIs DEF Saving, Deriving
<1>3. /\ tmpconfig' \in [Procs -> FileType] /\ tmpconfig'[p].t = 0
      /\ \A q \in Procs \ {p} : tmpconfig'[q] = tmpconfig[q]
  BY <1>1 DEF ConfTypeOK
<1>4. ConfTypeOK'
  BY <1>1, <1>2, <1>3 DEF ConfTypeOK
<1>5. InFull' /\ Past'
  BY <1>1, <1>2, <1>3 DEF InFull, Past, Saving, ConfTypeOK
<1>6. ASSUME ~ overlap' PROVE Younger' /\ Derives' /\ UpToDateAll'
  BY <1>1, <1>2, <1>3, <1>6 DEF Younger, Derives, UpToDateAll, Outdated, Deriving, Procs
<1> QED  BY <1>2, <1>4, <1>5, <1>6

(* The new configuration is whole under its temporary name.                *)
LEMMA CloseKeeps ==
  ASSUME ConfInv, NEW p \in Procs, Close(p)
  PROVE  ConfInv'
<1> USE FilesAre DEF ConfInv
<1>1. /\ config' = config /\ config_old' = config_old /\ saved' = saved /\ has' = has
      /\ auto_conf' = auto_conf /\ autoconf_h' = autoconf_h /\ tristate' = tristate
      /\ autotmp' = autotmp /\ clock' = clock + 1
      /\ tmpconfig' = [tmpconfig EXCEPT ![p] = File(has[p], clock + 1)]
      /\ stage[p] = "close" /\ Proceed(p, "backup")
  BY DEF Close, autofiles, Tick, Written
<1>2. /\ stage' \in [Procs -> {"rest"} \cup Saving \cup Deriving] /\ stage'["menuconfig"] \notin Deriving
      /\ stage'[p] = "backup" /\ \A q \in Procs \ {p} : stage'[q] = stage[q]
      /\ overlap' \in BOOLEAN
      /\ ~ overlap' => ~ overlap /\ Apart' /\ \A q \in Procs \ {p} : stage[q] = "rest"
  BY <1>1, ProceedIs DEF Saving, Deriving
<1>3. /\ has[p] \in 1 .. MaxSaved /\ clock + 1 \in Nat /\ clock \in Nat
  BY <1>1 DEF ConfTypeOK, InFull, Saving, Absent
<1>4. /\ tmpconfig' \in [Procs -> FileType]
      /\ tmpconfig'[p].t = clock + 1 /\ tmpconfig'[p].v = has[p] /\ Whole(tmpconfig'[p])
      /\ \A q \in Procs \ {p} : tmpconfig'[q] = tmpconfig[q]
  BY <1>1, <1>3 DEF ConfTypeOK
<1>5. ConfTypeOK'
  BY <1>1, <1>2, <1>3, <1>4 DEF ConfTypeOK
<1>6. InFull'
  BY <1>1, <1>2, <1>3, <1>4 DEF InFull, Saving
<1>7. Past'
  BY <1>1, <1>3, <1>4 DEF Past, ConfTypeOK
<1>8. ASSUME ~ overlap' PROVE Younger' /\ Derives' /\ UpToDateAll'
  <2>1. auto_conf.t < clock + 1
    BY <1>3 DEF Past, ConfTypeOK
  <2> QED  BY <1>1, <1>2, <1>4, <1>8, <2>1 DEF Younger, Derives, UpToDateAll, Outdated, Deriving, Procs
<1> QED  BY <1>2, <1>5, <1>6, <1>7, <1>8

(* The backup is renamed while the new one waits.                          *)
LEMMA BackupKeeps ==
  ASSUME ConfInv, NEW p \in Procs, Backup(p)
  PROVE  ConfInv'
<1> USE FilesAre DEF ConfInv
<1>1. /\ config' = NoFile /\ saved' = saved /\ has' = has /\ tmpconfig' = tmpconfig
      /\ auto_conf' = auto_conf /\ autoconf_h' = autoconf_h /\ tristate' = tristate
      /\ autotmp' = autotmp /\ clock' = clock
      /\ stage[p] = "backup" /\ Proceed(p, "replace")
  BY DEF Backup, autofiles, KeepTime
<1>2. /\ stage' \in [Procs -> {"rest"} \cup Saving \cup Deriving] /\ stage'["menuconfig"] \notin Deriving
      /\ stage'[p] = "replace" /\ \A q \in Procs \ {p} : stage'[q] = stage[q]
      /\ overlap' \in BOOLEAN
      /\ ~ overlap' => ~ overlap /\ Apart' /\ \A q \in Procs \ {p} : stage[q] = "rest"
  BY <1>1, ProceedIs DEF Saving, Deriving
<1>3. config_old' \in FileType
  <2>1. CASE config = NoFile
    BY <2>1 DEF Backup, ConfTypeOK
  <2>2. CASE config # NoFile
    BY <2>2 DEF Backup, ConfTypeOK, InFull
  <2> QED  BY <2>1, <2>2
<1>4. ConfTypeOK'
  BY <1>1, <1>2, <1>3 DEF ConfTypeOK
<1>5. InFull' /\ Past'
  BY <1>1, <1>2 DEF InFull, Past, Saving, ConfTypeOK
<1>6. ASSUME ~ overlap' PROVE Younger' /\ Derives' /\ UpToDateAll'
  BY <1>1, <1>2, <1>6 DEF Younger, Derives, UpToDateAll, Outdated, Deriving, Procs
<1> QED  BY <1>2, <1>4, <1>5, <1>6

(* The new configuration gets its name.                                    *)
LEMMA ReplaceKeeps ==
  ASSUME ConfInv, NEW p \in Procs, Replace(p)
  PROVE  ConfInv'
<1> USE FilesAre DEF ConfInv
<1> DEFINE place == IF p = "make" THEN "split" ELSE "rest"
<1>1. /\ config_old' = config_old /\ saved' = saved /\ has' = has
      /\ auto_conf' = auto_conf /\ autoconf_h' = autoconf_h /\ tristate' = tristate
      /\ autotmp' = autotmp /\ clock' = clock
      /\ config' = tmpconfig[p] /\ tmpconfig' = [tmpconfig EXCEPT ![p] = NoFile]
      /\ stage[p] = "replace" /\ Proceed(p, place)
  BY DEF Replace, autofiles, KeepTime
<1>2. /\ stage' \in [Procs -> {"rest"} \cup Saving \cup Deriving] /\ stage'["menuconfig"] \notin Deriving
      /\ stage'[p] = place /\ \A q \in Procs \ {p} : stage'[q] = stage[q]
      /\ overlap' \in BOOLEAN
      /\ ~ overlap' => ~ overlap /\ Apart'
  BY <1>1, ProceedIs DEF Saving, Deriving
<1>3. /\ tmpconfig' \in [Procs -> FileType] /\ tmpconfig'[p] = NoFile
      /\ \A q \in Procs \ {p} : tmpconfig'[q] = tmpconfig[q]
      /\ tmpconfig[p] \in FileType
  BY <1>1 DEF ConfTypeOK
<1>4. Whole(config') /\ config'.v = has[p] /\ config' # NoFile
  BY <1>1, <1>3 DEF InFull
<1>5. ConfTypeOK'
  BY <1>1, <1>2, <1>3 DEF ConfTypeOK
<1>6. InFull'
  BY <1>1, <1>2, <1>3, <1>4 DEF InFull, Saving
<1>7. Past'
  BY <1>1, <1>3 DEF Past, ConfTypeOK
<1>8. ASSUME ~ overlap' PROVE Younger' /\ Derives' /\ UpToDateAll'
  <2>1. Outdated'
    BY <1>1, <1>2, <1>8 DEF Younger, Outdated
  <2>2. \A q \in Procs \ {p} : stage[q] = "rest"
    BY <1>1, <1>2, <1>8 DEF Apart
  <2>3. Younger'
    BY <1>2, <2>2 DEF Younger
  <2>4. Derives'
    BY <1>1, <1>2, <1>4, <2>1, <2>2 DEF Derives, Deriving, Procs
  <2> QED  BY <2>1, <2>3, <2>4 DEF UpToDateAll
<1> QED  BY <1>2, <1>5, <1>6, <1>7, <1>8

(* The files that make derives from .config.                               *)
LEMMA DeriveKeeps ==
  ASSUME ConfInv, OpenAuto \/ FillAuto \/ RenameAuto
  PROVE  ConfInv'
<1> USE FilesAre DEF ConfInv
<1>1. /\ config' = config /\ config_old' = config_old /\ tmpconfig' = tmpconfig
      /\ saved' = saved /\ has' = has
  BY DEF OpenAuto, FillAuto, RenameAuto
<1>2. PICK place \in {"rest", "fill", "header", "tristate", "auto"} :
        Proceed("make", place) /\ stage["make"] \in Deriving
  BY DEF OpenAuto, FillAuto, RenameAuto, Deriving
<1>3. /\ stage' \in [Procs -> {"rest"} \cup Saving \cup Deriving] /\ stage'["menuconfig"] \notin Deriving
      /\ stage'["make"] = place /\ \A q \in Procs \ {"make"} : stage'[q] = stage[q]
      /\ overlap' \in BOOLEAN
      /\ ~ overlap' => ~ overlap /\ Apart' /\ \A q \in Procs \ {"make"} : stage[q] = "rest"
  <2>1. "make" \in Procs /\ place \in {"rest"} \cup Saving \cup Deriving
    BY <1>2 DEF Procs, Deriving
  <2>2. Apart /\ place = "rest" => \A q \in Procs \ {"make"} : stage[q] = "rest"
    BY <1>2, <2>1 DEF Apart, Deriving
  <2> QED  BY <1>2, <2>1, <2>2, ProceedIs
<1>4. /\ auto_conf' \in FileType /\ autoconf_h' \in Says /\ tristate' \in Says
      /\ autotmp' \in FileType
      /\ clock' \in Nat /\ clock <= clock'
      /\ auto_conf'.t <= clock' /\ autotmp'.t <= clock'
  <2>1. /\ auto_conf.t \in Nat /\ autotmp.t \in Nat /\ autotmp.v \in Says /\ clock \in Nat
        /\ auto_conf.t <= clock /\ autotmp.t <= clock
    BY DEF ConfTypeOK, Past
  <2>2. CASE OpenAuto
    BY <2>1, <2>2 DEF OpenAuto, KeepTime, ConfTypeOK
  <2>3. CASE FillAuto
    <3>1. /\ has["make"] \in 0 .. MaxSaved /\ has["make"] \in Says /\ clock + 1 \in Nat
      BY DEF ConfTypeOK, Procs, Says
    <3>2. File(has["make"], clock + 1) \in FileType /\ File(has["make"], clock + 1).t = clock + 1
      BY <3>1 DEF File, FileType
    <3> QED  BY <2>1, <2>3, <3>2 DEF FillAuto, Tick, Written, ConfTypeOK
  <2>4. CASE RenameAuto
    BY <2>1, <2>4 DEF RenameAuto, KeepTime, ConfTypeOK
  <2> QED  BY <2>2, <2>3, <2>4
<1>5. ConfTypeOK'
  BY <1>1, <1>3, <1>4 DEF ConfTypeOK
<1>6. InFull'
  BY <1>1, <1>2, <1>3 DEF InFull, Saving, Procs
<1>7. Past'
  BY <1>1, <1>4 DEF Past, ConfTypeOK
<1>8. ASSUME ~ overlap' PROVE Younger' /\ Derives' /\ UpToDateAll'
  <2>1. ~ overlap /\ Outdated /\ Whole(config) /\ has["make"] = config.v /\ config \in FileType
    BY <1>2, <1>3, <1>8 DEF Derives, ConfTypeOK
  <2>2. Younger'
    BY <1>2, <1>3, <1>8 DEF Younger
  <2>3. CASE OpenAuto
    <3>1. stage'["make"] = "fill" /\ auto_conf' = auto_conf
      BY <1>3, <2>3 DEF OpenAuto, Proceed, ConfTypeOK, Procs
    <3> QED  BY <1>1, <2>1, <2>2, <3>1 DEF Derives, UpToDateAll, Outdated
  <2>4. CASE FillAuto
    <3>1. stage'["make"] = "header" /\ auto_conf' = auto_conf
      BY <1>3, <2>4 DEF FillAuto, Proceed, ConfTypeOK, Procs
    <3>2. autotmp'.v = config.v
      BY <2>1, <2>4 DEF FillAuto, Written, File
    <3> QED  BY <1>1, <2>1, <2>2, <3>1, <3>2 DEF Derives, UpToDateAll, Outdated
  <2>5. CASE RenameAuto
    <3>0. autotmp' = autotmp /\ "make" \in Procs
      BY <2>5 DEF RenameAuto, Procs
    <3>1. CASE stage["make"] = "header"
      <4>1. stage'["make"] = "tristate" /\ autoconf_h' = autotmp.v /\ auto_conf' = auto_conf
        BY <2>5, <3>0, <3>1 DEF RenameAuto, Proceed, ConfTypeOK
      <4> QED  BY <1>1, <1>3, <1>8, <2>1, <2>2, <3>0, <3>1, <4>1 DEF Derives, UpToDateAll, Outdated
    <3>2. CASE stage["make"] = "tristate"
      <4>1. /\ stage'["make"] = "auto" /\ tristate' = autotmp.v /\ autoconf_h' = autoconf_h
            /\ auto_conf' = auto_conf
        BY <2>5, <3>0, <3>2 DEF RenameAuto, Proceed, ConfTypeOK
      <4> QED  BY <1>1, <1>3, <1>8, <2>1, <2>2, <3>0, <3>2, <4>1 DEF Derives, UpToDateAll, Outdated
    <3>3. CASE stage["make"] = "auto"
      <4>1. /\ stage'["make"] = "rest" /\ auto_conf' = autotmp
            /\ autoconf_h' = autoconf_h /\ tristate' = tristate
        BY <2>5, <3>0, <3>3 DEF RenameAuto, Proceed, ConfTypeOK
      <4> QED  BY <1>1, <1>3, <1>8, <2>1, <2>2, <3>0, <3>3, <4>1 DEF Derives, UpToDateAll, Deriving
    <3> QED  BY <2>5, <3>1, <3>2, <3>3 DEF RenameAuto
  <2> QED  BY <2>3, <2>4, <2>5
<1> QED  BY <1>3, <1>5, <1>6, <1>7, <1>8

(* A killed program leaves its files as they are.                          *)
LEMMA KillKeeps ==
  ASSUME ConfInv, NEW p \in Procs, KillProgram(p)
  PROVE  ConfInv'
<1> USE FilesAre DEF ConfInv
<1>1. /\ config' = config /\ config_old' = config_old /\ tmpconfig' = tmpconfig
      /\ auto_conf' = auto_conf /\ autoconf_h' = autoconf_h /\ tristate' = tristate
      /\ autotmp' = autotmp /\ clock' = clock /\ has' = has /\ saved' = saved
      /\ Proceed(p, "rest")
  BY DEF KillProgram, autofiles, KeepTime
<1>2. /\ stage' \in [Procs -> {"rest"} \cup Saving \cup Deriving] /\ stage'["menuconfig"] \notin Deriving
      /\ stage'[p] = "rest" /\ \A q \in Procs \ {p} : stage'[q] = stage[q]
      /\ overlap' \in BOOLEAN
      /\ ~ overlap' => ~ overlap /\ Apart'
  BY <1>1, ProceedIs DEF Saving, Deriving
<1>3. ConfTypeOK'
  BY <1>1, <1>2 DEF ConfTypeOK
<1>4. InFull' /\ Past'
  BY <1>1, <1>2 DEF InFull, Past, Saving
<1>5. ASSUME ~ overlap' PROVE Younger' /\ Derives' /\ UpToDateAll'
  BY <1>1, <1>2, <1>5 DEF Younger, Derives, UpToDateAll, Outdated, Deriving, Procs
<1> QED  BY <1>2, <1>3, <1>4, <1>5

(* Every step of a front end and of make keeps the invariant.              *)
LEMMA ConfKeeps == ASSUME ConfInv, [ConfNext]_confVars PROVE ConfInv'
<1>1. CASE UNCHANGED confVars
  <2>1. /\ config' = config /\ config_old' = config_old /\ tmpconfig' = tmpconfig
        /\ auto_conf' = auto_conf /\ autoconf_h' = autoconf_h /\ tristate' = tristate
        /\ autotmp' = autotmp /\ clock' = clock /\ has' = has /\ saved' = saved
        /\ stage' = stage /\ overlap' = overlap
    BY <1>1 DEF confVars, autofiles
  <2> QED  BY <2>1 DEF ConfInv, ConfTypeOK, InFull, Past, Apart, Younger, Derives, UpToDateAll, Outdated
<1> QED  BY <1>1, SaveBegins, OpenKeeps, CloseKeeps, BackupKeeps, ReplaceKeeps, DeriveKeeps,
            KillKeeps DEF ConfNext, WriteConfig

(* What the files say, and what the programs that write them are about to  *)
(* say, holds together in every reachable state.                           *)
THEOREM ConfInductive == ConfSpec => []ConfInv
BY ConfStarts, ConfKeeps, PTL DEF ConfSpec

----------------------------------------------------------------------------
(* .config is never there in part, and it or its backup is there whole     *)
(* once one was, whoever is killed wherever.                               *)
THEOREM ConfigKept == ConfSpec => NeverLost
<1> DEFINE Kept == /\ config'.v # Part
                   /\ Whole(config) \/ Whole(config_old) => Whole(config') \/ Whole(config_old')
<1>1. ASSUME ConfInv, ConfInv', [ConfNext]_confVars PROVE [Kept]_confVars
  <2>1. config'.v # Part
    BY <1>1, FilesAre DEF ConfInv, InFull, Whole, Part
  <2>2. CASE UNCHANGED <<config, config_old>>
    BY <2>1, <2>2
  <2>3. ASSUME NEW p \in Procs, Backup(p) PROVE Kept
    <3>1. CASE config = NoFile
      BY <2>1, <2>3, <3>1 DEF Backup
    <3>2. CASE config # NoFile
      <4>1. config_old' = File(config.v, 0) /\ config.v \in 1 .. MaxSaved
        BY <1>1, <2>3, <3>2, FilesAre DEF Backup, ConfInv, InFull, ConfTypeOK
      <4> QED  BY <2>1, <4>1, FilesAre
    <3> QED  BY <3>1, <3>2
  <2>4. ASSUME NEW p \in Procs, Replace(p) PROVE Kept
    BY <1>1, <2>1, <2>4 DEF Replace, ConfInv, InFull
  <2>5. ASSUME NEW p \in Procs, Open(p) \/ Close(p) \/ KillProgram(p) PROVE UNCHANGED <<config, config_old>>
    BY <2>5 DEF Open, Close, KillProgram
  <2>6. CASE Save \/ SilentOldConfig \/ OpenAuto \/ FillAuto \/ RenameAuto
    BY <2>2, <2>6 DEF Save, SilentOldConfig, OpenAuto, FillAuto, RenameAuto
  <2>7. CASE UNCHANGED confVars
    BY <2>7
  <2> QED  BY <1>1, <2>2, <2>3, <2>4, <2>5, <2>6, <2>7 DEF ConfNext, WriteConfig
<1>2. ConfSpec => [][Kept]_confVars
  BY <1>1, ConfInductive, PTL DEF ConfSpec
<1> QED  BY <1>2 DEF NeverLost

(* If saving and building never overlapped and make takes auto.conf for up *)
(* to date, all three derived files say what .config says, whoever was     *)
(* killed in the middle.                                                   *)
THEOREM DerivedLast == ConfSpec => []AutoConfLast
<1>1. ConfInv => AutoConfLast
  BY DEF ConfInv, UpToDateAll, AutoConfLast
<1> QED  BY <1>1, ConfInductive, PTL

----------------------------------------------------------------------------
(* The values of the configuration (Kconfig).                              *)

(* A set of numbers has a least one.                                       *)
LEMMA Least ==
  ASSUME NEW S, S \in SUBSET Nat, S # {}
  PROVE  \E m \in S : \A x \in S : m <= x
<1> DEFINE Less == OpToRel(<, Nat)
<1>1. IsWellFoundedOn(Less, Nat)
  BY NatLessThanWellFounded DEF OpToRel
<1>2. PICK m \in S : \A x \in S : <<x, m>> \notin Less
  <2> HIDE DEF Less
  <2> QED  BY <1>1, WFMin
<1>3. ASSUME NEW x \in S PROVE m <= x
  <2>1. x \in Nat /\ m \in Nat /\ <<x, m>> \notin Less
    BY <1>2
  <2>2. ~ (x < m)
    BY <2>1 DEF OpToRel
  <2>3. x \in Nat /\ m \in Nat
    BY <2>1
  <2> HIDE DEF Less
  <2> QED  BY <2>2, <2>3
<1> QED  BY <1>3

----------------------------------------------------------------------------
(* The values of the symbols.                                              *)

Vals    == [Syms -> BOOLEAN]
Configs == [has : SUBSET Syms, def : Vals, cval : Members \cup {Nobody}]

\* v and w are the same in all that s depends on.
Alike(v, w, s) == \A x \in Before(menus, s) : v[x] = w[x]

\* What applies of the defaults of s, and who may be the choice's default.
Applies(v, s) ==
  {i \in 1 .. Len(menus.defaults[s]) :
     Holds(v, menus.dep[s]) /\ Holds(v, menus.defaults[s][i].cond)}

Offers == menus.choiceDefaults \o menus.members

(* The numbers of symbols, and the tree that is read.                      *)
LEMMA TreeIs ==
  ASSUME menus \in Trees
  PROVE  /\ Symbols \in Nat /\ Syms \subseteq Nat /\ Nobody \notin Syms
         /\ menus.members \in Seq(Syms) /\ menus.choiceDefaults \in Seq(Members)
         /\ Members \subseteq Syms
         /\ \A s \in Syms :
              /\ menus.dep[s] \in Expressions(menus, s)
              /\ menus.promptIf[s] \in Expressions(menus, s)
              /\ menus.defaults[s] \in
                   Seq([value : Expressions(menus, s), cond : Expressions(menus, s)])
         /\ \A r \in menus.selects :
              /\ r.of \in Syms \ Members /\ r.by \in Before(menus, r.of)
              /\ r.cond \in Expressions(menus, r.of)
         /\ \A m \in Members :
              menus.choiceIf \in Expressions(menus, m) /\ menus.defaults[m] = <<>>
<1>1. Symbols \in Nat /\ WellFormed(menus)
  BY KconfigAssumption
<1>2. menus.members \in Seq(Syms) /\ menus.choiceDefaults \in Seq(Members)
  BY <1>1 DEF WellFormed, Members
<1>3. Members \subseteq Syms
  BY <1>2 DEF Members, ToSet
<1>4. Syms \subseteq Nat /\ Nobody \notin Syms
  BY <1>1 DEF Syms, Nobody
<1>5. \A r \in menus.selects : \A m \in Members : r.of # m
  BY <1>1 DEF WellFormed, Members
<1> QED  BY <1>1, <1>2, <1>3, <1>4, <1>5 DEF WellFormed, Members

(* What comes before a symbol comes before those that come after it, and   *)
(* before one member of the choice is before all.                          *)
LEMMA BeforeIs ==
  ASSUME menus \in Trees, NEW s \in Syms
  PROVE  /\ Before(menus, s) \subseteq Syms
         /\ \A x \in Before(menus, s) : x < s /\ Before(menus, x) \subseteq Before(menus, s)
         /\ s \in Members => /\ \A m \in Members : Before(menus, m) = Before(menus, s)
                             /\ Before(menus, s) \cap Members = {}
<1> USE TreeIs
<1>1. /\ Before(menus, s) \subseteq Syms
      /\ \A x \in Before(menus, s) : x < s /\ (s \in Members => \A m \in Members : x < m)
  BY DEF Before, Members
<1>2. ASSUME NEW x \in Before(menus, s), NEW y \in Before(menus, x) PROVE y \in Before(menus, s)
  <2>1. y \in Syms /\ y < x /\ x \in Syms
    BY <1>1 DEF Before
  <2>2. y < s
    BY <2>1, <1>1
  <2>3. ASSUME s \in Members, NEW m \in Members PROVE y < m
    <3>1. x < m
      BY <1>1, <2>3
    <3> QED  BY <3>1, <2>1
  <2> QED  BY <2>1, <2>2, <2>3 DEF Before, Members
<1>3. ASSUME s \in Members, NEW m \in Members PROVE Before(menus, m) = Before(menus, s)
  <2>1. Before(menus, m) = {x \in Syms : x < m /\ \A n \in Members : x < n}
    BY DEF Before, Members
  <2>2. Before(menus, s) = {x \in Syms : x < s /\ \A n \in Members : x < n}
    BY <1>3 DEF Before, Members
  <2> QED  BY <2>1, <2>2, <1>3
<1>4. ASSUME s \in Members PROVE Before(menus, s) \cap Members = {}
  BY <1>1, <1>4
<1> QED  BY <1>1, <1>2, <1>3, <1>4

(* An expression is so for the one if it is so for the other.              *)
LEMMA HoldsAlike ==
  ASSUME NEW s, NEW e \in Expressions(menus, s), NEW v, NEW w, Alike(v, w, s)
  PROVE  Holds(v, e) <=> Holds(w, e)
<1>1. \A l \in e : l[1] \in Before(menus, s)
  BY DEF Expressions
<1> QED  BY <1>1 DEF Holds, Alike

(* The first default that applies.                                         *)
LEMMA DefaultPropIs ==
  ASSUME NEW v, NEW s
  PROVE  DefaultProp(v, s) = IF Applies(v, s) # {} THEN Min(Applies(v, s)) ELSE 0
BY DEF DefaultProp, SelectInSeq, Applies

(* Min is the least, of numbers.                                           *)
LEMMA MinIs ==
  ASSUME NEW n \in Nat, NEW S \in SUBSET (1 .. n), S # {}
  PROVE  Min(S) \in S /\ \A x \in S : Min(S) <= x
<1>1. PICK m \in S : \A x \in S : m <= x
  <2>1. S \in SUBSET Nat
    OBVIOUS
  <2> QED  BY <2>1, Least
<1> QED  BY <1>1 DEF Min

(* What the tree says of s says the same with values that are alike.       *)
LEMMA PropsAlike ==
  ASSUME menus \in Trees, NEW s \in Syms, NEW v, NEW w, Alike(v, w, s)
  PROVE  /\ Visible(v, s) <=> Visible(w, s)
         /\ Selected(v, s) <=> Selected(w, s)
         /\ DefaultProp(v, s) = DefaultProp(w, s)
         /\ Default(v, s) <=> Default(w, s)
<1> USE TreeIs
<1>1. \A e \in Expressions(menus, s) : Holds(v, e) <=> Holds(w, e)
  BY HoldsAlike
<1>2. Visible(v, s) <=> Visible(w, s)
  BY <1>1 DEF Visible
<1>3. ASSUME NEW r \in menus.selects, r.of = s
      PROVE  /\ v[r.by] = w[r.by]
             /\ Holds(v, menus.dep[r.by]) <=> Holds(w, menus.dep[r.by])
             /\ Holds(v, r.cond) <=> Holds(w, r.cond)
  <2>1. r.by \in Before(menus, s) /\ r.by \in Syms
    BY <1>3, BeforeIs
  <2>2. Expressions(menus, r.by) \subseteq Expressions(menus, s)
    BY <2>1, BeforeIs DEF Expressions
  <2> QED  BY <1>1, <1>3, <2>1, <2>2 DEF Alike
<1>4. Selected(v, s) <=> Selected(w, s)
  BY <1>3 DEF Selected
<1>8. \A i \in 1 .. Len(menus.defaults[s]) :
        /\ menus.defaults[s][i].cond \in Expressions(menus, s)
        /\ menus.defaults[s][i].value \in Expressions(menus, s)
  <2> DEFINE D == [value : Expressions(menus, s), cond : Expressions(menus, s)]
             defaults == menus.defaults[s]
  <2>1. defaults \in Seq(D)
    OBVIOUS
  <2>2. \A i \in 1 .. Len(defaults) : defaults[i] \in D
    <3> HIDE DEF D, defaults
    <3> QED  BY <2>1
  <2> QED  BY <2>2
<1>5. Applies(v, s) = Applies(w, s)
  BY <1>1, <1>8 DEF Applies
<1>6. DefaultProp(v, s) = DefaultProp(w, s)
  BY <1>5, DefaultPropIs
<1>7. Default(v, s) <=> Default(w, s)
  <2>1. ASSUME DefaultProp(v, s) # 0 PROVE DefaultProp(v, s) \in 1 .. Len(menus.defaults[s])
    <3>1. Applies(v, s) # {} /\ Applies(v, s) \in SUBSET (1 .. Len(menus.defaults[s]))
      BY <2>1, DefaultPropIs DEF Applies
    <3>2. Len(menus.defaults[s]) \in Nat
      OBVIOUS
    <3> QED  BY <3>1, <3>2, DefaultPropIs, MinIs
  <2>2. ASSUME DefaultProp(v, s) # 0
        PROVE  Holds(v, menus.defaults[s][DefaultProp(v, s)].value)
                 <=> Holds(w, menus.defaults[s][DefaultProp(v, s)].value)
    BY <2>1, <2>2, <1>1, <1>8
  <2> QED  BY <1>6, <2>2 DEF Default
<1> QED  BY <1>2, <1>4, <1>6, <1>7

(* The members of the choice, in the order of their declaration.           *)
LEMMA MembersAre == ASSUME menus \in Trees PROVE menus.members \in Seq(Members)
BY TreeIs, SMTT(40) DEF Members, ToSet

(* Who is the choice's default: the first visible of those it may be.      *)
LEMMA ChoiceDefaultIs ==
  ASSUME menus \in Trees, NEW v
  PROVE  /\ ChoiceDefault(v) \in Members \cup {Nobody}
         /\ ChoiceDefault(v) # Nobody => Visible(v, ChoiceDefault(v))
         /\ ChoiceDefault(v) = Nobody => \A m \in Members : ~ Visible(v, m)
         /\ \A w : (\A m \in Members : Visible(v, m) <=> Visible(w, m))
                     => ChoiceDefault(v) = ChoiceDefault(w)
<1>0. menus.choiceDefaults \in Seq(Members) /\ menus.members \in Seq(Members)
  BY TreeIs, MembersAre
<1> DEFINE few == menus.choiceDefaults
           all == menus.members
<1>1. /\ Offers \in Seq(Members) /\ Len(Offers) \in Nat
      /\ \A m \in Members : \E i \in 1 .. Len(Offers) : Offers[i] = m
  <2>1. few \in Seq(Members) /\ all \in Seq(Members) /\ Offers = few \o all
    BY <1>0 DEF Offers
  <2>2. ASSUME NEW m \in Members PROVE \E i \in 1 .. Len(Offers) : Offers[i] = m
    <3>1. PICK j \in 1 .. Len(all) : all[j] = m
      BY <2>1 DEF Members, ToSet
    <3>2. Len(few) + j \in 1 .. Len(Offers) /\ Offers[Len(few) + j] = m
      <4> HIDE DEF few, all
      <4> QED  BY <2>1, <3>1
    <3> QED  BY <3>2
  <2>3. Offers \in Seq(Members) /\ Len(Offers) \in Nat
    <3> HIDE DEF few, all
    <3> QED  BY <2>1
  <2> QED  BY <2>2, <2>3
<1> DEFINE Seen(w) == {i \in 1 .. Len(Offers) : Visible(w, Offers[i])}
<1>3. /\ \A w : Seen(w) \in SUBSET (1 .. Len(Offers))
      /\ \A w : \A i \in Seen(w) : Visible(w, Offers[i]) /\ Offers[i] \in Members /\ i # 0
      /\ \A w : \A m \in Members : Visible(w, m) => \E i \in Seen(w) : Offers[i] = m
  <2>1. \A i \in 1 .. Len(Offers) : Offers[i] \in Members /\ i # 0
    BY <1>1
  <2>2. ASSUME NEW w, NEW m \in Members, Visible(w, m) PROVE \E i \in Seen(w) : Offers[i] = m
    <3>1. PICK i \in 1 .. Len(Offers) : Offers[i] = m
      BY <1>1
    <3>2. i \in Seen(w)
      BY <2>2, <3>1
    <3> QED  BY <3>1, <3>2
  <2> QED  BY <2>1, <2>2
<1>7. ASSUME NEW w, Seen(w) # {} PROVE Min(Seen(w)) \in Seen(w)
  <2> HIDE DEF Seen
  <2> QED  BY <1>1, <1>3, <1>7, MinIs
<1>2. ASSUME NEW w
      PROVE  ChoiceDefault(w) = IF Seen(w) = {} THEN Nobody ELSE Offers[Min(Seen(w))]
  <2> DEFINE k == IF Seen(w) # {} THEN Min(Seen(w)) ELSE 0
  <2>1. ChoiceDefault(w) = IF k = 0 THEN Nobody ELSE Offers[k]
    BY DEF ChoiceDefault, SelectInSeq, Offers
  <2> HIDE DEF Seen
  <2>2. Seen(w) # {} => k # 0
    BY <1>3, <1>7
  <2> QED  BY <2>1, <2>2
<1>8. Nobody \notin Members
  BY TreeIs
<1>4. /\ ChoiceDefault(v) \in Members \cup {Nobody}
      /\ ChoiceDefault(v) # Nobody => Visible(v, ChoiceDefault(v))
  <2> HIDE DEF Seen
  <2> QED  BY <1>2, <1>3, <1>7
<1>5. ASSUME ChoiceDefault(v) = Nobody, NEW m \in Members PROVE ~ Visible(v, m)
  <2> HIDE DEF Seen
  <2>1. Seen(v) = {}
    BY <1>2, <1>3, <1>5, <1>7, <1>8
  <2> QED  BY <1>3, <2>1
<1>6. ASSUME NEW w, \A m \in Members : Visible(v, m) <=> Visible(w, m)
      PROVE  ChoiceDefault(v) = ChoiceDefault(w)
  <2>1. Seen(v) = Seen(w)
    BY <1>1, <1>6
  <2> QED  BY <1>2, <2>1
<1> QED  BY <1>4, <1>5, <1>6

(* So does the value of s.                                                 *)
LEMMA CalcAlike ==
  ASSUME menus \in Trees, NEW u \in Configs, NEW s \in Syms, NEW v, NEW w, Alike(v, w, s)
  PROVE  /\ CalcValue(v, s, u) <=> CalcValue(w, s, u)
         /\ CalcValue(v, s, u) \in BOOLEAN
<1>1. /\ Visible(v, s) <=> Visible(w, s)
      /\ Selected(v, s) <=> Selected(w, s)
      /\ Default(v, s) <=> Default(w, s)
  BY PropsAlike
<1>2. ASSUME s \in Members PROVE Chosen(v, u) = Chosen(w, u)
  <2>1. ASSUME NEW m \in Members PROVE Visible(v, m) <=> Visible(w, m)
    <3>1. m \in Syms /\ Alike(v, w, m)
      BY <1>2, BeforeIs, TreeIs DEF Alike
    <3> QED  BY <3>1, PropsAlike
  <2>2. ChoiceDefault(v) = ChoiceDefault(w)
    BY <2>1, ChoiceDefaultIs
  <2>3. u.cval # Nobody => u.cval \in Members
    BY DEF Configs
  <2> QED  BY <2>1, <2>2, <2>3 DEF Chosen
<1>3. u.def[s] \in BOOLEAN
  BY DEF Configs, Vals
<1> QED  BY <1>1, <1>2, <1>3 DEF CalcValue

----------------------------------------------------------------------------
(* Working out the values.                                                 *)

\* v is what the symbols are worth for u.
Worth(v, u) == v \in Vals /\ \A s \in Syms : v[s] <=> CalcValue(v, s, u)

(* Two configurations of the user's that say the same of what s in D is    *)
(* worth, and of all before it, give the symbols of D the same values.     *)
LEMMA WorthOnce ==
  ASSUME menus \in Trees, NEW u \in Configs, NEW x \in Configs, NEW v, NEW w,
         Worth(v, u), Worth(w, x),
         NEW D \in SUBSET Syms, \A s \in D : Before(menus, s) \subseteq D,
         \A s \in D : CalcValue(v, s, u) <=> CalcValue(v, s, x)
  PROVE  \A s \in D : v[s] = w[s]
<1> DEFINE Wrong == {s \in D : v[s] # w[s]}
<1> SUFFICES ASSUME Wrong # {} PROVE FALSE
  OBVIOUS
<1>1. Wrong \in SUBSET Nat
  BY TreeIs
<1>2. PICK s \in Wrong : \A y \in Wrong : s <= y
  <2> HIDE DEF Wrong
  <2> QED  BY <1>1, Least
<1>3. s \in D /\ s \in Syms /\ s \in Nat /\ v[s] # w[s]
  BY TreeIs
<1>4. Alike(v, w, s)
  <2> SUFFICES ASSUME NEW y \in Before(menus, s) PROVE v[y] = w[y]
    BY DEF Alike
  <2>1. y < s /\ y \in D /\ y \in Nat
    BY <1>3, BeforeIs, TreeIs
  <2>2. y \notin Wrong
    <3> HIDE DEF Wrong
    <3> QED  BY <1>1, <1>2, <1>3, <2>1
  <2> QED  BY <2>1, <2>2
<1>5. CalcValue(v, s, x) <=> CalcValue(w, s, x)
  BY <1>3, <1>4, CalcAlike
<1>6. v[s] <=> w[s]
  BY <1>3, <1>5 DEF Worth
<1>7. v[s] \in BOOLEAN /\ w[s] \in BOOLEAN
  BY <1>3 DEF Worth, Vals
<1> QED  BY <1>3, <1>6, <1>7

(* There are values that fit.                                              *)
LEMMA WorthSome ==
  ASSUME menus \in Trees, NEW u \in Configs
  PROVE  \E v : Worth(v, u)
<1> DEFINE Fits(n, v) == v \in Vals /\ \A s \in 1 .. n : v[s] <=> CalcValue(v, s, u)
           Lacks == {n \in 0 .. Symbols : \A v \in Vals : ~ Fits(n, v)}
<1>1. Symbols \in Nat
  BY TreeIs
<1>2. CASE Lacks = {}
  <2>1. \E v \in Vals : Fits(Symbols, v)
    <3>1. Symbols \in 0 .. Symbols
      BY <1>1
    <3> HIDE DEF Fits
    <3> QED  BY <1>2, <3>1
  <2> QED  BY <2>1 DEF Worth, Syms
<1>3. CASE Lacks # {}
  <2>1. PICK n \in Lacks : \A k \in Lacks : n <= k
    <3>1. Lacks \in SUBSET Nat
      BY <1>1
    <3> HIDE DEF Lacks
    <3> QED  BY <1>3, <3>1, Least
  <2>2. n \in Nat /\ n <= Symbols /\ \A v \in Vals : ~ Fits(n, v)
    BY <1>1
  <2>3. n # 0
    <3>1. [s \in Syms |-> FALSE] \in Vals
      BY DEF Vals
    <3>2. 1 .. 0 = {}
      OBVIOUS
    <3>3. Fits(0, [s \in Syms |-> FALSE])
      BY <3>1, <3>2
    <3> HIDE DEF Fits
    <3> QED  BY <2>2, <3>1, <3>3
  <2>4. n - 1 \in 0 .. Symbols /\ n - 1 < n /\ n - 1 \in Nat
    BY <1>1, <2>2, <2>3
  <2>5. n - 1 \notin Lacks
    <3> HIDE DEF Lacks
    <3> QED  BY <2>1, <2>2, <2>4
  <2>6. PICK v \in Vals : Fits(n - 1, v)
    BY <2>4, <2>5
  <2>7. n \in Syms
    BY <1>1, <2>2, <2>3 DEF Syms
  <2> DEFINE w == [v EXCEPT ![n] = CalcValue(v, n, u)]
  <2>8. CalcValue(v, n, u) \in BOOLEAN
    BY <2>7, CalcAlike DEF Alike
  <2>9. /\ w \in Vals /\ w[n] = CalcValue(v, n, u)
        /\ \A s \in Syms \ {n} : w[s] = v[s]
    BY <2>7, <2>8 DEF Vals
  <2>10. ASSUME NEW s \in 1 .. n PROVE w[s] <=> CalcValue(w, s, u)
    <3>1. s \in Syms /\ s <= n /\ s \in Nat
      BY <1>1, <2>2 DEF Syms
    <3>2. Alike(v, w, s)
      <4> SUFFICES ASSUME NEW y \in Before(menus, s) PROVE v[y] = w[y]
        BY DEF Alike
      <4>1. y \in Syms /\ y < s /\ y \in Nat
        BY <3>1, BeforeIs, TreeIs
      <4>2. y # n
        BY <2>2, <3>1, <4>1
      <4> HIDE DEF w
      <4> QED  BY <2>9, <4>1, <4>2
    <3> HIDE DEF w
    <3>3. CalcValue(v, s, u) <=> CalcValue(w, s, u)
      BY <3>1, <3>2, CalcAlike
    <3>4. CASE s = n
      BY <2>9, <3>3, <3>4
    <3>5. CASE s # n
      <4>1. s \in 1 .. n - 1
        BY <2>2, <3>1, <3>5
      <4>2. v[s] <=> CalcValue(v, s, u)
        BY <2>6, <4>1
      <4> QED  BY <2>9, <3>1, <3>3, <3>5, <4>2
    <3> QED  BY <3>4, <3>5
  <2>11. Fits(n, w)
    <3> HIDE DEF w
    <3> QED  BY <2>9, <2>10
  <2> HIDE DEF Fits, w
  <2> QED  BY <2>2, <2>9, <2>11
<1> QED  BY <1>2, <1>3

(* Calc gives them, and no others fit.                                     *)
LEMMA CalcIs ==
  ASSUME menus \in Trees, NEW u \in Configs
  PROVE  /\ Calc(u) \in Vals /\ Worth(Calc(u), u)
         /\ \A v : Worth(v, u) => v = Calc(u)
<1> DEFINE Right(v) == v = [s \in Syms |-> CalcValue(v, s, u)]
<1>1. \A v : \A s \in Syms : CalcValue(v, s, u) \in BOOLEAN
  BY CalcAlike DEF Alike
<1>2. ASSUME NEW v PROVE Right(v) <=> Worth(v, u)
  <2>1. ASSUME Right(v) PROVE Worth(v, u)
    <3>1. DOMAIN v = Syms /\ \A s \in Syms : v[s] = CalcValue(v, s, u)
      BY <2>1
    <3>2. v \in Vals
      <4>1. v = [s \in Syms |-> v[s]] /\ \A s \in Syms : v[s] \in BOOLEAN
        BY <1>1, <2>1, <3>1
      <4> QED  BY <4>1 DEF Vals
    <3> QED  BY <3>1, <3>2 DEF Worth
  <2>2. ASSUME Worth(v, u) PROVE Right(v)
    <3>1. v \in Vals /\ \A s \in Syms : v[s] <=> CalcValue(v, s, u)
      BY <2>2 DEF Worth
    <3>2. \A s \in Syms : v[s] = CalcValue(v, s, u)
      BY <1>1, <3>1 DEF Vals
    <3>3. v = [s \in Syms |-> v[s]]
      BY <3>1 DEF Vals
    <3> QED  BY <3>2, <3>3
  <2> QED  BY <2>1, <2>2
<1>3. Calc(u) = CHOOSE v : Right(v)
  BY DEF Calc
<1>4. Worth(Calc(u), u)
  <2>1. \E v : Right(v)
    BY <1>2, WorthSome
  <2> HIDE DEF Right
  <2> QED  BY <1>2, <1>3, <2>1
<1>5. ASSUME NEW v, Worth(v, u) PROVE v = Calc(u)
  <2>1. \A s \in Syms : v[s] = Calc(u)[s]
    <3>1. \A s \in Syms : Before(menus, s) \subseteq Syms
      BY BeforeIs
    <3> QED  BY <1>4, <1>5, <3>1, WorthOnce
  <2>2. v \in Vals /\ Calc(u) \in Vals
    BY <1>4, <1>5 DEF Worth
  <2> QED  BY <2>1, <2>2 DEF Vals
<1> QED  BY <1>4, <1>5 DEF Worth

----------------------------------------------------------------------------
(* Saving and reading.                                                     *)

(* Who is the chosen member: a visible one if there is one.                *)
LEMMA ChosenIs ==
  ASSUME menus \in Trees, NEW u \in Configs, NEW v
  PROVE  /\ Chosen(v, u) \in Members \cup {Nobody}
         /\ Chosen(v, u) # Nobody => Visible(v, Chosen(v, u))
         /\ \A m \in Members : Visible(v, m) => Chosen(v, u) # Nobody
<1>1. u.cval \in Members \cup {Nobody}
  BY DEF Configs
<1> QED  BY <1>1, ChoiceDefaultIs DEF Chosen

(* What members of the choice are worth.                                   *)
LEMMA MembersWorth ==
  ASSUME menus \in Trees, NEW u \in Configs, NEW v, Worth(v, u), NEW m \in Members
  PROVE  /\ m \in Syms /\ m # Nobody /\ ~ Selected(v, m) /\ ~ Default(v, m)
         /\ v[m] <=> Chosen(v, u) = m
<1>1. m \in Syms /\ m # Nobody /\ ~ Selected(v, m)
  BY TreeIs DEF Selected
<1>2. ~ Default(v, m)
  <2>1. Applies(v, m) = {}
    BY TreeIs DEF Applies
  <2> QED  BY <2>1, DefaultPropIs DEF Default
<1>3. v[m] <=> CalcValue(v, m, u)
  BY <1>1 DEF Worth
<1>4. CASE Visible(v, m)
  BY <1>1, <1>2, <1>3, <1>4 DEF CalcValue
<1>5. CASE ~ Visible(v, m)
  <2>1. ~ v[m]
    BY <1>1, <1>2, <1>3, <1>5 DEF CalcValue
  <2>2. Chosen(v, u) # m
    BY <1>1, <1>5, ChosenIs
  <2> QED  BY <1>1, <1>2, <2>1, <2>2
<1> QED  BY <1>4, <1>5

(* Lines of a file, read.                                                  *)
LEMMA ReadSimpleIs ==
  ASSUME menus \in Trees, NEW some \in SUBSET Syms, NEW v \in Vals
  PROVE  LET file == Lines(v, some)
             x    == ReadSimple(file)
         IN  /\ x \in Configs /\ x.has = some
             /\ \A s \in Syms : x.def[s] <=> s \in some /\ v[s]
             /\ x.cval # Nobody => x.cval \in some /\ v[x.cval]
             /\ \A m \in Members : m \in some /\ v[m] => x.cval # Nobody
<1> DEFINE file == Lines(v, some)
           x    == ReadSimple(file)
           on   == {s \in DOMAIN file : file[s]}
           back == Reverse(menus.members)
           I    == {i \in 1 .. Len(back) : back[i] \in on}
           k    == IF I # {} THEN Min(I) ELSE 0
<1>1. DOMAIN file = some /\ \A s \in some : file[s] = v[s]
  BY DEF Lines
<1>2. on = {s \in some : v[s]}
  BY <1>1
<1>3. /\ back \in Seq(Members) /\ Len(back) \in Nat
      /\ \A m \in Members : \E i \in 1 .. Len(back) : back[i] = m
  <2> DEFINE all == menus.members
  <2>1. all \in Seq(Members)
    BY MembersAre
  <2>2. back = [i \in 1 .. Len(all) |-> all[(Len(all) - i) + 1]]
    BY DEF Reverse
  <2>3. Members = {all[i] : i \in DOMAIN all}
    BY DEF Members, ToSet
  <2> HIDE DEF all, back
  <2>4. \A i \in 1 .. Len(all) : (Len(all) - i) + 1 \in 1 .. Len(all)
    BY <2>1
  <2>5. back \in Seq(Members) /\ Len(back) = Len(all)
    BY <2>1, <2>2, <2>4
  <2>6. ASSUME NEW m \in Members PROVE \E i \in 1 .. Len(back) : back[i] = m
    <3>1. PICK j \in 1 .. Len(all) : all[j] = m
      BY <2>1, <2>3
    <3>2. (Len(all) - j) + 1 \in 1 .. Len(all) /\ (Len(all) - ((Len(all) - j) + 1)) + 1 = j
      BY <2>1
    <3> QED  BY <2>2, <2>5, <3>1, <3>2
  <2> QED  BY <2>1, <2>5, <2>6
<1>4. x = User(DOMAIN file, [s \in Syms |-> s \in on], IF k = 0 THEN Nobody ELSE back[k])
  BY DEF ReadSimple, SelectInSeq
<1>5. /\ k = 0 => \A m \in Members : m \notin on
      /\ k # 0 => back[k] \in Members /\ back[k] \in on
  <2>1. I \in SUBSET (1 .. Len(back))
    OBVIOUS
  <2>2. ASSUME I # {} PROVE Min(I) \in I /\ Min(I) # 0
    <3> HIDE DEF I, back
    <3>1. Min(I) \in I
      BY <1>3, <2>1, <2>2, MinIs
    <3> QED  BY <2>1, <3>1
  <2>3. \A i \in I : back[i] \in on /\ back[i] \in Members
    <3> HIDE DEF back, on
    <3> QED  BY <1>3
  <2>4. \A m \in Members : m \in on => I # {}
    <3> HIDE DEF back, on
    <3> QED  BY <1>3
  <2> HIDE DEF I, back, on
  <2> QED  BY <2>2, <2>3, <2>4
<1>6. /\ x.has = some /\ x.def = [s \in Syms |-> s \in on]
      /\ x.cval = IF k = 0 THEN Nobody ELSE back[k]
      /\ x = [has |-> x.has, def |-> x.def, cval |-> x.cval]
  <2> HIDE DEF k, back, on, x
  <2> QED  BY <1>1, <1>4 DEF User
<1>7. x \in Configs
  <2>1. x.cval \in Members \cup {Nobody} /\ x.def \in Vals
    <3> HIDE DEF k, back, on, x
    <3> QED  BY <1>5, <1>6 DEF Vals
  <2> HIDE DEF x
  <2> QED  BY <1>6, <2>1 DEF Configs
<1>8. Nobody \notin Members
  BY TreeIs
<1> HIDE DEF k, back, on, x, file
<1>9. /\ \A s \in Syms : x.def[s] <=> s \in some /\ v[s]
      /\ x.cval # Nobody => x.cval \in some /\ v[x.cval]
      /\ \A m \in Members : m \in some /\ v[m] => x.cval # Nobody
  BY <1>2, <1>5, <1>6, <1>8
<1> QED  BY <1>6, <1>7, <1>9 DEF x, file

(* What is forgotten of symbols that are not visible changes nothing.      *)
LEMMA ConfReadIs ==
  ASSUME menus \in Trees, NEW some \in SUBSET Syms, NEW w \in Vals, NEW v,
         Worth(v, ReadSimple(Lines(w, some)))
  PROVE  /\ ConfRead(Lines(w, some)) \in Configs
         /\ Calc(ConfRead(Lines(w, some))) = v
<1> DEFINE u == ReadSimple(Lines(w, some))
           x == [u EXCEPT !.has = {s \in @ : s \in Members \/ Visible(v, s)}]
<1>1. u \in Configs
  BY ReadSimpleIs
<1>2. Calc(u) = v
  BY <1>1, CalcIs
<1>3. ConfRead(Lines(w, some)) \in {u, x}
  BY <1>2 DEF ConfRead
<1>4. /\ x \in Configs /\ x.def = u.def /\ x.cval = u.cval
      /\ x.has = {s \in u.has : s \in Members \/ Visible(v, s)}
  <2> HIDE DEF u
  <2> QED  BY <1>1 DEF Configs
<1>5. Worth(v, x)
  <2> HIDE DEF u, x
  <2>1. Chosen(v, x) = Chosen(v, u)
    BY <1>4 DEF Chosen
  <2>2. ASSUME NEW s \in Syms PROVE CalcValue(v, s, x) <=> CalcValue(v, s, u)
    <3>1. Visible(v, s) => (s \in x.has <=> s \in u.has)
      BY <1>4
    <3> QED  BY <1>4, <2>1, <3>1 DEF CalcValue
  <2> QED  BY <2>2 DEF Worth, u
<1> HIDE DEF x
<1> QED  BY <1>1, <1>2, <1>3, <1>4, <1>5, CalcIs

(* What a file that leaves out nothing of importance says, comes back: the *)
(* values that were written come back to all symbols.                      *)
LEMMA FileKeeps ==
  ASSUME menus \in Trees, NEW u \in Configs, NEW v, Worth(v, u),
         NEW some \in SUBSET Syms,
         \A s \in Syms \ Members : Visible(v, s) /\ s \notin some
           => v[s] <=> Default(v, s) \/ Selected(v, s),
         \A m \in Members : v[m] /\ m \notin some => m = ChoiceDefault(v)
  PROVE  ConfRead(Lines(v, some)) \in Configs /\ Calc(ConfRead(Lines(v, some))) = v
<1> DEFINE x == ReadSimple(Lines(v, some))
<1>1. v \in Vals
  BY DEF Worth
<1>2. /\ x \in Configs /\ x.has = some
      /\ \A s \in Syms : x.def[s] <=> s \in some /\ v[s]
      /\ x.cval # Nobody => x.cval \in some /\ v[x.cval]
      /\ \A m \in Members : m \in some /\ v[m] => x.cval # Nobody
  BY <1>1, ReadSimpleIs
<1> HIDE DEF x
<1>3. Chosen(v, x) = Chosen(v, u)
  <2> DEFINE c == Chosen(v, u)
  <2>1. /\ c \in Members \cup {Nobody} /\ (c # Nobody => Visible(v, c))
        /\ \A m \in Members : Visible(v, m) => c # Nobody
    BY ChosenIs
  <2>2. \A m \in Members : (v[m] <=> c = m) /\ m # Nobody
    BY MembersWorth
  <2>3. x.cval \in Members \cup {Nobody}
    BY <1>2 DEF Configs
  <2> HIDE DEF c
  <2>4. CASE x.cval # Nobody
    <3>1. x.cval = c
      BY <1>2, <2>2, <2>3, <2>4
    <3> QED  BY <2>1, <2>4, <3>1 DEF Chosen, c
  <2>5. CASE x.cval = Nobody
    <3>1. Chosen(v, x) = ChoiceDefault(v)
      BY <2>5 DEF Chosen
    <3>2. CASE c = Nobody
      BY <2>1, <3>1, <3>2, ChoiceDefaultIs DEF c
    <3>3. CASE c # Nobody
      <4>1. c \in Members /\ v[c]
        BY <2>1, <2>2, <3>3
      <4>2. c \notin some
        BY <1>2, <2>5, <4>1
      <4> QED  BY <3>1, <4>1, <4>2 DEF c
    <3> QED  BY <3>2, <3>3
  <2> QED  BY <2>4, <2>5
<1>4. ASSUME NEW s \in Syms PROVE v[s] <=> CalcValue(v, s, x)
  <2>1. v[s] <=> CalcValue(v, s, u)
    BY DEF Worth
  <2>2. CASE s \in Members
    BY <1>3, <2>1, <2>2 DEF CalcValue
  <2>3. CASE s \notin Members /\ ~ Visible(v, s)
    BY <2>1, <2>3 DEF CalcValue
  <2>4. CASE s \notin Members /\ Visible(v, s) /\ s \in some
    <3>1. Selected(v, s) => v[s]
      BY <2>1, <2>4 DEF CalcValue
    <3>2. CalcValue(v, s, x) <=> x.def[s] \/ Selected(v, s)
      BY <1>2, <2>4 DEF CalcValue
    <3> QED  BY <1>2, <2>4, <3>1, <3>2
  <2>5. CASE s \notin Members /\ Visible(v, s) /\ s \notin some
    <3>1. v[s] <=> Default(v, s) \/ Selected(v, s)
      BY <2>5
    <3>2. CalcValue(v, s, x) <=> Default(v, s) \/ Selected(v, s)
      BY <1>2, <2>5 DEF CalcValue
    <3> QED  BY <3>1, <3>2
  <2> QED  BY <2>2, <2>3, <2>4, <2>5
<1>5. Worth(v, x)
  BY <1>1, <1>4 DEF Worth
<1> QED  BY <1>1, <1>5, ConfReadIs DEF x

(* conf_write() leaves out nothing.                                        *)
LEMMA WriteKeeps ==
  ASSUME menus \in Trees, NEW u \in Configs, NEW file \in ConfWrite(u)
  PROVE  ConfRead(file) \in Configs /\ Calc(ConfRead(file)) = Calc(u)
<1> DEFINE v == Calc(u)
<1>1. Worth(v, u)
  BY CalcIs
<1>2. PICK extra \in SUBSET {m \in Members : ~ Visible(v, m)} :
        file = Lines(v, SymbolWrite(v) \cup extra)
  BY DEF ConfWrite
<1> DEFINE some == SymbolWrite(v) \cup extra
<1>3. some \in SUBSET Syms
  BY <1>2, TreeIs DEF SymbolWrite
<1> HIDE DEF v
<1>4. \A s \in Syms : Visible(v, s) => s \in some
  BY DEF SymbolWrite
<1>5. \A m \in Members : v[m] => m \in some
  <2> SUFFICES ASSUME NEW m \in Members, v[m] PROVE Visible(v, m) /\ m \in Syms
    BY <1>4
  <2> QED  BY <1>1, MembersWorth, ChosenIs
<1> HIDE DEF some
<1>6. ConfRead(Lines(v, some)) \in Configs /\ Calc(ConfRead(Lines(v, some))) = v
  BY <1>1, <1>3, <1>4, <1>5, FileKeeps
<1> QED  BY <1>2, <1>6 DEF v, some

(* Nor does conf_write_defconfig() leave out what is not worked out anew.  *)
LEMMA WriteDefconfigKeeps ==
  ASSUME menus \in Trees, NEW u \in Configs
  PROVE  /\ ConfRead(ConfWriteDefconfig(u)) \in Configs
         /\ Calc(ConfRead(ConfWriteDefconfig(u))) = Calc(u)
<1> DEFINE v    == Calc(u)
           some == {s \in SymbolWrite(v) : ~ DefconfigSkips(v, s)}
<1>1. Worth(v, u)
  BY CalcIs
<1>2. ConfWriteDefconfig(u) = Lines(v, some)
  BY DEF ConfWriteDefconfig
<1> HIDE DEF v
<1>3. some \in SUBSET Syms
  BY DEF SymbolWrite
<1>4. ASSUME NEW s \in Syms \ Members, Visible(v, s), s \notin some
      PROVE  v[s] <=> Default(v, s) \/ Selected(v, s)
  <2>1. DefconfigSkips(v, s)
    BY <1>4 DEF SymbolWrite
  <2>2. Selected(v, s) => v[s]
    <3>1. v[s] <=> CalcValue(v, s, u)
      BY <1>1 DEF Worth
    <3> QED  BY <3>1 DEF CalcValue
  <2> QED  BY <1>4, <2>1, <2>2 DEF DefconfigSkips, StringDefault
<1>5. ASSUME NEW m \in Members, v[m], m \notin some PROVE m = ChoiceDefault(v)
  <2>1. /\ Visible(v, m) /\ m \in Syms /\ ~ Selected(v, m) /\ ~ Default(v, m)
    BY <1>1, <1>5, MembersWorth, ChosenIs
  <2>2. DefconfigSkips(v, m)
    BY <1>5, <2>1 DEF SymbolWrite
  <2>3. v[m] # StringDefault(v, m)
    BY <1>5, <2>1 DEF StringDefault
  <2> QED  BY <2>1, <2>2, <2>3 DEF DefconfigSkips
<1> HIDE DEF some
<1>6. ConfRead(Lines(v, some)) \in Configs /\ Calc(ConfRead(Lines(v, some))) = v
  BY <1>1, <1>3, <1>4, <1>5, FileKeeps
<1> QED  BY <1>2, <1>6 DEF v

----------------------------------------------------------------------------
(* Setting a value.                                                        *)

(* What is set.                                                            *)
LEMMA SetIs ==
  ASSUME menus \in Trees, NEW u \in Configs, NEW v, NEW s \in Syms, NEW val \in BOOLEAN
  PROVE  LET x == SetTristate(v, u, s, val)
         IN  /\ x \in Configs /\ s \in x.has /\ x.def[s] = val
             /\ \A y \in Syms \ {s} : x.def[y] = u.def[y]
             /\ \A y \in Syms \ (Members \cup {s}) : y \in x.has <=> y \in u.has
             /\ ~ (s \in Members /\ val) => x.cval = u.cval
             /\ s \in Members /\ val => x.cval = s
<1> DEFINE x    == SetTristate(v, u, s, val)
           more == IF s \in Members /\ val THEN {m \in Members : Visible(v, m)} ELSE {}
           has1 == u.has \cup {s} \cup more
           def1 == [u.def EXCEPT ![s] = val]
           c1   == IF s \in Members /\ val THEN s ELSE u.cval
<1>1. x = [has |-> has1, def |-> def1, cval |-> c1]
  BY DEF SetTristate, User
<1>2. u.has \in SUBSET Syms /\ u.def \in Vals /\ u.cval \in Members \cup {Nobody}
  BY DEF Configs
<1>3. more \in SUBSET Members /\ Members \subseteq Syms
  BY TreeIs
<1>4. /\ def1 \in Vals /\ def1[s] = val
      /\ \A y \in Syms \ {s} : def1[y] = u.def[y]
  BY <1>2 DEF Vals
<1>5. c1 \in Members \cup {Nobody}
  BY <1>2
<1> HIDE DEF x, more, def1
<1>6. has1 \in SUBSET Syms
  BY <1>2, <1>3
<1>7. x \in Configs
  BY <1>1, <1>4, <1>5, <1>6 DEF Configs
<1>8. x.has = has1 /\ x.def = def1 /\ x.cval = c1
  BY <1>1
<1>9. /\ s \in x.has /\ x.def[s] = val
      /\ \A y \in Syms \ {s} : x.def[y] = u.def[y]
      /\ \A y \in Syms \ (Members \cup {s}) : y \in x.has <=> y \in u.has
      /\ ~ (s \in Members /\ val) => x.cval = u.cval
      /\ s \in Members /\ val => x.cval = s
  BY <1>3, <1>4, <1>8
<1> QED  BY <1>7, <1>9 DEF x

(* A value in range is the symbol's afterwards: what it depends on is      *)
(* worth what it was.                                                      *)
LEMMA SetWorks ==
  ASSUME menus \in Trees, NEW u \in Configs, NEW s \in Syms, NEW val \in BOOLEAN,
         InRange(Calc(u), s, val)
  PROVE  Calc(SetTristate(Calc(u), u, s, val))[s] = val
<1> DEFINE v == Calc(u)
           x == SetTristate(v, u, s, val)
           w == Calc(x)
<1>1. Visible(v, s) /\ ~ Selected(v, s) /\ (s \in Members => val)
  BY DEF InRange
<1>2. /\ x \in Configs /\ s \in x.has /\ x.def[s] = val
      /\ \A y \in Syms \ {s} : x.def[y] = u.def[y]
      /\ \A y \in Syms \ (Members \cup {s}) : y \in x.has <=> y \in u.has
      /\ ~ (s \in Members /\ val) => x.cval = u.cval
      /\ s \in Members /\ val => x.cval = s
  BY SetIs
<1>3. Worth(v, u) /\ Worth(w, x)
  BY <1>2, CalcIs
<1> HIDE DEF v, x, w
<1> DEFINE D == Before(menus, s)
<1>4. /\ D \in SUBSET Syms /\ s \notin D
      /\ \A y \in D : Before(menus, y) \subseteq D
      /\ s \in Members => D \cap Members = {}
  BY BeforeIs, TreeIs
<1>5. ASSUME NEW y \in D PROVE CalcValue(v, y, u) <=> CalcValue(v, y, x)
  <2>1. y \in Syms /\ y # s /\ x.def[y] = u.def[y]
    BY <1>2, <1>4
  <2>2. CASE y \in Members
    <3>1. x.cval = u.cval
      BY <1>2, <1>4, <2>2
    <3>2. Chosen(v, u) = Chosen(v, x)
      BY <3>1 DEF Chosen
    <3>3. y \notin u.has \/ y \in u.has
      OBVIOUS
    <3>4. CASE Visible(v, y)
      BY <2>2, <3>2, <3>4 DEF CalcValue
    <3>5. CASE ~ Visible(v, y)
      BY <3>5 DEF CalcValue
    <3> QED  BY <3>4, <3>5
  <2>3. CASE y \notin Members
    BY <1>2, <2>1, <2>3 DEF CalcValue
  <2> QED  BY <2>2, <2>3
<1>6. Alike(v, w, s)
  <2> HIDE DEF D
  <2>1. \A y \in D : v[y] = w[y]
    BY <1>2, <1>3, <1>4, <1>5, WorthOnce
  <2> QED  BY <2>1 DEF D, Alike
<1>7. CalcValue(v, s, x) <=> CalcValue(w, s, x)
  BY <1>2, <1>6, CalcAlike
<1>8. CalcValue(v, s, x) <=> val
  <2>1. CASE s \in Members
    <3>1. Chosen(v, x) = s /\ val
      BY <1>1, <1>2, <2>1, TreeIs DEF Chosen
    <3> QED  BY <1>1, <2>1, <3>1 DEF CalcValue
  <2>2. CASE s \notin Members
    BY <1>1, <1>2, <2>2 DEF CalcValue
  <2> QED  BY <2>1, <2>2
<1>9. w[s] \in BOOLEAN /\ (w[s] <=> CalcValue(w, s, x))
  BY <1>3 DEF Worth, Vals
<1>10. w[s] = val
  BY <1>7, <1>8, <1>9
<1> QED  BY <1>10 DEF v, x, w

----------------------------------------------------------------------------
(* The user's side of a configuration is one: the member chosen is of the  *)
(* choice.                                                                 *)
KTypeOK ==
  \/ menus = NoMenus /\ given = {} /\ def \in Vals /\ cval = Nobody
  \/ menus \in Trees /\ user \in Configs

(* Every step keeps that.                                                  *)
LEMMA KKeeps == ASSUME KTypeOK, [KNext]_kconfigVars PROVE KTypeOK'
<1>1. CASE UNCHANGED kconfigVars
  BY <1>1 DEF kconfigVars, KTypeOK, user, Configs, Members, Vals
<1>2. CASE Parse
  <2>1. menus = NoMenus /\ menus' \in Trees /\ given' = given /\ def' = def /\ cval' = cval
    BY <1>2 DEF Parse
  <2>2. menus \notin Trees
    BY <2>1, KconfigAssumption
  <2>3. given' = {} /\ def' \in Vals /\ cval' = Nobody
    BY <2>1, <2>2 DEF KTypeOK
  <2>4. user' = User({}, def', Nobody)
    BY <2>3 DEF user
  <2>5. user' \in Configs'
    BY <2>3, <2>4 DEF User, Configs, Vals
  <2> QED  BY <2>1, <2>5 DEF KTypeOK
<1>3. ASSUME menus \in Trees, NEW u \in Configs, Becomes(u) PROVE KTypeOK'
  <2>1. /\ menus' = menus /\ given' = u.has /\ def' = u.def /\ cval' = u.cval
    BY <1>3 DEF Becomes
  <2>2. user' = u
    BY <2>1 DEF user, User, Configs
  <2>3. Members' = Members
    BY <2>1 DEF Members
  <2> QED  BY <1>3, <2>1, <2>2, <2>3 DEF KTypeOK, Configs
<1>4. CASE menus \in Trees /\ user \in Configs
  <2>1. ASSUME NEW h \in SUBSET Syms, NEW d \in Vals, NEW c \in Members \cup {Nobody}
        PROVE  User(h, d, c) \in Configs
    BY DEF User, Configs
  <2>2. ASSUME NEW s \in Syms, NEW val \in BOOLEAN, SetValue(s, val) PROVE KTypeOK'
    <3>1. SetTristate(Calc(user), user, s, val) \in Configs
      BY <1>4, SetIs
    <3> QED  BY <1>3, <1>4, <2>2, <3>1 DEF SetValue
  <2>3. ASSUME NEW val \in BOOLEAN, AllSame(val) PROVE KTypeOK'
    <3>1. User(Syms, [s \in Syms |-> val], Nobody) \in Configs
      BY <2>1 DEF Vals
    <3> QED  BY <1>3, <1>4, <2>3, <3>1 DEF AllSame
  <2>4. CASE RandConfig
    <3>1. PICK on \in SUBSET Syms, c \in Members \cup {Nobody} :
            \/ Becomes(User(Syms, [s \in Syms |-> s \in on], Nobody))
            \/ Becomes(User(Syms, [s \in Syms |-> IF s \in Members THEN s = c ELSE s \in on], c))
      BY <2>4 DEF RandConfig
    <3>2. /\ [s \in Syms |-> s \in on] \in Vals
          /\ [s \in Syms |-> IF s \in Members THEN s = c ELSE s \in on] \in Vals
      <4>1. [s \in Syms |-> s \in on] \in Vals
        BY DEF Vals
      <4>2. ASSUME NEW s \in Syms
            PROVE  (IF s \in Members THEN s = c ELSE s \in on) \in BOOLEAN
        <5>1. CASE s \in Members  BY <5>1
        <5>2. CASE s \notin Members  BY <5>2
        <5> QED  BY <5>1, <5>2
      <4>3. [s \in Syms |-> IF s \in Members THEN s = c ELSE s \in on] \in Vals
        BY <4>2, Zenon DEF Vals
      <4> QED  BY <4>1, <4>3
    <3> QED  BY <1>3, <1>4, <2>1, <3>1, <3>2
  <2>5. CASE Reload
    BY <1>3, <1>4, <2>5, WriteKeeps DEF Reload
  <2>6. CASE ReloadDefconfig
    BY <1>3, <1>4, <2>6, WriteDefconfigKeeps DEF ReloadDefconfig
  <2>7. \/ Parse \/ RandConfig \/ Reload \/ ReloadDefconfig \/ UNCHANGED kconfigVars
        \/ \E s \in Syms, val \in BOOLEAN : SetValue(s, val)
        \/ \E val \in BOOLEAN : AllSame(val)
    BY DEF KNext
  <2> QED  BY <1>1, <1>2, <2>2, <2>3, <2>4, <2>5, <2>6, <2>7
<1> QED  BY <1>1, <1>2, <1>4 DEF KNext, KTypeOK

(* In every reachable state.                                               *)
THEOREM KTypeCorrect == KSpec => []KTypeOK
<1>1. KInit => KTypeOK
  BY DEF KInit, KTypeOK, Fresh, User, Vals
<1> QED  BY <1>1, KKeeps, PTL DEF KSpec

(* A configuration that is saved and read again gives all symbols the same *)
(* values, whatever the Kconfig files say.                                 *)
THEOREM SavesAll == KSpec => []SaveKeeps
<1>1. KTypeOK => SaveKeeps
  BY WriteKeeps DEF KTypeOK, SaveKeeps
<1> QED  BY <1>1, KTypeCorrect, PTL

(* And so does the minimal configuration of savedefconfig.                 *)
THEOREM SavesEnough == KSpec => []DefconfigKeeps
<1>1. KTypeOK => DefconfigKeeps
  BY WriteDefconfigKeeps DEF KTypeOK, DefconfigKeeps
<1> QED  BY <1>1, KTypeCorrect, PTL

(* A value that is in range takes effect when it is set.                   *)
THEOREM SetsIt == KSpec => []SetTakesEffect
<1>1. KTypeOK => SetTakesEffect
  BY SetWorks DEF KTypeOK, SetTakesEffect
<1> QED  BY <1>1, KTypeCorrect, PTL

\* A file and a minimal file that are saved again after they were read are
\* the same file, and the minimal one leads to the same full ones.
SavesAgain ==
  menus # NoMenus =>
    /\ \A file \in ConfWrite(user) : ConfWrite(ConfRead(file)) = ConfWrite(user)
    /\ LET least == ConfWriteDefconfig(user)
       IN  /\ ConfWriteDefconfig(ConfRead(least)) = least
           /\ ConfWrite(ConfRead(least)) = ConfWrite(user)

(* Saving settles: make savedefconfig after make defconfig writes the file *)
(* that was read, and saving a configuration once more changes nothing.    *)
THEOREM SavingSettles == KSpec => []SavesAgain
<1>1. \A u, w : Calc(u) = Calc(w) => /\ ConfWrite(u) = ConfWrite(w)
                                     /\ ConfWriteDefconfig(u) = ConfWriteDefconfig(w)
  BY DEF ConfWrite, ConfWriteDefconfig
<1>2. SaveKeeps /\ DefconfigKeeps => SavesAgain
  BY <1>1 DEF SaveKeeps, DefconfigKeeps, SavesAgain
<1> QED  BY <1>2, SavesAll, SavesEnough, PTL

----------------------------------------------------------------------------
\* The rules of expr.c, whatever symbols there are.
CONSTANTS Tristates, Booleans

X == INSTANCE ExprRules

\* The values symbols can have: those that are not tristates are not m.
Valuations ==
  {v \in [Tristates \cup Booleans -> 0 .. 2] : \A s \in Booleans : v[s] # 1}

Constants == {"y", "m", "n"}

\* What the tables are asked about: a symbol, a comparison, or its negation.
Terms(s)    == {<<"sym", s>>} \cup {<<r, s, c>> : r \in {"eq", "ne"}, c \in Constants}
Literals(s) == Terms(s) \cup {<<"not", t>> : t \in Terms(s)}

Worths(v, x) == IF x[1] = "not" THEN X!EXPR_NOT(X!SimpleValue(v, x[2])) ELSE X!SimpleValue(v, x)

\* The names of symbols are not those of the constants.
Named == (Tristates \cup Booleans) \cap Constants = {}

(* What a literal is worth, which for a comparison is never m.             *)
LEMMA TermValues ==
  ASSUME Named, NEW v \in Valuations, NEW s \in Tristates \cup Booleans
  PROVE  /\ v[s] \in 0 .. 2 /\ (s \in Booleans => v[s] # 1)
         /\ s # "y" /\ s # "m" /\ s # "n"
         /\ Worths(v, <<"sym", s>>) = v[s]
         /\ \A t \in Terms(s) : Worths(v, <<"not", t>>) = 2 - Worths(v, t)
         /\ \A c \in Constants :
              /\ Worths(v, <<"eq", s, c>>) = IF v[s] = X!Tri(v, c) THEN 2 ELSE 0
              /\ Worths(v, <<"ne", s, c>>) = IF v[s] = X!Tri(v, c) THEN 0 ELSE 2
         /\ X!Tri(v, "y") = 2 /\ X!Tri(v, "m") = 1 /\ X!Tri(v, "n") = 0
<1>1. /\ v[s] \in 0 .. 2 /\ (s \in Booleans => v[s] # 1)
      /\ s # "y" /\ s # "m" /\ s # "n"
  BY DEF Valuations, Named, Constants
<1>2. X!Tri(v, "y") = 2 /\ X!Tri(v, "m") = 1 /\ X!Tri(v, "n") = 0 /\ X!Tri(v, s) = v[s]
  BY <1>1 DEF X!Tri
<1>3. Worths(v, <<"sym", s>>) = v[s]
  BY <1>2 DEF Worths, X!SimpleValue
<1>4. \A c \in Constants :
              /\ Worths(v, <<"eq", s, c>>) = IF v[s] = X!Tri(v, c) THEN 2 ELSE 0
              /\ Worths(v, <<"ne", s, c>>) = IF v[s] = X!Tri(v, c) THEN 0 ELSE 2
  BY <1>2 DEF Worths, X!SimpleValue
<1>5. \A t \in Terms(s) : Worths(v, <<"not", t>>) = 2 - Worths(v, t)
  BY DEF Worths, Terms, X!EXPR_NOT
<1> QED  BY <1>1, <1>2, <1>3, <1>4, <1>5

(* And the constants y and n.                                              *)
LEMMA ConstantValues ==
  ASSUME NEW v
  PROVE  Worths(v, X!Yes) = 2 /\ Worths(v, X!No) = 0
BY DEF Worths, X!SimpleValue, X!Yes, X!No, X!Tri

(* Two ways to name two expressions.                                       *)
LEMMA SamePair ==
  ASSUME NEW a, NEW b, NEW c, NEW d, {a, b} = {c, d}
  PROVE  (a = c /\ b = d) \/ (a = d /\ b = c)
<1>1. (a = c \/ a = d) /\ (b = c \/ b = d)
  <2>1. a \in {a, b} /\ b \in {a, b}
    OBVIOUS
  <2> QED  BY <2>1
<1>2. (c = a \/ c = b) /\ (d = a \/ d = b)
  <2>1. c \in {c, d} /\ d \in {c, d}
    OBVIOUS
  <2> QED  BY <2>1
<1> QED  BY <1>1, <1>2

(* There is a third constant.                                              *)
LEMMA ThirdIs ==
  ASSUME NEW c \in Constants, NEW d \in Constants, c # d
  PROVE  X!Third(c, d) \in Constants \ {c, d}
<1>1. \E k \in Constants : k \notin {c, d}
  BY DEF Constants
<1> QED  BY <1>1 DEF X!Third, Constants

(* What takes the place of the "or" of two literals has its value.        *)
LEMMA OrRuleKeeps ==
  ASSUME Named, NEW v \in Valuations, NEW s \in Tristates \cup Booleans,
         NEW x \in Literals(s), NEW y \in Literals(s), x # y, X!OrRule(x, y) # X!None
  PROVE  Worths(v, X!OrRule(x, y)) = X!EXPR_OR(Worths(v, x), Worths(v, y))
<1>1. X!SymOf(x) = s
  BY DEF X!SymOf, Literals, Terms
<1>2. CASE s \in Tristates /\ x[1] = "eq" /\ y[1] = "eq"
  <2>1. PICK c \in Constants : x = <<"eq", s, c>>
    BY <1>2 DEF Literals, Terms
  <2>2. PICK d \in Constants : y = <<"eq", s, d>>
    BY <1>2 DEF Literals, Terms
  <2>3. X!OrRule(x, y) = <<"ne", s, X!Third(c, d)>>
    BY <1>1, <1>2, <2>1, <2>2 DEF X!OrRule
  <2>4. X!Third(c, d) \in Constants \ {c, d} /\ c # d
    BY <2>1, <2>2, ThirdIs
  <2>5. /\ Worths(v, x) = IF v[s] = X!Tri(v, c) THEN 2 ELSE 0
        /\ Worths(v, y) = IF v[s] = X!Tri(v, d) THEN 2 ELSE 0
        /\ Worths(v, <<"ne", s, X!Third(c, d)>>) = IF v[s] = X!Tri(v, X!Third(c, d)) THEN 0 ELSE 2
    <3>1. \A e \in Constants :
            /\ Worths(v, <<"eq", s, e>>) = IF v[s] = X!Tri(v, e) THEN 2 ELSE 0
            /\ Worths(v, <<"ne", s, e>>) = IF v[s] = X!Tri(v, e) THEN 0 ELSE 2
      BY TermValues
    <3> QED  BY <2>1, <2>2, <2>4, <3>1
  <2>6. X!Tri(v, "y") = 2 /\ X!Tri(v, "m") = 1 /\ X!Tri(v, "n") = 0 /\ v[s] \in 0 .. 2
    BY TermValues
  <2> QED  BY <2>3, <2>4, <2>5, <2>6 DEF X!EXPR_OR, Constants
<1>3. CASE s \in Booleans /\ {x, y} = {<<"sym", s>>, <<"not", <<"sym", s>>>>}
  <2>1. \/ x = <<"sym", s>> /\ y = <<"not", <<"sym", s>>>>
        \/ y = <<"sym", s>> /\ x = <<"not", <<"sym", s>>>>
    BY <1>3
  <2>2. x[1] # "eq" \/ y[1] # "eq"
    BY <2>1
  <2>3. X!OrRule(x, y) = X!Yes
    BY <1>1, <1>3, <2>2 DEF X!OrRule
  <2>4. /\ Worths(v, <<"sym", s>>) = v[s] /\ Worths(v, <<"not", <<"sym", s>>>>) = 2 - v[s]
        /\ v[s] \in 0 .. 2 /\ v[s] # 1
    BY <1>3, TermValues DEF Terms
  <2> QED  BY <2>1, <2>3, <2>4, ConstantValues DEF X!EXPR_OR
<1> QED  BY <1>1, <1>2, <1>3 DEF X!OrRule

(* The same for "and".                                                     *)
LEMMA AndRuleKeeps ==
  ASSUME Named, NEW v \in Valuations, NEW s \in Tristates \cup Booleans,
         NEW x \in Literals(s), NEW y \in Literals(s), x # y, X!AndRule(x, y) # X!None
  PROVE  Worths(v, X!AndRule(x, y)) = X!EXPR_AND(Worths(v, x), Worths(v, y))
<1> DEFINE is == <<"sym", s>>
           on == <<"eq", s, "y">>
<1>1. X!SymOf(x) = s
  BY DEF X!SymOf, Literals, Terms
<1>2. /\ X!Tri(v, "y") = 2 /\ X!Tri(v, "m") = 1 /\ X!Tri(v, "n") = 0 /\ v[s] \in 0 .. 2
      /\ Worths(v, is) = v[s]
      /\ \A c \in Constants :
            /\ Worths(v, <<"eq", s, c>>) = IF v[s] = X!Tri(v, c) THEN 2 ELSE 0
            /\ Worths(v, <<"ne", s, c>>) = IF v[s] = X!Tri(v, c) THEN 0 ELSE 2
  BY TermValues
<1>3. CASE {x, y} \in {{is, on}, {is, <<"ne", s, "m">>}}
  <2>1. X!AndRule(x, y) = on
    BY <1>1, <1>3 DEF X!AndRule
  <2>2. \/ x = is /\ y \in {on, <<"ne", s, "m">>}
        \/ y = is /\ x \in {on, <<"ne", s, "m">>}
    BY <1>3, SamePair
  <2> QED  BY <1>2, <2>1, <2>2 DEF X!EXPR_AND, Constants
<1>4. CASE {x, y} = {is, <<"ne", s, "n">>}
  <2>1. ~ ({x, y} \in {{is, on}, {is, <<"ne", s, "m">>}})
    BY <1>4
  <2>2. X!AndRule(x, y) = is
    BY <1>1, <1>4, <2>1 DEF X!AndRule
  <2>3. \/ x = is /\ y = <<"ne", s, "n">>
        \/ y = is /\ x = <<"ne", s, "n">>
    BY <1>4, SamePair
  <2> QED  BY <1>2, <2>2, <2>3 DEF X!EXPR_AND, Constants
<1>5. CASE /\ s \in Tristates /\ x[1] \in {"eq", "ne"} /\ y[1] \in {"eq", "ne"}
           /\ x[1] = "ne" \/ y[1] = "ne"
  <2>1. PICK c \in Constants : x = <<x[1], s, c>>
    BY <1>5 DEF Literals, Terms
  <2>2. PICK d \in Constants : y = <<y[1], s, d>>
    BY <1>5 DEF Literals, Terms
  <2>3. is \notin {x, y} /\ x[3] = c /\ y[3] = d
    BY <1>5, <2>1, <2>2
  <2>4. CASE x[1] = "eq" /\ y[1] = "ne"
    <3>1. X!AndRule(x, y) = IF c # d THEN x ELSE X!No
      BY <1>1, <1>5, <2>3, <2>4 DEF X!AndRule
    <3> QED  BY <1>2, <2>1, <2>2, <2>4, <3>1, ConstantValues DEF X!EXPR_AND, Constants
  <2>5. CASE x[1] = "ne" /\ y[1] = "eq"
    <3>1. X!AndRule(x, y) = IF c # d THEN y ELSE X!No
      BY <1>1, <1>5, <2>3, <2>5 DEF X!AndRule
    <3> QED  BY <1>2, <2>1, <2>2, <2>5, <3>1, ConstantValues DEF X!EXPR_AND, Constants
  <2>6. CASE x[1] = "ne" /\ y[1] = "ne"
    <3>1. X!AndRule(x, y) = <<"eq", s, X!Third(c, d)>>
      BY <1>1, <1>5, <2>3, <2>6 DEF X!AndRule
    <3>2. X!Third(c, d) \in Constants \ {c, d} /\ c # d
      BY <2>1, <2>2, <2>6, ThirdIs
    <3> QED  BY <1>2, <2>1, <2>2, <2>6, <3>1, <3>2 DEF X!EXPR_AND, Constants
  <2> QED  BY <1>5, <2>4, <2>5, <2>6
<1>6. CASE /\ ~ ({x, y} \in {{is, on}, {is, <<"ne", s, "m">>}})
           /\ {x, y} # {is, <<"ne", s, "n">>}
           /\ ~ (s \in Tristates /\ x[1] = "eq" /\ y[1] = "ne")
           /\ ~ (s \in Tristates /\ x[1] = "ne" /\ y[1] = "eq")
           /\ ~ (s \in Tristates /\ x[1] = "ne" /\ y[1] = "ne")
  BY <1>1, <1>6 DEF X!AndRule
<1> QED  BY <1>3, <1>4, <1>5, <1>6

(* expr_join_or() and expr_join_and() lose nothing: the one expression that*)
(* takes the place of two about a symbol has the value of their "or" or    *)
(* "and", for every symbol, and for m too.                                 *)
THEOREM JoinsKeepTheValue ==
  ASSUME Named, NEW v \in Valuations, NEW s \in Tristates \cup Booleans, NEW o \in {"and", "or"},
         NEW x \in Literals(s), NEW y \in Literals(s), x # y, X!Rule(o, x, y) # X!None
  PROVE  Worths(v, X!Rule(o, x, y)) = X!OpValue(o, Worths(v, x), Worths(v, y))
BY OrRuleKeeps, AndRuleKeeps DEF X!Rule, X!OpValue

(* expr_transform() loses nothing when it turns a comparison of a boolean  *)
(* into the boolean, its negation or a constant.                           *)
THEOREM ComparisonsKeepTheValue ==
  ASSUME Named, NEW v \in Valuations, NEW s \in Booleans, NEW r \in {"eq", "ne"}, NEW c \in Constants
  PROVE  Worths(v, X!Compared(<<r, s, c>>)) = Worths(v, <<r, s, c>>)
<1>1. /\ v[s] \in 0 .. 2 /\ v[s] # 1
      /\ Worths(v, <<"sym", s>>) = v[s] /\ Worths(v, <<"not", <<"sym", s>>>>) = 2 - v[s]
      /\ Worths(v, <<"eq", s, c>>) = IF v[s] = X!Tri(v, c) THEN 2 ELSE 0
      /\ Worths(v, <<"ne", s, c>>) = IF v[s] = X!Tri(v, c) THEN 0 ELSE 2
      /\ X!Tri(v, "y") = 2 /\ X!Tri(v, "m") = 1 /\ X!Tri(v, "n") = 0
  BY TermValues DEF Terms
<1> QED  BY <1>1, ConstantValues DEF X!Compared, Constants

(* Nor does expr_eliminate_yn() where it takes a constant out of an "and"  *)
(* or "or" of operands worth k and n: what is left is a constant with the  *)
(* value of all of it, an operand worth as much, or what there was because *)
(* neither operand is a constant.                                          *)
THEOREM ConstantsGo ==
  ASSUME NEW v, NEW o \in {"and", "or"}, NEW l, NEW r, NEW k \in 0 .. 2, NEW n \in 0 .. 2,
         l \in {X!Yes, X!No} => k = X!SimpleValue(v, l),
         r \in {X!Yes, X!No} => n = X!SimpleValue(v, r)
  PROVE  LET e == X!WithoutYN(o, l, r)
             a == X!OpValue(o, k, n)
         IN  \/ e \in {X!Yes, X!No} /\ a = X!SimpleValue(v, e)
             \/ e = l /\ a = k
             \/ e = r /\ a = n
             \/ e = <<o, l, r>> /\ l \notin {X!Yes, X!No} /\ r \notin {X!Yes, X!No}
BY DEF X!WithoutYN, X!OpValue, X!EXPR_AND, X!EXPR_OR, X!Neutral, X!SimpleValue, X!Tri, X!Yes, X!No

=============================================================================
