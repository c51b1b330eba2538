---------------------------- MODULE PackageBuild ----------------------------
(***************************************************************************)
(* package/pkg-generic.mk: the steps of a package's build, the stamp file  *)
(* that each leaves when it is done, and the targets that take stamps away *)
(* to have steps done again; with support/scripts/apply-patches.sh.        *)
(*                                                                         *)
(* The top-level make is not parallel.  GNU make is external: it runs a    *)
(* step whose stamp is missing, or older than one of those it is made      *)
(* from, when all that the step needs is up to date.  A step's commands    *)
(* may fail and the make may be killed, and then be called again.          *)
(* Archives, hooks, host packages and legal-info are left out.             *)
(***************************************************************************)
EXTENDS Naturals, Sequences, SequencesExt

CONSTANTS
  Packages,
  Deps,        \* Deps[p]: FOO_FINAL_DEPENDENCIES
  PatchDeps,   \* PatchDeps[p]: FOO_FINAL_PATCH_DEPENDENCIES
  Overridden,  \* those of the packages with FOO_OVERRIDE_SRCDIR
  Staging,     \*   with FOO_INSTALL_STAGING
  Images,      \*   and with FOO_INSTALL_IMAGES
  Patches,     \* how many patches a package has
  MaxVersion   \* bound of the model: no more versions of a source directory

ASSUME PackageBuildAssumption ==
  /\ Patches \in Nat /\ MaxVersion \in Nat \ {0}
  /\ Deps \in [Packages -> SUBSET Packages] /\ PatchDeps \in [Packages -> SUBSET Packages]
  /\ Overridden \subseteq Packages /\ Staging \subseteq Packages /\ Images \subseteq Packages

Installs(p) ==
  {"target_installed"} \cup (IF p \in Staging THEN {"staging_installed"} ELSE {})
                       \cup (IF p \in Images THEN {"images_installed"} ELSE {})

\* The stamps of p, without their prefix.
Steps(p) ==
  Installs(p) \cup {"configured", "built"} \cup
  (IF p \in Overridden THEN {"rsynced"} ELSE {"downloaded", "extracted", "patched"})

Stamps == UNION {{p} \X Steps(p) : p \in Packages}

Sequencing ==
  {<<"downloaded", "extracted">>, <<"extracted", "patched">>,
   <<"patched", "configured">>, <<"configured", "built">>,
   <<"built", "staging_installed">>, <<"built", "target_installed">>,
   <<"built", "images_installed">>, <<"staging_installed", "target_installed">>}

\* What configuring p needs of the packages it depends on.
Installed(p) == UNION {{<<<<d, s>>, <<p, "configured">>>> : s \in Installs(d)} : d \in Deps[p]}

\* foo-patch of the packages that p's patches need.
Patched(p) ==
  {<<<<d, IF d \in Overridden THEN "rsynced" ELSE "patched">>, <<p, "patched">>>> : d \in PatchDeps[p]}

\* Faulty variant: what goes to staging is not made from the build.
MadeFromLoose ==
  {<<<<p, e[1]>>, <<p, e[2]>>>> : p \in Packages,
                                  e \in Sequencing \ {<<"built", "staging_installed">>}}

\* Faulty variant: what a package depends on is an ordinary prerequisite.
MadeFromDeps ==
  {<<<<p, e[1]>>, <<p, e[2]>>>> : p \in Packages, e \in Sequencing}
    \cup UNION {Installed(p) : p \in Packages}

\* Prerequisites, as <<prerequisite, stamp>>.
MadeFrom == {<<<<p, e[1]>>, <<p, e[2]>>>> : p \in Packages, e \in Sequencing}

\* Faulty variant: the packages a package depends on are not waited for.
OrderOnlyAlone ==
  {<<<<p, "rsynced">>, <<p, "configured">>>> : p \in Overridden}
    \cup UNION {Patched(p) : p \in Packages}

OrderOnly ==
  {<<<<p, "rsynced">>, <<p, "configured">>>> : p \in Overridden}
    \cup UNION {Installed(p) \cup Patched(p) : p \in Packages}

Prerequisites(n) == {m \in Stamps : <<m, n>> \in MadeFrom \cup OrderOnly}

\* The sets of stamps that have the prerequisites of all their members, and the
\* prerequisites of a stamp, with theirs: what no such set can be without.
Closed == {S \in SUBSET Stamps : \A m \in S : Prerequisites(m) \subseteq S}

NeededBy(n) ==
  {m \in Stamps : \A S \in Closed : Prerequisites(n) \subseteq S => m \in S}

Needs == UNION {{<<m, n>> : m \in NeededBy(n)} : n \in Stamps}

\* What is needed for the packages of a goal.
Goal(pkgs) ==
  LET ends == UNION {{p} \X Installs(p) : p \in pkgs}
  IN  ends \cup {m \in Stamps : \E n \in ends : <<m, n>> \in Needs}

\* The version of files: a version of the source, or not (all) there.
Versions == 1 .. MaxVersion
Nothing  == 0
Torn     == MaxVersion + 1

VARIABLES
  stamps,   \* the stamp files that are there
  old,      \* those of them older than a stamp they are made from
  src,      \* src[p]: the version of the user's own source directory
  tree,     \* tree[p]: what the build directory of p was filled with
  listed,   \* listed[p]: the patches in its .applied_patches_list
  applied,  \* applied[p]: the patches in its sources, as they came (0: half a one)
  obj,      \* obj[p]: the version its build has made
  inst,     \* inst[p][s]: the version of its files where s puts them
  op,       \* what make was called for
  todo,     \* the stamps it has yet to remove
  step,     \* the step it is running, or Idle
  at        \* in the step "patched": twice the patches applied, or one more

files == <<tree, listed, applied, obj, inst>>
make  == <<op, todo, step, at>>
buildVars == <<stamps, old, src, files, make>>

Idle  == <<"none", "none">>
Rest  == [call |-> "none", pkgs |-> {}, over |-> TRUE]

BInit ==
  /\ stamps = {} /\ old = {}
  /\ src = [p \in Packages |-> 1]
  /\ tree = [p \in Packages |-> Nothing] /\ obj = [p \in Packages |-> Nothing]
  /\ listed = [p \in Packages |-> {}] /\ applied = [p \in Packages |-> <<>>]
  /\ inst = [p \in Packages |-> [s \in Installs(p) |-> Nothing]]
  /\ op = Rest /\ todo = {} /\ step = Idle /\ at = 0

----------------------------------------------------------------------------
(* make is called.                                                         *)

Waiting == op.over
Making  == ~ Waiting /\ todo = {} /\ step = Idle

\* The stamps that foo-clean-for-reinstall, foo-clean-for-rebuild and
\* foo-clean-for-reconfigure remove, there or not ...
Removed(call, p) ==
  {"staging_installed", "target_installed", "images_installed"} \cup
  (IF p \in Overridden THEN {"rsynced"} ELSE {}) \cup
  (IF call \in {"rebuild", "reconfigure"} THEN {"built"} ELSE {}) \cup
  (IF call = "reconfigure" THEN {"configured"} ELSE {})

\* ... and the order in which they do.
Rank(s) == CASE s = "rsynced"           -> 1
             [] s = "staging_installed" -> 2
             [] s = "target_installed"  -> 3
             [] s = "images_installed"  -> 4
             [] s = "built"             -> 5
             [] s = "configured"        -> 6

Call(call, pkgs) ==
  /\ Waiting
  /\ op' = [call |-> call, pkgs |-> pkgs, over |-> FALSE]
  /\ UNCHANGED <<stamps, old, src, files, step, at>>

\* make, and make foo.
Make(pkgs) ==
  /\ Call("make", pkgs)
  /\ UNCHANGED todo

\* make foo-reinstall, foo-rebuild, foo-reconfigure.
MakeAgain(call, p) ==
  /\ Call(call, {p})
  /\ todo' = Removed(call, p)

RemoveStamp == \E p \in op.pkgs, s \in todo :
  /\ \A t \in todo : Rank(s) <= Rank(t)
  /\ todo' = todo \ {s}
  /\ stamps' = stamps \ {<<p, s>>} /\ old' = old \ {<<p, s>>}
  /\ UNCHANGED <<src, files, op, step, at>>

\* make foo-dirclean.  What foo has installed stays.
Dirclean(p) ==
  /\ Waiting /\ op' = Rest
  /\ stamps' = {n \in stamps : n[1] # p} /\ old' = {n \in old : n[1] # p}
  /\ tree' = [tree EXCEPT ![p] = Nothing] /\ obj' = [obj EXCEPT ![p] = Nothing]
  /\ listed' = [listed EXCEPT ![p] = {}] /\ applied' = [applied EXCEPT ![p] = <<>>]
  /\ UNCHANGED <<src, inst, todo, step, at>>

\* The user edits the source directory of an overridden package.
Edit(p) ==
  /\ Waiting /\ op' = Rest
  /\ p \in Overridden /\ src[p] < MaxVersion
  /\ src' = [src EXCEPT ![p] = @ + 1]
  /\ UNCHANGED <<stamps, old, files, todo, step, at>>

----------------------------------------------------------------------------
(* The steps.                                                              *)

UpToDate == stamps \ old

\* A step begins, and what it writes is not whole until it ends.
Begin(n) ==
  LET p == n[1] s == n[2] IN
  /\ n \notin UpToDate /\ \A m \in Stamps : <<m, n>> \in Needs => m \in UpToDate
  /\ step' = n /\ at' = 0
  /\ tree' = IF s \in {"extracted", "rsynced"} THEN [tree EXCEPT ![p] = Torn] ELSE tree
  /\ obj'  = IF s = "built" THEN [obj EXCEPT ![p] = Torn] ELSE obj
  /\ inst' = IF s \in Installs(p) THEN [inst EXCEPT ![p][s] = Torn] ELSE inst
  /\ UNCHANGED <<stamps, old, src, listed, applied, op, todo>>

\* The make is killed, or the command that runs fails.
Stop == op' = Rest /\ todo' = {} /\ step' = Idle /\ at' = 0

Interrupted ==
  /\ ~ Waiting /\ Stop
  /\ UNCHANGED <<stamps, old, src, files>>

\* Faulty variant: the list is not looked at.
RecordPatchBlind(p) ==
  /\ step = <<p, "patched">> /\ at % 2 = 0 /\ at \div 2 < Patches
  /\ at' = at + 1
  /\ listed' = [listed EXCEPT ![p] = @ \cup {at \div 2 + 1}]
  /\ UNCHANGED <<op, todo, step, stamps, old, src, tree, applied, obj, inst>>

\* apply_patch() notes the next patch, if it has not noted one of the name.
RecordPatch(p) ==
  /\ step = <<p, "patched">> /\ at % 2 = 0 /\ at \div 2 < Patches
  /\ LET i == at \div 2 + 1 IN
       \/ /\ i \in listed[p] /\ Stop /\ UNCHANGED listed
       \/ /\ i \notin listed[p] /\ at' = at + 1
          /\ listed' = [listed EXCEPT ![p] = @ \cup {i}]
          /\ UNCHANGED <<op, todo, step>>
  /\ UNCHANGED <<stamps, old, src, tree, applied, obj, inst>>

\* patch: all of it, or it is killed or rejected in the middle.
ApplyPatch(p) ==
  /\ step = <<p, "patched">> /\ at % 2 = 1
  /\ \/ /\ applied' = [applied EXCEPT ![p] = Append(@, at \div 2 + 1)]
        /\ at' = at + 1 /\ UNCHANGED <<op, todo, step>>
     \/ /\ applied' = [applied EXCEPT ![p] = Append(@, 0)]
        /\ Stop
  /\ UNCHANGED <<stamps, old, src, tree, listed, obj, inst>>

\* The commands of a step have all succeeded: touch $@.
\* The sources of an overridden package are taken as rsync -au copies them when
\* the user writes in them only, and not in the build directory, whose newer
\* files it would keep; a file deleted from them stays and counts for nothing.
End(n) ==
  LET p == n[1] s == n[2] IN
  /\ s = "patched" => at = 2 * Patches
  /\ step' = Idle /\ at' = 0
  /\ stamps' = stamps \cup {n}
  /\ old' = (old \ {n}) \cup {m \in stamps : <<n, m>> \in MadeFrom}
  /\ tree' = CASE s = "extracted" -> [tree EXCEPT ![p] = 1]
               [] s = "rsynced"   -> [tree EXCEPT ![p] = src[p]]
               [] OTHER           -> tree
  /\ obj'  = IF s = "built" THEN [obj EXCEPT ![p] = tree[p]] ELSE obj
  /\ inst' = IF s \in Installs(p) THEN [inst EXCEPT ![p][s] = obj[p]] ELSE inst
  /\ UNCHANGED <<src, listed, applied, op, todo>>

\* There is nothing left to do.
Finish ==
  /\ Making /\ Goal(op.pkgs) \subseteq UpToDate
  /\ op' = [op EXCEPT !.over = TRUE]
  /\ UNCHANGED <<stamps, old, src, files, todo, step, at>>

BNext ==
  \/ Make(Packages)
  \/ \E p \in Packages :
       \/ Make({p}) \/ Dirclean(p) \/ Edit(p)
       \/ \E call \in {"reinstall", "rebuild", "reconfigure"} : MakeAgain(call, p)
       \/ RecordPatch(p) \/ ApplyPatch(p)
  \/ RemoveStamp \/ Interrupted \/ Finish
  \/ Making /\ \E n \in Goal(op.pkgs) : Begin(n)
  \/ step # Idle /\ End(step)

BSpec == BInit /\ [][BNext]_buildVars

----------------------------------------------------------------------------
(* The sources of a package with the stamp have every patch once, in order *)
(* and whole, however often the make was killed or a patch was rejected in *)
(* between and the step was begun again.                                   *)
PatchedOnce ==
  \A p \in Packages \ Overridden :
    <<p, "patched">> \in stamps => applied[p] = [i \in 1 .. Patches |-> i]

(* A package is configured, and built, only when all it depends on is      *)
(* installed whole, and patched only when the sources it depends on are    *)
(* patched or synchronized: also after interrupted and repeated builds of  *)
(* those.                                                                  *)
DepsFirst ==
  \A p \in Packages :
    /\ step \in {<<p, "configured">>, <<p, "built">>} =>
         /\ tree[p] \in Versions
         /\ \A d \in Deps[p] : \A s \in Installs(d) : inst[d][s] \in Versions
    /\ step = <<p, "patched">> =>
         \A d \in PatchDeps[p] : tree[d] \in Versions /\ (d \notin Overridden => 0 \notin ToSet(applied[d]))

(* A make that ends well leaves every package of its goal installed, in    *)
(* all places alike, as it was built last; and foo-rebuild and             *)
(* foo-reconfigure have taken at least the sources the user had when       *)
(* calling them.                                                           *)
EndsInstalled ==
  /\ op.over => \A n \in Goal(op.pkgs) : n[2] \in Installs(n[1]) =>
       inst[n[1]][n[2]] = obj[n[1]] /\ obj[n[1]] \in Versions
  /\ op.over /\ op.call \in {"rebuild", "reconfigure"} =>
       \A p \in op.pkgs \cap Overridden : obj[p] = src[p]

(* docs/manual/rebuilding-packages.txt: "once a package has been built, it *)
(* is never rebuilt unless explicitly told to do so": no step up to the    *)
(* build runs while its stamp is there, also when what the package depends *)
(* on is built and installed anew, or its own installation is interrupted. *)
NeverRebuilt == step \in stamps => step[2] \in Installs(step[1])
============================================================================
