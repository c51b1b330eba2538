---------------------------- MODULE MCBuildroot ----------------------------
(* Five parts of Buildroot, which meet only in the files they leave: a     *)
(* behaviour is one of them at work.                                       *)
EXTENDS Download, PackageBuild, ConfFiles, Kconfig

CONSTANTS Tristates, Booleans   \* of MenuFinalize

VARIABLES
  runs,   \* the part at work
  syms, parentdep, own, propif, dep, visible, entry, mpc, below

----------------------------------------------------------------------------
\* The symbols 1, 2 and 3 and a choice of 4 and 5.
On(s)  == {<<s, TRUE>>}
Off(s) == {<<s, FALSE>>}
Always == {}

Def(value, cond) == [value |-> value, cond |-> cond]

Select(by, of, cond) == [by |-> by, of |-> of, cond |-> cond]

MCTrees ==
  [ prompts        : {1 .. Symbols, (1 .. Symbols) \ {2}},
    dep            : {<<Always, d2, d3, Always, On(2)>> :
                        d2 \in {Always, On(1)}, d3 \in {On(2), Off(1)}},
    promptIf       : {<<Always, Always, Off(2), Always, Always>>},
    defaults       : {<<<<>>, f2, f3, <<>>, <<>>>> :
                        f2 \in {<<>>, <<Def(Always, Always)>>},
                        f3 \in {<<>>, <<Def(Always, On(1)), Def(On(2), Always)>>}},
    selects        : {{}, {Select(1, 3, Always)}, {Select(1, 2, Always), Select(2, 3, Off(1))}},
    members        : {<<4, 5>>},
    choiceIf       : {On(3)},
    choiceDefaults : {<<5>>} ]

\* A library, and a package of the user's that needs it and whose sources the
\* library's patches need.
MCDeps      == [p \in Packages |-> IF p = "app" THEN {"lib"} ELSE {}]
MCPatchDeps == [p \in Packages |-> IF p = "lib" THEN {"app"} ELSE {}]

F == INSTANCE MCMenuFinalize WITH Inputs <- {}, at <- entry, pc <- mpc, cond <- propif
M == INSTANCE MenuFinalize WITH Inputs <- F!Some, at <- entry, pc <- mpc, cond <- propif

----------------------------------------------------------------------------
menuVars == <<syms, parentdep, own, propif, dep, visible, entry, mpc, below>>
allVars  == <<runs, vars, kconfigVars, confVars, buildVars, menuVars>>

MCInit ==
  /\ runs \in {"download", "kconfig", "conf_files", "package_build", "menu"}
  /\ Init /\ (runs # "download" => hashes = "no" /\ bare = 0 /\ first = None)
  /\ KInit /\ ConfInit /\ BInit
  /\ IF runs = "menu" THEN M!Init
     ELSE /\ syms = <<>> /\ parentdep = <<>> /\ own = <<>> /\ propif = <<>> /\ dep = <<>>
          /\ visible = <<>> /\ entry = 0 /\ mpc = "done" /\ below = FALSE

\* The builds of Download end, so do the programs of ConfFiles, and
\* menu_finalize() returns.
MCNext ==
  \/ /\ UNCHANGED runs
     /\ \/ runs = "download" /\ Next /\ UNCHANGED <<kconfigVars, confVars, buildVars, menuVars>>
        \/ runs = "kconfig" /\ KNext /\ UNCHANGED <<vars, confVars, buildVars, menuVars>>
        \/ runs = "conf_files" /\ ConfNext /\ UNCHANGED <<vars, kconfigVars, buildVars, menuVars>>
        \/ runs = "package_build" /\ BNext /\ UNCHANGED <<vars, kconfigVars, confVars, menuVars>>
        \/ runs = "menu" /\ M!Next /\ UNCHANGED <<vars, kconfigVars, confVars, buildVars>>
  \/ runs \in {"download", "conf_files", "menu"} /\ UNCHANGED allVars

MCSpec == MCInit /\ [][MCNext]_allVars

PlainMeaningKept == runs = "menu" => M!PlainMeaningKept
BelowNeeds       == runs = "menu" => M!BelowNeeds
============================================================================
