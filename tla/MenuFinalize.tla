---------------------------- MODULE MenuFinalize ----------------------------
(***************************************************************************)
(* support/kconfig/menu.c: menu_finalize() for a menu of two symbols.  It  *)
(* works out what each depends on and when each prompt is visible, from    *)
(* what the Kconfig file says of the menu and of the entry, and whether    *)
(* the second symbol is shown as a submenu of the first.  The expressions  *)
(* it makes on the way are simplified by the functions of Expr.            *)
(***************************************************************************)
EXTENDS Expr

CONSTANT Inputs   \* the Kconfig files considered

VARIABLES
  syms,        \* the symbols of the two entries
  parentdep,   \* parent->prompt->visible.expr or parent->dep
  own,         \* own[n]: menu->dep of entry n as the parser leaves it
  cond,        \* cond[n]: prop->visible.expr of its prompt, likewise
  dep,         \* dep[n]: its menu->dep as it is now
  visible,     \* visible[n]: its prop->visible.expr as it is now
  at,          \* the entry menu_finalize() is at
  pc,          \* and where it is
  below        \* whether entry 2 is in the list of entry 1

inputs == <<syms, parentdep, own, cond>>
vars   == <<inputs, dep, visible, at, pc, below>>

Init ==
  /\ \E k \in Inputs : /\ syms = k.syms /\ parentdep = k.parentdep
                       /\ own = k.own /\ cond = k.cond
  /\ dep = own /\ visible = cond
  /\ at = 1 /\ pc = "dep" /\ below = FALSE

\* menu->dep of the entry.
Dep ==
  /\ pc = "dep" /\ pc' = "prop"
  /\ dep' = [dep EXCEPT ![at] = EliminateDups(And(parentdep, Transform(@)))]
  /\ UNCHANGED <<inputs, visible, at, below>>

\* e for a prompt of the symbol s.
ForSymbol(s, e) == IF s \in Tristates THEN e ELSE TransBool(e)

\* prop->visible.expr of its prompt; then the next entry.
Prop ==
  /\ pc = "prop"
  /\ visible' = [visible EXCEPT ![at] =
                   ForSymbol(syms[at], EliminateDups(And(dep[at], Transform(@))))]
  /\ IF at = 1 THEN at' = 2 /\ pc' = "dep" ELSE at' = 1 /\ pc' = "submenu"
  /\ UNCHANGED <<inputs, dep, below>>

\* An expression as the question whether it is not n.
Possible(e) == EliminateDups(Transform(TransCompare(e, "ne", "n")))

\* menu_finalize() of entry 1 looks at the entry after it.
Submenu ==
  /\ pc = "submenu" /\ pc' = "done"
  /\ below' = LET e == visible[2]
              IN  /\ Contains(e, syms[1])
                  /\ \/ Depends(e, syms[1])
                     \/ IsYes(EliminateEq(Possible(e), Possible(visible[1]))[2])
  /\ UNCHANGED <<inputs, dep, visible, at>>

Next == Dep \/ Prop \/ Submenu

Spec == Init /\ [][Next]_vars

----------------------------------------------------------------------------
(* What the expressions stand for.                                         *)

Assignments ==
  {v \in [Tristates \cup Booleans -> 0 .. 2] : \A s \in Booleans : v[s] # 1}

Meant(v, n) ==
  EXPR_AND(Value(v, parentdep), EXPR_AND(Value(v, own[n]), Value(v, cond[n])))

Finished(n) == at > n \/ pc \in {"submenu", "done"}

\* The value of a condition of a symbol that is not a tristate only matters
\* as n or not n.
Equal(n, k, l) == IF syms[n] \in Tristates THEN k = l ELSE (k = 0) = (l = 0)

KeptUnder(v) ==
  \A n \in {m \in 1 .. 2 : Finished(m)} : Equal(n, Value(v, visible[n]), Meant(v, n))

\* An "and" below an "or" or the reverse.
RECURSIVE Mixed(_, _)
Mixed(e, op) ==
  CASE e = None -> FALSE
    [] e # None /\ e[1] \in {"and", "or"} ->
         op \notin {"", e[1]} \/ Mixed(e[2], e[1]) \/ Mixed(e[3], e[1])
    [] e # None /\ e[1] = "not" -> Mixed(e[2], op)
    [] OTHER -> FALSE

Plain == \A n \in 1 .. 2 : ~ Mixed(Transform(And(And(parentdep, own[n]), cond[n])), "")

(* Whatever the simplifications make of them, the conditions of a prompt   *)
(* are those of the Kconfig file: the prompt can be set as far as its menu,*)
(* its entry and its own "if" allow.                                       *)
MeaningKept == \A v \in Assignments : KeptUnder(v)

(* The same as far as the simplifications are right: for all values that   *)
(* are not m, and for m too if "and" and "or" are not nested.              *)
PlainMeaningKept ==
  \A v \in Assignments :
    (\A s \in Tristates : v[s] # 1) \/ Plain => KeptUnder(v)

(* An entry is shown below another only if it can be set only where that   *)
(* one is on, or can be set itself.                                        *)
BelowNeeds ==
  below => \A v \in Assignments :
    (\A s \in Tristates : v[s] # 1) /\ Value(v, visible[2]) # 0
      => v[syms[1]] # 0 \/ Value(v, visible[1]) # 0
=============================================================================
