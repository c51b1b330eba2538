----------------------------- MODULE ExprRules ------------------------------
(***************************************************************************)
(* support/kconfig/expr.c: the expressions of Kconfig files, what they are *)
(* worth, and the rules that simplify two operands of an operation, or one *)
(* comparison.  Expr has the functions that go through an expression and   *)
(* apply them.                                                             *)
(*                                                                         *)
(* An expression is <<"sym", s>>, <<"eq", s, c>>, <<"ne", s, c>>,          *)
(* <<"not", e>>, <<"and", l, r>> or <<"or", l, r>>; comparisons are with   *)
(* the constants "y", "m" and "n", which are symbols too.  None is the     *)
(* null pointer.                                                           *)
(***************************************************************************)
EXTENDS Integers, Sequences

CONSTANTS
  Tristates,   \* the symbols that may be m
  Booleans     \* the other symbols

None == <<>>

Yes == <<"sym", "y">>
No  == <<"sym", "n">>

And(x, y) == IF x = None THEN y ELSE IF y = None THEN x ELSE <<"and", x, y>>

\* What a symbol adds to an operation: nothing.
Neutral(op) == IF op = "and" THEN Yes ELSE No

Simple(e) == e[1] \in {"sym", "eq", "ne"}

----------------------------------------------------------------------------
(* expr_calc_value(): 0, 1 and 2 are n, m and y.  v[s] is the value of s.  *)

Tri(v, s) == CASE s = "n" -> 0 [] s = "m" -> 1 [] s = "y" -> 2 [] OTHER -> v[s]

EXPR_AND(k, l) == IF k < l THEN k ELSE l
EXPR_OR(k, l)  == IF k > l THEN k ELSE l
EXPR_NOT(k)    == 2 - k

\* A symbol or a comparison.
SimpleValue(v, e) ==
  CASE e[1] = "sym" -> Tri(v, e[2])
    [] e[1] = "eq"  -> IF Tri(v, e[2]) = Tri(v, e[3]) THEN 2 ELSE 0
    [] e[1] = "ne"  -> IF Tri(v, e[2]) = Tri(v, e[3]) THEN 0 ELSE 2

\* An operation on two values.
OpValue(op, k, l) == IF op = "and" THEN EXPR_AND(k, l) ELSE EXPR_OR(k, l)

----------------------------------------------------------------------------
\* One operation on l and r, of which a constant may be the result.
WithoutYN(op, l, r) ==
  LET zero == IF op = "and" THEN No ELSE Yes
  IN  CASE l = zero \/ r = zero -> zero
        [] l = Neutral(op)      -> r
        [] r = Neutral(op)      -> l
        [] OTHER                -> <<op, l, r>>

\* What a comparison of a boolean becomes that asks whether it is on, or off;
\* it is never m.
Compared(e) ==
  LET on == (e[1] = "eq") = (e[3] = "y")
  IN  CASE e[3] = "m" -> IF e[1] = "eq" THEN No ELSE Yes
        [] e[3] # "m" -> IF on THEN <<"sym", e[2]>> ELSE <<"not", <<"sym", e[2]>>>>

----------------------------------------------------------------------------
(* The tables of expr_join_or() and expr_join_and(): one expression for    *)
(* two different ones about one symbol, or None.                           *)

SymOf(e) == IF e[1] = "not" THEN e[2][2] ELSE e[2]

\* Both are about one symbol, which is not a constant.
Same(x, y) ==
  /\ Simple(x) \/ (x[1] = "not" /\ Simple(x[2]))
  /\ Simple(y) \/ (y[1] = "not" /\ y[2][1] = "sym")
  /\ SymOf(x) = SymOf(y) /\ SymOf(x) \in Tristates \cup Booleans

\* The constant that is neither c nor d.
Third(c, d) == CHOOSE k \in {"y", "m", "n"} : k \notin {c, d}

OrRule(x, y) ==
  LET s == SymOf(x)
  IN  IF s \in Tristates /\ x[1] = "eq" /\ y[1] = "eq"
        THEN <<"ne", s, Third(x[3], y[3])>>
      ELSE IF s \in Booleans /\ {x, y} = {<<"sym", s>>, <<"not", <<"sym", s>>>>}
        THEN Yes ELSE None

AndRule(x, y) ==
  LET s  == SymOf(x)
      is == <<"sym", s>>
      on == <<"eq", s, "y">>
  IN  CASE {x, y} \in {{is, on}, {is, <<"ne", s, "m">>}} -> on
        [] {x, y} = {is, <<"ne", s, "n">>} -> is
        [] s \in Tristates /\ x[1] = "eq" /\ y[1] = "ne" -> IF x[3] # y[3] THEN x ELSE No
        [] s \in Tristates /\ x[1] = "ne" /\ y[1] = "eq" -> IF x[3] # y[3] THEN y ELSE No
        [] s \in Tristates /\ x[1] = "ne" /\ y[1] = "ne" -> <<"eq", s, Third(x[3], y[3])>>
        [] OTHER -> None

Rule(op, x, y) == IF op = "or" THEN OrRule(x, y) ELSE AndRule(x, y)
=============================================================================
