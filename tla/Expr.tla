-------------------------------- MODULE Expr --------------------------------
(***************************************************************************)
(* support/kconfig/expr.c: the value of an expression and the functions    *)
(* that simplify it, by the rules of ExprRules.                            *)
(*                                                                         *)
(* Functions that change two trees in place return both.  Two pointers     *)
(* into one tree are two places of it, each the sequence of the components *)
(* (2 or 3) that leads there.                                              *)
(***************************************************************************)
EXTENDS ExprRules

IsYes(e) == e \in {None, Yes}

----------------------------------------------------------------------------
(* expr_calc_value().                                                      *)

RECURSIVE Value(_, _)
Value(v, e) ==
  CASE e = None -> 2
    [] e # None /\ Simple(e)      -> SimpleValue(v, e)
    [] e # None /\ e[1] = "not"   -> EXPR_NOT(Value(v, e[2]))
    [] e # None /\ e[1] \in {"and", "or"} -> OpValue(e[1], Value(v, e[2]), Value(v, e[3]))

----------------------------------------------------------------------------
\* expr_eliminate_yn(): constants below "and" and "or" go away.
RECURSIVE EliminateYN(_)
EliminateYN(e) ==
  IF e = None \/ e[1] \notin {"and", "or"} THEN e
  ELSE WithoutYN(e[1], EliminateYN(e[2]), EliminateYN(e[3]))

\* What two expressions have in common is taken from both of them, but not
\* the constants in "but": the third component tells if there was something.
RECURSIVE ExprEq(_, _), TakeCommon(_, _, _, _)
CommonLeft(op, l, r)  == <<<<op, l[1], r[1]>>, r[2], l[3] \/ r[3]>>
CommonRight(op, l, r) == <<r[1], <<op, l[2], r[2]>>, l[3] \/ r[3]>>

\* With the left operand done, the right operand.
ThenLeft(op, but, l, x)  == CommonLeft(op, l, TakeCommon(op, but, x, l[2]))
ThenRight(op, but, l, y) == CommonRight(op, l, TakeCommon(op, but, l[1], y))

TakeCommon(op, but, x, y) ==
  CASE x[1] = op               -> ThenLeft(op, but, TakeCommon(op, but, x[2], y), x[3])
    [] x[1] # op /\ y[1] = op -> ThenRight(op, but, TakeCommon(op, but, x, y[2]), y[3])
    [] OTHER -> IF x \notin but /\ ExprEq(x, y)
                  THEN <<Neutral(op), Neutral(op), TRUE>> ELSE <<x, y, FALSE>>

\* __expr_eliminate_eq() for an operation op, and expr_eliminate_eq().
EliminateShared(op, w) ==
  IF op \in {"and", "or"} THEN TakeCommon(op, {Yes, No}, w[1], w[2]) ELSE w

SharedOfOther(w) == IF w[1][1] # w[2][1] THEN EliminateShared(w[2][1], w) ELSE w

BothWithoutYN(w) == <<EliminateYN(w[1]), EliminateYN(w[2])>>

EliminateEq(x, y) == BothWithoutYN(SharedOfOther(EliminateShared(x[1], <<x, y>>)))

\* expr_eq().
OneSymbol(w) == w[1][1] = "sym" /\ w[1] = w[2]

ExprEq(x, y) ==
  /\ x[1] = y[1]
  /\ CASE x[1] \in {"sym", "eq", "ne"} -> x = y
       [] x[1] = "not"                 -> ExprEq(x[2], y[2])
       [] OTHER                        -> OneSymbol(EliminateEq(x, y))

\* expr_extract_eq(), of which callers use what is left of the two.
Extract(op, x, y) == TakeCommon(op, {}, x, y)

\* expr_extract_eq_and() and expr_extract_eq_or(): what is left of x.
FirstLeft(w) == IF w[3] THEN EliminateYN(w[1]) ELSE w[1]

LeftOf(op, x, y) == FirstLeft(Extract(op, x, y))

----------------------------------------------------------------------------
\* expr_transform(): negations go inwards, comparisons of booleans away.
RECURSIVE Transform(_)

\* Faulty variant: the operands of an "or" are negated and the "or" stays.
NegatedOr(e) ==
  CASE e[1] = "not" -> Transform(e[2])
    [] e[1] = "eq"  -> <<"ne", e[2], e[3]>>
    [] e[1] = "ne"  -> <<"eq", e[2], e[3]>>
    [] e[1] = "or"  -> Transform(<<"or", <<"not", e[2]>>, <<"not", e[3]>>>>)
    [] e[1] = "and" -> Transform(<<"or", <<"not", e[2]>>, <<"not", e[3]>>>>)
    [] e = Yes      -> No
    [] e = No       -> Yes
    [] OTHER        -> IF e[2] = "m" THEN e ELSE <<"not", e>>

Negated(e) ==
  CASE e[1] = "not" -> Transform(e[2])
    [] e[1] = "eq"  -> <<"ne", e[2], e[3]>>
    [] e[1] = "ne"  -> <<"eq", e[2], e[3]>>
    [] e[1] = "or"  -> Transform(<<"and", <<"not", e[2]>>, <<"not", e[3]>>>>)
    [] e[1] = "and" -> Transform(<<"or", <<"not", e[2]>>, <<"not", e[3]>>>>)
    [] e = Yes      -> No
    [] e = No       -> Yes
    [] OTHER        -> IF e[2] = "m" THEN e ELSE <<"not", e>>

Transform(e) ==
  CASE e = None -> None
    [] e # None /\ e[1] \in {"and", "or"} -> <<e[1], Transform(e[2]), Transform(e[3])>>
    [] e # None /\ e[1] = "not" -> Negated(Transform(e[2]))
    [] e # None /\ e[1] \in {"eq", "ne"} /\ e[2] \in Booleans -> Compared(e)
    [] OTHER -> e

\* expr_trans_bool(): a tristate that is not n is enough.
RECURSIVE TransBool(_)
TransBool(e) ==
  CASE e = None -> None
    [] e # None /\ e[1] \in {"and", "or"} -> <<e[1], TransBool(e[2]), TransBool(e[3])>>
    [] e # None /\ e[1] = "not" -> <<"not", TransBool(e[2])>>
    [] e # None /\ e[1] = "ne" /\ e[2] \in Tristates /\ e[3] = "n" -> <<"sym", e[2]>>
    [] OTHER -> e

\* expr_trans_compare(): e compared with s, which is "y" or "n".
RECURSIVE TransCompare(_, _, _)
TransCompare(e, op, s) ==
  LET not(x) == IF op = "ne" THEN <<"not", x>> ELSE x
      dual   == IF e[1] = "and" THEN "or" ELSE "and"
  IN  CASE e = None -> not(<<"sym", s>>)
        [] e # None /\ e[1] \in {"and", "or"} ->
             not(<<IF s = "y" THEN e[1] ELSE dual,
                   TransCompare(e[2], "eq", s), TransCompare(e[3], "eq", s)>>)
        [] e # None /\ e[1] = "not" -> TransCompare(e[2], IF op = "eq" THEN "ne" ELSE "eq", s)
        [] e # None /\ e[1] \in {"eq", "ne"} ->
             IF (op = "eq") = (s = "y") THEN e ELSE <<"not", e>>
        [] e # None /\ e[1] = "sym" -> <<op, e[2], s>>

\* expr_contains_symbol() and expr_depends_symbol().
RECURSIVE Contains(_, _), Depends(_, _)

\* Faulty variant: an operand of an "or" is enough.
DependsEither(e, s) ==
  CASE e = None -> FALSE
    [] e # None /\ e[1] \in {"and", "or"} -> Depends(e[2], s) \/ Depends(e[3], s)
    [] e # None /\ e[1] = "sym" -> e[2] = s
    [] e # None /\ e[1] = "eq"  -> e[2] = s /\ e[3] \in {"y", "m"}
    [] e # None /\ e[1] = "ne"  -> e[2] = s /\ e[3] = "n"
    [] OTHER -> FALSE

Contains(e, s) ==
  CASE e = None -> FALSE
    [] e # None /\ e[1] \in {"and", "or"} -> Contains(e[2], s) \/ Contains(e[3], s)
    [] e # None /\ e[1] = "not" -> Contains(e[2], s)
    [] OTHER -> e[2] = s

Depends(e, s) ==
  CASE e = None -> FALSE
    [] e # None /\ e[1] = "and" -> Depends(e[2], s) \/ Depends(e[3], s)
    [] e # None /\ e[1] = "sym" -> e[2] = s
    [] e # None /\ e[1] = "eq"  -> e[2] = s /\ e[3] \in {"y", "m"}
    [] e # None /\ e[1] = "ne"  -> e[2] = s /\ e[3] = "n"
    [] OTHER -> FALSE

----------------------------------------------------------------------------
(* expr_join_or() and expr_join_and(): one expression for two, or None.    *)

Join(op, x, y) ==
  IF ExprEq(x, y) THEN x ELSE IF ~ Same(x, y) THEN None ELSE Rule(op, x, y)

----------------------------------------------------------------------------
(* expr_eliminate_dups().  w has the tree and whether trans_count is not 0.*)

RECURSIVE At(_, _), Put(_, _, _)
At(e, p) == IF p = <<>> THEN e ELSE At(e[Head(p)], Tail(p))
Put(e, p, x) ==
  IF p = <<>> THEN x ELSE [e EXCEPT ![Head(p)] = Put(@, Tail(p), x)]

Left(p)  == Append(p, 2)
Right(p) == Append(p, 3)

\* j, if there is one, takes the place of the operands at p and q.
Joined(op, w, p, q, j) ==
  IF j = None THEN w
  ELSE [e |-> Put(Put(w.e, p, Neutral(op)), q, j), changed |-> TRUE]

JoinAt(op, w, p, q) == Joined(op, w, p, q, Join(op, At(w.e, p), At(w.e, q)))

\* expr_eliminate_dups1(): every two operands that can be joined are.
RECURSIVE Dups1(_, _, _, _)
Dups1(op, w, p, q) ==
  LET x == At(w.e, p)
      y == At(w.e, q)
  IN  CASE x[1] = op -> Dups1(op, Dups1(op, w, Left(p), q), Right(p), q)
        [] x[1] # op /\ y[1] = op -> Dups1(op, Dups1(op, w, p, Left(q)), p, Right(q))
        [] x[1] # op /\ y[1] # op ->
             IF p = q THEN w
             ELSE JoinAt(op, IF x[1] \in {"or", "and"} THEN Dups1(x[1], w, p, p) ELSE w, p, q)

\* expr_eliminate_dups2(): an operand x such that the operands of its
\* negation are all among those of the other becomes what makes all of it
\* constant.  There is no return after the operands of y.
Dual(op) == IF op = "or" THEN "and" ELSE "or"

Contrary(x, y) == LeftOf(Dual(x[1]), Transform(<<"not", x>>), y) = Neutral(Dual(x[1]))

Contradicted(w, p, q) ==
  IF Contrary(At(w.e, p), At(w.e, q))
    THEN [e |-> Put(w.e, p, Neutral(At(w.e, p)[1])), changed |-> TRUE] ELSE w

RECURSIVE Dups2(_, _, _, _)

\* The first operand is not of the same operation.
Dups2At(w, p, q) ==
  IF p = q \/ At(w.e, p)[1] \notin {"or", "and"} THEN w
  ELSE Contradicted(Dups2(At(w.e, p)[1], w, p, p), p, q)

Dups2(op, w, p, q) ==
  IF At(w.e, p)[1] = op
    THEN Dups2(op, Dups2(op, w, Left(p), q), Right(p), q)
    ELSE Dups2At(IF At(w.e, q)[1] = op
                   THEN Dups2(op, Dups2(op, w, p, Left(q)), p, Right(q)) ELSE w, p, q)

RECURSIVE EliminateDups(_)
UntilSame(w) == IF w.changed THEN EliminateDups(EliminateYN(w.e)) ELSE w.e

EliminateDups(e) ==
  IF e = None \/ e[1] \notin {"or", "and"} THEN e
  ELSE UntilSame(Dups2(e[1], Dups1(e[1], [e |-> e, changed |-> FALSE], <<>>, <<>>), <<>>, <<>>))
=============================================================================
