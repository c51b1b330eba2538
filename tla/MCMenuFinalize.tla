--------------------------- MODULE MCMenuFinalize ---------------------------
(* Kconfig files for TLC: a boolean a and after it a symbol of another type.*)
EXTENDS MenuFinalize

Sym(s)       == <<"sym", s>>
Is(s, c)     == <<"eq", s, c>>
Isnt(s, c)   == <<"ne", s, c>>
Not(e)       == <<"not", e>>
Both(S)      == {<<"and", x, y>> : x, y \in S}
Either(S)    == {<<"or", x, y>> : x, y \in S}

Few == {Sym("a"), Not(Sym("a")), Sym("t"), Not(Sym("t")), Isnt("t", "n")}

Bools == {Sym("a"), Isnt("a", "y"), Is("b", "y"), Not(Sym("b"))}
Tris  == {Sym("t"), Not(Sym("t"))} \cup {Is("t", c) : c \in {"y", "m", "n"}} \cup
         {Isnt("t", c) : c \in {"y", "m", "n"}}

Input(s, p, o1, o2, c) ==
  [syms |-> <<"a", s>>, parentdep |-> p, own |-> <<o1, o2>>, cond |-> <<None, c>>]

Flat   == Both(Bools \cup Tris) \cup Either(Bools \cup Tris)
Nested == {<<"and", x, y>> : x, y \in Either(Few)} \cup {<<"or", x, Not(y)>> : x, y \in Both(Few)}
          \cup {<<"and", x, Not(y)>> : x, y \in Either(Few)}

Some ==
  {Input(s, p, o, e, c) : s \in {"b", "t"}, p \in {None, Sym("b")}, o \in {None, Isnt("t", "n")},
                          e \in Flat, c \in {None, Sym("a"), Not(Isnt("t", "m"))}}
  \cup {Input(s, None, None, e, None) : s \in {"b", "t"}, e \in Nested}
=============================================================================
