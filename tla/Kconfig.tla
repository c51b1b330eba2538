------------------------------ MODULE Kconfig ------------------------------
(***************************************************************************)
(* support/kconfig: the values of the symbols of Buildroot's configuration *)
(* (symbol.c), and how they go to a file and come back (confdata.c).       *)
(*                                                                         *)
(* Buildroot declares no tristate and no symbol with option modules, so a  *)
(* value is yes or no.  String and number symbols, submenus and optional   *)
(* choices (Buildroot has none) are left out; no member of the choice is   *)
(* selected or has a default of its own.  A symbol is a number; an         *)
(* expression is a set of pairs <<symbol, value>> that must all be so.     *)
(***************************************************************************)
EXTENDS Naturals, Sequences, SequencesExt

CONSTANTS
  Symbols, \* the number of symbols
  Trees    \* the Kconfig files considered

Syms    == 1 .. Symbols
Nobody  == 0
NoMenus == <<>>

\* What sym_check_deps() lets pass: the symbols can be numbered such that those
\* s refers to are Before(t, s), for a member of the choice before all members.
Before(t, s) ==
  {x \in Syms : x < s /\ (s \in ToSet(t.members) => \A m \in ToSet(t.members) : x < m)}

Expressions(t, s) == SUBSET (Before(t, s) \X BOOLEAN)

WellFormed(t) ==
  /\ t.members \in Seq(Syms) /\ t.choiceDefaults \in Seq(ToSet(t.members))
  /\ \A s \in Syms :
       /\ s \in DOMAIN t.dep /\ t.dep[s] \in Expressions(t, s)
       /\ s \in DOMAIN t.promptIf /\ t.promptIf[s] \in Expressions(t, s)
       /\ s \in DOMAIN t.defaults
       /\ t.defaults[s] \in Seq([value : Expressions(t, s), cond : Expressions(t, s)])
  /\ \A r \in t.selects :
       r.of \in Syms /\ r.by \in Before(t, r.of) /\ r.cond \in Expressions(t, r.of)
  /\ \A m \in ToSet(t.members) :
       /\ t.choiceIf \in Expressions(t, m) /\ t.defaults[m] = <<>>
       /\ \A r \in t.selects : r.of # m

ASSUME KconfigAssumption ==
  Symbols \in Nat /\ NoMenus \notin Trees /\ \A t \in Trees : WellFormed(t)

VARIABLES
  menus,   \* the Kconfig files read, as menu_finalize() leaves them, or NoMenus
  given,   \* the symbols with SYMBOL_DEF_USER
  def,     \* def[s]: s->def[S_DEF_USER].tri
  cval     \* val of the same of the choice: the member chosen, or Nobody

kconfigVars == <<menus, given, def, cval>>

\* The user's side of a configuration.
User(h, d, c) == [has |-> h, def |-> d, cval |-> c]
Fresh == User({}, [s \in Syms |-> FALSE], Nobody)
user  == User(given, def, cval)

----------------------------------------------------------------------------
(* symbol.c.  v[s] is the value of s, for all symbols s depends on.        *)

Holds(v, e) == \A l \in e : v[l[1]] = l[2]

Members == ToSet(menus.members)

\* sym->visible: what the symbol depends on is part of its prompt's condition.
Visible(v, s) ==
  /\ s \in menus.prompts
  /\ Holds(v, menus.dep[s]) /\ Holds(v, menus.promptIf[s])
  /\ s \in Members => Holds(v, menus.choiceIf)

\* sym->rev_dep.
Selected(v, s) ==
  \E r \in menus.selects :
    r.of = s /\ v[r.by] /\ Holds(v, menus.dep[r.by]) /\ Holds(v, r.cond)

\* sym_get_default_prop(): the place of the first default that applies, or 0.
DefaultProp(v, s) ==
  SelectInSeq(menus.defaults[s], LAMBDA d : Holds(v, menus.dep[s]) /\ Holds(v, d.cond))

Default(v, s) ==
  LET k == DefaultProp(v, s) IN k # 0 /\ Holds(v, menus.defaults[s][k].value)

\* sym_choice_default().
ChoiceDefault(v) ==
  LET all == menus.choiceDefaults \o menus.members
      k   == SelectInSeq(all, LAMBDA m : Visible(v, m))
  IN  IF k = 0 THEN Nobody ELSE all[k]

\* sym_calc_choice().
Chosen(v, u) ==
  IF u.cval # Nobody /\ Visible(v, u.cval) THEN u.cval ELSE ChoiceDefault(v)

\* sym_calc_value().
CalcValue(v, s, u) ==
  IF s \in Members /\ Visible(v, s) THEN Chosen(v, u) = s
  ELSE \/ IF Visible(v, s) /\ s \in u.has THEN u.def[s] ELSE Default(v, s)
       \/ Selected(v, s)

\* The same of every symbol: expr_calc_value() calls sym_calc_value() for those
\* it depends on.
Calc(u) == LET v[s \in Syms] == CalcValue(v, s, u) IN v

\* SYMBOL_WRITE.
SymbolWrite(v) == {s \in Syms : Visible(v, s) \/ Selected(v, s) \/ DefaultProp(v, s) # 0}

\* Faulty variant: selects are not looked at.
InRangeUnselected(v, s, val) == Visible(v, s) /\ (s \in Members => val)

\* sym_tristate_within_range().
InRange(v, s, val) ==
  Visible(v, s) /\ ~ Selected(v, s) /\ (s \in Members => val)

\* sym_set_tristate_value(), when it does not refuse.
SetTristate(v, u, s, val) ==
  LET chosen == s \in Members /\ val
  IN  User(u.has \cup {s} \cup (IF chosen THEN {m \in Members : Visible(v, m)} ELSE {}),
           [u.def EXCEPT ![s] = val],
           IF chosen THEN s ELSE u.cval)

----------------------------------------------------------------------------
(* confdata.c.  A file gives some symbols their values.                    *)

Lines(v, some) == [s \in some |-> v[s]]

\* conf_write().  The flag of a choice's member is not cleared when its value
\* is worked out anew, only here: a member that is not visible any more may
\* be written once more.
ConfWrite(u) ==
  LET v == Calc(u)
  IN  {Lines(v, SymbolWrite(v) \cup extra) : extra \in SUBSET {m \in Members : ~ Visible(v, m)}}

\* sym_get_string_default() is "y".
StringDefault(v, s) == Default(v, s) \/ Selected(v, s)

\* Faulty variant: any chosen member is left out.
DefconfigSkipsChosen(v, s) ==
  \/ Visible(v, s) => Selected(v, s)
  \/ v[s] = StringDefault(v, s)
  \/ s \in Members /\ v[s]

\* What conf_write_defconfig() leaves out.
DefconfigSkips(v, s) ==
  \/ Visible(v, s) => Selected(v, s)
  \/ v[s] = StringDefault(v, s)
  \/ s \in Members /\ s = ChoiceDefault(v) /\ v[s]

ConfWriteDefconfig(u) ==
  LET v == Calc(u) IN Lines(v, {s \in SymbolWrite(v) : ~ DefconfigSkips(v, s)})

\* Faulty variant: the choice is not told of its member.
ReadSimpleNoChoice(file) ==
  User(DOMAIN file, [s \in Syms |-> s \in DOMAIN file /\ file[s]], Nobody)

\* conf_read_simple().
ReadSimple(file) ==
  LET on == {s \in DOMAIN file : file[s]}
      m  == SelectInSeq(Reverse(menus.members), LAMBDA x : x \in on)
  IN  User(DOMAIN file, [s \in Syms |-> s \in on],
           IF m = 0 THEN Nobody ELSE Reverse(menus.members)[m])

\* conf_read(): if the file says all there is to say, what it says of symbols
\* that are not visible is forgotten.
ConfRead(file) ==
  LET u      == ReadSimple(file)
      v      == Calc(u)
      agrees == \A s \in Syms : IF s \in u.has THEN s \in SymbolWrite(v) /\ u.def[s] = v[s]
                                              ELSE s \notin SymbolWrite(v)
  IN  IF agrees THEN [u EXCEPT !.has = {s \in @ : s \in Members \/ Visible(v, s)}] ELSE u

----------------------------------------------------------------------------
(* What a user does.                                                       *)

Becomes(u) == given' = u.has /\ def' = u.def /\ cval' = u.cval /\ UNCHANGED menus

KInit ==
  /\ menus = NoMenus
  /\ given = Fresh.has /\ def = Fresh.def /\ cval = Fresh.cval

\* conf_parse().
Parse == menus = NoMenus /\ menus' \in Trees /\ UNCHANGED <<given, def, cval>>

\* A front end gives a symbol it shows a value.
SetValue(s, val) ==
  LET v == Calc(user)
  IN  /\ Visible(v, s)
      /\ v[s] = val \/ InRange(v, s, val)
      /\ Becomes(SetTristate(v, user, s, val))

\* The configuration is saved, and read again by another run of the program.
Reload == \E file \in ConfWrite(user) : Becomes(ConfRead(file))

\* make savedefconfig and make defconfig.
ReloadDefconfig == Becomes(ConfRead(ConfWriteDefconfig(user)))

\* make allyesconfig and allnoconfig: every symbol gets the value; the choice
\* gets no member.
AllSame(val) == Becomes(User(Syms, [s \in Syms |-> val], Nobody))

\* make randconfig: every symbol gets a value; a choice that is visible then
\* gets a member of its own.
RandConfig ==
  \E on \in SUBSET Syms :
    LET drawn == User(Syms, [s \in Syms |-> s \in on], Nobody) IN
    IF Members # {} /\ Holds(Calc(drawn), menus.choiceIf)
      THEN \E m \in Members :
             Becomes(User(Syms, [s \in Syms |-> IF s \in Members THEN s = m ELSE s \in on], m))
      ELSE Becomes(drawn)

KNext ==
  \/ Parse
  \/ /\ menus # NoMenus
     /\ \/ \E s \in Syms, val \in BOOLEAN : SetValue(s, val)
        \/ \E val \in BOOLEAN : AllSame(val)
        \/ RandConfig
        \/ Reload \/ ReloadDefconfig

KSpec == KInit /\ [][KNext]_kconfigVars

----------------------------------------------------------------------------
(* Every symbol has the same value when the configuration was saved and    *)
(* read again: also those whose value is not the user's, and the choice.   *)
SaveKeeps ==
  menus # NoMenus => \A file \in ConfWrite(user) : Calc(ConfRead(file)) = Calc(user)

(* The minimal configuration of savedefconfig says enough: the values that *)
(* it leaves out come out the same when it is read, and what it has of     *)
(* them does not depend on what it left out.                               *)
DefconfigKeeps ==
  menus # NoMenus => Calc(ConfRead(ConfWriteDefconfig(user))) = Calc(user)

(* A value that is in range and is set is the symbol's value afterwards,   *)
(* whatever else hangs on it.                                              *)
SetTakesEffect ==
  menus # NoMenus =>
    LET v == Calc(user) IN
    \A s \in Syms, val \in BOOLEAN :
      InRange(v, s, val) => Calc(SetTristate(v, user, s, val))[s] = val

============================================================================
