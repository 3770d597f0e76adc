---------------------------- MODULE KconfigMenu ----------------------------
(***************************************************************************)
(* From Kconfig files to the tree the configurators show (menu.c and the     *)
(* actions of zconf.y): conditions move down from the menus, choices and     *)
(* ifs to what they contain, an entry that depends on the one before it      *)
(* becomes part of its submenu, and blocks without a prompt dissolve.        *)
(* An entry is a record of                                                   *)
(*   n         its name, of its own                                          *)
(*   sym       its symbol, "" for a menu, a comment and an if                *)
(*   type      "bool", "tri", "int" or "unknown"                             *)
(*   ask       "none", "prompt", "menu" (menus and menuconfigs), "comment"   *)
(*   cond      the condition of its prompt;  dep  what it depends on         *)
(*   vis       what a menu is "visible if"                                   *)
(*   sel, def  sequences of <<selected symbol, condition>> and of <<default  *)
(*             expression, condition>>                                       *)
(*   choice, optional                                                        *)
(*   list      the entries in it                                             *)
(***************************************************************************)
EXTENDS KconfigExpr

Modules == "M"      \* modules_sym

-----------------------------------------------------------------------------
(* What the parser stores *)

RECURSIVE menu_check_dep(_)
menu_check_dep(e) ==
    CASE e = None                     -> e
      [] e # None /\ e[1] = "not"     -> <<"not", menu_check_dep(e[2])>>
      [] e # None /\ IsChain(e)       -> <<e[1], menu_check_dep(e[2]), menu_check_dep(e[3])>>
      [] e = Sym("m")                 -> <<"and", e, Sym(Modules)>>
      [] OTHER                        -> e

Checked(props) == [i \in DOMAIN props |-> <<props[i][1], menu_check_dep(props[i][2])>>]

(* The type of a choice is that of its first value with one, and the other   *)
(* way round.                                                                *)
menu_set_type(m) ==
    LET known == SelectSeq(m.list, LAMBDA c : c.sym # "" /\ c.type # "unknown")
        type  == IF m.type = "unknown" /\ known # << >> THEN known[1].type ELSE m.type
        Typed(c) == IF c.sym # "" /\ c.type = "unknown" THEN [c EXCEPT !.type = type] ELSE c
    IN IF ~m.choice THEN m
       ELSE [m EXCEPT !.type = type, !.list = [i \in DOMAIN @ |-> Typed(@[i])]]

Asks(m) == m.ask = "prompt" \/ (m.ask = "menu" /\ m.sym # "")
(* The types of what is asked in an entry, when conditions come down to it.  *)
RECURSIVE TypesAsked(_)
TypesAsked(m) == UNION {TypesAsked(c) \cup (IF Asks(c) THEN {c.type} ELSE {}) : c \in ToSet(menu_set_type(m).list)}
(* What a menu is visible if is one node for the menu and for all that is    *)
(* asked in it, and menu_finalize rewrites it in place for each of them, for *)
(* what is no tristate to a mere condition: all see what this leaves of it.  *)
Shared(m) == IF m.vis # None /\ TypesAsked(m) \ {"tri"} # {} THEN expr_trans_bool(expr_transform(m.vis))
             ELSE expr_transform(m.vis)
(* The prompt of a symbol gets the visibilities of all the menus around it;  *)
(* that of a menu or a comment does not.                                     *)
(* Broken: what the menus around are visible if is not looked at.            *)
menu_add_prop_Own(m, upper) == menu_check_dep(m.cond)
menu_add_prop(m, upper) ==
    IF Asks(m) THEN FoldLeft(expr_alloc_and, menu_check_dep(m.cond), upper) ELSE menu_check_dep(m.cond)

RECURSIVE conf_parse_entry(_, _)
conf_parse_entry(m, upper) ==
    [m EXCEPT !.dep = menu_check_dep(@), !.cond = menu_add_prop(m, upper), !.vis = Shared(m),
              !.sel = Checked(@), !.def = Checked(@),
              !.list = [i \in DOMAIN @ |->
                           conf_parse_entry(@[i], IF m.vis = None THEN upper ELSE <<Shared(m)>> \o upper)]]

(* Where simplifying the condition of a prompt frees a node of it, the other *)
(* prompts in the menu go on with freed memory, and this says nothing of it: *)
(* in a menu that is "visible if", what is asked has nothing to simplify.    *)
RECURSIVE NothingIsFreed(_, _, _)
NothingIsFreed(m, base, upper) ==
    LET own    == FoldLeft(expr_alloc_and, base, <<menu_check_dep(m.dep), menu_check_dep(m.cond)>>)
        seen   == FoldLeft(expr_alloc_and, own, upper)
        inside == IF m.vis = None THEN upper ELSE <<m.vis>> \o upper
    IN /\ Asks(m) /\ upper # << >> => \A e \in {seen, expr_trans_bool(seen)} : simplified(e) = e
       /\ \A c \in ToSet(m.list) : NothingIsFreed(c, IF m.choice THEN Sym(m.sym) ELSE own, inside)

-----------------------------------------------------------------------------
(* menu_finalize *)

ParentDep(m) == IF m.choice THEN Sym(m.sym) ELSE IF m.ask # "none" THEN m.cond ELSE m.dep

(* What is in an entry with the condition pdep gets it. *)
AndUnder(base, e) == expr_eliminate_dups(expr_alloc_and(base, expr_transform(e)))
CondOf(m, d) == IF m.sym # "" /\ m.type # "tri" THEN expr_trans_bool(d) ELSE d
AllUnder(m, base, props) == [i \in DOMAIN props |-> <<props[i][1], CondOf(m, AndUnder(base, props[i][2]))>>]
Based(m, base) ==
    [m EXCEPT !.dep = base, !.cond = CondOf(m, AndUnder(base, @)),
              !.sel = AllUnder(m, base, @), !.def = AllUnder(m, base, @)]
Inherit(m, pdep) == Based(m, AndUnder(pdep, m.dep))

(* Does the entry c belong under the symbol of m before it?                  *)
NotNo(e) == simplified(expr_trans_compare(e, "ne", "n"))
NothingMore(e, f) == expr_eliminate_eq(NotNo(e), NotNo(f))[2] \in {None, Yes}
DependsOn(dep, m) ==
    /\ expr_contains_symbol(dep, m.sym)
    /\ expr_depends_symbol(dep, m.sym) \/ NothingMore(dep, IF m.ask # "none" THEN m.cond ELSE None)
InSubmenu(m, c) == DependsOn(IF c.ask # "none" THEN c.cond ELSE c.dep, m)

(* The values of a choice of tristates that are none need it to be y (so     *)
(* does their dep, which nothing looks at any more: dir_dep has it as it     *)
(* was), and an entry without a prompt gives up its list.                    *)
Spliced(m, list) ==
    LET Flat(c) == IF c.list # << >> /\ c.ask = "none"
                   THEN <<[c EXCEPT !.list = << >>]>> \o c.list ELSE << c >>
        isYes == <<"eq", m.sym, "y">>
        Value(c) == IF ~m.choice \/ c.sym = "" \/ m.type # "tri" \/ c.type = "tri" THEN c
                    ELSE [c EXCEPT !.cond = expr_alloc_and(isYes, @),
                                   !.def = [i \in DOMAIN @ |-> <<@[i][1], expr_alloc_and(isYes, @[i][2])>>]]
        flat == FlattenSeq([i \in DOMAIN list |-> Flat(list[i])])
    IN [i \in DOMAIN flat |-> Value(flat[i])]

RECURSIVE menu_finalize(_, _), FinalizeList(_), Adopt(_, _)

(* The entries of rest that go under m: <<them, the others>> *)
Joining(first, g) == << <<first>> \o g[1], g[2] >>
AdoptNext(m, f) == Joining(f[1], Adopt(m, f[2]))
Adopt(m, rest) ==
    IF rest = << >> \/ ~InSubmenu(m, rest[1]) THEN << << >>, rest >>
    ELSE AdoptNext(m, menu_finalize(rest[1], Tail(rest)))

(* The entry m followed by rest: <<m finalized, what is left of rest>> *)
Adopted(m, a) == << [m EXCEPT !.list = Spliced(m, a[1])], a[2] >>
WithList(t, pdep) ==
    [t EXCEPT !.list = Spliced(t, FinalizeList([i \in DOMAIN @ |-> Inherit(@[i], pdep)]))]
menu_finalize(m, rest) ==
    IF m.list # << >> THEN << WithList(menu_set_type(m), ParentDep(m)), rest >>
    ELSE IF m.sym = "" THEN << m, rest >>
    ELSE Adopted(m, Adopt(m, rest))

ThenOthers(f) == <<f[1]>> \o FinalizeList(f[2])
FinalizeList(list) == IF list = << >> THEN list ELSE ThenOthers(menu_finalize(list[1], Tail(list)))

conf_parse_tree(root) == menu_finalize(conf_parse_entry(root, << >>), << >>)[1]

RECURSIVE Preorder(_)
Preorder(m) == <<m>> \o FlattenSeq([i \in DOMAIN m.list |-> Preorder(m.list[i])])

-----------------------------------------------------------------------------
(* What menu_finalize leaves in the symbols: a database of KconfigSymbol.    *)

DatabaseOf(root) ==
    LET all == Preorder(root)
        syms == {m.sym : m \in ToSet(all)} \ {""}
        OfSym(s) == SelectSeq(all, LAMBDA m : m.sym = s)
        First(s) == OfSym(s)[1]
        values(m) == SelectSeq(m.list, LAMBDA c : c.sym # "")
        Or(es) == FoldLeft(expr_alloc_or, None, es)
        Concat(F(_), ms) == FlattenSeq([i \in DOMAIN ms |-> F(ms[i])])
        Rev(s) == LET Selects1(m) == LET of == SelectSeq(m.sel, LAMBDA p : p[1] = s)
                                     IN [i \in DOMAIN of |-> expr_alloc_and(Sym(m.sym), of[i][2])]
                      Always(m) == IF m.sym = s /\ m.choice /\ ~m.optional /\ m.ask # "none"
                                   THEN << expr_alloc_and(m.cond, Sym("m")) >> ELSE << >>
                  IN Or(Concat(Selects1, all) \o Concat(Always, all))
    IN [order    |-> LET Add(a, m) == IF m.sym = "" \/ m.sym \in ToSet(a) THEN a ELSE Append(a, m.sym)
                     IN FoldLeft(Add, << >>, all),
        type     |-> [s \in syms |-> First(s).type],
        prompts  |-> [s \in syms |-> LET shown == SelectSeq(OfSym(s), LAMBDA m : m.ask # "none")
                                     IN [i \in DOMAIN shown |-> shown[i].cond]],
        defaults |-> [s \in syms |-> Concat(LAMBDA m : m.def, OfSym(s))],
        dir      |-> [s \in syms |-> LET ms == SelectSeq(OfSym(s), LAMBDA m : ~m.choice)
                                     IN Or([i \in DOMAIN ms |-> ms[i].dep])],
        rev      |-> [s \in syms |-> Rev(s)],
        members  |-> [s \in syms |-> IF First(s).choice
                                     THEN [i \in DOMAIN values(First(s)) |-> values(First(s))[i].sym]
                                     ELSE << >>],
        range    |-> [s \in syms |-> << >>],
        optional |-> {s \in syms : First(s).choice /\ First(s).optional},
        modules  |-> Modules, files |-> {}, shown |-> {}]
=============================================================================
