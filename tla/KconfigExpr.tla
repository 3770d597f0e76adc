---------------------------- MODULE KconfigExpr ----------------------------
(***************************************************************************)
(* The dependency expressions of the configurator (scripts/kconfig/expr.c)   *)
(* and the rewriting menu_finalize puts every one of them through before     *)
(* it is ever evaluated.  An expression is a tuple: <<"sym", s>>,            *)
(* <<"eq", s, t>>, <<"ne", s, t>>, <<"not", e>>, <<"and", e, f>>,            *)
(* <<"or", e, f>>; the null pointer, which stands for "y", is None.  The     *)
(* functions of the code rewrite in place and compare pointers; here the     *)
(* leaves of a chain of && or || are a sequence, and two leaves are the      *)
(* same node when their positions are the same.                              *)
(***************************************************************************)
EXTENDS KconfigTerms, Sequences, SequencesExt, FiniteSets

CONSTANTS Atoms,        \* the conditions dependencies are made of (bound)
          MaxAtoms      \* how many of them one dependency has (bound)

-----------------------------------------------------------------------------
(* Values.  An environment gives each symbol of the atoms its value; without  *)
(* modules no symbol has the value m.                                        *)

AtomSyms == {a[2] : a \in Atoms} \ Consts
Envs == [BoolSyms \cap AtomSyms -> {no, yes}]
        \X ([TriSyms \cap AtomSyms -> {no, mod, yes}] \cup [TriSyms \cap AtomSyms -> {no, yes}])

RECURSIVE expr_calc_value(_, _)
expr_calc_value(e, env) ==
    CASE e = None     -> yes
      [] e[1] = "not" -> EXPR_NOT(expr_calc_value(e[2], env))
      [] e[1] = "and" -> EXPR_AND(expr_calc_value(e[2], env), expr_calc_value(e[3], env))
      [] e[1] = "or"  -> EXPR_OR(expr_calc_value(e[2], env), expr_calc_value(e[3], env))
      [] OTHER        -> TermValue(e, env)

-----------------------------------------------------------------------------
(* Construction and chains *)

expr_alloc_and(e, f) == IF e = None THEN f ELSE IF f = None THEN e ELSE <<"and", e, f>>
expr_alloc_or(e, f)  == IF e = None THEN f ELSE IF f = None THEN e ELSE <<"or", e, f>>

RECURSIVE Leaves(_, _)
Leaves(t, e) == IF e[1] = t THEN Leaves(t, e[2]) \o Leaves(t, e[3]) ELSE <<e>>

RECURSIVE Rebuild(_, _, _)      \* the chain e with other leaves
Rebuild(t, e, ls) ==
    IF e[1] # t THEN ls[1]
    ELSE LET k == Len(Leaves(t, e[2]))
         IN <<t, Rebuild(t, e[2], SubSeq(ls, 1, k)), Rebuild(t, e[3], SubSeq(ls, k + 1, Len(ls)))>>

(* The nodes of a chain, children before parents, each as <<node, first      *)
(* leaf, last leaf>>: the order in which expr_eliminate_dups2 meets them.    *)
RECURSIVE Nodes(_, _, _)
Nodes(t, e, at) ==
    LET n == Len(Leaves(t, e))
    IN IF e[1] # t THEN << <<e, at, at>> >>
       ELSE Nodes(t, e[2], at) \o Nodes(t, e[3], at + Len(Leaves(t, e[2])))
            \o << <<e, at, at + n - 1>> >>

Pairs(m, n) == [k \in 1..(m * n) |-> <<((k - 1) \div n) + 1, ((k - 1) % n) + 1>>]
Neutral(t) == IF t = "or" THEN No ELSE Yes

-----------------------------------------------------------------------------
(* Constants go: y && e, n || e, ... *)

RECURSIVE expr_eliminate_yn(_)
expr_eliminate_yn(e) ==
    IF e = None \/ ~IsChain(e) THEN e
    ELSE LET l == expr_eliminate_yn(e[2])
             r == expr_eliminate_yn(e[3])
             zero == IF e[1] = "and" THEN No ELSE Yes
         IN CASE l = zero         -> zero
              [] l = Neutral(e[1]) -> r
              [] r = zero         -> zero
              [] r = Neutral(e[1]) -> l
              [] OTHER            -> <<e[1], l, r>>

(* Equal leaves of two chains cancel out; two expressions are equal when     *)
(* nothing but the same symbol remains of both.                              *)
RECURSIVE expr_eq(_, _), expr_eliminate_eq(_, _)

Cancelled(t, s, i, j) ==
    IF (s[1][i] = s[2][j] /\ s[1][i] \in {Yes, No}) \/ ~expr_eq(s[1][i], s[2][j]) THEN s
    ELSE <<[s[1] EXCEPT ![i] = Neutral(t)], [s[2] EXCEPT ![j] = Neutral(t)]>>
CancelLeaves(t, le, lf) ==
    FoldLeft(LAMBDA s, ij : Cancelled(t, s, ij[1], ij[2]), <<le, lf>>, Pairs(Len(le), Len(lf)))
RebuildBoth(t, e, f, s) == <<Rebuild(t, e, s[1]), Rebuild(t, f, s[2])>>
eliminate_eq1(t, e, f) == RebuildBoth(t, e, f, CancelLeaves(t, Leaves(t, e), Leaves(t, f)))

SecondChain(s) == IF s[1][1] # s[2][1] /\ IsChain(s[2]) THEN eliminate_eq1(s[2][1], s[1], s[2]) ELSE s
BothWithoutYn(s) == <<expr_eliminate_yn(s[1]), expr_eliminate_yn(s[2])>>
expr_eliminate_eq(e, f) ==
    IF e = None \/ f = None THEN <<e, f>>
    ELSE BothWithoutYn(SecondChain(IF IsChain(e) THEN eliminate_eq1(e[1], e, f) ELSE <<e, f>>))

OnlyOneSymbol(s) == s[1] = s[2] /\ s[1][1] = "sym"
expr_eq(e, f) ==
    CASE e[1] # f[1]             -> FALSE
      [] e[1] \in {"sym", "eq", "ne"} -> e = f
      [] e[1] = "not"            -> expr_eq(e[2], f[2])
      [] IsChain(e)              -> OnlyOneSymbol(expr_eliminate_eq(e, f))

-----------------------------------------------------------------------------
(* Two leaves of one chain become one.  The result None means: not these.    *)

expr_join_or(e, f) == IF expr_eq(e, f) THEN e ELSE OneSymOr(e, f, JoinedSym(e, f))
expr_join_and(e, f) == IF expr_eq(e, f) THEN e ELSE OneSymAnd(e, f, JoinedSym(e, f))

-----------------------------------------------------------------------------
(* What two expressions have in common as chains of t: <<common, rest of     *)
(* e, rest of f>>.                                                           *)
Common(t, s, i, j) ==
    IF ~expr_eq(s[2][i], s[3][j]) THEN s
    ELSE <<IF s[1] = None THEN s[2][i] ELSE <<t, s[1], s[2][i]>>,
           [s[2] EXCEPT ![i] = Neutral(t)], [s[3] EXCEPT ![j] = Neutral(t)]>>
CommonLeaves(t, le, lf) ==
    FoldLeft(LAMBDA s, ij : Common(t, s, ij[1], ij[2]), <<None, le, lf>>, Pairs(Len(le), Len(lf)))
Extracted(c, rests) == <<c>> \o IF c = None THEN rests ELSE BothWithoutYn(rests)
ExtractedFrom(t, e, f, s) == Extracted(s[1], RebuildBoth(t, e, f, Tail(s)))
expr_extract_eq(t, e, f) == ExtractedFrom(t, e, f, CommonLeaves(t, Leaves(t, e), Leaves(t, f)))

(* Negations move to the symbols; comparisons of booleans become symbols.    *)
RECURSIVE expr_transform(_)
expr_transform(e) ==
    IF e = None \/ e[1] = "sym" THEN e
    ELSE IF e[1] \in {"eq", "ne"} THEN AsBool(e)
    ELSE IF IsChain(e) THEN <<e[1], expr_transform(e[2]), expr_transform(e[3])>>
    ELSE LET a == expr_transform(e[2])
         IN CASE a[1] = "not" -> expr_transform(a[2])
              [] a[1] = "or"  -> expr_transform(<<"and", <<"not", a[2]>>, <<"not", a[3]>> >>)
              [] a[1] = "and" -> expr_transform(<<"or", <<"not", a[2]>>, <<"not", a[3]>> >>)
              [] OTHER        -> NotTerm(a)

-----------------------------------------------------------------------------
(* Duplicates.  Both passes return <<expression, number of changes>>.        *)

RECURSIVE expr_eliminate_dups1(_, _)
InnerDups(e) == IF IsChain(e) THEN expr_eliminate_dups1(e[1], e) ELSE <<e, 0>>
JoinLeaves(t, a, b) == IF t = "or" THEN expr_join_or(a, b) ELSE expr_join_and(a, b)
PutJoined(t, ls, n, i, j, tmp) ==
    IF tmp = None THEN <<ls, n>> ELSE <<[ls EXCEPT ![i] = Neutral(t), ![j] = tmp], n + 1>>
JoinTwo(t, ls, n, i, j) == PutJoined(t, ls, n, i, j, JoinLeaves(t, ls[i], ls[j]))
JoinInner(t, s, i, j, inner) == JoinTwo(t, [s[1] EXCEPT ![i] = inner[1]], s[2] + inner[2], i, j)
JoinAll(t, ls) ==
    FoldLeft(LAMBDA s, ij : IF ij[1] = ij[2] THEN s
                            ELSE JoinInner(t, s, ij[1], ij[2], InnerDups(s[1][ij[1]])),
             <<ls, 0>>, Pairs(Len(ls), Len(ls)))
Rebuilt(t, e, s) == <<Rebuild(t, e, s[1]), s[2]>>
expr_eliminate_dups1(t, e) == Rebuilt(t, e, JoinAll(t, Leaves(t, e)))

(* (a || b) && (!a && !b) -> n, (a && b) || (!a || !b) -> y *)
RECURSIVE expr_eliminate_dups2(_, _)
Other(t) == IF t = "and" THEN "or" ELSE "and"
PutIfCovered(t, ls, n, i, rest) ==
    IF rest = Neutral(t) THEN <<[ls EXCEPT ![i] = Neutral(Other(t))], n + 1>> ELSE <<ls, n>>
NegatedIn(t, ls, n, i, node) ==
    PutIfCovered(t, ls, n, i,
        expr_extract_eq(t, expr_transform(<<"not", ls[i]>>),
                           Rebuild(t, node[1], SubSeq(ls, node[2], node[3])))[2])
NegatedInner(t, s, i, node, inner) ==
    NegatedIn(t, [s[1] EXCEPT ![i] = inner[1]], s[2] + inner[2], i, node)
CoverStep(t, s, i, node) ==
    IF (node[2] = i /\ node[3] = i) \/ s[1][i][1] # Other(t) THEN s
    ELSE NegatedInner(t, s, i, node, expr_eliminate_dups2(Other(t), s[1][i]))
CoverAll(t, ls, nodes) ==
    FoldLeft(LAMBDA s, in : CoverStep(t, s, in[1], nodes[in[2]]), <<ls, 0>>, Pairs(Len(ls), Len(nodes)))
expr_eliminate_dups2(t, e) == Rebuilt(t, e, CoverAll(t, Leaves(t, e), Nodes(t, e, 1)))

RECURSIVE expr_eliminate_dups(_)
UntilNone(n, two) ==
    IF n + two[2] = 0 THEN two[1] ELSE expr_eliminate_dups(expr_eliminate_yn(two[1]))
ThenDups2(t, one) == UntilNone(one[2], expr_eliminate_dups2(t, one[1]))
expr_eliminate_dups(e) ==
    IF e = None \/ ~IsChain(e) THEN e ELSE ThenDups2(e[1], expr_eliminate_dups1(e[1], e))

-----------------------------------------------------------------------------
(* Questions menu_finalize asks of a dependency. *)

(* tristate FOO!=n => FOO, for the dependencies of what is no tristate.      *)
RECURSIVE expr_trans_bool(_)
(* Broken: FOO!=m => FOO too.                                                *)
expr_trans_bool_AnyConst(e) ==
    IF e = None THEN None
    ELSE IF IsChain(e) THEN <<e[1], expr_trans_bool(e[2]), expr_trans_bool(e[3])>>
    ELSE IF e[1] = "ne" /\ e[2] \in TriSyms THEN Sym(e[2]) ELSE e
expr_trans_bool(e) ==
    CASE e = None      -> None
      [] e # None /\ IsChain(e) -> <<e[1], expr_trans_bool(e[2]), expr_trans_bool(e[3])>>
      [] e # None /\ e[1] = "not" -> <<"not", expr_trans_bool(e[2])>>
      [] OTHER         -> NotN(e)

(* "e op c" as an expression, for c = y or n. *)
RECURSIVE expr_trans_compare(_, _, _)
expr_trans_compare(e, op, c) ==
    LET Negated(f) == IF op = "ne" THEN <<"not", f>> ELSE f
        Halves(join) == Negated(<<join, expr_trans_compare(e[2], "eq", c),
                                       expr_trans_compare(e[3], "eq", c)>>)
    IN IF e = None THEN Negated(Sym(c))
       ELSE CASE e[1] = "and" -> Halves(IF c = "y" THEN "and" ELSE "or")
              [] e[1] = "or"  -> Halves(IF c = "y" THEN "or" ELSE "and")
              [] e[1] = "not" -> expr_trans_compare(e[2], IF op = "eq" THEN "ne" ELSE "eq", c)
              [] OTHER        -> Compared(e, op, c)

RECURSIVE expr_contains_symbol(_, _)
expr_contains_symbol(e, s) ==
    /\ e # None
    /\ CASE IsChain(e)     -> expr_contains_symbol(e[2], s) \/ expr_contains_symbol(e[3], s)
         [] e[1] = "sym"   -> e[2] = s
         [] e[1] = "not"   -> expr_contains_symbol(e[2], s)
         [] OTHER          -> s \in {e[2], e[3]}

RECURSIVE expr_depends_symbol(_, _)
expr_depends_symbol(e, s) ==
    /\ e # None
    /\ \/ e[1] = "and" /\ (expr_depends_symbol(e[2], s) \/ expr_depends_symbol(e[3], s))
       \/ e = Sym(s)
       \/ e[1] = "eq" /\ e[2] = s /\ e[3] \in {"y", "m"}
       \/ e = <<"ne", s, "n">>

-----------------------------------------------------------------------------
(* Printing, and what the grammar of zconf.y makes of the printed tokens.    *)

(* Binds t1 tighter than t2?  expr_compare_type > 0. *)
Weight(op) == CASE op \in {"eq", "ne"} -> 4 [] op = "not" -> 3 [] op = "and" -> 2
                [] op = "or" -> 1 [] op \in {"sym", "none"} -> 0

expr_compare_type(t1, t2) == Weight(t1) > Weight(t2) /\ t2 \notin {"sym", "eq", "ne"}

RECURSIVE expr_print(_, _)
expr_print(e, prev) ==
    LET body == CASE e[1] = "sym" -> <<e[2]>>
                  [] e[1] = "not" -> <<"!">> \o expr_print(e[2], "not")
                  [] IsChain(e)   -> expr_print(e[2], e[1]) \o <<e[1]>> \o expr_print(e[3], e[1])
                  [] OTHER        -> <<e[2], e[1], e[3]>>
    IN IF e = None THEN <<"y">>
       ELSE IF expr_compare_type(prev, e[1]) THEN <<"(">> \o body \o <<")">> ELSE body

(* The value of a printed expression, by the precedences of zconf.y:77       *)
(* (|| below && below !, comparisons between symbols only).  Cut at the      *)
(* last operator of the lowest precedence outside parentheses.               *)
Depth(ts, k) == Cardinality({i \in 1..k : ts[i] = "("}) - Cardinality({i \in 1..k : ts[i] = ")"})
TopLevel(ts, op) == {k \in 1..Len(ts) : ts[k] = op /\ Depth(ts, k) = 0}

RECURSIVE Parsed(_)
Parsed(ts) ==
    LET Cut(op) == LET k == CHOOSE k \in TopLevel(ts, op) : \A j \in TopLevel(ts, op) : j <= k
                   IN <<op, Parsed(SubSeq(ts, 1, k - 1)), Parsed(SubSeq(ts, k + 1, Len(ts)))>>
    IN CASE TopLevel(ts, "or") # {}  -> Cut("or")
         [] TopLevel(ts, "or") = {} /\ TopLevel(ts, "and") # {} -> Cut("and")
         [] TopLevel(ts, "or") \cup TopLevel(ts, "and") = {} /\ ts[1] = "!"
                -> <<"not", Parsed(Tail(ts))>>
         [] TopLevel(ts, "or") \cup TopLevel(ts, "and") = {} /\ ts[1] = "("
                -> Parsed(SubSeq(ts, 2, Len(ts) - 1))
         [] Len(ts) = 1 -> Sym(ts[1])
         [] Len(ts) = 3 /\ ts[2] \in {"eq", "ne"} -> <<ts[2], ts[1], ts[3]>>

-----------------------------------------------------------------------------
(* Building a dependency as the parser and menu_finalize do: conditions      *)
(* are joined and negated, and each time the result is simplified.           *)

VARIABLES orig,     \* the expression as written
          expr      \* the simplified one, which is the one evaluated
exprvars == <<orig, expr>>

RECURSIVE Size(_)
Size(e) == CASE e = None -> 0 [] e # None /\ IsChain(e) -> Size(e[2]) + Size(e[3])
             [] e # None /\ e[1] = "not" -> Size(e[2]) [] OTHER -> 1

ExprInit == orig = None /\ expr = None

simplified(e) == expr_eliminate_dups(expr_transform(e))

(* menu.c:295-308: depends on, and the conditions of a property *)
Conjoin(a) ==
    /\ Size(orig) < MaxAtoms
    /\ orig' = expr_alloc_and(orig, a)
    /\ expr' = expr_eliminate_dups(expr_alloc_and(expr, expr_transform(a)))

(* menu.c:313, 351: select, and a symbol with several definitions *)
Disjoin(a) ==
    /\ orig # None /\ Size(orig) < MaxAtoms
    /\ orig' = expr_alloc_or(orig, a)
    /\ expr' = simplified(expr_alloc_or(expr, a))

(* zconf.y:488 *)
Negate ==
    /\ orig # None /\ orig[1] # "not"
    /\ orig' = <<"not", orig>>
    /\ expr' = simplified(<<"not", expr>>)

ExprNext == Negate \/ \E a \in Atoms : Conjoin(a) \/ Disjoin(a)
ExprSpec == ExprInit /\ [][ExprNext]_exprvars

-----------------------------------------------------------------------------
(* Properties *)

(* Simplification never changes a definite answer: where the written         *)
(* dependency is y or n, whatever the symbols are, so is the one that is     *)
(* evaluated.  (Where it is m the code may answer n or y: the rewriting      *)
(* expr.c:577, (a || b) && (!a && !b) -> n, is none for tristates.)          *)
DefiniteValuesKept ==
    \A env \in Envs : LET v == expr_calc_value(orig, env)
                      IN v # mod => expr_calc_value(expr, env) = v

(* Turning FOO!=n of what is no tristate into FOO (menu.c:310) never hides   *)
(* or shows it, and the comparison with n that decides on submenus           *)
(* (menu.c:323) is, with the modules off, the one of the value.              *)
VisibilityKept ==
    \A env \in Envs :
        LET v == expr_calc_value(expr, env)
        IN /\ v = no <=> expr_calc_value(expr_trans_bool(expr), env) = no
           /\ (\A s \in TriSyms \cap AtomSyms : env[2][s] # mod) /\ v # mod =>
                  (expr_calc_value(expr_trans_compare(expr, "ne", "n"), env) = yes) <=> (v # no)

(* A dependency on a symbol (menu.c:330: the entry becomes part of the       *)
(* symbol's submenu) is one: without the symbol the entry cannot be seen.    *)
SubmenuDepends ==
    \A s \in AtomSyms : expr_depends_symbol(expr, s) =>
        /\ expr_contains_symbol(expr, s)
        /\ \A env \in Envs : SymTri(env, s) = no => expr_calc_value(expr, env) = no

(* What is printed of a dependency, in a help text or a warning, means       *)
(* the dependency when it is read by the grammar of the configurator.        *)
PrintedIsMeant ==
    expr # None => \A env \in Envs :
        expr_calc_value(Parsed(expr_print(expr, "none")), env) = expr_calc_value(expr, env)
=============================================================================
