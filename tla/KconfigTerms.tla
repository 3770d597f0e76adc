---------------------------- MODULE KconfigTerms ----------------------------
(***************************************************************************)
(* The terms a dependency is made of (scripts/kconfig/expr.c): a symbol, its *)
(* negation and comparisons, their values, and the rewriting of a term or of *)
(* two terms, which the functions of KconfigExpr apply all over an           *)
(* expression.  A term is a tuple: <<"sym", s>>, <<"eq", s, t>>,             *)
(* <<"ne", s, t>> or <<"not", e>>.                                           *)
(***************************************************************************)
EXTENDS Tristate, Integers

CONSTANTS BoolSyms,     \* symbols of type S_BOOLEAN
          TriSyms       \* symbols of type S_TRISTATE

Consts == {"n", "m", "y"}           \* symbol_no, symbol_mod, symbol_yes

(* A symbol has one type, and the constants are symbols of their own.        *)
ASSUME TermsAssumption == /\ BoolSyms \cap TriSyms = {}
                          /\ (BoolSyms \cup TriSyms) \cap (Consts \cup {""}) = {}

Sym(s) == <<"sym", s>>
Yes == Sym("y")
No  == Sym("n")

-----------------------------------------------------------------------------
(* Values, where env gives the symbols theirs: <<of the booleans, of the     *)
(* tristates>>.                                                              *)

SymTri(env, s) == CASE s = "n" -> no [] s = "m" -> mod [] s = "y" -> yes
                    [] s \in BoolSyms -> env[1][s] [] s \in TriSyms -> env[2][s]
SymString(env, s) == <<"n", "m", "y">>[SymTri(env, s) + 1]

EXPR_AND(a, b) == IF a < b THEN a ELSE b
EXPR_OR(a, b)  == IF a > b THEN a ELSE b
EXPR_NOT(a)    == 2 - a

TermValue(e, env) ==
    CASE e[1] = "sym" -> SymTri(env, e[2])
      [] e[1] = "eq"  -> IF SymString(env, e[2]) = SymString(env, e[3]) THEN yes ELSE no
      [] e[1] = "ne"  -> IF SymString(env, e[2]) = SymString(env, e[3]) THEN no ELSE yes

-----------------------------------------------------------------------------
(* Two leaves of one chain become one.  The result None means: not these.    *)

IsChain(e) == e[1] \in {"and", "or"}
IsLeafForm(e) == e[1] \in {"sym", "eq", "ne"}
(* The one symbol both leaves speak of, "" when there is none. *)
JoinedSym(e, f) ==
    LET s1 == IF e[1] = "not" THEN IF IsLeafForm(e[2]) THEN e[2][2] ELSE "" ELSE e[2]
        s2 == IF f[1] = "not" THEN IF f[2][1] = "sym" THEN f[2][2] ELSE "" ELSE f[2]
    IN IF IsChain(e) \/ IsChain(f) \/ s1 # s2 \/ s1 \notin BoolSyms \cup TriSyms THEN "" ELSE s1

BothEq(e, f, consts) == e[1] = "eq" /\ f[1] = "eq" /\ {e[3], f[3]} = consts
BothNe(e, f, consts) == e[1] = "ne" /\ f[1] = "ne" /\ {e[3], f[3]} = consts
(* In either order: the bare symbol and its comparison with c. *)
With(e, f, op, c) == \/ e[1] = "sym" /\ f[1] = op /\ f[3] = c
                     \/ f[1] = "sym" /\ e[1] = op /\ e[3] = c

(* Broken: a = b || a = c is always a != n.                                  *)
OneSymOr_AnyTwo(e, f, s) ==
    IF s # "" /\ e[1] = "eq" /\ f[1] = "eq" THEN <<"ne", s, "n">> ELSE None
OneSymOr(e, f, s) ==
    CASE s \in TriSyms /\ BothEq(e, f, {"y", "m"}) -> <<"ne", s, "n">>
      [] s \in TriSyms /\ BothEq(e, f, {"y", "n"}) -> <<"ne", s, "m">>
      [] s \in TriSyms /\ BothEq(e, f, {"m", "n"}) -> <<"ne", s, "y">>
      [] s \in BoolSyms /\ (e = <<"not", f>> \/ f = <<"not", e>>) /\ "sym" \in {e[1], f[1]} -> Yes
      [] OTHER -> None

OneSymAnd(e, f, s) ==
    CASE s # "" /\ With(e, f, "eq", "y")             -> <<"eq", s, "y">>
      [] s # "" /\ With(e, f, "ne", "n")             -> Sym(s)
      [] s # "" /\ With(e, f, "ne", "m")             -> <<"eq", s, "y">>
      [] s \in TriSyms /\ e[1] = "eq" /\ f[1] = "ne" /\ {e[3], f[3]} \subseteq Consts
                                      -> IF e[3] # f[3] THEN e ELSE No
      [] s \in TriSyms /\ e[1] = "ne" /\ f[1] = "eq" /\ {e[3], f[3]} \subseteq Consts
                                      -> IF e[3] # f[3] THEN f ELSE No
      [] s \in TriSyms /\ BothNe(e, f, {"y", "n"})   -> <<"eq", s, "m">>
      [] s \in TriSyms /\ BothNe(e, f, {"y", "m"})   -> <<"eq", s, "n">>
      [] s \in TriSyms /\ BothNe(e, f, {"m", "n"})   -> <<"eq", s, "y">>
      [] OTHER -> None

-----------------------------------------------------------------------------
(* One term becomes another.                                                 *)

(* Comparisons of booleans become symbols. *)
AsBool(e) ==
    LET is == e[1] = "eq"
    IN IF e[2] \notin BoolSyms \/ e[3] \notin Consts THEN e
       ELSE CASE e[3] = "m" -> IF is THEN No ELSE Yes
              [] e[3] = "n" -> IF is THEN <<"not", Sym(e[2])>> ELSE Sym(e[2])
              [] e[3] = "y" -> IF is THEN Sym(e[2]) ELSE <<"not", Sym(e[2])>>
(* The negation of a. *)
NotTerm(a) ==
    CASE a[1] = "eq"  -> <<"ne", a[2], a[3]>>
      [] a[1] = "ne"  -> <<"eq", a[2], a[3]>>
      [] a = Yes      -> No
      [] a = Sym("m") -> a
      [] a = No       -> Yes
      [] OTHER        -> <<"not", a>>
(* tristate FOO!=n => FOO, for the dependencies of what is no tristate.      *)
NotN(e) == IF e[1] = "ne" /\ e[2] \in TriSyms /\ e[3] = "n" THEN Sym(e[2]) ELSE e
(* "e op c", for c = y or n. *)
Compared(e, op, c) ==
    CASE e[1] = "sym" -> <<op, e[2], c>>
      [] e[1] # "sym" -> IF (op = "eq") = (c = "y") THEN e ELSE <<"not", e>>
=============================================================================
