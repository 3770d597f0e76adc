---------------------------- MODULE KconfigDeps ----------------------------
(***************************************************************************)
(* The search for recursive dependencies (scripts/kconfig/symbol.c,          *)
(* sym_check_deps) that conf_parse runs over every symbol before a value     *)
(* is computed: a depth-first walk under the flags SYMBOL_CHECK (on the      *)
(* way) and SYMBOL_CHECKED (done), in which a choice and its values are      *)
(* walked together, and which gives up a symbol at its first recursion.      *)
(* One step is one call or one return.  The order of the symbols is that of  *)
(* a hash table and of the expressions: any.                                 *)
(***************************************************************************)
EXTENDS Sequences, SequencesExt, FiniteSets

CONSTANTS DepSyms,      \* the symbols
          DepChoices,   \* [choice -> the set of its values]
          DepGraphs     \* which symbol depends on which, [symbol -> symbols]

(* A symbol is a value of one choice only (menu.c:357); for a choice that is *)
(* itself a value prop_get_symbol reads what is no symbol.                   *)
ASSUME RecursionAssumption ==
    /\ DepChoices \in [DOMAIN DepChoices -> SUBSET (DepSyms \ DOMAIN DepChoices)]
    /\ DOMAIN DepChoices \subseteq DepSyms
    /\ \A c, d \in DOMAIN DepChoices : c # d => DepChoices[c] \cap DepChoices[d] = {}
    /\ DepGraphs \subseteq [DepSyms -> SUBSET DepSyms]

VARIABLES needs,        \* [symbol -> symbols its properties speak of]
          check,        \* the symbols with SYMBOL_CHECK
          checked,      \* those with SYMBOL_CHECKED
          stack,        \* the calls under way; their symbols are the dep_stack
          sym2,         \* {} for NULL, or the symbol that is being returned
          toparse,      \* what conf_parse has not called sym_check_deps for
          recursive,    \* the symbols a recursion was printed for
          unexpected    \* it was not on the stack when it was printed
depvars == <<needs, check, checked, stack, sym2, toparse, recursive, unexpected>>
flagvars == <<check, checked>>

OwnChoice(s) == {c \in DOMAIN DepChoices : s \in DepChoices[c]}
Needed(s) == needs[s] \cup OwnChoice(s)     \* menu.c:281: values depend on their choice

(* of: "deps" is sym_check_deps for a value, which goes to the choice,       *)
(* "choice" sym_check_choice_deps, "sym" sym_check_sym_deps.                 *)
Frame(of, s, todo) == [of |-> of, sym |-> s, todo |-> todo]
Top == stack[Len(stack)]
Without(d) == IF stack = << >> THEN << >> ELSE [stack EXCEPT ![Len(stack)].todo = @ \ {d}]

DepInit == /\ needs \in DepGraphs
           /\ check = {} /\ checked = {} /\ stack = << >> /\ sym2 = {}
           /\ toparse = DepSyms /\ recursive = {} /\ unexpected = FALSE

-----------------------------------------------------------------------------
(* For a value of a choice the message starts at the choice.                 *)
sym_check_print_recursive(s) ==
    LET last == IF OwnChoice(s) = {} THEN {s} ELSE OwnChoice(s)
    IN /\ recursive' = recursive \cup {s} /\ sym2' = {s}
       /\ unexpected' = (unexpected \/ \A i \in DOMAIN stack : stack[i].sym \notin last)

(* How sym_check_deps(s) begins. *)
Entered(s) ==
    IF OwnChoice(s) # {} THEN Frame("deps", s, OwnChoice(s))
    ELSE IF s \in DOMAIN DepChoices THEN Frame("choice", s, {s} \cup DepChoices[s])
    ELSE Frame("sym", s, Needed(s))
Marked(s) ==
    IF OwnChoice(s) # {} THEN {}
    ELSE IF s \in DOMAIN DepChoices THEN {s} \cup DepChoices[s] ELSE {s}
sym_check_deps(s) ==
    /\ \/ s \in check /\ sym_check_print_recursive(s)
          /\ stack' = Without(s) /\ UNCHANGED flagvars
       \/ s \in checked \ check
          /\ stack' = Without(s) /\ UNCHANGED <<flagvars, sym2, recursive, unexpected>>
       \/ s \notin check \cup checked
          /\ stack' = Append(Without(s), Entered(s))
          /\ check' = check \cup Marked(s) /\ checked' = checked \cup Marked(s)
          /\ UNCHANGED <<sym2, recursive, unexpected>>
    /\ UNCHANGED needs

(* The next thing the function on the top of the stack looks at. *)
sym_check_sym_deps ==
    /\ stack # << >> /\ sym2 = {} /\ Top.of # "choice"
    /\ \E d \in Top.todo : sym_check_deps(d)
    /\ UNCHANGED toparse

(* The choice first, then its values. *)
sym_check_choice_deps ==
    /\ stack # << >> /\ sym2 = {} /\ Top.of = "choice"
    /\ \E s \in Top.todo : /\ Top.sym \in Top.todo => s = Top.sym
                           /\ stack' = Append(Without(s), Frame("sym", s, Needed(s)))
    /\ UNCHANGED <<needs, flagvars, sym2, toparse, recursive, unexpected>>

(* The function on the top returns: it is through, or what it called         *)
(* returned a symbol.  The flags it takes away, and the symbols for which it *)
(* returns NULL.                                                             *)
(* Broken: the values of a choice keep SYMBOL_CHECK. *)
Clears_KeepCheck(f) == IF f.of = "sym" THEN {s \in {f.sym} : OwnChoice(s) = {}} ELSE {}
Clears(f) == CASE f.of = "deps" -> {}
                [] f.of = "choice" -> DepChoices[f.sym]
                [] f.of = "sym" -> {s \in {f.sym} : OwnChoice(s) = {}}
EndsAt(f) == CASE f.of = "deps" -> {f.sym}
               [] f.of = "choice" -> {f.sym} \cup DepChoices[f.sym]
               [] f.of = "sym" -> {s \in {f.sym} : OwnChoice(s) = {} /\ s \notin DOMAIN DepChoices}
Return ==
    /\ stack # << >> /\ (Top.todo = {} \/ sym2 # {})
    /\ stack' = Front(stack) /\ check' = check \ Clears(Top) /\ sym2' = sym2 \ EndsAt(Top)
    /\ UNCHANGED <<needs, checked, toparse, recursive, unexpected>>

conf_parse == /\ stack = << >>
              /\ \E s \in toparse : sym_check_deps(s) /\ toparse' = toparse \ {s}

DepNext == sym_check_sym_deps \/ sym_check_choice_deps \/ Return \/ conf_parse
DepSpec == DepInit /\ [][DepNext]_depvars

-----------------------------------------------------------------------------
(* What the symbols of S lead to by the relation F, S included.              *)
From(F, S) ==
    {x \in DepSyms : \A T \in SUBSET DepSyms :
                        (S \subseteq T /\ \A y \in T : F[y] \subseteq T) => x \in T}
(* A choice and its values are one.                                          *)
Together(s) == LET cs == IF s \in DOMAIN DepChoices THEN {s} ELSE OwnChoice(s)
               IN {s} \cup cs \cup UNION {DepChoices[c] : c \in cs}
Speaks(S) == UNION {needs[m] \ OwnChoice(m) : m \in S}
Uses == [s \in DepSyms |-> UNION {Together(d) : d \in Speaks(Together(s))}]
Recursion(s) == s \in From(Uses, Uses[s])
SameKnot(s, t) == s \in From(Uses, Together(t)) /\ t \in From(Uses, Together(s))

(* The same without what comes to a choice by its name: the flag of the      *)
(* choice itself is taken away before its values are looked at.              *)
Follows == [s \in DepSyms |->
              IF s \in DOMAIN DepChoices THEN Speaks({s}) ELSE Speaks(Together(s))]
Itself(s) == IF s \in DOMAIN DepChoices THEN {s} ELSE Together(s) \ DOMAIN DepChoices
MustBeFound(s) == Itself(s) \cap From(Follows, Follows[s]) # {}

(* A recursion is printed only where there is one, and the stack holds it    *)
(* (symbol.c:1034, "unexpected recursive dependency error").  When every     *)
(* symbol was checked no flag is left, and of each knot of recursions at     *)
(* least one was printed.                                                    *)
RecursionsAreFound ==
    /\ ~unexpected
    /\ \A s \in recursive : Recursion(s)
    /\ (stack = << >> /\ toparse = {}) =>
         /\ check = {} /\ checked = DepSyms
         /\ \A s \in DepSyms : MustBeFound(s) => \E t \in recursive : SameKnot(s, t)
=============================================================================
