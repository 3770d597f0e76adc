------------------------------- MODULE Unifdef ------------------------------
(***************************************************************************)
(* scripts/unifdef.c: a source file without the conditional parts that       *)
(* symbols known to be defined or undefined decide.  One line is read at a   *)
(* time; its type and the state of the #if group it stands in choose a       *)
(* transition.  Next to it run two preprocessors, one over the input and     *)
(* one over the output; they are what the program is measured by.            *)
(* Options -c and -s, which print something else, and the layout options     *)
(* -b, -B, -n are left out.                                                  *)
(***************************************************************************)
EXTENDS Integers, Sequences, SequencesExt

CONSTANTS Known,      \* [symbol -> its value, Undef, or Text if it is no number]
          Ignored,    \* the symbols of -iD and -iU
          Conds,      \* sequence of sets: the conditions of #if and #elif and,
                      \* in earlier sets, their parts
          Unknown,    \* the symbol the program knows nothing of
          CppVals,    \* what it may be: numbers or Undef
          Options,    \* what -e, -K and -k may be: triples of BOOLEANs
          MAXDEPTH    \* how deep #if may be nested, 64 in the program

(* A value is <<n>>; the others are no value and a text that is no number.   *)
Undef == << >>
Text == <<0, 0>>
(* The types of a line.                                                      *)
Bool(b) == IF b THEN "TRUE" ELSE "FALSE"

Exprs == UNION {Conds[n] : n \in DOMAIN Conds}
Earlier(e, n) == \E m \in 1..(n - 1) : e \in Conds[m]
Binary == {"||", "&&", "==", "<"}
ASSUME UnifdefAssumption ==
    /\ Known \in [DOMAIN Known -> Seq(Int)] /\ Unknown \notin DOMAIN Known
    /\ CppVals \subseteq Seq(Int) /\ Options \subseteq BOOLEAN \X BOOLEAN \X BOOLEAN
    /\ Conds \in Seq(SUBSET Exprs)
    /\ \A n \in DOMAIN Conds : \A e \in Conds[n] :
         \/ e[1] = "num" /\ e[2] \in Int
         \/ e[1] \in {"sym", "def"} /\ e[2] \in DOMAIN Known \cup {Unknown}
         \/ e[1] \in {"!"} \cup Binary /\ Earlier(e[2], n) /\ (e[1] \in Binary => Earlier(e[3], n))

-----------------------------------------------------------------------------
(* The evaluation of a condition: [lt, val, const], lt being TRUE, FALSE,    *)
(* IF for one that depends on an unknown symbol, or ERROR.                   *)
Number(n, const) == [lt |-> Bool(n # 0), val |-> n, const |-> const]
NotKnown(const) == [lt |-> "IF", val |-> 0, const |-> const]

op_strict(a, b, v) == IF "IF" \in {a.lt, b.lt} THEN NotKnown(TRUE) ELSE Number(v, TRUE)
Truth(b) == IF b THEN 1 ELSE 0
op_or_AsAnd(strict, a, b) ==
    IF ~strict /\ "FALSE" \in {a.lt, b.lt} THEN Number(0, TRUE)
    ELSE op_strict(a, b, Truth(a.val # 0 \/ b.val # 0))
op_or(strict, a, b) ==
    IF ~strict /\ "TRUE" \in {a.lt, b.lt} THEN Number(1, TRUE)
    ELSE op_strict(a, b, Truth(a.val # 0 \/ b.val # 0))
op_and(strict, a, b) ==
    IF ~strict /\ "FALSE" \in {a.lt, b.lt} THEN Number(0, TRUE)
    ELSE op_strict(a, b, Truth(a.val # 0 /\ b.val # 0))
op(o, strict, a, b) ==
    CASE o = "||" -> op_or(strict, a, b)
      [] o = "&&" -> op_and(strict, a, b)
      [] o = "==" -> op_strict(a, b, Truth(a.val = b.val))
      [] o = "<"  -> op_strict(a, b, Truth(a.val < b.val))

eval_symbol(s) ==
    IF s \notin DOMAIN Known THEN NotKnown(FALSE)
    ELSE IF Known[s] = Undef THEN Number(0, FALSE)
    ELSE IF Known[s] = Text THEN [lt |-> "ERROR", val |-> 0, const |-> FALSE]
    ELSE Number(Known[s][1], FALSE)
eval_defined(s) == IF s \notin DOMAIN Known THEN NotKnown(FALSE)
                   ELSE Number(Truth(Known[s] # Undef), FALSE)

(* eval_unary and eval_table, over the tree that the precedence makes of     *)
(* the text, ev being the values of the parts.                               *)
eval_unary(ev, e) ==
    CASE e[1] = "num" -> Number(e[2], TRUE)
      [] e[1] = "sym" -> eval_symbol(e[2])
      [] e[1] = "def" -> eval_defined(e[2])
      [] e[1] = "!" -> LET r == ev[e[2]]
                       IN IF r.lt \in {"IF", "ERROR"} THEN r ELSE Number(Truth(r.val = 0), r.const)
eval_table(strict, ev, e) ==
    LET a == ev[e[2]]
        b == ev[e[3]]
    IN IF a.lt = "ERROR" THEN a ELSE IF b.lt = "ERROR" THEN b
       ELSE [op(e[1], strict, a, b) EXCEPT !.const = a.const /\ b.const]
eval(strict) ==
    LET ev[e \in Exprs] ==
          IF e[1] \in Binary THEN eval_table(strict, ev, e) ELSE eval_unary(ev, e)
    IN ev

(* A condition without symbols is only evaluated with -k.                    *)
ifeval(kill, r) == IF (r.const /\ ~kill) \/ r.lt = "ERROR" THEN "IF" ELSE r.lt

(* What the preprocessor makes of it, the unknown symbol being x.            *)
ValueOf(s, x) == IF s = Unknown THEN x ELSE Known[s]
CppSymbol(v) == IF v \in {Undef, Text} THEN 0 ELSE v[1]
CppOf(x, cv, e) ==
    CASE e[1] = "num" -> e[2]
      [] e[1] = "sym" -> CppSymbol(ValueOf(e[2], x))
      [] e[1] = "def" -> Truth(ValueOf(e[2], x) # Undef)
      [] e[1] = "!" -> Truth(cv[e[2]] = 0)
      [] e[1] = "||" -> Truth(cv[e[2]] # 0 \/ cv[e[3]] # 0)
      [] e[1] = "&&" -> Truth(cv[e[2]] # 0 /\ cv[e[3]] # 0)
      [] e[1] = "==" -> Truth(cv[e[2]] = cv[e[3]])
      [] e[1] = "<"  -> Truth(cv[e[2]] < cv[e[3]])
CppValue(x) == LET cv[e \in Exprs] == CppOf(x, cv, e) IN cv

(* The pairs of a type and a truth that conditions have: all a line needs.   *)
Outcomes(strict, kill, x) ==
    LET ev == eval(strict)
        cv == CppValue(x)
    IN {<<ifeval(kill, ev[e]), cv[e] # 0>> : e \in Exprs}
(* #ifdef and #ifndef: LT_TRUEI and LT_FALSEI where the symbol is ignored.   *)
Ignoring(s, b) == IF s \in Ignored THEN IF b THEN "TRUEI" ELSE "FALSEI" ELSE Bool(b)
Ifdefs(x) == {<<IF s \notin DOMAIN Known THEN "IF" ELSE Ignoring(s, (Known[s] # Undef) = yes),
                (ValueOf(s, x) # Undef) = yes>>
              : s \in DOMAIN Known \cup {Unknown}, yes \in BOOLEAN}

-----------------------------------------------------------------------------
VARIABLES iocccok, strictlogic, killconsts,     \* -e, -K, -k
          unknown,      \* the value of the unknown symbol
          conditions,   \* what #if and #elif can come to under these
          ifstate,      \* the states of the groups we are in, the outermost first
          ignoring,     \* comments are ignored at this depth
          incomment,    \* inside a comment
          exit,         \* "", "done", "error", "abort"
          inp, outp,    \* the preprocessors of the input and the output
          torn,         \* the output has the end of a comment without its start
          printed,      \* what the last line became: a kind of line, or "dropped"
          lastline,         \* the last line, as the program classified it
          outfile          \* -o over the input: "old", "new"
unifdefvars == <<iocccok, strictlogic, killconsts, unknown, conditions, ifstate, ignoring, incomment,
                 exit, inp, outp, torn, printed, lastline, outfile>>
options == <<iocccok, strictlogic, killconsts, unknown, conditions>>

UnifdefStart ==
    /\ ifstate = <<"OUTSIDE">> /\ ignoring = <<FALSE>> /\ incomment = FALSE
    /\ exit = "" /\ inp = << >> /\ outp = << >> /\ torn = FALSE /\ printed = "plain"
    /\ lastline = [kind |-> "plain", dodgy |-> FALSE, was |-> FALSE, before |-> "plain"]
    /\ outfile = "old"
UnifdefInit ==
    /\ \E o \in Options : iocccok = o[1] /\ strictlogic = o[2] /\ killconsts = o[3]
    /\ unknown \in CppVals
    /\ conditions = Outcomes(strictlogic, killconsts, unknown)
    /\ UnifdefStart

(* The preprocessors: of each group whether its lines are used, whether      *)
(* one of its parts was, and whether #else was seen.                         *)
Used(p) == p = << >> \/ Last(p).on
Cpp(p, kind, c) ==
    LET up == Used(Front(p))
        l  == Last(p)
    IN CASE kind = "if"    -> Append(p, [on |-> Used(p) /\ c, had |-> c, else |-> FALSE])
         [] kind = "elif"  -> Append(Front(p), [l EXCEPT !.on = up /\ ~l.had /\ c, !.had = @ \/ c])
         [] kind = "else"  -> Append(Front(p), [on |-> up /\ ~l.had, had |-> TRUE, else |-> TRUE])
         [] kind = "endif" -> Front(p)
         [] OTHER -> p
Misplaced(p, kind) == \/ kind \in {"elif", "else", "endif"} /\ p = << >>
                      \/ kind \in {"elif", "else"} /\ p # << >> /\ Last(p).else

-----------------------------------------------------------------------------
(* The transitions: [do, to].  do says what becomes of the line ("print",    *)
(* "drop", or the keyword it is given), to is the new state of the group,    *)
(* "nest" and "end" change the depth, "I" turns the ignoring of comments     *)
(* on.                                                                       *)
Keeping == {"OUTSIDE", "TRUE_PREFIX", "PASS_MIDDLE", "TRUE_MIDDLE", "PASS_ELSE", "TRUE_ELSE"}
T(do, to) == [do |-> do, to |-> to, nest |-> 0, ign |-> FALSE, off |-> FALSE]
Block(do, to) == [T(do, to) EXCEPT !.off = TRUE]        \* with ignoreoff
OpenGroup(do, to) == [Block(do, to) EXCEPT !.nest = 1]
End(do) == [T(do, "") EXCEPT !.nest = -1]
Stop(why) == T(why, "")
Ign(t) == [t EXCEPT !.ign = TRUE]

(* The first line of a group.                                                *)
First(is, lt, dodgy) ==
    LET starred == lt \in {"TRUEI", "FALSEI"}
        pass == OpenGroup("print", "PASS_MIDDLE")
    IN IF is \notin Keeping
       THEN IF starred THEN Ign(OpenGroup("drop", "FALSE_TRAILER")) ELSE OpenGroup("drop", "FALSE_TRAILER")
       ELSE IF lt = "IF" THEN pass
       ELSE IF dodgy THEN IF ~iocccok THEN Stop("error") ELSE IF starred THEN Ign(pass) ELSE pass
       ELSE LET to == IF lt \in {"TRUE", "TRUEI"} THEN "TRUE_PREFIX" ELSE "FALSE_PREFIX"
            IN IF starred THEN Ign(OpenGroup("drop", to)) ELSE OpenGroup("drop", to)

(* The later lines of a group, on one line of the file.                      *)
Later(is, kind, lt) ==
    CASE is \in {"OUTSIDE", "PASS_ELSE", "FALSE_ELSE", "TRUE_ELSE"} ->
           IF kind = "endif" /\ is # "OUTSIDE"
           THEN End(IF is = "PASS_ELSE" THEN "print" ELSE "drop") ELSE Stop("error")
      [] is = "FALSE_PREFIX" ->
           (CASE kind = "else" -> T("drop", "TRUE_ELSE")
              [] kind = "endif" -> End("drop")
              [] lt = "IF" -> Block("if", "PASS_MIDDLE")
              [] OTHER -> Block("drop", IF lt = "TRUE" THEN "TRUE_PREFIX" ELSE "FALSE_PREFIX"))
      [] is \in {"TRUE_PREFIX", "FALSE_TRAILER"} ->
           (CASE kind = "else" -> T("drop", "FALSE_ELSE")
              [] kind = "endif" -> End("drop")
              [] OTHER -> Block("drop", "FALSE_TRAILER"))
      [] is \in {"PASS_MIDDLE", "FALSE_MIDDLE"} ->
           (CASE kind = "else" -> T("print", "PASS_ELSE")
              [] kind = "endif" -> End("print")
              [] lt = "IF" -> Block("print", "PASS_MIDDLE")
              [] lt = "TRUE" -> T("else", "TRUE_MIDDLE")
              [] OTHER -> Block("drop", "FALSE_MIDDLE"))
      [] is = "TRUE_MIDDLE" ->
           (CASE kind = "else" -> T("endif", "FALSE_ELSE")
              [] kind = "endif" -> End("print")
              [] OTHER -> T("endif", "FALSE_TRAILER"))

(* And in the midst of a comment: only where nothing changes from printing   *)
(* to dropping.                                                              *)
Dodgy_AsLater(is, kind, lt) == Later(is, kind, lt)
Dodgy(is, kind, lt) ==
    CASE is = "FALSE_PREFIX" -> IF kind = "elif" /\ lt = "IF" THEN Later(is, kind, lt) ELSE Stop("error")
      [] is = "PASS_MIDDLE" ->
           (IF kind = "elif" /\ lt # "IF"
            THEN IF iocccok THEN Block("print", "PASS_MIDDLE") ELSE Stop("error")
            ELSE Later(is, kind, lt))
      [] is = "TRUE_MIDDLE" -> IF kind = "endif" THEN Later(is, kind, lt) ELSE Stop("error")
      [] is = "FALSE_TRAILER" -> IF kind = "endif" THEN Stop("error") ELSE Later(is, kind, lt)
      [] is = "PASS_ELSE" -> Later(is, kind, lt)
      [] OTHER -> Stop("error")

Plain(is) == T(IF is \in Keeping THEN "print" ELSE "drop", is)

trans_table(is, l) ==
    CASE l.kind = "plain" -> Plain(is)
      [] l.kind = "if" -> First(is, l.lt, l.dodgy)
      [] OTHER -> IF l.dodgy THEN Dodgy(is, l.kind, l.lt) ELSE Later(is, l.kind, l.lt)

-----------------------------------------------------------------------------
Nesting_OffByOne == Len(ifstate)
Nesting == Len(ifstate) - 1
(* error(): what was written is flushed; with -o over the input that was a   *)
(* temporary file, which stays.                                              *)
Halt(how) == exit' = how /\ UNCHANGED <<ifstate, ignoring, inp, outp, torn, printed>>

(* The line as the program goes on with it: what it prints of it.            *)
Became(t, kind) == CASE t.do = "drop" -> "dropped" [] t.do = "print" -> kind [] OTHER -> t.do

(* A line that begins in a comment is no directive, and its text no comment, *)
(* where the lines the comment starts in were dropped: after one of those    *)
(* the output is not what the program takes it for, and not followed on.     *)
Tears(t, kind) == incomment /\ printed = "dropped" /\ Became(t, kind) # "dropped"

Apply(t, kind, c) ==
    LET levels == IF t.nest = 1 THEN Append(ifstate, t.to)
                  ELSE IF t.nest = -1 THEN Front(ifstate) ELSE [ifstate EXCEPT ![Len(ifstate)] = t.to]
        ign    == IF t.nest = 1 THEN Append(ignoring, t.ign \/ Last(ignoring))
                  ELSE IF t.nest = -1 THEN Front(ignoring)
                  ELSE IF t.off THEN [ignoring EXCEPT ![Len(ignoring)] = ignoring[Len(ignoring) - 1]]
                  ELSE ignoring
    IN /\ ifstate' = levels /\ ignoring' = ign
       /\ inp' = Cpp(inp, kind, c)
       /\ torn' = (torn \/ Tears(t, kind))
       /\ outp' = IF torn' THEN << >> ELSE Cpp(outp, Became(t, kind), c)
       /\ printed' = Became(t, kind) /\ UNCHANGED exit

(* parseline and the transition.  A line with more after the directive is    *)
(* never decided; ends says whether it ends within a comment, which is not   *)
(* looked for while comments are ignored.                                    *)
Line(kind, lt, c, more, ends) ==
    /\ exit = "" /\ (Last(ignoring) => ends = incomment)
    /\ LET dodgy == kind # "plain" /\ (incomment \/ ends)
           l == [kind |-> kind, lt |-> IF more THEN "IF" ELSE lt, dodgy |-> dodgy]
           t == trans_table(Last(ifstate), l)
       IN /\ IF t.nest = 1 /\ Nesting = MAXDEPTH - 1 THEN Halt("error")
             ELSE IF t.do = "error" THEN Halt("error")
             ELSE IF Nesting = 0 /\ (t.nest = -1 \/ (t.off /\ t.nest = 0)) THEN Halt("abort")
             ELSE Apply(t, kind, c)
          /\ lastline' = [kind |-> kind, dodgy |-> dodgy, was |-> incomment, before |-> printed]
    /\ incomment' = ends
    /\ UNCHANGED <<options, outfile>>

If(ends) == \E o \in conditions, more \in BOOLEAN :
               Line("if", o[1], o[2], more, ends)
Ifdef(ends) == \E o \in Ifdefs(unknown), more \in BOOLEAN : Line("if", o[1], o[2], more, ends)
Elif(ends) == \E o \in conditions, more \in BOOLEAN :
                 Line("elif", o[1], o[2], more, ends)
Else(ends) == Line("else", "", TRUE, FALSE, ends)
Endif(ends) == Line("endif", "", TRUE, FALSE, ends)
PlainLine(ends) == Line("plain", "", TRUE, FALSE, ends)

(* A keyword continued on the next line, or a literal that is not closed.    *)
Obfuscated == /\ exit = "" /\ Halt("error")
              /\ lastline' = [kind |-> "obfuscated", dodgy |-> TRUE, was |-> incomment, before |-> printed]
              /\ UNCHANGED <<options, incomment, outfile>>

done == /\ exit = ""
        /\ IF Last(ifstate) # "OUTSIDE" \/ incomment
           THEN exit' = "error" /\ UNCHANGED outfile
           ELSE exit' = "done" /\ outfile' = "new"
        /\ lastline' = [kind |-> "eof", dodgy |-> FALSE, was |-> incomment, before |-> printed]
        /\ UNCHANGED <<options, ifstate, ignoring, incomment, inp, outp, torn, printed>>

UnifdefNext == \/ \E ends \in BOOLEAN :
                     \/ If(ends) \/ Ifdef(ends) \/ Elif(ends)
                     \/ Else(ends) \/ Endif(ends) \/ PlainLine(ends)
               \/ Obfuscated \/ done
UnifdefSpec == UnifdefInit /\ [][UnifdefNext]_unifdefvars

-----------------------------------------------------------------------------
(* Whatever the unknown symbol is, a line of text reaches the compiler       *)
(* from the output exactly when it reaches it from the input, however        *)
(* groups are nested, cut down and edited; at the end of the file the        *)
(* output closes every group it opens, and no abort() "bug" is reached.      *)
(* (Not so once an #elif at the end of a comment has become the #if of its   *)
(* group and the comment's start is gone: "b */ #if X" is no directive.)     *)
SameProgram ==
    /\ exit # "abort"
    /\ (exit = "" /\ lastline.kind = "plain" /\ ~torn) => (Used(inp) <=> printed = "plain" /\ Used(outp))
    /\ exit = "done" => inp = << >> /\ (torn \/ outp = << >>)

(* A file whose directives are all in order and on lines of their own is     *)
(* never refused, but for the depth the program allows and the end of the    *)
(* file inside a group or a comment.                                         *)
OnlyDisorderIsRefused ==
    exit = "error" =>
        \/ lastline.dodgy \/ Misplaced(inp, lastline.kind)
        \/ lastline.kind = "if" /\ Len(inp) = MAXDEPTH - 1
        \/ lastline.kind = "eof" /\ (inp # << >> \/ incomment)

(* A comment is printed whole or not at all: a line that starts in one is    *)
(* treated as the line before it.  (But for an #elif at the end of a comment *)
(* that becomes the #if of its group: the start of the comment goes.)        *)
CommentsStayWhole ==
    (exit = "" /\ lastline.was /\ ~(lastline.kind = "elif" /\ printed = "if")) =>
        (printed = "dropped" <=> lastline.before = "dropped")
=============================================================================
