----------------------------- MODULE MCPrograms -----------------------------
(***************************************************************************)
(* The programs of scripts/ and src/, and the build of several packages,   *)
(* for TLC: a disjoint union, `part' being the one that runs.  The state   *)
(* of the others stays at one of its initial values, and a costly property *)
(* looks at its own part only.                                             *)
(***************************************************************************)
EXTENDS KconfigExpr, KconfigConf, MCKconfigSymbol, KconfigDeps, KconfigFiles,
        KconfigViews, KbuildDeps, MakeDevs, MkImage, Unifdef, BuildGraph

VARIABLE part

-----------------------------------------------------------------------------
(* Instances *)

MCAtoms == {Sym("A"), Sym("B"), <<"ne", "B", "n">>, <<"ne", "B", "m">>, <<"eq", "A", "n">>,
            Sym("m"), <<"eq", "B", "y">>, <<"eq", "B", "m">>}

(* The dependencies of A, B, the choice C and its values X and Y. *)
MCDepChoices == [C |-> {"X", "Y"}]
MCDepGraphs == {[A |-> a, B |-> b, C |-> c, X |-> x, Y |-> y] :
                  a \in {{"B"}, {"C"}}, b \in {{}, {"A"}, {"X"}}, c \in SUBSET {"B"},
                  x \in {{}, {"A"}, {"Y"}}, y \in SUBSET {"A"}}

(* Kconfig files: submenus made of dependencies, menus with conditions, a    *)
(* choice with what depends on a value of it, and a choice of tristates.     *)
Entry0(n, sym, type, how) ==
    [n |-> n, sym |-> sym, type |-> type, ask |-> how, cond |-> None, dep |-> None, vis |-> None,
     sel |-> << >>, def |-> << >>, choice |-> FALSE, optional |-> FALSE, list |-> << >>]
Config(s, type) == Entry0(s, s, type, "prompt")
Menu(n, list) == [Entry0(n, "", "unknown", "menu") EXCEPT !.list = list]
Submenus == Menu("root", <<
    [Config("M", "bool") EXCEPT !.ask = "none", !.def = <<<<Yes, None>>>>], Config("A", "bool"),
    [Config("P", "bool") EXCEPT !.cond = Sym("A"), !.def = <<<<Yes, None>>>>],
    [Config("B", "tri") EXCEPT !.dep = Sym("P")],
    [Config("I", "int") EXCEPT !.dep = <<"and", Sym("P"), <<"ne", "B", "n">>>>, !.def = <<<< <<"num", 2>>, None>>>>] >>)
Menus == Menu("root", <<
    Config("M", "bool"), [Config("A", "bool") EXCEPT !.sel = <<<<"X", Sym("P")>>>>], Config("P", "bool"),
    [Config("CT", "tri") EXCEPT !.dep = Sym("m")],
    [Menu("D", <<Config("B", "tri"), [Config("W", "bool") EXCEPT !.ask = "menu"],
                 [Entry0("if", "", "unknown", "none") EXCEPT !.dep = Sym("W"), !.list = <<Config("X", "bool")>>] >>)
      EXCEPT !.dep = Sym("A"), !.vis = <<"and", Sym("P"), <<"ne", "CT", "n">>>>] >>)
ValueTree == Menu("root", <<
    [Config("M", "bool") EXCEPT !.ask = "none"], Config("P", "bool"),
    [Config("CH", "unknown") EXCEPT !.choice = TRUE,
        !.list = << Config("X", "bool"), [Config("Z", "bool") EXCEPT !.dep = Sym("X")],
                    [Config("Y", "unknown") EXCEPT !.cond = Sym("P")] >>] >>)
TriTree == Menu("root", <<
    [Config("M", "bool") EXCEPT !.def = <<<<Yes, None>>>>],
    [Config("CT", "unknown") EXCEPT !.choice = TRUE, !.optional = TRUE,
        !.list = << Config("B", "tri"), [Config("A", "bool") EXCEPT !.dep = <<"eq", "B", "m">>], Config("Y", "bool") >>] >>)
MCSources == {Submenus, Menus, ValueTree, TriTree}

(* One object, from a source and a header. *)
MCObjects == [o |-> {"src", "hdr"}]
MCTexts == {[words |-> {<<"A", "">>}, edge |-> {}],
            [words |-> {<<"A", "_MODULE">>}, edge |-> {}],
            [words |-> {<<"A", "">>, <<"B", "">>}, edge |-> {<<"A", "">>}]}

(* A device table is up to three of these lines, in any order. *)
MCDirsAbove == [dev |-> << >>, hda |-> <<"dev">>, etc |-> << >>]
DevLine(n, t, m, u, minor, start, inc, howMany) ==
    [name |-> n, type |-> t, mode |-> m, user |-> u, major |-> 3, minor |-> minor,
     start |-> start, inc |-> inc, count |-> howMany]
DevLines == {DevLine("dev", "d", 755, "root", 0, 0, 0, 0), DevLine("hda", "b", 640, "disk", 0, 0, 0, 0),
             DevLine("hda", "b", 640, "disk", 1, 1, 1, 3), DevLine("hda", "c", 600, "root", 0, 0, 0, 0),
             DevLine("hda", "d", 700, "disk", 0, 0, 0, 0), DevLine("etc", "f", 644, "disk", 0, 0, 0, 0),
             DevLine("hda", "b", 640, "unset", 0, 0, 0, 0), DevLine("hda", "b", 640, "root", 1, 0, 2, 2),
             DevLine("hda", "b", 640, "disk", 0, 1, 2, 3), DevLine("etc", "d", 644, "nobody", 0, 0, 0, 0),
             DevLine("etc", "invalid", 0, "root", 0, 0, 0, 0), DevLine("etc", "x", 0, "root", 0, 0, 0, 0)}
MCTables == UNION {[1..n -> DevLines] : n \in 1..2} \cup
            {<<DevLine("dev", "d", 755, "root", 0, 0, 0, 0)>> \o t : t \in [1..2 -> DevLines]}
MCTrees == {[p \in DevPaths |-> IF p = <<"etc">> THEN [type |-> "f", mode |-> 600, user |-> "root",
                                                        dev |-> << >>] ELSE NoNode]}

MCDataFiles == {<<"p">>, <<"p", "q">>, <<"q", "p", "q">>}
MCData == {<< >>, <<"a">>, <<FF, FF, FF, FF, "a">>}

(* Symbols with a number, undefined, with a text, and to be ignored. *)
MCKnown == [K |-> <<2>>, U |-> Undef, T |-> Text, I |-> <<1>>]
CondLeaves == {<<"num", 0>>, <<"num", 2>>, <<"sym", "K">>, <<"sym", "U">>, <<"sym", "T">>, <<"sym", "X">>,
           <<"def", "X">>, <<"def", "K">>}
CondSimple == CondLeaves \cup {<<"!", a>> : a \in CondLeaves}
                 \cup {<<o, a, b>> : o \in {"||", "&&", "==", "<"}, a \in CondLeaves, b \in CondLeaves}
MCConds == <<CondLeaves, CondSimple,
             {<<o, a, b>> : o \in {"||", "&&"}, a \in CondSimple, b \in CondLeaves}>>
MCCppVals == {Undef, <<2>>}
MCOptions == {<<TRUE, FALSE, TRUE>>}

(* A package over two that depend on each other; with all of them there are  *)
(* changes at each level, and without some of them.                          *)
MCDeps == [app |-> {"mid", "base"}, mid |-> {"base"}, base |-> {}]
Selection(on, mid, base) == [on |-> on, opt |-> [app |-> 1, mid |-> mid, base |-> base]]
MCSelections == {Selection({"app", "mid", "base"}, 1, 1), Selection({"app", "mid", "base"}, 2, 2),
                 Selection({"app", "base"}, 1, 1), Selection({"mid"}, 1, 1)}

-----------------------------------------------------------------------------
(* One initial state of each part, for while another one runs. *)
ExprIdle == ExprInit
SymIdle  == db = Selects /\ k = [EmptyTable EXCEPT !.changed = TRUE] /\ file = << >> /\ sets = 0 /\ late = FALSE
WalkIdle == mode = "oldconfig" /\ ask = 0 /\ chk = 0 /\ cnt = FALSE /\ over = FALSE /\ walks = 0
DepIdle  == DepInit /\ needs = [s \in DepSyms |-> IF s = "A" THEN {"B"} ELSE {}]
FilesIdle == FilesInit /\ front = "mconf"
TreeIdle == /\ src = Entry0("root", "", "unknown", "menu") /\ menus = src /\ links = << >>
            /\ prog = "mconf" /\ opt = "normal" /\ view = "menus" /\ path = << >> /\ unfolded = {}
            /\ browsed = "" /\ rows = << >> /\ side = << >> /\ chg = {} /\ mark = {} /\ cut = FALSE
KbuildIdle == DepsInit /\ text = [f \in SrcFiles |-> [words |-> {<<"A", "">>}, edge |-> {}]]
DevIdle  == DevInit /\ table = <<DevLine("dev", "d", 755, "root", 0, 0, 0, 0)>>
ImageIdle == ImageInit /\ files = <<"p">> /\ ~multi /\ ~xip /\ data = [f \in {"p"} |-> <<"a">>]
UnifdefIdle == /\ iocccok = FALSE /\ strictlogic = FALSE /\ killconsts = FALSE /\ unknown = Undef
               /\ conditions = {} /\ UnifdefStart
GraphIdle == GraphInit /\ wanted = Selection({"mid"}, 1, 1)

AllParts == {"deps", "kbuild", "files", "unifdef", "makedevs", "mkimage", "graph", "views", "expr", "conf", "symbol"}
ProgramsInit ==
    /\ part \in AllParts
    /\ IF part = "expr" THEN ExprInit ELSE ExprIdle
    /\ CASE part = "conf"   -> ConfInit /\ TreeIdle
         [] part = "views"  -> ViewsInit /\ WalkIdle
         [] part = "symbol" -> SymInit /\ WalkIdle /\ TreeIdle
         [] OTHER           -> SymIdle /\ WalkIdle /\ TreeIdle
    /\ IF part = "deps" THEN DepInit ELSE DepIdle
    /\ IF part = "files" THEN FilesInit ELSE FilesIdle
    /\ IF part = "kbuild" THEN DepsInit ELSE KbuildIdle
    /\ IF part = "makedevs" THEN DevInit ELSE DevIdle
    /\ IF part = "mkimage" THEN ImageInit ELSE ImageIdle
    /\ IF part = "unifdef" THEN UnifdefInit ELSE UnifdefIdle
    /\ IF part = "graph" THEN GraphInit ELSE GraphIdle

walkvars == <<mode, ask, chk, cnt, over, walks>>
treevars == <<src, menus, links, prog, view, opt, path, unfolded, browsed, rows, side, chg, mark, cut>>
ProgramsNext ==
    \/ /\ part = "expr" /\ ExprNext
       /\ UNCHANGED <<part, confvars, treevars, depvars, filevars, depsvars, devvars, imagevars, unifdefvars, graphvars>>
    \/ /\ part = "symbol" /\ SymNext
       /\ UNCHANGED <<part, exprvars, walkvars, treevars, depvars, filevars, depsvars, devvars, imagevars, unifdefvars, graphvars>>
    \/ /\ part = "conf" /\ ConfNext
       /\ UNCHANGED <<part, exprvars, treevars, depvars, filevars, depsvars, devvars, imagevars, unifdefvars, graphvars>>
    \/ /\ part = "views" /\ ViewsNext
       /\ UNCHANGED <<part, exprvars, walkvars, depvars, filevars, depsvars, devvars, imagevars, unifdefvars, graphvars>>
    \/ /\ part = "deps" /\ DepNext
       /\ UNCHANGED <<part, exprvars, confvars, treevars, filevars, depsvars, devvars, imagevars, unifdefvars, graphvars>>
    \/ /\ part = "files" /\ FilesNext
       /\ UNCHANGED <<part, exprvars, confvars, treevars, depvars, depsvars, devvars, imagevars, unifdefvars, graphvars>>
    \/ /\ part = "kbuild" /\ DepsNext
       /\ UNCHANGED <<part, exprvars, confvars, treevars, depvars, filevars, devvars, imagevars, unifdefvars, graphvars>>
    \/ /\ part = "makedevs" /\ DevNext
       /\ UNCHANGED <<part, exprvars, confvars, treevars, depvars, filevars, depsvars, imagevars, unifdefvars, graphvars>>
    \/ /\ part = "mkimage" /\ ImageNext
       /\ UNCHANGED <<part, exprvars, confvars, treevars, depvars, filevars, depsvars, devvars, unifdefvars, graphvars>>
    \/ /\ part = "unifdef" /\ UnifdefNext
       /\ UNCHANGED <<part, exprvars, confvars, treevars, depvars, filevars, depsvars, devvars, imagevars, graphvars>>
    \/ /\ part = "graph" /\ GraphNext
       /\ UNCHANGED <<part, exprvars, confvars, treevars, depvars, filevars, depsvars, devvars, imagevars, unifdefvars>>
programvars == <<part, exprvars, confvars, treevars, depvars, filevars, depsvars, devvars, imagevars, unifdefvars, graphvars>>
ProgramsSpec == ProgramsInit /\ [][ProgramsNext]_programvars

-----------------------------------------------------------------------------
(* The costly properties, of their own part only: see there. *)

(* Of expr.c: what each operation on expressions makes has the value, or the *)
(* visibility, it is meant to have, and is printed as what it is.            *)
ExprValuesKept == part = "expr" => DefiniteValuesKept /\ PrintedIsMeant
ExprVisibilityKept == part = "expr" => VisibilityKept /\ SubmenuDepends

(* Of symbol.c and confdata.c: the cache, selects, choices and files. *)
SymCacheIsRight == part = "symbol" => CacheIsRight
SymSelectsHold == part = "symbol" => SelectsHold
SymOneOfAChoice == part = "symbol" => OneOfAChoice
SymFilesComeBack == part = "symbol" => SavedComesBack /\ MinimalComesBack
SymUnchangedIsSaved == part = "symbol" => UnchangedIsSaved
SymSetTakesEffect == [][part = "symbol" => SetIsSeen]_programvars

(* Of menu.c and the four programs: the tree, the way through it, the rows.  *)
ViewsMenuAsWritten == part = "views" => MenuAsWritten
ViewsEveryEntryIsShown == part = "views" => EveryEntryIsShown
ViewsRowsAreCurrent == part = "views" => RowsAreCurrent

(* Of conf.c: the questions and their answers. *)
ConfAllAnswered == part = "conf" => AllAnswered
ConfQuestionsEnd == part = "conf" => QuestionsEnd
ConfAnswersKept == [][part = "conf" => KeepsAnswers]_programvars
=============================================================================
