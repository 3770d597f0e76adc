--------------------------- MODULE KconfigSymbol ---------------------------
(***************************************************************************)
(* The values of the configuration symbols (scripts/kconfig/symbol.c and     *)
(* the value half of confdata.c): they are computed on demand, cached        *)
(* under SYMBOL_VALID, and every front end works on the cached ones.  A      *)
(* database is what menu_finalize leaves of a Kconfig tree; `db' is one of  *)
(* Databases, a record of                                                    *)
(*   order     the symbols in the order of the menus                         *)
(*   type      [symbol -> "bool", "tri", "int"]                              *)
(*   prompts   [symbol -> sequence of conditions], one per prompt            *)
(*   defaults  [symbol -> sequence of <<expression, condition>>]             *)
(*   dir, rev  [symbol -> expression], direct and reverse dependencies       *)
(*   members   [choice -> sequence of its values], << >> for all others      *)
(*   range     [symbol -> << >> or <<low, high>>]                            *)
(*   optional  the optional choices;  modules  the symbol of the modules     *)
(*   files     hand-written .config files to load                            *)
(*   shown     the symbols shown one at a time (a bound)                     *)
(* An expression is one of KconfigExpr's tuples, or <<"num", n>>; a string   *)
(* value is <<n>>, or << >> when empty; so is the chosen one of a choice.    *)
(***************************************************************************)
EXTENDS Tristate, Integers, Sequences, SequencesExt, FiniteSets


CONSTANTS Databases,    \* set of databases
          Numbers,      \* what the user may type for a number (bound)
          MaxSets       \* how many operations a session has (bound)

VARIABLES db,       \* the database of this run, one of Databases
          k,        \* the symbol table: flags, cached and user values
          file,     \* the lines of .config
          sets,     \* how many operations there were
          late      \* history: a user's value was taken and the cached ones kept
symvars == <<db, k, file, sets, late>>

D == db
Syms == {D.order[i] : i \in DOMAIN D.order}
Tri(s) == D.type[s] \in {"bool", "tri"}
sym_is_choice(s) == D.members[s] # << >>
ChoiceOf(s) == {c \in Syms : \E i \in DOMAIN D.members[c] : D.members[c][i] = s}
sym_is_choice_value(s) == ChoiceOf(s) # {}
Choice(s) == CHOOSE c \in ChoiceOf(s) : TRUE

Put(f, s, v) == [f EXCEPT ![s] = v]

(* The table: valid, write, user are the flags SYMBOL_VALID, SYMBOL_WRITE,   *)
(* SYMBOL_DEF_USER; tri and val the cached value curr; vis, dir, rev what    *)
(* sym_calc_visibility caches; deftri and defval the user's value; changed   *)
(* is whether sym_change_count is not 0.                                     *)
EmptyTable == [valid |-> {}, write |-> {}, user |-> {},
               tri |-> [s \in Syms |-> no], val |-> [s \in Syms |-> None],
               vis |-> [s \in Syms |-> no], dir |-> [s \in Syms |-> no],
               rev |-> [s \in Syms |-> no], deftri |-> [s \in Syms |-> no],
               defval |-> [s \in Syms |-> None], modules |-> no, changed |-> FALSE]

-----------------------------------------------------------------------------
(* sym_calc_value and what it calls.  Evaluating an expression computes      *)
(* the symbols in it, so they call each other, and each returns              *)
(* <<table, value>>.                                                         *)
RECURSIVE sym_calc_value(_, _), Eval(_, _), sym_calc_visibility(_, _),
          sym_get_default_prop(_, _), sym_choice_default(_, _), sym_calc_choice(_, _), CalcTri(_, _)

sym_get_type(t, s) ==
    IF D.type[s] # "tri" THEN D.type[s]
    ELSE IF (sym_is_choice_value(s) /\ t.vis[s] = yes) \/ t.modules = no THEN "bool" ELSE "tri"

(* sym_get_string_value: n, m or y for a tristate *)
StringOf(t, s) == IF ~Tri(s) THEN t.val[s]
                  ELSE IF t.tri[s] = mod /\ t.modules = no THEN <<no>> ELSE <<t.tri[s]>>
ConstTri(c) == CASE c = "n" -> no [] c = "m" -> mod [] c = "y" -> yes

(* expr_calc_value *)
Negated(u) == <<u[1], 2 - u[2]>>
Joined(op, v, u) == <<u[1], IF op = "and" THEN Min2(v, u[2]) ELSE Max2(v, u[2])>>
ThenRight(op, l, right) == Joined(op, l[2], Eval(l[1], right))
ValueIn(u, e) ==
    <<u, IF e[1] = "sym" THEN u.tri[e[2]]
         ELSE IF (e[1] = "eq") = (StringOf(u, e[2]) = <<ConstTri(e[3])>>) THEN yes ELSE no>>
Eval(t, e) ==
    CASE e = None                               -> <<t, yes>>
      [] e # None /\ e[1] = "not"               -> Negated(Eval(t, e[2]))
      [] e # None /\ e[1] \in {"and", "or"}     -> ThenRight(e[1], Eval(t, e[2]), e[3])
      [] e # None /\ e[1] = "sym" /\ e[2] \notin Syms -> <<t, ConstTri(e[2])>>
      [] OTHER                                  -> ValueIn(sym_calc_value(t, e[2]), e)

(* The widest of the prompts, then, but for the values of a choice, the      *)
(* dependencies and what selects the symbol.                                 *)
Wider(v, u) == <<u[1], Max2(v, u[2])>>
WithPrompts(u, s) ==
    [u[1] EXCEPT !.vis = Put(@, s, IF u[2] = mod /\ (D.type[s] # "tri" \/ u[1].modules = no) THEN yes ELSE u[2])]
WithDir(u, s) == [u[1] EXCEPT !.dir = Put(@, s, IF u[2] = mod THEN yes ELSE u[2])]
WithRev(u, s) ==
    [u[1] EXCEPT !.rev = Put(@, s, IF u[2] = mod /\ sym_get_type(u[1], s) = "bool" THEN yes ELSE u[2])]
Selected(t, s) == IF D.rev[s] = None THEN <<t, no>> ELSE Eval(t, D.rev[s])
WithLimits(t, s) ==
    IF sym_is_choice_value(s) THEN t
    ELSE WithRev(Selected(WithDir(Eval(t, D.dir[s]), s), s), s)
sym_calc_visibility(t, s) ==
    WithLimits(WithPrompts(FoldLeft(LAMBDA a, p : Wider(a[2], Eval(a[1], p)), <<t, no>>, D.prompts[s]), s), s)

(* The first default whose condition holds: <<table, expression, its         *)
(* condition>>, with the value no when there is none.                        *)
Found(e, u) == <<u[1], e, u[2]>>
sym_get_default_prop(t, s) ==
    FoldLeft(LAMBDA a, p : IF a[3] # no THEN a ELSE Found(p[1], Eval(a[1], p[2])),
             <<t, None, no>>, D.defaults[s])

(* The first default that holds and can be seen, or the first value that can *)
SeenDefault(u, m) == <<u[1], IF u[2] # no /\ u[1].vis[m] # no THEN <<m>> ELSE None>>
FirstSeen(t, c) ==
    LET seen == {i \in DOMAIN D.members[c] : t.vis[D.members[c][i]] # no}
    IN IF seen = {} THEN None ELSE <<D.members[c][CHOOSE i \in seen : \A j \in seen : i <= j]>>
OrFirstSeen(d, c) == IF d[2] # None THEN d ELSE <<d[1], FirstSeen(d[1], c)>>
sym_choice_default(t, c) ==
    OrFirstSeen(FoldLeft(LAMBDA a, p : IF a[2] # None THEN a ELSE SeenDefault(Eval(a[1], p[2]), p[1][2]),
                         <<t, None>>, D.defaults[c]), c)

(* The user's choice stands while it is visible; it stops being one when a   *)
(* visible value of the choice was never set.                                *)
DefaultChosen(d, c) == [d[1] EXCEPT !.val = Put(@, c, d[2]), !.tri = IF d[2] = None THEN Put(@, c, no) ELSE @]
Chosen(t, c) ==
    LET mine == t.defval[c]
    IN IF mine # None /\ t.vis[mine[1]] # no THEN [t EXCEPT !.val = Put(@, c, mine)]
       ELSE DefaultChosen(sym_choice_default(t, c), c)
ForgetsIfNew(t, c) ==
    IF \E m \in ToSet(D.members[c]) : t.vis[m] # no /\ m \notin t.user THEN [t EXCEPT !.user = @ \ {c}] ELSE t
(* Broken: the user's choice stands when it can no longer be seen.           *)
ChosenStill(t, c) ==
    IF t.defval[c] # None THEN [t EXCEPT !.val = Put(@, c, t.defval[c])]
    ELSE DefaultChosen(sym_choice_default(t, c), c)
sym_calc_choice_Kept(t, c) == ChosenStill(FoldLeft(sym_calc_visibility, t, D.members[c]), c)
sym_calc_choice(t, c) == Chosen(ForgetsIfNew(FoldLeft(sym_calc_visibility, t, D.members[c]), c), c)

sym_validate_range(v, range) ==
    IF range = << >> THEN v
    ELSE LET n == IF v = None THEN 0 ELSE v[1]
         IN IF n < range[1] THEN <<range[1]>> ELSE IF n > range[2] THEN <<range[2]>> ELSE v

(* The value of a bool or tristate that is no value of a visible choice:     *)
(* the user's, limited by the prompt, or the default; at least what          *)
(* selects it.  <<table, value, is it written>>                              *)
AtLeast(t, v, s, written) == <<t, Max2(v, t.rev[s]), written \/ t.vis[s] # no \/ t.rev[s] # no>>
Limited(u, cond, s) == AtLeast(u[1], Min2(u[2], cond), s, cond # no)
ByDefault(d, s) == Limited(IF d[3] = no THEN <<d[1], no>> ELSE Eval(d[1], d[2]), d[3], s)
(* Broken: the selecting symbols are not looked at.                          *)
CalcTri_NoSelect(t, s) ==
    IF t.vis[s] # no /\ s \in t.user THEN <<t, Min2(t.deftri[s], t.vis[s]), TRUE>>
    ELSE IF sym_is_choice(s) THEN <<t, no, TRUE>>
    ELSE <<t, ByDefault(sym_get_default_prop([t EXCEPT !.rev = Put(@, s, no)], s), s)[2], TRUE>>
CalcTri(t, s) ==
    IF t.vis[s] # no /\ s \in t.user THEN AtLeast(t, Min2(t.deftri[s], t.vis[s]), s, TRUE)
    ELSE IF sym_is_choice(s) THEN AtLeast(t, no, s, FALSE)
    ELSE ByDefault(sym_get_default_prop(t, s), s)

Writes(t, s, b) == IF b THEN [t EXCEPT !.write = @ \cup {s}] ELSE t
StringValue(t, v, s) == [t EXCEPT !.val = Put(@, s, sym_validate_range(v, D.range[s]))]
StringDefault(d, s) ==
    StringValue(Writes(d[1], s, d[1].vis[s] # no \/ d[3] # no), IF d[3] = no THEN None ELSE <<d[2][2]>>, s)
TriValue(c, s) ==
    LET v == IF c[2] = mod /\ sym_get_type(c[1], s) = "bool" THEN yes ELSE c[2]
    IN Writes([c[1] EXCEPT !.tri = Put(@, s, v)], s, c[3])
ChoiceValue(t, s) == IF sym_is_choice(s) /\ t.tri[s] = yes THEN sym_calc_choice(t, s) ELSE t
MembersWritten(t, s) ==
    IF s \in t.write THEN [t EXCEPT !.write = @ \cup {m \in ToSet(D.members[s]) : t.vis[m] # no}] ELSE t
TellsModules(t, s) == IF s = D.modules THEN [t EXCEPT !.modules = t.tri[s]] ELSE t
Computed(t, s) ==
    IF ~Tri(s) THEN IF t.vis[s] # no /\ s \in t.user THEN StringValue(Writes(t, s, TRUE), t.defval[s], s)
                    ELSE StringDefault(sym_get_default_prop(t, s), s)
    ELSE IF sym_is_choice_value(s) /\ t.vis[s] = yes
         THEN [t EXCEPT !.tri = Put(@, s, IF t.val[Choice(s)] = <<s>> THEN yes ELSE no)]
    ELSE TellsModules(MembersWritten(ChoiceValue(TriValue(CalcTri(t, s), s), s), s), s)
Unset(t, s) == [t EXCEPT !.tri = Put(@, s, no), !.val = Put(@, s, None)]
sym_calc_value(t, s) ==
    IF s \in t.valid THEN t
    ELSE Computed(Unset(sym_calc_visibility(
            [t EXCEPT !.valid = @ \cup {s}, !.write = IF sym_is_choice_value(s) THEN @ ELSE @ \ {s}], s), s), s)

CalcAll(t) == FoldLeft(sym_calc_value, t, D.order)
(* Broken: modules is computed when it is next needed; no change is noted.   *)
sym_clear_all_valid_Later(t) == [t EXCEPT !.valid = {}, !.changed = TRUE]
sym_clear_all_valid_Same(t) == sym_calc_value([t EXCEPT !.valid = {}], D.modules)
sym_clear_all_valid(t) == sym_calc_value([t EXCEPT !.valid = {}, !.changed = TRUE], D.modules)
(* What a program that computes everything anew would see. *)
Fresh(t) == CalcAll(sym_clear_all_valid(t))

-----------------------------------------------------------------------------
(* Setting values.  Each returns <<table, was it accepted>>.                 *)

sym_is_changable(t, s) == t.vis[s] > t.rev[s]

(* Broken: a value of a choice may be set to n.                              *)
sym_tristate_within_range_AnyValue(t, s, v) ==
    /\ Tri(s) /\ sym_is_changable(t, s) /\ ~(sym_get_type(t, s) = "bool" /\ v = mod)
    /\ t.rev[s] <= v /\ v <= t.vis[s]

sym_tristate_within_range(t, s, v) ==
    /\ t.vis[s] # no /\ Tri(s)
    /\ ~(sym_get_type(t, s) = "bool" /\ v = mod)
    /\ sym_is_changable(t, s)
    /\ IF sym_is_choice_value(s) /\ t.vis[s] = yes THEN v = yes
       ELSE t.rev[s] <= v /\ v <= t.vis[s]

(* Broken: a value that is already there is not taken for the user's.        *)
sym_set_tristate_value_Same(t, s, v) ==
    IF t.tri[s] = v THEN <<t, TRUE>>
    ELSE IF ~sym_tristate_within_range(t, s, v) THEN <<t, FALSE>>
    ELSE <<sym_clear_all_valid([t EXCEPT !.user = @ \cup {s}, !.deftri = Put(@, s, v)]), TRUE>>

Picked(t, c, s) == [t EXCEPT !.defval = Put(@, c, <<s>>),
                             !.user = @ \cup {c} \cup {m \in ToSet(D.members[c]) : t.vis[m] # no}]
UserSets(t, s, v) ==
    LET t1 == [t EXCEPT !.user = @ \cup {s}, !.deftri = Put(@, s, v)]
    IN IF sym_is_choice_value(s) /\ v = yes THEN Picked(t1, Choice(s), s) ELSE t1
sym_set_tristate_value(t, s, v) ==
    IF t.tri[s] = v THEN <<UserSets(t, s, v), TRUE>>
    ELSE IF ~sym_tristate_within_range(t, s, v) THEN <<t, FALSE>>
    ELSE <<sym_clear_all_valid(UserSets(t, s, v)), TRUE>>

(* The next of n, m, y that is accepted, in turn; the old value always is.   *)
FirstTaken(results) == results[CHOOSE i \in 1..3 : results[i][2] /\ \A j \in 1..(i - 1) : ~results[j][2]]
sym_toggle_tristate_value(t, s) ==
    FirstTaken([i \in 1..3 |-> sym_set_tristate_value(t, s, (t.tri[s] + i) % 3)])

sym_string_within_range(s, n) ==
    /\ n # None
    /\ D.range[s] # << >> => D.range[s][1] <= n[1] /\ n[1] <= D.range[s][2]

sym_set_string_value(t, s, n) ==
    IF ~sym_string_within_range(s, n) THEN <<t, FALSE>>
    ELSE IF t.defval[s] = n THEN <<[t EXCEPT !.user = @ \cup {s}], TRUE>>
    ELSE <<sym_clear_all_valid([t EXCEPT !.user = @ \cup {s}, !.defval = Put(@, s, n)]), TRUE>>

-----------------------------------------------------------------------------
(* Files.  A line is <<symbol, value>>, with a tuple for a number.           *)

LineOf(t, s) == <<s, IF Tri(s) THEN StringOf(t, s)[1] ELSE t.val[s]>>
Written(t, s, p) == IF p THEN << LineOf(t, s) >> ELSE << >>

(* conf_write, without the file system: <<table, lines>> *)
WriteMenus(t0) ==
    LET Line(u, s, lines) == <<[u EXCEPT !.write = @ \ {s}], lines \o Written(u, s, s \in u.write)>>
    IN FoldLeft(LAMBDA a, s : IF sym_is_choice(s) THEN a ELSE Line(sym_calc_value(a[1], s), s, a[2]),
                <<IF t0.changed THEN t0 ELSE sym_clear_all_valid(t0), << >> >>, D.order)

(* sym_get_string_default, as <<table, value>> *)
StringDefaultOf(e, d, s) ==
    LET t == e[1]
        v == Max2(IF d[3] = no THEN no ELSE Min2(e[2], d[3]), t.rev[s])
        w == IF v = mod /\ (D.type[s] = "bool" \/ (~sym_is_choice_value(s) /\ t.modules = no)) THEN yes ELSE v
    IN <<t, IF Tri(s) THEN <<w>> ELSE IF d[3] = no THEN None ELSE <<d[2][2]>> >>
WithDefaultOf(d, s) ==
    StringDefaultOf(IF ~Tri(s) \/ d[3] = no THEN <<d[1], no>> ELSE Eval(d[1], d[2]), d, s)
sym_get_string_default(t, s) ==
    WithDefaultOf(sym_get_default_prop(sym_calc_value(sym_calc_visibility(t, s), D.modules), s), s)

(* A value of a choice that is y and would be without the user               *)
ChosenByDefault_Any(t, s) == sym_is_choice_value(s)
ChosenByDefault(t, s) ==
    /\ sym_is_choice_value(s) /\ Choice(s) \notin D.optional
    /\ sym_choice_default(t, Choice(s))[2] = <<s>>
    /\ D.type[s] = "bool" /\ t.tri[s] = yes

conf_write_defconfig(t0) ==
    LET Line(u, s, lines) ==
            IF s \notin u.write THEN <<u, lines>>
            ELSE <<[u EXCEPT !.write = @ \ {s}],
                   lines \o Written(u, s, /\ sym_is_changable(u, s)
                                          /\ StringOf(u, s) # sym_get_string_default(u, s)[2]
                                          /\ ~ChosenByDefault(u, s))>>
    IN FoldLeft(LAMBDA a, s : IF sym_is_choice(s) THEN a ELSE Line(sym_calc_value(a[1], s), s, a[2]),
                <<sym_clear_all_valid(t0), << >> >>, D.order)

(* One line of a file; a value of a choice also tells the choice.            *)
SetLine(a, line) ==
    LET s == line[1]  v == line[2]  t == a[1]
        bad == \/ Tri(s) /\ D.type[s] = "bool" /\ v = mod
               \/ ~Tri(s) /\ v = None
        again == s \in t.user
        t1 == IF Tri(s) THEN [t EXCEPT !.deftri = Put(@, s, v), !.user = @ \cup {s}]
              ELSE [t EXCEPT !.defval = Put(@, s, v), !.user = @ \cup {s}]
        c  == Choice(s)
        split == v = mod /\ t.deftri[c] = yes
    IN IF bad THEN <<t, TRUE>>
       ELSE IF ~sym_is_choice_value(s) THEN <<t1, a[2] \/ again>>
       ELSE <<[t1 EXCEPT !.user = IF split THEN @ \ {c} ELSE @,
                         !.defval = IF v = yes THEN Put(@, c, <<s>>) ELSE @,
                         !.deftri = Put(@, c, Max2(@[c], v))],
              a[2] \/ again \/ split \/ (v = yes /\ t.deftri[c] # no)>>

(* conf_read_simple for the user's values: <<table, was there a warning>>    *)
Emptied(t) == [t EXCEPT !.valid = {}, !.user = {c \in Syms : sym_is_choice(c)},
                      !.deftri = [s \in Syms |-> no], !.defval = [s \in Syms |-> None]]
WithModules(r) == <<sym_calc_value(r[1], D.modules), r[2]>>
conf_read_simple(t, lines) == WithModules(FoldLeft(SetLine, <<Emptied(t), FALSE>>, lines))

(* conf_read: the user's value of what cannot be seen, and of a number out   *)
(* of its range, is dropped.                                                 *)
Disagrees(t, s) ==
    /\ ~sym_is_choice(s)
    /\ IF s \in t.user /\ s \in t.write
       THEN IF Tri(s) THEN t.deftri[s] # t.tri[s] ELSE t.defval[s] # t.val[s]
       ELSE s \in t.user \/ s \in t.write
DropOf(u, wrong, s, out) ==
    <<[u EXCEPT !.user = IF out \/ (u.vis[s] = no /\ ~wrong) THEN @ \ {s} ELSE @,
                !.valid = IF out THEN @ \ {s} ELSE @], wrong \/ out>>
Drop(a, s) ==
    IF s \notin a[1].user \/ sym_is_choice_value(s) THEN a
    ELSE DropOf(a[1], a[2], s, ~Tri(s) /\ ~sym_string_within_range(s, a[1].defval[s]))
WithoutUnseen(t) == FoldLeft(Drop, <<t, \E s \in Syms : Disagrees(t, s)>>, D.order)
WithChange(d, warned) == [d[1] EXCEPT !.changed = @ \/ warned \/ d[2]]
ReadIn(r) == WithChange(WithoutUnseen(CalcAll(r[1])), r[2])
conf_read(t, lines) == ReadIn(conf_read_simple([t EXCEPT !.changed = FALSE], lines))

(* conf_set_all_new_symbols.  The choices are found in the reverse of the    *)
(* order of their definition: they have no name and sym_lookup prepends.     *)
NewValue(t, s, mode, rnd) ==
    CASE mode = "yes" -> yes [] mode = "mod" -> mod [] mode = "no" -> no
      [] mode = "random" -> rnd[s] % (IF sym_get_type(t, s) = "tri" THEN 3 ELSE 2)
SetNew(t, new, mode, rnd) ==
    IF mode = "default" THEN t
    ELSE [t EXCEPT !.deftri = [s \in Syms |-> IF s \in new THEN NewValue(t, s, mode, rnd) ELSE @[s]],
                   !.user = @ \cup {s \in new : ~(sym_is_choice(s) /\ mode = "random")}]
set_all_choice_values(u, c) ==
    [u EXCEPT !.deftri = [s \in Syms |-> IF s \in ToSet(D.members[c]) \ u.user THEN no ELSE @[s]],
              !.user = @ \cup {c}, !.valid = @ \ {c}]
TakeOnly(u, c, one) ==
    [u EXCEPT !.deftri = [s \in Syms |-> IF s = one THEN yes ELSE IF s \in ToSet(D.members[c]) THEN no ELSE @[s]],
              !.defval = Put(@, c, <<one>>), !.user = @ \cup {c}, !.valid = @ \ {c}]
randomize_choice_values(u, c, rnd) ==
    IF u.tri[c] # yes THEN u ELSE TakeOnly(u, c, D.members[c][(rnd[c] % Len(D.members[c])) + 1])
NewChoice(u, c, mode, rnd) ==
    IF mode = "random" THEN randomize_choice_values(u, c, rnd) ELSE set_all_choice_values(u, c)
conf_set_all_new_symbols(t, mode, rnd) ==
    FoldLeft(LAMBDA u, c : IF c \in u.user \/ ~sym_is_choice(c) THEN u
                           ELSE NewChoice(sym_calc_value(u, c), c, mode, rnd),
             sym_clear_all_valid(SetNew(t, {s \in Syms : s \notin t.user /\ Tri(s)}, mode, rnd)),
             Reverse(D.order))

-----------------------------------------------------------------------------
(* A session; it starts without a .config, which counts as a change.         *)

SymInit == /\ db \in Databases
           /\ k = [EmptyTable EXCEPT !.changed = TRUE] /\ file = << >> /\ sets = 0 /\ late = FALSE

Step == sets < MaxSets /\ sets' = sets + 1 /\ UNCHANGED db

(* A front end shows a symbol (menu_is_visible), or a whole menu. *)
Look(s) == /\ s \in D.shown \ k.valid
           /\ k' = sym_calc_value(k, s)
           /\ UNCHANGED <<db, file, sets, late>>
LookAll == /\ Syms \ k.valid # {}
           /\ k' = CalcAll(k)
           /\ UNCHANGED <<db, file, sets, late>>

(* The user's value of a symbol shown; no front end offers the choice of a   *)
(* value that is not there.  A set that leaves the cache is remembered.      *)
SetTo(r, s, counts) == /\ r[2] /\ k' = r[1]
               /\ late' = (r[1].valid = k.valid /\ (late \/ counts))
               /\ Step /\ UNCHANGED file
SetTristate(s, v) == Tri(s) /\ s \in k.valid
                     /\ SetTo(sym_set_tristate_value(k, s, v), s, k.modules # no)
Toggle(s) == /\ Tri(s) /\ s \in k.valid /\ sym_is_changable(k, s)
             /\ SetTo(sym_toggle_tristate_value(k, s), s, k.modules # no)
SetNumber(s, n) == ~Tri(s) /\ s \in k.valid /\ k.vis[s] # no
                   /\ SetTo(sym_set_string_value(k, s, <<n>>), s, s \notin k.user)

SetAll(mode, rnd) == /\ k' = conf_set_all_new_symbols(k, mode, rnd)
                     /\ late' = (mode = "random")
                     /\ Step /\ UNCHANGED file

Save == /\ k' = [WriteMenus(k)[1] EXCEPT !.changed = FALSE]
        /\ file' = WriteMenus(k)[2]
        /\ Step /\ UNCHANGED late
Load(f) == k' = conf_read(k, f) /\ file' = f /\ late' = FALSE /\ Step

(* What rand() answers: one number for the choices, one for the others (a    *)
(* bound; alone it allows every value of each).                              *)
Random == {[s \in Syms |-> IF sym_is_choice(s) THEN p ELSE v] : p, v \in no..yes}

SymNext == \/ \E s \in Syms : Look(s) \/ Toggle(s) \/ (\E v \in no..yes : SetTristate(s, v))
                              \/ (\E n \in Numbers : SetNumber(s, n))
           \/ \E mode \in {"yes", "mod", "no", "default", "random"} :
                 \E rnd \in IF mode = "random" THEN Random ELSE {[s \in Syms |-> no]} :
                     SetAll(mode, rnd)
           \/ LookAll \/ Save \/ (\E f \in D.files \cup {file} : Load(f))
SymSpec == SymInit /\ [][SymNext]_symvars

-----------------------------------------------------------------------------
(* Properties *)

Values(t) == [s \in Syms |-> IF Tri(s) THEN <<t.tri[s]>> ELSE t.val[s]]

(* The mode of a choice of tristates does not last: when a value that can    *)
(* be seen was never set, to compute the choice forgets that the user set    *)
(* it (symbol.c:276), and the next computation begins from m again.          *)
TristateChoice == \E c \in Syms : sym_is_choice(c) /\ D.type[c] = "tri"

(* Whatever was looked at before, and in whatever order, a cached value is   *)
(* the one a new computation gives.  (Not so after a set that kept the       *)
(* cache, symbol.c:511 and :665, and after randconfig, which forgets the     *)
(* choice but not its values, confdata.c:1067.)                              *)
AgreesWith(values, anew) == \A s \in k.valid : values[s] = anew[s]
CacheIsRight == ~late /\ ~TristateChoice => AgreesWith(Values(k), Values(Fresh(k)))

(* The value of e when every symbol has its final value. *)
RECURSIVE Given(_, _)
Given(t, e) ==
    CASE e = None -> yes
      [] e # None /\ e[1] = "sym" -> IF e[2] \in Syms THEN t.tri[e[2]] ELSE ConstTri(e[2])
      [] e # None /\ e[1] = "not" -> 2 - Given(t, e[2])
      [] e # None /\ e[1] = "and" -> Min2(Given(t, e[2]), Given(t, e[3]))
      [] e # None /\ e[1] = "or"  -> Max2(Given(t, e[2]), Given(t, e[3]))
      [] e # None /\ e[1] \in {"eq", "ne"} ->
            IF (e[1] = "eq") = (StringOf(t, e[2]) = <<ConstTri(e[3])>>) THEN yes ELSE no
Seen(t, s) == \E i \in DOMAIN D.prompts[s] : Given(t, D.prompts[s][i]) # no

(* A selected symbol has at least the value of what selects it, and one no   *)
(* prompt is shown of has nothing of the user: its value is the selection    *)
(* or its first default.                                                     *)
SelectedBy(t, s) == IF D.rev[s] = None THEN no ELSE Given(t, D.rev[s])
FirstDefault(t, s) ==
    SelectInSeq(D.defaults[s], LAMBDA d : Given(t, d[2]) # no)
DefaultOf(t, s, i) ==
    IF i = 0 \/ sym_is_choice(s) THEN no
    ELSE Min2(Given(t, D.defaults[s][i][1]), Given(t, D.defaults[s][i][2]))
SelectHolds(t, s, by) ==
    /\ t.tri[s] >= by
    /\ ~Seen(t, s) => (t.tri[s] # no <=> Max2(by, DefaultOf(t, s, FirstDefault(t, s))) # no)
SelectsHoldIn(t) == \A s \in Syms : Tri(s) /\ ~sym_is_choice_value(s) => SelectHolds(t, s, SelectedBy(t, s))
SelectsHold == SelectsHoldIn(Fresh(k))

(* Of a choice that is y and shows a value exactly one value is y, and it    *)
(* is shown; of one that is n none is set.                                   *)
OneOf(t, c, members, on) ==
    /\ t.tri[c] = yes /\ (\E s \in members : Seen(t, s))
         => \E s \in members : on = {s} /\ t.tri[s] = yes /\ Seen(t, s)
    /\ t.tri[c] = no => on = {}
OneOfAChoiceIn(t) ==
    \A c \in Syms : sym_is_choice(c) =>
        OneOf(t, c, ToSet(D.members[c]), {s \in ToSet(D.members[c]) : t.tri[s] # no})
OneOfAChoice == OneOfAChoiceIn(Fresh(k))

(* What is saved, in full or as the minimal configuration, is what is seen   *)
(* after it is loaded.  (The sets of one make TLC take the steps in turn.)   *)
ComesBack(lines, t) == \A r \in {conf_read(EmptyTable, lines)} : Values(Fresh(r)) = Values(t)
SavedComesBack == \A t \in {Fresh(k)} : \A lines \in {WriteMenus(t)[2]} : ComesBack(lines, t)
MinimalComesBack ==
    ~TristateChoice => \A t \in {Fresh(k)} :
                           \A lines \in {conf_write_defconfig(t)[2]} : ComesBack(lines, t)

(* While the program says there is nothing to save, to load the file again   *)
(* shows what it shows.  (The lines may be others: the values of a choice    *)
(* that was shown before and is hidden now are written, since only           *)
(* conf_write clears their SYMBOL_WRITE, symbol.c:322.)                      *)
UnchangedIsSaved ==
    ~k.changed /\ ~late => ComesBack(file, Fresh(k))

(* A value the user sets is the value the user then sees. *)
SetIsSeen ==
    \A s \in Syms, v \in no..yes :
        ~late /\ SetTristate(s, v) /\ v # k.tri[s] => Fresh(k').tri[s] = v
SetTakesEffect == [][SetIsSeen]_symvars

(* "find a random value and set it to yes, set the rest to no so we have     *)
(* only one set" (confdata.c:1063): the file conf --randconfig writes gives  *)
(* no choice two values that are y.  (A choice within a value of another     *)
(* one is met first and caches that value, which the outer choice, drawn     *)
(* after it, does not clear.)                                                *)
OneEach(lines) == \A c \in Syms : Cardinality({s \in ToSet(D.members[c]) : <<s, yes>> \in lines}) <= 1
OnlyOneSet == [][\A rnd \in Random : SetAll("random", rnd) => OneEach(ToSet(WriteMenus(k')[2]))]_symvars
=============================================================================
