---------------------------- MODULE KconfigConf ----------------------------
(***************************************************************************)
(* The line-oriented configurator (scripts/kconfig/conf.c), which          *)
(* make oldconfig and make config run: it walks the menus, asks for what   *)
(* has no value of the user yet, or for everything, and begins again until *)
(* a walk has found nothing new.  An answer changes what is seen further   *)
(* on and further up.  The menus are those of a database of KconfigSymbol: *)
(* one menu with an entry per symbol, the values of a choice below it.     *)
(***************************************************************************)
EXTENDS KconfigSymbol

VARIABLES mode,     \* input_mode, "oldaskconfig" until all was asked once
          ask,      \* the entry conf() is at, 0 when it is not running
          chk,      \* the entry check_conf() is at
          cnt,      \* conf_cnt # 0
          over,     \* the answers are written
          walks     \* history: how often a menu was asked because of something new
confvars == <<symvars, mode, ask, chk, cnt, over, walks>>

LastEntry == Len(D.order)
Visible(t, s) == t.vis[s] # no
AllSeen(t, s) == FoldLeft(sym_calc_value, sym_calc_value(t, s), D.members[s])

ConfInit == /\ db \in Databases /\ sets = 0 /\ late = FALSE /\ over = FALSE /\ cnt = FALSE /\ walks = 0
            /\ file \in D.files \cup {<< >>}
            /\ k = EmptyTable /\ mode \in {"oldaskconfig", "oldconfig"} /\ ask = 0 /\ chk = 0

(* main reads .config; the first walk asks, or only looks for new symbols. *)
ConfRead == /\ ask = 0 /\ chk = 0
            /\ k' = conf_read(k, file)
            /\ ask' = IF mode = "oldaskconfig" THEN 1 ELSE 0
            /\ chk' = IF mode = "oldaskconfig" THEN 0 ELSE 1
            /\ UNCHANGED <<db, file, sets, late, mode, cnt, over, walks>>

(* conf_askvalue: is the user asked? *)
Asked_Again(t, s) == sym_is_changable(t, s)
Asked(t, s) == sym_is_changable(t, s) /\ (mode = "oldaskconfig" \/ s \notin t.user)

(* What the table may be after the question; a value that is not accepted  *)
(* is asked for again.                                                     *)
conf_sym(t, s) ==
    IF ~Asked(t, s) THEN {t}
    ELSE {sym_set_tristate_value(t, s, v)[1] :
              v \in {v \in no..yes : sym_set_tristate_value(t, s, v)[2]}}
conf_string(t, s) ==
    IF ~Asked(t, s) THEN {t}
    ELSE LET answers == {t.val[s]} \cup {<<n>> : n \in Numbers}
         IN {sym_set_string_value(t, s, v)[1] :
                 v \in {v \in answers : sym_set_string_value(t, s, v)[2]}}

(* The mode of the choice, then one of the values that can be seen: the    *)
(* user's, or the present one again when the choice is not new.            *)
conf_choice(t0, c) ==
    LET modes == IF sym_is_changable(t0, c)
                 THEN {AllSeen(t, c) : t \in conf_sym(t0, c)} ELSE {AllSeen(t0, c)}
        Offered(t) == {s \in Syms : c \in ChoiceOf(s) /\ Visible(t, s)}
        Values1(t) == IF mode = "oldaskconfig" \/ c \notin t0.user \/ Cardinality(Offered(t)) = 1
                      THEN Offered(t) ELSE {s \in Offered(t) : t.val[c] = <<s>>}
    IN UNION {IF t.tri[c] # yes THEN {t}
              ELSE {sym_set_tristate_value(t, s, yes)[1] : s \in Values1(t)} : t \in modes}

(* What the table may be after conf() of an entry. *)
Answered(s) ==
    LET t == sym_calc_value(k, s)
        inChoice == sym_is_choice_value(s) /\ t.tri[Choice(s)] # mod
    IN IF ~Visible(t, s) \/ inChoice THEN {t}
       ELSE IF sym_is_choice(s) THEN conf_choice(AllSeen(t, s), s)
       ELSE IF Tri(s) THEN conf_sym(t, s) ELSE conf_string(t, s)

Conf ==
    /\ ask \in 1..LastEntry
    /\ ask' = ask + 1
    /\ k' \in Answered(D.order[ask])
    /\ UNCHANGED <<db, file, sets, late, mode, chk, cnt, over, walks>>

ConfReturns ==
    /\ ask = LastEntry + 1
    /\ ask' = 0 /\ chk' = chk + 1 /\ mode' = "oldconfig"
    /\ UNCHANGED <<symvars, cnt, over, walks>>

(* Does the symbol have to be asked for?                                   *)
IsNew(t, s) == /\ Visible(t, s) /\ s \notin t.user
               /\ sym_is_changable(t, s) \/ (sym_is_choice(s) /\ t.tri[s] = yes)

(* A new symbol is found: its menu is asked from the top. *)
check_conf ==
    /\ ask = 0 /\ chk \in 1..LastEntry
    /\ LET s == D.order[chk]
           t == AllSeen(sym_calc_value(k, s), s)
           new == IsNew(t, s)
       IN /\ k' = t
          /\ ask' = IF new THEN 1 ELSE 0
          /\ chk' = IF new THEN chk ELSE chk + 1
          /\ cnt' = (cnt \/ new)
          /\ walks' = IF new THEN walks + 1 ELSE walks
    /\ UNCHANGED <<db, file, sets, late, mode, over>>

(* What was asked may have made an earlier entry visible.                  *)
Again_Never == FALSE
Again == cnt

CheckAgain == /\ ask = 0 /\ chk = LastEntry + 1 /\ Again
              /\ chk' = 1 /\ cnt' = FALSE
              /\ UNCHANGED <<symvars, mode, ask, over, walks>>

Finish == /\ ask = 0 /\ chk = LastEntry + 1 /\ ~Again /\ ~over
          /\ over' = TRUE
          /\ k' = [WriteMenus(k)[1] EXCEPT !.changed = FALSE]
          /\ file' = WriteMenus(k)[2]
          /\ UNCHANGED <<db, sets, late, mode, ask, chk, cnt, walks>>

ConfNext == ConfRead \/ Conf \/ ConfReturns \/ check_conf \/ CheckAgain \/ Finish
ConfSpec == ConfInit /\ [][ConfNext]_confvars

-----------------------------------------------------------------------------
(* Whatever is answered, the questions come to an end: each walk answers   *)
(* something for good, so that no more than one is made for a symbol       *)
(* (conf.c:623, "until a loop caused no more changes"), and every question *)
(* has an answer that is accepted.                                         *)
QuestionsEnd == /\ walks <= Cardinality(Syms)
                /\ ask \in 1..LastEntry => Answered(D.order[ask]) # {}

(* In the end nothing the user can change is without a value of the user,  *)
(* and the file read again shows the same values.                          *)
AllAnswered ==
    over =>
        /\ \A s \in Syms : s \notin Fresh(k).user /\ ~sym_is_choice(s) =>
               ~sym_is_changable(Fresh(k), s)
        /\ Values(Fresh(conf_read(EmptyTable, file))) = Values(Fresh(k))

(* Bringing a file up to date never changes an answer that was given.      *)
KeepsAnswers ==
    mode = "oldconfig" =>
        \A s \in k.user : ~sym_is_choice(s) =>
            /\ s \in k'.user /\ k'.defval[s] = k.defval[s]
            /\ ~sym_is_choice_value(s) => k'.deftri[s] = k.deftri[s]
AnswersKept == [][KeepsAnswers]_confvars
=============================================================================
