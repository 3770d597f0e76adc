---------------------------- MODULE KconfigViews ----------------------------
(***************************************************************************)
(* The menus of the four interactive configurators (mconf.c, nconf.c,        *)
(* gconf.c, qconf.cc) over the tree of KconfigMenu and the symbols of        *)
(* KconfigSymbol: what each shows, how its user moves, and what its keys     *)
(* and clicks do.  mconf and nconf build the list of the current menu anew   *)
(* after each key; gconf and qconf keep their rows and correct them, by the  *)
(* flags SYMBOL_CHANGED and MENU_CHANGED.                                    *)
(***************************************************************************)
EXTENDS KconfigMenu, KconfigSymbol

CONSTANTS Sources,      \* set of root entries, as written
          Programs      \* some of "mconf", "nconf", "gconf", "qconf"
ASSUME SourcesAssumption == \A s \in Sources : NothingIsFreed(s, None, << >>)

VARIABLES src,      \* the tree as written, one of Sources
          menus,    \* the tree after menu_finalize; db is its database
          links,    \* and what finds one of its entries
          prog,     \* the configurator
          view,     \* mconf, nconf: "single" for single_menu_mode; gconf, qconf: "single", "split", "full"
          opt,      \* which entries are shown: "normal", "prompt" or "all"
          path,       \* the menus the user went into, the current one last
          unfolded, \* menus with data, in single_menu_mode
          browsed,  \* gconf: the menu shown beside the list, in the split view
          rows,     \* gconf, qconf: the rows of the main list
          side,     \* and of the one beside it, in the split view
          chg,      \* symbols with SYMBOL_CHANGED
          mark,     \* symbols whose entries have MENU_CHANGED
          cut       \* history: update_tree returned before the end
viewvars == <<db, k, file, sets, late, src, menus, links, prog, view, opt, path, unfolded, browsed, rows, side, chg, mark, cut>>

(* The pointers of the tree, and the entries with MENU_ROOT: menus in menus, *)
(* and what is in no menu. *)
RECURSIVE Rooted(_, _)
Rooted(m, inMenu) ==
    {m.n} \cup UNION {IF c.ask = "menu" THEN Rooted(c, TRUE) ELSE IF inMenu THEN {} ELSE Rooted(c, FALSE)
                      : c \in ToSet(m.list)}
LinksOf(root) ==
    LET all == ToSet(Preorder(root))
        names == {m.n : m \in all}
        Named(n) == CHOOSE m \in all : m.n = n
        Holds(m, n) == \E i \in DOMAIN m.list : m.list[i].n = n
    IN [entry  |-> [n \in names |-> Named(n)],
        parent |-> [n \in names \ {root.n} |-> (CHOOSE m \in all : Holds(m, n)).n],
        root   |-> Rooted(root, FALSE)]

Entry(n) == links.entry[n]
Entries == {Entry(n) : n \in DOMAIN links.entry}
Within(m) == ToSet(m.list)
Parent(n) == Entry(links.parent[n])
fixup_rootmenu == links.root
Root == menus.n
Current == path[Len(path)]

-----------------------------------------------------------------------------
(* menu.c: is an entry to be seen?  The symbols are computed (a display      *)
(* computes what it shows, and whatever else is computed changes nothing:    *)
(* CacheIsRight); the condition of a prompt has the value it had then.       *)

PromptOf(t, m) == Given(t, m.cond)

RECURSIVE menu_is_visible(_, _)
(* Broken: what is in the entry is not looked at.                            *)
menu_is_visible_Shallow(t, m) ==
    m.ask # "none" /\ Given(t, m.vis) # no /\ PromptOf(t, m) # no
menu_is_visible(t, m) ==
    /\ m.ask # "none" /\ Given(t, m.vis) # no
    /\ \/ PromptOf(t, m) # no
       \/ m.sym # "" /\ t.tri[m.sym] # no /\ \E c \in Within(m) : menu_is_visible(t, c)

(* The symbols it makes the user's on the way: those without a prompt that   *)
(* stay for what is in them.                                                 *)
RECURSIVE MadeUsers(_, _)
MadeUsers(t, m) ==
    LET shown == {i \in DOMAIN m.list : menu_is_visible(t, m.list[i])}
        looked == {i \in DOMAIN m.list : \A j \in shown : i <= j}
    IN IF m.ask = "none" \/ Given(t, m.vis) = no \/ PromptOf(t, m) # no \/ m.sym = "" THEN {}
       ELSE IF t.tri[m.sym] = no THEN {}
       ELSE (IF shown # {} THEN {m.sym} ELSE {}) \cup UNION {MadeUsers(t, m.list[i]) : i \in looked}

Looked(t) == LET u == CalcAll(t) IN [u EXCEPT !.user = @ \cup UNION {MadeUsers(u, m) : m \in Entries}]

(* Where a choice or a menu has a visible entry for the chosen value.        *)
ChosenEntry(t, m) == LET all == SelectSeq(m.list, LAMBDA c : menu_is_visible(t, c) /\ t.val[m.sym] = <<c.sym>>)
                     IN IF all = << >> THEN << >> ELSE <<all[Len(all)]>>

(* What a set did to the flags, as <<SYMBOL_CHANGED, newly flagged>>: the     *)
(* symbol when it had no value of the user, each symbol whose value,         *)
(* visibility or selection changed, and the values of a flagged choice that  *)
(* was computed again.                                                       *)
Differ(t0, t1) ==
    IF t0.modules # t1.modules THEN Syms
    ELSE {x \in Syms : \/ t0.tri[x] # t1.tri[x] \/ t0.val[x] # t1.val[x]
                       \/ t0.vis[x] # t1.vis[x] \/ t0.dir[x] # t1.dir[x] \/ t0.rev[x] # t1.rev[x]}
sym_set_changed(s, t0, set, t1) ==
    LET new == Differ(t0, t1) \cup ({s} \ t0.user)
        again == IF set.valid = t0.valid THEN {}
                 ELSE UNION {ToSet(D.members[c]) : c \in chg \cup new}
    IN <<chg \cup new \cup again, new \cup again>>

-----------------------------------------------------------------------------
(* mconf and nconf: the items of a menu, each <<entry, tag>>, with the tag   *)
(* "hidden" for what was looked at and is no item.                           *)

Hides(t, m) == IF opt = "all" THEN prog = "mconf" /\ m.ask = "none" ELSE ~menu_is_visible(t, m)

RECURSIVE build_conf(_, _, _)
build_conf(t, top, m) ==
    LET Below == FlattenSeq([i \in DOMAIN m.list |-> build_conf(t, top, m.list[i])])
        Row(tag) == << <<m.n, tag>> >>
        chosen == ChosenEntry(t, m)
    IN IF Hides(t, m) THEN Row("hidden")
       ELSE IF m.sym = "" THEN
            CASE m.ask = "none" \/ m.n = top -> Below
              [] m.ask = "comment" -> Row(":") \o Below
              [] m.ask = "menu" /\ m.n # top ->
                     Row("m") \o (IF view = "single" /\ m.n \in unfolded THEN Below ELSE << >>)
       ELSE IF m.choice THEN
            Row(IF sym_is_changable(t, m.sym) \/ chosen # << >> THEN "t" ELSE ":")
            \o (IF t.tri[m.sym] # yes THEN Below
                ELSE IF chosen = << >> \/ chosen[1].list = << >> THEN << >>
                ELSE build_conf(t, top, chosen[1]))
       ELSE IF m.n = top THEN Row(":") \o Below
       ELSE Row(IF sym_is_choice_value(m.sym) /\ t.tri[m.sym] = yes THEN ":"
                ELSE IF Tri(m.sym) THEN "t" ELSE "s")
            \o (IF m.ask = "menu" /\ Tri(m.sym) THEN << >> ELSE Below)

ItemsOf(t, n) == {it \in ToSet(build_conf(t, n, Entry(n))) : it[2] # "hidden"}

(* conf_choice: the values of a choice that are offered *)
ChoiceItems(t, c) == {m \in Within(c) : (prog = "nconf" /\ opt = "all") \/ menu_is_visible(t, m)}

(* What the user may do to a symbol, as results of the sets. *)
KeyYes(s) == LET r == sym_set_tristate_value(k, s, yes)
             IN IF r[2] THEN r ELSE sym_set_tristate_value(k, s, mod)
(* A bound: MaxSets of them in a session. *)
MaySet == sets < MaxSets
KeysOf(s) == {KeyYes(s), sym_set_tristate_value(k, s, no), sym_set_tristate_value(k, s, mod),
              sym_toggle_tristate_value(k, s)}
ChosenSets(c) == {sym_set_tristate_value(k, m.sym, yes) : m \in {m \in ChoiceItems(k, c) : m.sym # ""}}
StringSets(s) == {sym_set_string_value(k, s, <<n>>) : n \in Numbers}

Takes(r, s) == /\ r[2] /\ sets' = sets + 1
               /\ k' = Looked(r[1])
               /\ late' = (late \/ r[1].valid = k.valid)
               /\ UNCHANGED <<db, file, src, menus, links, prog>>
Goes == UNCHANGED <<db, k, file, sets, late, src, menus, links, prog>>
NoRows == UNCHANGED <<browsed, rows, side, chg, mark, cut>>

(* A key in the current menu: the list is built anew, and child_count, which *)
(* is never set back to 0, does not end it when nothing is left to show.     *)
TextKey(it) ==
    LET m == Entry(it[1])  s == m.sym
    IN \/ /\ it[2] = "t" /\ MaySet
          /\ \/ \E r \in KeysOf(s) : Takes(r, s)
             \/ m.choice /\ k.tri[s] = yes /\ \E r \in ChosenSets(m) : Takes(r, s)
          /\ UNCHANGED <<path, unfolded>>
       \/ /\ it[2] = "s" /\ MaySet /\ UNCHANGED <<path, unfolded>>
          /\ \E r \in StringSets(s) : Takes(r, s)
       \/ /\ it[2] = "m" /\ view = "single"
          /\ unfolded' = IF m.n \in unfolded THEN unfolded \ {m.n} ELSE unfolded \cup {m.n}
          /\ UNCHANGED path /\ Goes
       \/ /\ \/ it[2] = "m"         \* by the space key, whatever the mode
             \/ it[2] = "t" /\ m.ask = "menu" /\ ~m.choice
          /\ path' = Append(path, m.n)
          /\ UNCHANGED unfolded /\ Goes

mconf_conf == /\ prog = "mconf" /\ \E it \in ItemsOf(k, Current) : TextKey(it)
              /\ UNCHANGED <<view, opt>> /\ NoRows
(* nconf looks again whether the item can be seen. *)
nconf_conf == /\ prog = "nconf"
              /\ \E it \in ItemsOf(k, Current) : menu_is_visible(k, Entry(it[1])) /\ TextKey(it)
              /\ UNCHANGED <<view, opt>> /\ NoRows
TextBack == /\ prog \in {"mconf", "nconf"} /\ Len(path) > 1 /\ path' = Front(path)
            /\ UNCHANGED <<view, opt, unfolded>> /\ Goes /\ NoRows
(* mconf's z and nconf's F4 *)
show_all == /\ prog \in {"mconf", "nconf"} /\ opt' = IF opt = "all" THEN "normal" ELSE "all"
            /\ UNCHANGED <<view, path, unfolded>> /\ Goes /\ NoRows
-----------------------------------------------------------------------------
(* gconf and qconf keep rows [n |-> entry, d |-> what is drawn, kids |-> the  *)
(* rows below].                                                              *)

RECURSIVE RowNames(_)
RowNames(rs) == UNION {{rs[i].n} \cup RowNames(rs[i].kids) : i \in DOMAIN rs}
InRows(rs) == RowNames(rs) \ {".."}

Offers(t, s) == {v \in no..yes : v # t.tri[s] /\ sym_tristate_within_range(t, s, v)}

(* Is an entry shown in this option mode?  (A configurator prompts with the  *)
(* name of the symbol when there is nothing else.)                           *)
Placed(t, m) == CASE opt = "normal" -> menu_is_visible(t, m)
                  [] opt = "prompt" -> m.ask # "none"
                  [] opt = "all"    -> m.ask # "none" \/ m.sym # ""

-----------------------------------------------------------------------------
(* gconf *)

fill_row(t, m) ==
    [new   |-> m.sym # "" /\ m.sym \notin t.user,
     grey  |-> opt # "normal" /\ ~menu_is_visible(t, m),
     value |-> IF m.sym = "" THEN << >> ELSE IF ~Tri(m.sym) THEN <<"val", t.val[m.sym]>>
               ELSE IF m.choice /\ sym_get_type(t, m.sym) = "bool" THEN <<"of", ChosenEntry(t, m) # << >>, t.val[m.sym]>>
               ELSE <<"tri", t.tri[m.sym]>>,
     may   |-> IF m.sym = "" \/ ~Tri(m.sym) THEN {} ELSE Offers(t, m.sym)]

(* Does display_tree show c of m, and what is in c?  left is for the list on *)
(* the left of the split view.                                               *)
Listed(how, c, left) == how = "split" => (c.n \in fixup_rootmenu) = left
Descends(how, m, c, left) == /\ Listed(how, c, left)
                             /\ how # "full" /\ c.ask = "menu" => left
                             /\ how = "single" => m.n \in fixup_rootmenu
RECURSIVE display_tree(_, _, _, _)
display_tree(t, how, m, left) ==
    LET Of(c) == LET kids == IF Descends(how, m, c, left) THEN display_tree(t, how, c, left) ELSE << >>
                 IN IF Listed(how, c, left) /\ Placed(t, c)
                    THEN << [n |-> c.n, d |-> fill_row(t, c), kids |-> kids] >> ELSE kids
    IN FlattenSeq([i \in DOMAIN m.list |-> Of(m.list[i])])
(* It clears the flag of all it looks at. *)
RECURSIVE Cleared(_, _, _)
Cleared(how, m, left) ==
    UNION {{c.sym} \cup (IF Descends(how, m, c, left) THEN Cleared(how, c, left) ELSE {}) : c \in Within(m)}

(* The rows dst of an entry brought up to date, from the i-th on, for the    *)
(* rest of its list: the rows, the symbols drawn again, and whether it       *)
(* returned before the end of the list.                                      *)
RECURSIVE update_tree(_, _, _, _, _)
update_tree(t, flagged, rest, dst, i) ==
    LET c == rest[1]
        here == i <= Len(dst) /\ dst[i].n = c.n
        there == c.n \in RowNames(dst)
        (* the row at i goes, and with the last one the update ends *)
        Dropped(done) == IF i >= Len(dst)
                         THEN [rows |-> SubSeq(dst, 1, i - 1), drawn |-> {}, cut |-> done # << >>]
                         ELSE update_tree(t, flagged, rest, RemoveAt(dst, i), i)
    IN IF rest = << >> THEN [rows |-> dst, drawn |-> {}, cut |-> FALSE]
       ELSE IF ~Placed(t, c) THEN IF there THEN Dropped(Tail(rest))
                                  ELSE update_tree(t, flagged, Tail(rest), dst, i)
       ELSE IF ~here /\ there THEN Dropped(rest)
       ELSE LET draw == ~here \/ c.sym \in flagged
                row  == [n |-> c.n, d |-> IF draw THEN fill_row(t, c) ELSE dst[i].d,
                         kids |-> IF here THEN dst[i].kids ELSE << >>]
                sub  == update_tree(t, flagged, c.list, row.kids, 1)
                new  == [row EXCEPT !.kids = sub.rows]
                rest1 == update_tree(t, flagged, Tail(rest),
                                     IF here THEN [dst EXCEPT ![i] = new] ELSE InsertAt(dst, i, new), i + 1)
            IN [rows |-> rest1.rows, cut |-> sub.cut \/ rest1.cut,
                drawn |-> rest1.drawn \cup sub.drawn \cup (IF draw THEN {c.sym} ELSE {})]

display_list(t) == display_tree(t, "split", menus, TRUE)
Part(how, cur) == IF how = "single" THEN Entry(cur) ELSE Entry(browsed)
display_tree_part(t, how, cur) == display_tree(t, how, Part(how, cur), FALSE)

GconfOnly == prog = "gconf" /\ UNCHANGED <<unfolded, mark>>
(* Without it the program follows a null pointer (gconf.c:856, :1434): when  *)
(* the option mode is set in the split view before anything was clicked.     *)
HasBrowsed == view = "split" => browsed # ""
(* After a set the rows are corrected in the full and the split view and     *)
(* displayed anew in the single one; a number typed corrects them from the   *)
(* root in every view.  (A bound: values are set in the normal option mode,  *)
(* and once in a session outside of the full view.)                          *)
GconfSets(r, s, whole) ==
    LET flagged == sym_set_changed(s, k, r[1], k')[1]
        anew == ~whole /\ view = "single"
        from == IF whole \/ view = "full" THEN menus ELSE Entry(browsed)
        u == update_tree(k', flagged, from.list, rows, 1)
    IN /\ view # "full" => sets = 0
       /\ whole \/ HasBrowsed
       /\ Takes(r, s)
       /\ rows' = IF anew THEN display_tree_part(k', view, Current) ELSE u.rows
       /\ cut' = IF anew THEN cut ELSE cut \/ u.cut
       /\ chg' = flagged \ IF anew THEN {Entry(n).sym : n \in RowNames(rows')} ELSE u.drawn
       /\ side' = IF whole \/ view # "split" THEN side ELSE display_list(k')
       /\ path' = IF whole \/ view # "split" THEN path ELSE <<Root>>
       /\ UNCHANGED <<view, opt, browsed>>

change_sym_value(m, v) ==
    GconfSets(sym_set_tristate_value(k, m.sym, IF sym_tristate_within_range(k, m.sym, v) THEN v ELSE yes),
              m.sym, FALSE)
(* Of whatever type: a number then has an empty value of the user's.         *)
toggle_sym_value(m) == GconfSets(sym_toggle_tristate_value(k, m.sym), m.sym, FALSE)
renderer_edited(m) == \E r \in StringSets(m.sym) : GconfSets(r, m.sym, TRUE)

GconfKey ==
    /\ GconfOnly /\ opt = "normal" /\ MaySet
    /\ \E n \in InRows(rows) :
          LET m == Entry(n)
          IN /\ m.sym # ""
             /\ \/ toggle_sym_value(m)
                \/ Tri(m.sym) /\ \E v \in no..yes : change_sym_value(m, v)
                \/ ~Tri(m.sym) /\ renderer_edited(m)

(* Moving: the rows are displayed anew, with the flags cleared. *)
GconfShows(how, cur, left, main, cleared) ==
    /\ Goes /\ view' = how /\ path' = <<cur>> /\ side' = left /\ rows' = main
    /\ chg' = chg \ cleared /\ cut' = FALSE

(* The hidden list on the left is left out, and what was browsed before the  *)
(* split view (a bound: it is shown again once an option mode was set).      *)
on_single_clicked ==
    /\ GconfOnly /\ browsed' = "" /\ UNCHANGED opt
    /\ GconfShows("single", Root, << >>, display_tree_part(k, "single", Root), Cleared("single", menus, FALSE))
on_split_clicked ==
    /\ GconfOnly /\ browsed' = "" /\ UNCHANGED opt
    /\ GconfShows("split", Root, display_list(k), << >>, Cleared("split", menus, TRUE))
on_full_clicked ==
    /\ GconfOnly /\ browsed' = "" /\ UNCHANGED opt
    /\ GconfShows("full", Root, << >>, display_tree(k, "full", menus, FALSE), Cleared("full", menus, FALSE))
(* Whatever the view, everything is displayed from the root.  (A bound: this *)
(* is done before values are set.)                                           *)
set_option_mode(o) ==
    /\ GconfOnly /\ sets = 0 /\ opt' = o /\ UNCHANGED browsed
    /\ GconfShows(view, Root, side, (display_tree(k, view, menus, FALSE))', Cleared(view, menus, FALSE))
(* A double click on a menu goes into it. *)
on_treeview2_button_press(n) ==
    /\ GconfOnly /\ view # "full" /\ HasBrowsed /\ Entry(n).ask = "menu"
    /\ UNCHANGED <<opt, browsed>>
    /\ GconfShows(view, n, side, display_tree_part(k, view, n), Cleared(view, Part(view, n), FALSE))
(* A click in the list on the left shows the menu on the right, a second one *)
(* toggles its symbol.                                                       *)
on_treeview1_button_press(n) ==
    /\ GconfOnly /\ view = "split"
    /\ browsed' = n /\ UNCHANGED opt
    /\ GconfShows(view, Current, side, display_tree(k, view, Entry(n), FALSE), Cleared(view, Entry(n), FALSE))
on_treeview1_double(n) ==
    LET s == Entry(n).sym
        r == sym_toggle_tristate_value(k, s)
    IN /\ GconfOnly /\ view = "split" /\ browsed = n /\ s # "" /\ opt = "normal"
       /\ MaySet /\ sets = 0 /\ Takes(r, s)
       /\ side' = display_list(k') /\ path' = <<n>> /\ rows' = display_tree_part(k', view, n)
       /\ chg' = sym_set_changed(s, k, r[1], k')[1]
                  \ {Entry(x).sym : x \in RowNames(rows') \cup RowNames(side')}
       /\ cut' = FALSE /\ UNCHANGED <<view, opt, browsed>>
on_back_clicked ==
    LET up == Parent(Current)
        to == IF up.ask = "menu" THEN up.n ELSE Parent(up.n).n
    IN /\ GconfOnly /\ view # "full" /\ Current # Root /\ UNCHANGED <<opt, browsed>>
       /\ GconfShows(view, to, side, display_tree_part(k, view, to), Cleared(view, Part(view, to), FALSE))

-----------------------------------------------------------------------------
(* qconf: d of a row is [pix, cols, data, new].                              *)

QconfMode == IF view = "split" THEN "symbol" ELSE view

menuSkip(t, o, m) == CASE o = "normal" -> ~menu_is_visible(t, m)
                       [] o = "prompt" -> m.ask = "none"
                       [] o = "all"    -> FALSE

Blank == [pix |-> "none", cols |-> {}, data |-> None, new |-> FALSE]
(* A row drawn over what was there: the columns of a menu and the value of   *)
(* what cannot be changed keep their text.                                   *)
updateMenu(t, o, how, root, m, old) ==
    LET s == m.sym
        new == s \notin t.user /\ (m.n = root \/ menu_is_visible(t, m))
        asMenu == m.ask = "menu" /\ IF how \in {"single", "symbol"} THEN s = "" \/ m.n # root ELSE s = ""
        pix == IF sym_is_choice_value(s) /\ sym_get_type(t, s) = "bool" THEN "radio" ELSE "box"
    IN CASE asMenu -> [old EXCEPT !.pix = IF how \in {"single", "symbol"} THEN "menu" ELSE "none", !.new = FALSE]
         [] ~asMenu /\ s = "" -> [old EXCEPT !.pix = "none", !.new = FALSE]
         [] s # "" /\ ~asMenu /\ ~Tri(s) -> [old EXCEPT !.data = t.val[s], !.new = new]
         [] s # "" /\ ~asMenu /\ Tri(s) ->
               IF ~sym_is_changable(t, s) /\ o = "normal"
               THEN [old EXCEPT !.pix = "none", !.cols = {}, !.new = new]
               ELSE [pix |-> pix, cols |-> Offers(t, s), data |-> <<t.tri[s]>>, new |-> new]

RECURSIVE updateMenuList(_, _, _, _, _, _, _)
(* The rows old brought up to date for the entries of list; those of the     *)
(* symbols in flagged are drawn again.                                       *)
(* Broken: the row of an entry that is to be hidden stays.                   *)
updateMenuList_Kept(t, o, how, root, flagged, list, old) ==
    LET c == list[1]
        item == old # << >> /\ old[1].n = c.n
        hide == (how = "menu" /\ c.n \notin fixup_rootmenu) \/ (how = "symbol" /\ c.n \in fixup_rootmenu)
        Go(rs) == updateMenuList(t, o, how, root, flagged, Tail(list), rs)
        was == IF item THEN old[1] ELSE [n |-> c.n, d |-> Blank, kids |-> << >>]
        new == [was EXCEPT !.d = IF item /\ c.sym \notin flagged THEN @
                                 ELSE updateMenu(t, o, how, root, c, @),
                           !.kids = IF how \in {"full", "menu"} \/ c.ask # "menu"
                                    THEN updateMenuList(t, o, how, root, flagged, c.list, @) ELSE << >>]
    IN IF list = << >> THEN old
       ELSE IF hide \/ menuSkip(t, o, c) \/ (c.sym = "" /\ c.ask = "none") THEN Go(old)
       ELSE <<new>> \o Go(IF item THEN Tail(old) ELSE old)
updateMenuList(t, o, how, root, flagged, list, old) ==
    LET c == list[1]
        item == old # << >> /\ old[1].n = c.n
        hide == (how = "menu" /\ c.n \notin fixup_rootmenu) \/ (how = "symbol" /\ c.n \in fixup_rootmenu)
        after == IF item THEN Tail(old) ELSE old
        Go(rs) == updateMenuList(t, o, how, root, flagged, Tail(list), rs)
        was == IF item THEN old[1] ELSE [n |-> c.n, d |-> Blank, kids |-> << >>]
        new == [was EXCEPT !.d = IF item /\ c.sym \notin flagged THEN @
                                 ELSE updateMenu(t, o, how, root, c, @),
                           !.kids = IF how \in {"full", "menu"} \/ c.ask # "menu"
                                    THEN updateMenuList(t, o, how, root, flagged, c.list, @) ELSE << >>]
    IN IF list = << >> THEN old
       ELSE IF hide \/ menuSkip(t, o, c) THEN Go(after)
       ELSE IF c.sym = "" /\ c.ask = "none" THEN Go(old)
       ELSE <<new>> \o Go(after)

(* The whole list: a row to go back, the menu's own row, and what is in it.  *)
updateList(t, o, how, root, flagged, old) ==
    LET m == Entry(root)
        up == root # Root /\ (how = "single" \/ (how = "symbol" /\ Parent(root).n # Root))
        own == /\ how = "single" \/ (how = "symbol" /\ root \notin fixup_rootmenu)
               /\ m.sym # "" /\ m.ask # "none"
        back == [n |-> "..", d |-> Blank, kids |-> << >>]
        below == IF old # << >> /\ up THEN Tail(old) ELSE old
        was == IF below # << >> THEN below[1] ELSE [n |-> root, d |-> Blank, kids |-> << >>]
        first == [was EXCEPT !.d = IF below # << >> /\ m.sym \notin flagged THEN @
                                   ELSE updateMenu(t, o, how, root, m, @),
                             !.kids = updateMenuList(t, o, how, root, flagged, m.list, @)]
    IN (IF up THEN <<back>> ELSE << >>)
       \o (IF own THEN <<first>> ELSE updateMenuList(t, o, how, root, flagged, m.list, below))

QconfOnly == prog = "qconf" /\ UNCHANGED <<unfolded, cut>>
Everything == Syms \cup {""}

(* After a set both lists are updated; a flag goes when a row of the entry   *)
(* is met.                                                                   *)
QconfUpdates(s, set) ==
    LET flags == sym_set_changed(s, k, set, k')
        flagged == mark \cup flags[2]
        Met(old, new) == {Entry(n).sym : n \in InRows(old) \cap InRows(new)}
    IN /\ rows' = updateList(k', opt, QconfMode, Current, flagged, rows)
       /\ side' = IF browsed = "" THEN side
                  ELSE updateMenuList(k', "normal", "menu", Root, flagged, menus.list, side)
       /\ mark' = flagged \ (Met(rows, rows') \cup Met(side, side'))
       /\ chg' = flags[1]
(* A value the toggle leaves as it was is drawn with the next update. *)
QconfSets(r, s, shows) ==
    /\ QconfOnly /\ Takes(r, s) /\ UNCHANGED <<view, opt, path, browsed>>
    /\ IF shows THEN QconfUpdates(s, r[1])
       ELSE LET flags == sym_set_changed(s, k, r[1], k')
            IN chg' = flags[1] /\ mark' = mark \cup flags[2] /\ UNCHANGED <<rows, side>>

setValue(s, v) == QconfSets(sym_set_tristate_value(k, s, v), s, TRUE)
okRename(s) == \E r \in StringSets(s) : QconfSets(r, s, TRUE)
changeValue(s) == LET r == sym_toggle_tristate_value(k, s)
                  IN QconfSets(r, s, Looked(r[1]).tri[s] # k.tri[s])
QconfKey ==
    MaySet /\ \E n \in InRows(rows) \cup (IF view = "split" THEN InRows(side) ELSE {}) :
       LET s == Entry(n).sym
       IN s # "" /\ IF Tri(s) THEN changeValue(s) \/ (\E v \in no..yes : setValue(s, v)) ELSE okRename(s)

(* Another menu: its rows are made anew. *)
setRootMenu(n) ==
    /\ QconfOnly /\ n # Current /\ Entry(n).ask = "menu"
    /\ path' = <<n>> /\ rows' = updateList(k, opt, QconfMode, n, Everything, << >>)
    /\ Goes /\ UNCHANGED <<view, opt, browsed, side, chg, mark>>
changeMenu == \/ \E n \in InRows(rows) : view # "full" /\ setRootMenu(n)
              \/ \E n \in InRows(side) : view = "split" /\ setRootMenu(n)
RECURSIVE menu_get_parent_menu(_)
menu_get_parent_menu(m) == IF m.n = Root \/ m.ask = "menu" THEN m.n ELSE menu_get_parent_menu(Parent(m.n))
setParentMenu == Current # Root /\ setRootMenu(menu_get_parent_menu(Parent(Current)))

(* All rows are drawn again and their flags go; those of another menu are    *)
(* made anew.                                                                *)
updateListAll(o, how) ==
    LET old == IF Current = Root THEN rows ELSE << >>
    IN /\ rows' = updateList(k, o, how, Root, Everything, old)
       /\ mark' = mark \ {Entry(n).sym : n \in InRows(old) \cap InRows(rows')}
show_view(how) ==
    LET split == how = "split"
    IN /\ QconfOnly /\ view' = how /\ path' = <<Root>> /\ Goes /\ UNCHANGED <<opt, chg>>
       /\ updateListAll(opt, IF split THEN "symbol" ELSE how)
       /\ browsed' = IF split THEN Root ELSE browsed
       /\ side' = IF split /\ browsed = ""
                  THEN updateMenuList(k, "normal", "menu", Root, Everything, menus.list, << >>) ELSE side
(* A bound: as for gconf. *)
setOptionMode(o) ==
    /\ QconfOnly /\ sets = 0 /\ opt' = o /\ Goes /\ UNCHANGED <<view, path, browsed, side, chg>>
    /\ rows' = updateList(k, o, QconfMode, Current, Everything, rows)
    /\ mark' = mark \ {Entry(n).sym : n \in InRows(rows) \cap InRows(rows')}

-----------------------------------------------------------------------------
(* A session: the tree, and then the symbols computed and the first display. *)

ViewsInit ==
    /\ src \in Sources /\ menus = conf_parse_tree(src)
    /\ db = DatabaseOf(menus) /\ links = LinksOf(menus)
    /\ k = [EmptyTable EXCEPT !.changed = TRUE]
    /\ file = << >> /\ sets = 0 /\ late = FALSE
    /\ prog \in Programs /\ opt = "normal" /\ path = << >> /\ unfolded = {}
    /\ view \in CASE prog = "gconf" -> {"full"} [] prog = "qconf" -> {"single", "full"}
                  [] OTHER -> {"single", "menus"}
    /\ browsed = "" /\ rows = << >> /\ side = << >> /\ chg = {} /\ mark = {} /\ cut = FALSE

main ==
    /\ path = << >> /\ path' = <<Root>> /\ k' = Looked(k)
    /\ rows' = CASE prog = "gconf" -> display_tree(k', view, menus, FALSE)
                 [] prog = "qconf" -> updateList(k', opt, view, Root, {}, << >>)
                 [] OTHER -> << >>
    /\ browsed' = "" /\ chg' = IF prog = "gconf" THEN {} ELSE Differ(k, k')
    /\ mark' = IF prog = "qconf" THEN Differ(k, k') ELSE {}
    /\ UNCHANGED <<db, file, sets, late, src, menus, links, prog, view, opt, unfolded, side, cut>>

Handlers ==
    \/ mconf_conf \/ nconf_conf \/ TextBack \/ show_all
    \/ GconfKey \/ on_single_clicked \/ on_split_clicked \/ on_full_clicked \/ on_back_clicked
    \/ \E n \in InRows(rows) : on_treeview2_button_press(n)
    \/ \E n \in InRows(side) : on_treeview1_button_press(n) \/ on_treeview1_double(n)
    \/ \E how \in {"single", "split", "full"} : show_view(how)
    \/ \E o \in {"normal", "prompt", "all"} : set_option_mode(o) \/ setOptionMode(o)
    \/ QconfKey \/ changeMenu \/ setParentMenu
ViewsNext == main \/ (path # << >> /\ Handlers)
ViewsSpec == ViewsInit /\ [][ViewsNext]_viewvars

-----------------------------------------------------------------------------
(* Properties *)

(* What is written about an entry: its own condition and dependency, those   *)
(* of all it is in, and for a symbol's prompt what the menus around are      *)
(* visible if.  What is in a choice depends on the choice, and one of its    *)
(* values (not what depends on the value before it) on the choice being y    *)
(* when the choice is a tristate and the value is not.                       *)
RECURSIVE Above(_, _)       \* the entries around n in m, the outermost first
Above(m, n) == LET in == {c \in Within(m) : n \in {x.n : x \in ToSet(Preorder(c))}}
               IN IF in = {} THEN << >> ELSE <<m>> \o Above(CHOOSE c \in in : TRUE, n)
Conditions(t, m, prompt) ==
    LET around == Above(src, m.n)
        OfOne(a) == IF a.choice THEN Given(t, Sym(a.sym))
                    ELSE Min2(Given(t, menu_check_dep(a.dep)), Given(t, menu_check_dep(a.cond)))
        Typed(n) == Entry(n).type
        OnlyYes(a) == IF a.choice /\ Typed(a.n) = "tri" /\ Typed(m.n) # "tri" /\ m.sym # "" /\ Parent(m.n).n = a.n
                      THEN Given(t, <<"eq", a.sym, "y">>) ELSE yes
        Visible(a) == IF prompt /\ m.sym # "" THEN Given(t, a.vis) ELSE yes
    IN {Given(t, menu_check_dep(m.dep))} \cup (IF prompt THEN {Given(t, menu_check_dep(m.cond))} ELSE {})
       \cup UNION {{OfOne(a), OnlyYes(a), Visible(a)} : a \in ToSet(around)}
Least(vs) == CHOOSE v \in vs : \A w \in vs : v <= w
Most(vs) == CHOOSE v \in vs : \A w \in vs : v >= w
(* What a menu around a prompt is visible if was rewritten for another one.  *)
Rewritten(m) == \E a \in ToSet(Above(src, m.n)) : Entry(a.n).vis # a.vis
(* A condition of what is no tristate is only a condition: m is as good as y. *)
Agree(type, v, w) == (v = no <=> w = no) /\ (w = yes /\ type = "tri" => v = yes)
TypeAsked(m) == IF Rewritten(m) THEN "bool" ELSE Entry(m.n).type

(* Moving conditions down the tree, dissolving ifs and building submenus     *)
(* changes nothing of what is written: whatever values the symbols have, the *)
(* prompt of each entry is shown, and each select in force, exactly when     *)
(* what is written says so, and the entries stay in their order.  Of a       *)
(* tristate in a menu whose "visible if" was rewritten for another prompt    *)
(* (menu.c:153 and :310) only this is kept: it may be limited to m where y   *)
(* is written.  (Looked at where a session starts; the tree never changes.)  *)
MenuAsWritten ==
    path = << >> /\ prog = "mconf" /\ view = "menus" =>
    LET written == Preorder(src)
        final == Preorder(menus)
        Values3 == {f \in [Syms -> no..yes] : \A s \in Syms : D.type[s] # "tri" => f[s] # mod}
        By(t, s) == {no} \cup UNION {{Least(Conditions(t, m, FALSE) \cup {t.tri[m.sym], Given(t, menu_check_dep(p[2]))})
                                      : p \in {q \in ToSet(m.sel) : q[1] = s}} : m \in ToSet(written)}
    IN /\ [i \in DOMAIN final |-> final[i].n] = [i \in DOMAIN written |-> written[i].n]
       /\ \A f \in Values3 : LET t == [k EXCEPT !.tri = f, !.modules = f[Modules]] IN
            (f[Modules] = no => mod \notin {f[s] : s \in Syms}) =>
            /\ \A m \in ToSet(written) \ {src} :
                  m.ask # "none" => Agree(TypeAsked(m), Given(t, Entry(m.n).cond), Least(Conditions(t, m, TRUE)))
            /\ \A s \in Syms : (\E m \in ToSet(written) : \E p \in ToSet(m.sel) : p[1] = s) =>
                  Agree(D.type[s], Given(t, D.rev[s]), Most(By(t, s)))

(* Wherever the user starts, each symbol with a prompt that may be set can   *)
(* be reached: by going through the menus and choices of mconf and nconf, in *)
(* the tree of gconf's full view, in the lists of qconf.  (gconf's other     *)
(* views do leave entries out: gconf.c:1416 and :989.)                       *)
RECURSIVE TextShown(_)
TextShown(n) ==
    LET its == ItemsOf(k, n)
        Dialog(m) == IF m.choice /\ k.tri[m.sym] = yes THEN {c.n : c \in ChoiceItems(k, m)} ELSE {}
    IN {it[1] : it \in its}
       \cup UNION {Dialog(Entry(it[1])) : it \in {i \in its : i[2] = "t"}}
       \cup UNION {TextShown(it[1]) : it \in {i \in its : i[2] = "m" \/ (i[2] = "t" /\ Entry(i[1]).ask = "menu")}}
RECURSIVE ListShown(_, _, _)
ListShown(how, ns, done) ==
    LET new == UNION {InRows(updateList(k, opt, how, n, Everything, << >>)) : n \in ns}
        next == {n \in new : Entry(n).ask = "menu"} \ (done \cup ns)
    IN new \cup (IF next = {} THEN {} ELSE ListShown(how, next, done \cup ns))
ReachedIn == CASE prog \in {"mconf", "nconf"} -> TextShown(Root)
               [] prog = "gconf" -> InRows(rows)
               [] prog = "qconf" -> IF view = "full" THEN InRows(rows)
                                    ELSE ListShown(QconfMode, {Root} \cup {n \in InRows(side) : Entry(n).ask = "menu"}, {})
                                         \cup InRows(side)
EveryEntryIsShown ==
    path # << >> /\ opt = "normal" /\ (prog = "gconf" => view = "full" /\ ~cut) =>
        \A m \in Entries : m.sym # "" /\ m.ask \in {"prompt", "menu"} /\ PromptOf(k, m) # no
                             => m.n \in ReachedIn

(* The rows that gconf and qconf correct after each key are those they       *)
(* would make anew.  Not so of "(NEW)" after a set of the value that was     *)
(* there, of the columns qconf keeps, and of gconf once update_tree returned *)
(* early or in the views it corrects from another entry than it displays.    *)
RECURSIVE AsSeen(_)
Face(d) == [n |-> IF late THEN FALSE ELSE d.new,
            d |-> IF prog = "gconf" THEN <<d.grey, d.value, d.may>>
                  ELSE CASE d.pix = "menu" -> <<"menu">>
                         [] d.pix = "none" -> <<"none", d.cols>>
                         [] OTHER -> <<d.pix, d.cols, d.data>>]
AsSeen(rs) == [i \in DOMAIN rs |-> <<rs[i].n, Face(rs[i].d), AsSeen(rs[i].kids)>>]
RowsAreCurrent ==
    \/ prog \in {"mconf", "nconf"} \/ opt # "normal" \/ path = << >>
    \/ prog = "gconf" /\ (cut \/ view # "full" \/ AsSeen(rows) = AsSeen(display_tree(k, "full", menus, FALSE)))
    \/ prog = "qconf" /\ AsSeen(rows) = AsSeen(updateList(k, opt, QconfMode, Current, {}, << >>))
                      /\ (browsed # "" => AsSeen(side) = AsSeen(updateMenuList(k, "normal", "menu", Root, {}, menus.list, << >>)))
=============================================================================
