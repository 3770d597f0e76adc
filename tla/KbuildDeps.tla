----------------------------- MODULE KbuildDeps -----------------------------
(***************************************************************************)
(* How an object follows the configuration: conf --silentoldconfig         *)
(* (conf_write_autoconf and conf_split_config of confdata.c) renews        *)
(* auto.conf and autoconf.h and touches include/config/x.h for each symbol *)
(* x whose value changed; scripts/basic/fixdep.c replaces the dependency   *)
(* on autoconf.h by one on include/config/x.h for every word CONFIG_x of   *)
(* the files an object is compiled from.  make (external) compiles what is *)
(* older than what it depends on.  Either may be killed between two steps. *)
(***************************************************************************)
EXTENDS Naturals

CONSTANTS CfgSyms,     \* the symbols
          CfgVals,     \* their values, "no" among them
          SrcFiles,    \* sources and headers
          Objects,     \* [object -> the files it is compiled from]
          Texts,       \* [words, edge]: the words of a file, and those of them
                       \* that only stand at its very beginning or end
          MaxConfigs, MaxEdits, MaxCuts      \* bounds

(* A word is a symbol or, of CONFIG_x_MODULE, a symbol and "_MODULE".      *)
CfgWords == CfgSyms \X {"", "_MODULE"}

ASSUME DepsAssumption ==
    /\ "no" \in CfgVals
    /\ Objects \in [DOMAIN Objects -> SUBSET SrcFiles] /\ "none" \notin DOMAIN Objects
    /\ Texts \subseteq [words : SUBSET CfgWords, edge : SUBSET CfgWords]

VARIABLES dotconf,      \* .config
          auto,         \* include/config/auto.conf: what conf_split_config compares with
          header,       \* include/generated/autoconf.h
          stale,        \* .config is newer than auto.conf
          step, todo,   \* conf_write_autoconf: where it is, symbols to compare
          text,         \* [file -> text]
          newer,        \* [object -> files and stamps that are newer than it]
          deps,         \* [object -> files and stamps in its .o.cmd]
          made,         \* [object -> what it was compiled from, or NoObject]
          now,          \* the object being compiled, or "none"
          configs, edits, cuts
depsvars == <<dotconf, auto, header, stale, step, todo, text, newer, deps, made, now,
              configs, edits, cuts>>
configuring == <<dotconf, auto, header, stale, step, todo>>
compiling == <<text, newer, deps, made, now>>
bounds == <<configs, edits, cuts>>

NoObject == << >>
Obj == DOMAIN Objects
AllNo == [s \in CfgSyms |-> "no"]
Newer(what) == [o \in Obj |-> newer[o] \cup what]

DepsInit ==
    /\ dotconf = AllNo /\ auto = AllNo /\ header = AllNo /\ stale = TRUE
    /\ step = "idle" /\ todo = {}
    /\ text \in [SrcFiles -> {t \in Texts : t.edge = {}}]
    /\ newer = [o \in Obj |-> {}] /\ deps = [o \in Obj |-> {}]
    /\ made = [o \in Obj |-> NoObject] /\ now = "none"
    /\ configs = 0 /\ edits = 0 /\ cuts = 0

(* Someone writes another configuration, or another text.                  *)
Configure(c) ==
    /\ step = "idle" /\ now = "none" /\ configs < MaxConfigs /\ c # dotconf
    /\ dotconf' = c /\ stale' = TRUE /\ configs' = configs + 1
    /\ UNCHANGED <<auto, header, step, todo, compiling, edits, cuts>>

EditFile(f, t) ==
    /\ now = "none" /\ edits < MaxEdits /\ t # text[f]
    /\ text' = [text EXCEPT ![f] = t] /\ newer' = Newer({f}) /\ edits' = edits + 1
    /\ UNCHANGED <<configuring, deps, made, now, configs, cuts>>

-----------------------------------------------------------------------------
conf_write_autoconf ==
    /\ step = "idle" /\ stale /\ now = "none"
    /\ step' = "split" /\ todo' = CfgSyms
    /\ UNCHANGED <<dotconf, auto, header, stale, compiling, bounds>>

(* A symbol whose value is not the one of auto.conf; there "no" is what it *)
(* does not speak of.                                                      *)
Changed(s) == dotconf[s] # auto[s]

(* One round of conf_split_config: the symbols come in the order of the    *)
(* hash table, whatever that is.                                           *)
conf_split_config(s) ==
    /\ step = "split" /\ s \in todo
    /\ newer' = IF Changed(s) THEN Newer({s}) ELSE newer
    /\ todo' = todo \ {s} /\ step' = IF todo' = {} THEN "header" ELSE step
    /\ UNCHANGED <<dotconf, auto, header, stale, text, deps, made, now, bounds>>

(* The three files are complete; autoconf.h is renamed (tristate.conf      *)
(* after it, which nothing here reads), and auto.conf is the last.         *)
InstallHeader ==
    /\ step = "header" /\ header' = dotconf /\ step' = "auto"
    /\ UNCHANGED <<dotconf, auto, stale, todo, compiling, bounds>>

InstallAuto ==
    /\ step = "auto" /\ auto' = dotconf /\ stale' = FALSE /\ step' = "idle"
    /\ UNCHANGED <<dotconf, header, todo, compiling, bounds>>

-----------------------------------------------------------------------------
(* parse_config_file: a word is found unless it touches an end of the      *)
(* file; of CONFIG_x_MODULE it is CONFIG_x.                                *)
parse_config_file_Bare(t) ==
    {w[1] : w \in {w \in t.words \ t.edge : w[2] = ""}}
parse_config_file(t) == {w[1] : w \in t.words \ t.edge}

(* parse_dep_file: the words of all files, and the files but autoconf.h.   *)
(* (It does not print the source; make's own rule names that one.)         *)
parse_dep_file(o) == Objects[o] \cup UNION {parse_config_file(text[f]) : f \in Objects[o]}

(* What a compilation sees: the texts, and for each word of them whether   *)
(* autoconf.h defines it.                                                  *)
Sees(w) == header[w[1]] = IF w[2] = "" THEN "y" ELSE "m"
Compiled(o) == [f \in Objects[o] |-> [words |-> text[f].words,
                                      defined |-> {w \in text[f].words : Sees(w)}]]

(* if_changed_dep (external): the object is missing, has no .cmd or is     *)
(* older than something it depends on.  Its first half compiles, its       *)
(* second half is fixdep.                                                  *)
OutOfDate(o) == made[o] = NoObject \/ newer[o] \cap deps[o] # {}

Compile(o) ==
    /\ now = "none" /\ step = "idle" /\ ~stale /\ OutOfDate(o)
    /\ made' = [made EXCEPT ![o] = Compiled(o)]
    /\ newer' = [newer EXCEPT ![o] = {}] /\ now' = o
    /\ UNCHANGED <<configuring, text, deps, bounds>>

fixdep ==
    /\ now # "none" /\ deps' = [deps EXCEPT ![now] = parse_dep_file(now)] /\ now' = "none"
    /\ UNCHANGED <<configuring, text, newer, made, bounds>>

-----------------------------------------------------------------------------
(* conf is killed: what it renamed and touched stays.                      *)
KillConf ==
    /\ step # "idle" /\ cuts < MaxCuts
    /\ step' = "idle" /\ todo' = {} /\ cuts' = cuts + 1
    /\ UNCHANGED <<dotconf, auto, header, stale, compiling, configs, edits>>

(* make is interrupted before fixdep is done: it removes the object.       *)
InterruptMake ==
    /\ now # "none" /\ cuts < MaxCuts
    /\ made' = [made EXCEPT ![now] = NoObject] /\ now' = "none" /\ cuts' = cuts + 1
    /\ UNCHANGED <<configuring, text, newer, deps, configs, edits>>

DepsNext ==
    \/ \E c \in [CfgSyms -> CfgVals] : Configure(c)
    \/ \E f \in SrcFiles, t \in Texts : EditFile(f, t)
    \/ conf_write_autoconf \/ \E s \in CfgSyms : conf_split_config(s)
    \/ InstallHeader \/ InstallAuto
    \/ \E o \in Obj : Compile(o)
    \/ fixdep \/ KillConf \/ InterruptMake
DepsSpec == DepsInit /\ [][DepsNext]_depsvars

-----------------------------------------------------------------------------
(* Where make has nothing left to do every object is what a compilation    *)
(* from scratch would make it, although only those that mention a changed  *)
(* symbol were compiled again and conf may have been killed after touching *)
(* some of the stamps, or between its renames.  (A word that only touches  *)
(* an end of a file is the one fixdep cannot see.)                         *)
BuiltAsConfigured ==
    (step = "idle" /\ ~stale /\ now = "none" /\ ~\E o \in Obj : OutOfDate(o)) =>
        /\ header = dotconf
        /\ \A o \in Obj : (\A f \in Objects[o] : text[f].edge = {}) => made[o] = Compiled(o)
=============================================================================
