---------------------------- MODULE KconfigFiles ----------------------------
(***************************************************************************)
(* The configurators' sessions and the files they work on: mconf, nconf,     *)
(* gconf and qconf load, change and save a configuration with conf_read  *)
(* and conf_write of scripts/kconfig/confdata.c, one file operation at a     *)
(* time; they may be killed between any two of them, an operation may        *)
(* fail, and mconf's handler of SIGINT may run in the middle of one.         *)
(* core/mk/buildsystem.mk starts them, after bringing back .config.old       *)
(* where there is no complete .config.                                       *)
(***************************************************************************)
EXTENDS Naturals

CONSTANTS Parts,        \* the symbols of the configuration
          Mark,         \* one of them, CONFIG_EMBTK_DOTCONFIG
          Vals,         \* their values
          Default,      \* the value a symbol has that no file speaks of
          Fronts,       \* the programs, some of "mconf", "nconf", "gconf", "qconf"
          MaxRuns,      \* how many sessions there are (bound)
          MaxSaves,     \* how many saves (bound)
          MaxFaults     \* how many operations of the file system fail (bound)

ASSUME FilesAssumption ==
    /\ Mark \in Parts /\ Default \in Vals
    /\ MaxRuns \in Nat /\ MaxSaves \in Nat /\ MaxFaults \in Nat

Names == {"dot", "alt"}         \* .config and a file the user names
(* What a file holds: the symbols in it and their values, or no file.        *)
Missing == [in |-> {}, val |-> [p \in Parts |-> Default], is |-> FALSE]
Contents == [in : SUBSET Parts, val : [Parts -> Vals], is : BOOLEAN]
Whole(c) == c.is /\ c.in = Parts

VARIABLES front,    \* the program of this session
          conf,     \* the configuration in its memory
          pending,  \* symbols that a save is to write: SYMBOL_WRITE
          changed,  \* sym_change_count # 0
          filename, \* where mconf and nconf save when they exit
          target,   \* where the save under way goes to
          tmp,      \* .tmpconfig.<pid>
          disk,     \* [name -> contents]
          old,      \* [name -> contents], the .old files
          pc,       \* "off", "menu", "write", "backup", "install"
          leaving,  \* the save under way is the last thing it does
          told,     \* what the user was told at the end
          runs, saves, faults,
          hurt,     \* history: an operation failed, or a save was interrupted
          slip,     \* history: a load took the changes for saved
          first     \* history: .config was saved once
filevars == <<front, conf, pending, changed, filename, target, tmp, disk, old,
              pc, leaving, told, runs, saves, faults, hurt, slip, first>>
session == <<front, conf, pending, changed, filename>>
saving == <<target, tmp, leaving>>
count == <<runs, saves, faults>>
flags == <<hurt, slip, first>>

FilesInit ==
    /\ front \in Fronts /\ conf = [p \in Parts |-> Default] /\ pending = {} /\ changed = FALSE
    /\ filename = "dot" /\ target = "dot" /\ tmp = Missing
    /\ disk = [n \in Names |-> Missing] /\ old = [n \in Names |-> Missing]
    /\ pc = "off" /\ leaving = FALSE /\ told = "none"
    /\ runs = 0 /\ saves = 0 /\ faults = 0
    /\ hurt = FALSE /\ slip = FALSE /\ first = FALSE

(* What a program shows that has read c: the defaults for what c lacks.      *)
Shown(c) == [p \in Parts |-> IF p \in c.in THEN c.val[p] ELSE Default]

-----------------------------------------------------------------------------
(* conf_read, as <<the configuration, changed>>: it forgets the changes      *)
(* before it finds that there is no file, and takes a file that lacks a      *)
(* symbol for a change.                                                      *)
Reads(c) == IF c.is THEN <<Shown(c), c.in # Parts>> ELSE <<conf, FALSE>>

(* __embtk_mk_xconfig: without the mark .config is not complete.             *)
mk_xconfig == IF Mark \notin disk["dot"].in /\ old["dot"].is THEN old["dot"] ELSE disk["dot"]

(* The start of each program: it parses the Kconfig files, which counts as a *)
(* change, and reads .config.                                                *)
Starts(f) ==
    /\ pc = "off" /\ runs < MaxRuns
    /\ disk' = [disk EXCEPT !["dot"] = mk_xconfig]
    /\ conf' = Shown(mk_xconfig) /\ pending' = Parts
    /\ changed' = ~(mk_xconfig.is /\ mk_xconfig.in = Parts)
    /\ front' = f /\ filename' = "dot"
    /\ pc' = "menu" /\ told' = "none" /\ runs' = runs + 1 /\ slip' = FALSE
    /\ UNCHANGED <<saving, old, saves, faults, hurt, first>>
mconf_main == "mconf" \in Fronts /\ Starts("mconf")
nconf_main == "nconf" \in Fronts /\ Starts("nconf")
gconf_main == "gconf" \in Fronts /\ Starts("gconf")
qconf_main == "qconf" \in Fronts /\ Starts("qconf")

(* make clean keeps the configuration in .config.old. *)
MakeClean ==
    /\ pc = "off" /\ disk["dot"].is
    /\ old' = [old EXCEPT !["dot"] = disk["dot"]]
    /\ disk' = [disk EXCEPT !["dot"] = Missing]
    /\ UNCHANGED <<session, saving, pc, told, count, flags>>

In(f) == pc = "menu" /\ front = f

(* The user changes a symbol.  The mark has no prompt, so nobody sets it.    *)
(* Broken: the change is not counted.                                        *)
Set_Silent(p, v) ==
    /\ pc = "menu" /\ p # Mark /\ conf[p] # v
    /\ conf' = [conf EXCEPT ![p] = v] /\ pending' = Parts
    /\ UNCHANGED <<changed, front, filename, saving, disk, old, pc, told, count, flags>>
Set(p, v) ==
    /\ pc = "menu" /\ p # Mark /\ conf[p] # v
    /\ conf' = [conf EXCEPT ![p] = v]
    /\ changed' = TRUE /\ pending' = Parts          \* sym_clear_all_valid
    /\ UNCHANGED <<front, filename, saving, disk, old, pc, told, count, flags>>

(* Loading another file.  mconf and nconf take what was loaded for unsaved   *)
(* and go on with that name, gconf and qconf do neither.                     *)
Loads(n, counted) ==
    /\ conf' = Reads(disk[n])[1]
    /\ pending' = IF disk[n].is THEN Parts ELSE pending
    /\ changed' = (Reads(disk[n])[2] \/ (counted /\ disk[n].is))
    /\ slip' = (slip \/ (changed /\ ~disk[n].is))
    /\ UNCHANGED <<front, saving, disk, old, pc, told, count, hurt, first>>
set_config_filename(n) == filename' = n
mconf_conf_load(n) == In("mconf") /\ Loads(n, TRUE) /\ set_config_filename(IF disk[n].is THEN n ELSE filename)
nconf_conf_load(n) == In("nconf") /\ Loads(n, TRUE) /\ set_config_filename(IF disk[n].is THEN n ELSE filename)
load_filename(n) == In("gconf") /\ Loads(n, FALSE) /\ UNCHANGED filename
loadConfig(n) == In("qconf") /\ Loads(n, FALSE) /\ UNCHANGED filename

-----------------------------------------------------------------------------
(* conf_write returns 1: the user is told so, and only qconf then stays.     *)
NotSaved(last) ==
    /\ pc' = IF last /\ front # "qconf" THEN "off" ELSE "menu"
    /\ told' = IF last THEN "not saved" ELSE told

(* conf_write(n): open the temporary file, which may fail, ... *)
conf_write(n, last) ==
    /\ saves < MaxSaves /\ saves' = saves + 1
    /\ \/ /\ target' = n /\ leaving' = last
          /\ tmp' = [in |-> {}, val |-> conf, is |-> TRUE]  \* conf stays while it is written
          /\ pending' = IF changed THEN pending ELSE Parts
          /\ changed' = TRUE                        \* sym_clear_all_valid, if it was not
          /\ pc' = "write" /\ UNCHANGED <<told, faults>>
       \/ /\ faults < MaxFaults /\ faults' = faults + 1
          /\ NotSaved(last) /\ UNCHANGED <<saving, pending, changed>>
    /\ UNCHANGED <<front, conf, filename, disk, old, runs>>

(* ... write each symbol in turn (with a full disk it is lost, and neither   *)
(* the writes nor fclose are looked at), ...                                 *)
WriteSymbol(p) ==
    /\ pc = "write" /\ p \in pending
    /\ pending' = pending \ {p}
    /\ \/ /\ tmp' = [tmp EXCEPT !.in = @ \cup {p}]
          /\ UNCHANGED <<faults, hurt>>
       \/ faults < MaxFaults /\ faults' = faults + 1 /\ hurt' = TRUE /\ UNCHANGED tmp
    /\ UNCHANGED <<front, conf, changed, filename, target, leaving, disk, old, pc, told,
                   runs, saves, slip, first>>
(* Broken: some are not written.                                             *)
Close_Early ==
    /\ pc = "write" /\ pc' = "backup"
    /\ UNCHANGED <<session, saving, disk, old, told, count, flags>>
Close ==
    /\ pc = "write" /\ pending = {}
    /\ pc' = "backup"
    /\ UNCHANGED <<session, saving, disk, old, told, count, flags>>

(* ... keep what was there as .old, ... *)
Backup ==
    /\ pc = "backup"
    /\ \/ /\ old' = IF disk[target].is THEN [old EXCEPT ![target] = disk[target]] ELSE old
          /\ disk' = [disk EXCEPT ![target] = Missing]
          /\ UNCHANGED <<faults, hurt>>
       \/ faults < MaxFaults /\ faults' = faults + 1 /\ hurt' = TRUE /\ UNCHANGED <<old, disk>>
    /\ pc' = "install"
    /\ UNCHANGED <<session, saving, told, runs, saves, slip, first>>

(* ... and put the new file in its place, which may fail too.  (A save under *)
(* another name makes it the name for mconf and nconf.)                      *)
Install ==
    /\ pc = "install"
    /\ disk' = [disk EXCEPT ![target] = tmp] /\ tmp' = Missing
    /\ changed' = FALSE
    /\ IF front \in {"mconf", "nconf"} THEN set_config_filename(target) ELSE UNCHANGED filename
    /\ first' = (first \/ target = "dot")
    /\ pc' = IF leaving THEN "off" ELSE "menu"
    /\ told' = IF leaving THEN "end" ELSE told
    /\ UNCHANGED <<front, conf, pending, target, leaving, old, count, hurt, slip>>
InstallFails ==
    /\ pc = "install" /\ faults < MaxFaults /\ faults' = faults + 1 /\ hurt' = TRUE
    /\ NotSaved(leaving)
    /\ UNCHANGED <<session, saving, disk, old, runs, saves, slip, first>>

-----------------------------------------------------------------------------
(* The programs' own saves. *)
mconf_conf_save(n) == In("mconf") /\ conf_write(n, FALSE) /\ UNCHANGED flags
nconf_conf_save(n) == In("nconf") /\ conf_write(n, FALSE) /\ UNCHANGED flags
on_save_activate   == In("gconf") /\ conf_write("dot", FALSE) /\ UNCHANGED flags
store_filename(n)  == In("gconf") /\ conf_write(n, FALSE) /\ UNCHANGED flags
(* saveConfigAs too: it asks for a name and ignores it. *)
saveConfig         == In("qconf") /\ conf_write("dot", FALSE) /\ UNCHANGED flags

(* The end: nothing to save, or the user chooses.  (Or goes on.)             *)
Exits(where) ==
    \/ /\ ~changed /\ pc' = "off" /\ told' = "end"
       /\ UNCHANGED <<session, saving, disk, old, count, flags>>
    \/ changed /\ conf_write(where, TRUE) /\ UNCHANGED flags
    \/ /\ changed /\ pc' = "off" /\ told' = "not saved"
       /\ UNCHANGED <<session, saving, disk, old, count, flags>>
handle_exit == In("mconf") /\ Exits(filename)
do_exit     == In("nconf") /\ Exits(filename)
on_window1_delete_event == In("gconf") /\ Exits("dot")
closeEvent  == In("qconf") /\ Exits("dot")

(* mconf's handler of SIGINT is handle_exit, wherever the program is: in     *)
(* the middle of a save another one begins, of what the first left over.     *)
(* (In its own save it is blocked.)                                          *)
sig_handler ==
    /\ front = "mconf" /\ pc \in {"write", "backup", "install"} /\ told # "interrupted"
    /\ hurt' = TRUE
    /\ \/ pc' = "off" /\ told' = "not saved" /\ UNCHANGED <<session, saving, disk, old, count>>
       \/ /\ saves < MaxSaves /\ saves' = saves + 1
          /\ target' = filename /\ leaving' = TRUE /\ tmp' = [in |-> {}, val |-> conf, is |-> TRUE]
          /\ pc' = "write" /\ told' = "interrupted"
          /\ UNCHANGED <<session, disk, old, runs, faults>>
    /\ UNCHANGED <<slip, first>>

(* kill -9, a crash, the end of power *)
Killed ==
    /\ pc # "off"
    /\ pc' = "off" /\ told' = "killed"
    /\ UNCHANGED <<session, saving, disk, old, count, flags>>

FilesNext ==
    \/ mconf_main \/ nconf_main \/ gconf_main \/ qconf_main \/ MakeClean
    \/ Close \/ Backup \/ Install \/ InstallFails \/ sig_handler \/ Killed
    \/ on_save_activate \/ saveConfig
    \/ handle_exit \/ do_exit \/ on_window1_delete_event \/ closeEvent
    \/ \E p \in Parts : WriteSymbol(p) \/ \E v \in Vals : Set(p, v)
    \/ \E n \in Names : \/ mconf_conf_load(n) \/ nconf_conf_load(n) \/ load_filename(n) \/ loadConfig(n)
                        \/ mconf_conf_save(n) \/ nconf_conf_save(n) \/ store_filename(n)
FilesSpec == FilesInit /\ [][FilesNext]_filevars

-----------------------------------------------------------------------------
FilesTypeOK ==
    /\ front \in Fronts /\ conf \in [Parts -> Vals] /\ pending \subseteq Parts
    /\ changed \in BOOLEAN /\ filename \in Names /\ target \in Names
    /\ tmp \in Contents /\ disk \in [Names -> Contents] /\ old \in [Names -> Contents]
    /\ pc \in {"off", "menu", "write", "backup", "install"} /\ leaving \in BOOLEAN
    /\ told \in {"none", "end", "not saved", "interrupted", "killed"}
    /\ runs \in 0..MaxRuns /\ saves \in 0..MaxSaves /\ faults \in 0..MaxFaults
    /\ hurt \in BOOLEAN /\ slip \in BOOLEAN /\ first \in BOOLEAN

(* Once .config was saved it is there or in .config.old, whenever the        *)
(* program is killed, and no file is ever half of a configuration.  (A       *)
(* failed operation or an interrupted save is another matter:                *)
(* confdata.c:813, mconf.c:923.)                                             *)
AWholeFile ==
    ~hurt => /\ first => disk["dot"].is \/ old["dot"].is
             /\ \A n \in Names : (disk[n].is => Whole(disk[n])) /\ (old[n].is => Whole(old[n]))

(* When the program ends and says nothing of changes that were not saved,    *)
(* the configuration it showed is in one of the files.                       *)
NothingIsLost ==
    pc = "off" /\ told = "end" /\ ~hurt /\ ~slip =>
        \E c \in {disk[n] : n \in Names} \cup {old[n] : n \in Names} : Whole(c) /\ c.val = conf
=============================================================================
