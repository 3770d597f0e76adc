------------------------ MODULE KconfigFiles_proofs ------------------------
(***************************************************************************)
(* What the files of a configuration go through: the invariants of           *)
(* KconfigFiles, for any configuration, values, bounds and set of programs,  *)
(* and of KbuildDeps, for any symbols, values, objects and texts, any number *)
(* of configurations, edits and kills.                                       *)
(***************************************************************************)
EXTENDS KconfigFiles, KbuildDeps, TLAPS

-----------------------------------------------------------------------------
(* Types *)

(* What is no file is a content like any other. *)
LEMMA MissingIsContents == Missing \in Contents
  BY FilesAssumption DEF FilesAssumption, Missing, Contents

(* A program shows a value of every symbol, and a whole file as it is.       *)
LEMMA ShownIsConf ==
    ASSUME NEW c \in Contents
    PROVE  /\ Shown(c) \in [Parts -> Vals]
           /\ c.in = Parts => Shown(c) = c.val
  BY FilesAssumption DEF FilesAssumption, Contents, Shown

(* What make and Reads start from is a content.                          *)
LEMMA StartIsContents == ASSUME FilesTypeOK PROVE mk_xconfig \in Contents
  BY DEF FilesTypeOK, mk_xconfig, Names

LEMMA FilesTypeInit == ASSUME FilesInit PROVE FilesTypeOK
<1>1. /\ front \in Fronts /\ conf \in [Parts -> Vals] /\ pending \subseteq Parts
      /\ changed \in BOOLEAN
  BY FilesAssumption DEF FilesAssumption, FilesInit
<1>2. /\ filename \in Names /\ target \in Names
      /\ tmp \in Contents /\ disk \in [Names -> Contents] /\ old \in [Names -> Contents]
  BY MissingIsContents DEF FilesInit, Names
<1>3. /\ pc \in {"off", "menu", "write", "backup", "install"}
      /\ told \in {"none", "end", "not saved", "interrupted", "killed"}
      /\ leaving \in BOOLEAN /\ hurt \in BOOLEAN /\ slip \in BOOLEAN /\ first \in BOOLEAN
  BY DEF FilesInit
<1>4. runs \in 0..MaxRuns /\ saves \in 0..MaxSaves /\ faults \in 0..MaxFaults
  BY FilesAssumption DEF FilesAssumption, FilesInit
<1>5. QED
  BY <1>1, <1>2, <1>3, <1>4 DEF FilesTypeOK

(* A counter under its bound stays in it when it is increased.               *)
LEMMA Counted ==
    ASSUME NEW m \in Nat, NEW i \in 0..m, NEW j, j = i \/ (i < m /\ j = i + 1)
    PROVE  j \in 0..m
  OBVIOUS

(* The part of the types that the start of a program touches.                *)
LEMMA StartsType == ASSUME FilesTypeOK, NEW f \in Fronts, Starts(f) PROVE FilesTypeOK'
<1>1. mk_xconfig \in Contents
  BY StartIsContents
<1>2. Shown(mk_xconfig) \in [Parts -> Vals]
  BY <1>1, ShownIsConf
<1>3. disk' \in [Names -> Contents]
  BY <1>1 DEF FilesTypeOK, Starts
<1>4. runs' \in 0..MaxRuns
  <2>1. runs < MaxRuns /\ runs' = runs + 1
    BY DEF Starts
  <2>2. QED
    BY <2>1, FilesAssumption, Counted DEF FilesAssumption, FilesTypeOK
<1>5. QED
  BY <1>2, <1>3, <1>4 DEF FilesTypeOK, Starts, Names, saving

LEMMA LoadsType ==
    ASSUME FilesTypeOK, NEW n \in Names, NEW b \in BOOLEAN, Loads(n, b), pc = "menu",
           filename' \in Names
    PROVE  FilesTypeOK'
<1>1. disk[n] \in Contents
  BY DEF FilesTypeOK
<1>2. Shown(disk[n]) \in [Parts -> Vals]
  BY <1>1, ShownIsConf
<1>3. /\ conf' \in [Parts -> Vals]
      /\ changed' \in BOOLEAN
  BY <1>1, <1>2 DEF FilesTypeOK, Loads, Reads, Contents
<1>4. slip' \in BOOLEAN /\ pending' \subseteq Parts
  BY <1>1 DEF FilesTypeOK, Loads, Contents
<1>5. QED
  BY <1>3, <1>4 DEF FilesTypeOK, Loads, saving, count

LEMMA WriteType ==
    ASSUME FilesTypeOK, NEW n \in Names, NEW b \in BOOLEAN, conf_write(n, b), UNCHANGED flags
    PROVE  FilesTypeOK'
<1>1. saves' \in 0..MaxSaves /\ faults' \in 0..MaxFaults
  <2>1. saves < MaxSaves /\ saves' = saves + 1
    BY DEF conf_write
  <2>2. faults' = faults \/ (faults < MaxFaults /\ faults' = faults + 1)
    BY DEF conf_write
  <2>3. QED
    BY <2>1, <2>2, FilesAssumption, Counted DEF FilesAssumption, FilesTypeOK
<1>2. tmp' \in Contents
  <2>1. conf \in [Parts -> Vals] /\ tmp \in Contents
    BY DEF FilesTypeOK
  <2>2. tmp' = [in |-> {}, val |-> conf, is |-> TRUE] \/ tmp' = tmp
    BY DEF conf_write, saving
  <2>3. [in |-> {}, val |-> conf, is |-> TRUE] \in Contents
    BY <2>1 DEF Contents
  <2>4. QED
    BY <2>1, <2>2, <2>3
<1>3. pending' \subseteq Parts /\ changed' \in BOOLEAN /\ target' \in Names /\ leaving' \in BOOLEAN
  BY DEF FilesTypeOK, conf_write, saving
<1>4. /\ pc' \in {"off", "menu", "write", "backup", "install"}
      /\ told' \in {"none", "end", "not saved", "interrupted", "killed"}
  BY DEF FilesTypeOK, conf_write, NotSaved
<1>5. QED
  BY <1>1, <1>2, <1>3, <1>4 DEF FilesTypeOK, conf_write, flags

LEMMA ExitsType ==
    ASSUME FilesTypeOK, NEW n \in Names, Exits(n)
    PROVE  FilesTypeOK'
<1>1. CASE conf_write(n, TRUE) /\ UNCHANGED flags
  BY <1>1, WriteType
<1>2. CASE ~(conf_write(n, TRUE) /\ UNCHANGED flags)
  BY <1>2 DEF Exits, FilesTypeOK, session, saving, count, flags
<1>3. QED
  BY <1>1, <1>2

LEMMA FilesTypeStep == ASSUME FilesTypeOK, [FilesNext]_filevars PROVE FilesTypeOK'
<1> USE FilesAssumption DEF FilesAssumption
<1>1. CASE mconf_main \/ nconf_main \/ gconf_main \/ qconf_main
  BY <1>1, StartsType DEF mconf_main, nconf_main, gconf_main, qconf_main
<1>2. CASE MakeClean
  BY <1>2, MissingIsContents DEF FilesTypeOK, MakeClean, session, saving, count, flags, Names
<1>3. ASSUME NEW p \in Parts, NEW v \in Vals, Set(p, v) PROVE FilesTypeOK'
  BY <1>3 DEF FilesTypeOK, Set, saving, count, flags
<1>4. ASSUME NEW n \in Names,
             mconf_conf_load(n) \/ nconf_conf_load(n) \/ load_filename(n) \/ loadConfig(n)
      PROVE  FilesTypeOK'
  <2>1. filename \in Names
    BY DEF FilesTypeOK
  <2>2. filename' \in Names /\ pc = "menu"
    BY <1>4, <2>1 DEF mconf_conf_load, nconf_conf_load, load_filename, loadConfig, In, set_config_filename
  <2>3. PICK b \in BOOLEAN : Loads(n, b)
    BY <1>4 DEF mconf_conf_load, nconf_conf_load, load_filename, loadConfig
  <2>4. QED
    BY <2>2, <2>3, LoadsType
<1>5. ASSUME NEW n \in Names, mconf_conf_save(n) \/ nconf_conf_save(n) \/ store_filename(n)
      PROVE  FilesTypeOK'
  BY <1>5, WriteType DEF mconf_conf_save, nconf_conf_save, store_filename
<1>6. CASE on_save_activate \/ saveConfig
  BY <1>6, WriteType DEF on_save_activate, saveConfig, Names
<1>7. CASE handle_exit \/ do_exit \/ on_window1_delete_event \/ closeEvent
  BY <1>7, ExitsType DEF handle_exit, do_exit, on_window1_delete_event, closeEvent, FilesTypeOK, Names
<1>8. ASSUME NEW p \in Parts, WriteSymbol(p) PROVE FilesTypeOK'
  <2>1. tmp' \in Contents
    <3>1. tmp \in Contents
      BY DEF FilesTypeOK
    <3>2. tmp' = [tmp EXCEPT !.in = @ \cup {p}] \/ tmp' = tmp
      BY <1>8 DEF WriteSymbol
    <3>3. QED
      BY <3>1, <3>2 DEF Contents
  <2>2. faults' \in 0..MaxFaults /\ hurt' \in BOOLEAN /\ pending' \subseteq Parts
    <3>1. faults' = faults \/ (faults < MaxFaults /\ faults' = faults + 1)
      BY <1>8 DEF WriteSymbol
    <3>2. hurt' \in BOOLEAN /\ pending' \subseteq Parts
      BY <1>8 DEF FilesTypeOK, WriteSymbol
    <3>3. QED
      BY <3>1, <3>2, Counted DEF FilesTypeOK
  <2>3. QED
    BY <1>8, <2>1, <2>2 DEF FilesTypeOK, WriteSymbol
<1>9. CASE Close
  BY <1>9 DEF FilesTypeOK, Close, session, saving, count, flags
<1>10. CASE Backup
  <2>1. old' \in [Names -> Contents] /\ disk' \in [Names -> Contents]
    BY <1>10, MissingIsContents DEF FilesTypeOK, Backup
  <2>2. faults' \in 0..MaxFaults /\ hurt' \in BOOLEAN
    <3>1. faults' = faults \/ (faults < MaxFaults /\ faults' = faults + 1)
      BY <1>10 DEF Backup
    <3>2. hurt' \in BOOLEAN
      BY <1>10 DEF FilesTypeOK, Backup
    <3>3. QED
      BY <3>1, <3>2, Counted DEF FilesTypeOK
  <2>3. QED
    BY <1>10, <2>1, <2>2 DEF FilesTypeOK, Backup, session, saving
<1>11. CASE Install
  <2>1. disk' \in [Names -> Contents] /\ tmp' \in Contents
    BY <1>11, MissingIsContents DEF FilesTypeOK, Install
  <2>2. /\ filename' \in Names /\ first' \in BOOLEAN
        /\ pc' \in {"off", "menu"} /\ told' \in {"none", "end", "not saved", "interrupted", "killed"}
    BY <1>11 DEF FilesTypeOK, Install, set_config_filename
  <2>3. QED
    BY <1>11, <2>1, <2>2 DEF FilesTypeOK, Install, count
<1>12. CASE InstallFails
  <2>1. faults' \in 0..MaxFaults
    <3>1. faults < MaxFaults /\ faults' = faults + 1
      BY <1>12 DEF InstallFails
    <3>2. QED
      BY <3>1, Counted DEF FilesTypeOK
  <2>2. QED
    BY <1>12, <2>1 DEF FilesTypeOK, InstallFails, NotSaved, session, saving
<1>13. CASE sig_handler
  <2>1. tmp' \in Contents
    <3>1. conf \in [Parts -> Vals] /\ tmp \in Contents
      BY DEF FilesTypeOK
    <3>2. tmp' = [in |-> {}, val |-> conf, is |-> TRUE] \/ tmp' = tmp
      BY <1>13 DEF sig_handler, saving
    <3>3. [in |-> {}, val |-> conf, is |-> TRUE] \in Contents
      BY <3>1 DEF Contents
    <3>4. QED
      BY <3>1, <3>2, <3>3
  <2>2. saves' \in 0..MaxSaves
    <3>1. saves' = saves \/ (saves < MaxSaves /\ saves' = saves + 1)
      BY <1>13 DEF sig_handler, count
    <3>2. QED
      BY <3>1, Counted DEF FilesTypeOK
  <2>3. QED
    BY <1>13, <2>1, <2>2 DEF FilesTypeOK, sig_handler, session, saving, count
<1>14. CASE Killed
  BY <1>14 DEF FilesTypeOK, Killed, session, saving, count, flags
<1>15. CASE UNCHANGED filevars
  BY <1>15 DEF FilesTypeOK, filevars
<1>16. QED
  BY <1>1, <1>2, <1>3, <1>4, <1>5, <1>6, <1>7, <1>8, <1>9, <1>10, <1>11, <1>12, <1>13, <1>14, <1>15
  DEF FilesNext

(* FilesTypeOK, for every value of the constants: what the variables of a   *)
(* session and of its files can be.                                          *)
THEOREM FilesTypes == FilesSpec => []FilesTypeOK
<1>1. FilesInit => FilesTypeOK
  BY FilesTypeInit
<1>2. FilesTypeOK /\ [FilesNext]_filevars => FilesTypeOK'
  BY FilesTypeStep
<1>3. QED
  BY <1>1, <1>2, PTL DEF FilesSpec

-----------------------------------------------------------------------------
(* The inductive invariant *)

(* The configuration in memory is in one of the files.                       *)
Saved == \E n \in Names : Whole(disk[n]) /\ disk[n].val = conf

(* In the menu every symbol is to be written with the next save, and during  *)
(* a save each is written or still to be.                                    *)
SaveIsWhole ==
    /\ pc = "menu" /\ changed => pending = Parts
    /\ pc \in {"write", "backup", "install"} => tmp.is /\ tmp.val = conf
    /\ pc = "write" => tmp.in \cup pending = Parts
    /\ pc \in {"backup", "install"} => tmp.in = Parts
(* When there are no changes to save, they are saved. *)
CleanIsSaved == pc = "menu" /\ ~changed /\ ~slip => Saved
(* And after the end, when make clean may have moved them. *)
EndIsSaved ==
    pc = "off" /\ told = "end" /\ ~slip =>
        Saved \/ (~disk["dot"].is /\ Whole(old["dot"]) /\ old["dot"].val = conf)
FilesInv == FilesTypeOK /\ AWholeFile /\ (~hurt => SaveIsWhole /\ CleanIsSaved /\ EndIsSaved)

(* What went wrong stays so, and the failures of these two are noted.        *)
LEMMA HurtStays ==
    ASSUME [FilesNext]_filevars, ~hurt'
    PROVE  ~hurt /\ ~InstallFails /\ ~sig_handler
<1>1. ~InstallFails /\ ~sig_handler
  BY DEF InstallFails, sig_handler
<1>2. ASSUME NEW f, Starts(f) PROVE ~hurt
  BY <1>2 DEF Starts
<1>3. ASSUME NEW n \in Names, NEW b \in BOOLEAN, Loads(n, b) PROVE ~hurt
  BY <1>3 DEF Loads
<1>4. ASSUME NEW n, Exits(n) PROVE ~hurt
  BY <1>4 DEF Exits, flags
<1>5. ASSUME NEW p \in Parts, WriteSymbol(p) PROVE ~hurt
  BY <1>5 DEF WriteSymbol
<1>6. ASSUME MakeClean \/ Close \/ Killed \/ on_save_activate \/ saveConfig \/ UNCHANGED filevars
      PROVE  ~hurt
  BY <1>6 DEF MakeClean, Close, Killed, on_save_activate, saveConfig, filevars, flags
<1>7. ASSUME Backup \/ Install PROVE ~hurt
  BY <1>7 DEF Backup, Install
<1>8. ASSUME NEW p \in Parts, NEW v \in Vals, Set(p, v) PROVE ~hurt
  BY <1>8 DEF Set, flags
<1>9. ASSUME mconf_main \/ nconf_main \/ gconf_main \/ qconf_main PROVE ~hurt
  BY <1>2, <1>9 DEF mconf_main, nconf_main, gconf_main, qconf_main
<1>10. ASSUME handle_exit \/ do_exit \/ on_window1_delete_event \/ closeEvent PROVE ~hurt
  BY <1>4, <1>10 DEF handle_exit, do_exit, on_window1_delete_event, closeEvent
<1>11. ASSUME NEW n \in Names,
              mconf_conf_load(n) \/ nconf_conf_load(n) \/ load_filename(n) \/ loadConfig(n)
       PROVE  ~hurt
  BY <1>3, <1>11 DEF mconf_conf_load, nconf_conf_load, load_filename, loadConfig
<1>12. ASSUME NEW n \in Names, mconf_conf_save(n) \/ nconf_conf_save(n) \/ store_filename(n)
       PROVE  ~hurt
  BY <1>12 DEF mconf_conf_save, nconf_conf_save, store_filename, flags
<1>13. QED
  BY <1>1, <1>5, <1>6, <1>7, <1>8, <1>9, <1>10, <1>11, <1>12 DEF FilesNext

(* What FilesNext comes to where nothing goes wrong: the programs differ in  *)
(* names only.                                                               *)
LEMMA FilesCases ==
    ASSUME FilesTypeOK, [FilesNext]_filevars, ~hurt'
    PROVE  \/ \E f \in Fronts : Starts(f)
           \/ MakeClean \/ Close \/ Backup \/ Install \/ Killed
           \/ \E p \in Parts : WriteSymbol(p) \/ \E v \in Vals : Set(p, v)
           \/ \E n \in Names :
                 \/ pc = "menu" /\ \E b \in BOOLEAN : Loads(n, b)
                 \/ pc = "menu" /\ conf_write(n, FALSE) /\ UNCHANGED flags
                 \/ pc = "menu" /\ Exits(n)
           \/ UNCHANGED filevars
<1> USE DEF In, Names
<1>1. CASE mconf_main \/ nconf_main \/ gconf_main \/ qconf_main
  BY <1>1 DEF mconf_main, nconf_main, gconf_main, qconf_main
<1>2. ASSUME NEW n \in Names,
             mconf_conf_load(n) \/ nconf_conf_load(n) \/ load_filename(n) \/ loadConfig(n)
      PROVE  pc = "menu" /\ \E b \in BOOLEAN : Loads(n, b)
  BY <1>2 DEF mconf_conf_load, nconf_conf_load, load_filename, loadConfig
<1>3. ASSUME NEW n \in Names, mconf_conf_save(n) \/ nconf_conf_save(n) \/ store_filename(n)
      PROVE  pc = "menu" /\ conf_write(n, FALSE) /\ UNCHANGED flags
  BY <1>3 DEF mconf_conf_save, nconf_conf_save, store_filename
<1>4. CASE on_save_activate \/ saveConfig
  BY <1>4 DEF on_save_activate, saveConfig
<1>5. CASE handle_exit \/ do_exit \/ on_window1_delete_event \/ closeEvent
  BY <1>5 DEF handle_exit, do_exit, on_window1_delete_event, closeEvent, FilesTypeOK
<1>6. QED
  BY <1>1, <1>2, <1>3, <1>4, <1>5, HurtStays DEF FilesNext

(* A save goes on until everything is written. *)
LEMMA SaveStep ==
    ASSUME FilesTypeOK, [FilesNext]_filevars, ~hurt', SaveIsWhole
    PROVE  SaveIsWhole'
<1>1. ASSUME NEW f \in Fronts, Starts(f) PROVE SaveIsWhole'
  BY <1>1 DEF Starts, SaveIsWhole
<1>2. CASE MakeClean \/ Killed
  BY <1>2 DEF MakeClean, Killed, SaveIsWhole
<1>3. ASSUME NEW p \in Parts, NEW v \in Vals, Set(p, v) PROVE SaveIsWhole'
  BY <1>3 DEF Set, SaveIsWhole
<1>4. ASSUME NEW p \in Parts, WriteSymbol(p) PROVE SaveIsWhole'
  <2>1. pc = "write" /\ pc' = "write" /\ conf' = conf /\ pending' = pending \ {p} /\ p \in Parts
    BY <1>4 DEF WriteSymbol
  <2>2. tmp' = [tmp EXCEPT !.in = @ \cup {p}]
    BY <1>4, HurtStays DEF WriteSymbol
  <2>3. tmp'.is = tmp.is /\ tmp'.val = tmp.val /\ tmp'.in = tmp.in \cup {p}
    BY <2>2 DEF FilesTypeOK, Contents
  <2>4. QED
    BY <2>1, <2>3 DEF SaveIsWhole
<1>5. CASE Close
  BY <1>5 DEF Close, SaveIsWhole, session, saving
<1>6. CASE Backup
  BY <1>6 DEF Backup, SaveIsWhole, session, saving
<1>7. CASE Install
  BY <1>7 DEF Install, SaveIsWhole
<1>8. ASSUME NEW n \in Names, NEW b \in BOOLEAN, Loads(n, b), pc = "menu" PROVE SaveIsWhole'
  BY <1>8 DEF Loads, Reads, SaveIsWhole
<1>9. ASSUME NEW n \in Names, NEW b \in BOOLEAN, conf_write(n, b), pc = "menu" PROVE SaveIsWhole'
  <2>1. CASE pc' = "write"
    BY <1>9, <2>1 DEF conf_write, NotSaved, SaveIsWhole
  <2>2. CASE pc' # "write"
    <3>1. pc' \in {"off", "menu"} /\ changed' = changed /\ pending' = pending
      BY <1>9, <2>2 DEF conf_write, NotSaved
    <3>2. QED
      BY <1>9, <3>1 DEF SaveIsWhole
  <2>3. QED
    BY <2>1, <2>2
<1>10. ASSUME NEW n \in Names, Exits(n), pc = "menu" PROVE SaveIsWhole'
  <2>1. CASE conf_write(n, TRUE)
    BY <1>9, <1>10, <2>1
  <2>2. CASE pc' = "off"
    BY <2>2 DEF SaveIsWhole
  <2>3. QED
    BY <1>10, <2>1, <2>2 DEF Exits
<1>11. CASE UNCHANGED filevars
  BY <1>11 DEF filevars, SaveIsWhole
<1>12. QED
  BY <1>1, <1>2, <1>3, <1>4, <1>5, <1>6, <1>7, <1>8, <1>9, <1>10, <1>11, FilesCases

(* No file becomes half of a configuration, and none is dropped. *)
LEMMA WholeStep ==
    ASSUME FilesTypeOK, [FilesNext]_filevars, ~hurt', SaveIsWhole, AWholeFile
    PROVE  AWholeFile'
<1> USE DEF Names
<1>1. ASSUME NEW f \in Fronts, Starts(f) PROVE AWholeFile'
  BY <1>1, HurtStays DEF Starts, AWholeFile, FilesTypeOK, mk_xconfig, Whole
<1>2. CASE MakeClean
  BY <1>2, HurtStays DEF MakeClean, AWholeFile, FilesTypeOK, Whole, Missing, flags
<1>3. CASE Backup
  <2>1. /\ old' = IF disk[target].is THEN [old EXCEPT ![target] = disk[target]] ELSE old
        /\ disk' = [disk EXCEPT ![target] = Missing] /\ first' = first
    BY <1>3, HurtStays DEF Backup
  <2>2. target \in Names /\ disk \in [Names -> Contents] /\ old \in [Names -> Contents] /\ ~hurt
    BY HurtStays DEF FilesTypeOK
  <2>3. \A n \in Names : /\ disk'[n] = IF n = target THEN Missing ELSE disk[n]
                        /\ old'[n] = IF n = target /\ disk[n].is THEN disk[n] ELSE old[n]
    BY <2>1, <2>2
  <2>4. ~Missing.is
    BY DEF Missing
  <2>5. \A n \in Names : (disk'[n].is => Whole(disk'[n])) /\ (old'[n].is => Whole(old'[n]))
    BY <2>2, <2>3, <2>4 DEF AWholeFile, Whole
  <2>6. first' => disk'["dot"].is \/ old'["dot"].is
    BY <2>1, <2>2, <2>3 DEF AWholeFile
  <2>7. QED
    BY <2>5, <2>6 DEF AWholeFile
<1>4. CASE Install
  <2>1. /\ disk' = [disk EXCEPT ![target] = tmp] /\ old' = old
        /\ first' = (first \/ target = "dot") /\ pc = "install"
    BY <1>4 DEF Install
  <2>2. tmp.is /\ tmp.in = Parts
    BY <2>1 DEF SaveIsWhole
  <2>3. target \in Names /\ disk \in [Names -> Contents] /\ ~hurt
    BY HurtStays DEF FilesTypeOK
  <2>4. \A n \in Names : disk'[n] = IF n = target THEN tmp ELSE disk[n]
    BY <2>1, <2>3
  <2>5. \A n \in Names : (disk'[n].is => Whole(disk'[n])) /\ (old'[n].is => Whole(old'[n]))
    BY <2>1, <2>2, <2>3, <2>4 DEF AWholeFile, Whole
  <2>6. first' => disk'["dot"].is \/ old'["dot"].is
    BY <2>1, <2>2, <2>3, <2>4 DEF AWholeFile
  <2>7. QED
    BY <2>5, <2>6 DEF AWholeFile
<1>5. CASE UNCHANGED <<disk, old, first>>
  BY <1>5, HurtStays DEF AWholeFile, Whole
<1>6. ASSUME NEW n \in Names, NEW b \in BOOLEAN, conf_write(n, b), UNCHANGED flags
      PROVE  UNCHANGED <<disk, old, first>>
  BY <1>6 DEF conf_write, flags
<1>7. ASSUME NEW n \in Names, Exits(n) PROVE UNCHANGED <<disk, old, first>>
  BY <1>6, <1>7 DEF Exits, flags
<1>8. ASSUME NEW n \in Names, NEW b \in BOOLEAN, Loads(n, b) PROVE UNCHANGED <<disk, old, first>>
  BY <1>8 DEF Loads
<1>9. ASSUME NEW p \in Parts, NEW v \in Vals, Set(p, v) PROVE UNCHANGED <<disk, old, first>>
  BY <1>9 DEF Set, flags
<1>10. ASSUME NEW p \in Parts, WriteSymbol(p) PROVE UNCHANGED <<disk, old, first>>
  BY <1>10 DEF WriteSymbol
<1>11. ASSUME Close \/ Killed \/ UNCHANGED filevars PROVE UNCHANGED <<disk, old, first>>
  BY <1>11 DEF Close, Killed, filevars, flags
<1>12. QED
  BY <1>1, <1>2, <1>3, <1>4, <1>5, <1>6, <1>7, <1>8, <1>9, <1>10, <1>11, FilesCases

(* What of a step leaves the configuration and the files alone. *)
LEMMA SavedStays == ASSUME Saved, UNCHANGED <<conf, disk>> PROVE Saved'
  BY DEF Saved, Whole

(* With nothing to save in the menu, the configuration is in a file.         *)
LEMMA CleanStep ==
    ASSUME FilesTypeOK, [FilesNext]_filevars, ~hurt', SaveIsWhole, CleanIsSaved
    PROVE  CleanIsSaved'
<1> SUFFICES ASSUME pc' = "menu", ~changed', ~slip' PROVE Saved'
  BY DEF CleanIsSaved
<1> USE DEF Names
<1>1. ASSUME NEW f \in Fronts, Starts(f) PROVE Saved'
  <2>1. mk_xconfig \in Contents
    BY StartIsContents
  <2>2. mk_xconfig.is /\ mk_xconfig.in = Parts
    BY <1>1 DEF Starts
  <2>3. conf' = mk_xconfig.val
    BY <1>1, <2>1, <2>2, ShownIsConf DEF Starts
  <2>4. disk'["dot"] = mk_xconfig
    BY <1>1 DEF Starts, FilesTypeOK
  <2>5. QED
    BY <2>2, <2>3, <2>4 DEF Saved, Whole
<1>2. ASSUME NEW n \in Names, NEW b \in BOOLEAN, Loads(n, b), pc = "menu" PROVE Saved'
  <2>1. disk' = disk
    BY <1>2 DEF Loads
  <2>2. CASE disk[n].is
    <3>1. disk[n] \in Contents
      BY DEF FilesTypeOK
    <3>2. conf' = Shown(disk[n]) /\ disk[n].in = Parts
      BY <1>2, <2>2 DEF Loads, Reads
    <3>3. conf' = disk[n].val
      BY <3>1, <3>2, ShownIsConf
    <3>4. QED
      BY <2>1, <2>2, <3>2, <3>3 DEF Saved, Whole
  <2>3. CASE ~disk[n].is
    <3>1. conf' = conf /\ ~changed /\ ~slip
      BY <1>2, <2>3 DEF Loads, Reads
    <3>2. QED
      BY <1>2, <2>1, <3>1, SavedStays DEF CleanIsSaved
  <2>4. QED
    BY <2>2, <2>3
<1>3. ASSUME NEW n \in Names, conf_write(n, FALSE), UNCHANGED flags, pc = "menu" PROVE Saved'
  <2>1. changed' = changed /\ UNCHANGED <<conf, disk, slip>>
    BY <1>3 DEF conf_write, flags
  <2>2. QED
    BY <1>3, <2>1, SavedStays DEF CleanIsSaved
<1>4. ASSUME NEW n \in Names, conf_write(n, TRUE), UNCHANGED flags, pc = "menu" PROVE Saved'
  <2>1. changed' = changed /\ UNCHANGED <<conf, disk, slip>>
    BY <1>4 DEF conf_write, flags
  <2>2. QED
    BY <1>4, <2>1, SavedStays DEF CleanIsSaved
<1>5. ASSUME NEW n \in Names, Exits(n), pc = "menu" PROVE Saved'
  BY <1>4, <1>5 DEF Exits
<1>6. CASE Install
  <2>1. tmp.is /\ tmp.in = Parts /\ tmp.val = conf
    BY <1>6, HurtStays DEF Install, SaveIsWhole
  <2>2. disk'[target] = tmp /\ conf' = conf /\ target \in Names
    BY <1>6 DEF Install, FilesTypeOK
  <2>3. QED
    BY <2>1, <2>2 DEF Saved, Whole
<1>7. CASE UNCHANGED filevars
  BY <1>7, SavedStays DEF filevars, CleanIsSaved
<1>8. ASSUME NEW p \in Parts, WriteSymbol(p) \/ \E v \in Vals : Set(p, v) PROVE FALSE
  BY <1>8 DEF WriteSymbol, Set
<1>9. ASSUME MakeClean \/ Close \/ Backup \/ Killed PROVE FALSE
  BY <1>9 DEF MakeClean, Close, Backup, Killed
<1>10. QED
  BY <1>1, <1>2, <1>3, <1>5, <1>6, <1>7, <1>8, <1>9, FilesCases

(* The end of a program keeps that, and make clean after it.                 *)
LEMMA EndStep ==
    ASSUME FilesTypeOK, [FilesNext]_filevars, ~hurt', SaveIsWhole, CleanIsSaved, EndIsSaved
    PROVE  EndIsSaved'
<1> DEFINE Moved == ~disk["dot"].is /\ Whole(old["dot"]) /\ old["dot"].val = conf
<1> SUFFICES ASSUME pc' = "off", told' = "end", ~slip' PROVE Saved' \/ Moved'
  BY DEF EndIsSaved
<1> USE DEF Names
<1>1. CASE MakeClean
  <2>1. /\ old' = [old EXCEPT !["dot"] = disk["dot"]] /\ disk["dot"].is
        /\ disk' = [disk EXCEPT !["dot"] = Missing]
        /\ conf' = conf /\ pc = "off" /\ told = "end" /\ ~slip
    BY <1>1 DEF MakeClean, session, flags
  <2>2. PICK n \in Names : Whole(disk[n]) /\ disk[n].val = conf
    BY <2>1 DEF EndIsSaved, Saved
  <2>3. CASE n = "dot"
    <3>1. ~disk'["dot"].is /\ old'["dot"] = disk["dot"]
      BY <2>1 DEF FilesTypeOK, Missing
    <3>2. QED
      BY <2>1, <2>2, <2>3, <3>1 DEF Whole
  <2>4. CASE n = "alt"
    <3>1. disk'["alt"] = disk["alt"]
      BY <2>1 DEF FilesTypeOK
    <3>2. QED
      BY <2>1, <2>2, <2>4, <3>1 DEF Saved, Whole
  <2>5. QED
    BY <2>2, <2>3, <2>4
<1>2. CASE Install
  <2>1. tmp.is /\ tmp.in = Parts /\ tmp.val = conf
    BY <1>2 DEF Install, SaveIsWhole
  <2>2. disk'[target] = tmp /\ conf' = conf /\ target \in Names
    BY <1>2 DEF Install, FilesTypeOK
  <2>3. QED
    BY <2>1, <2>2 DEF Saved, Whole
<1>3. ASSUME NEW n \in Names, NEW b \in BOOLEAN, conf_write(n, b), pc = "menu" PROVE FALSE
  BY <1>3 DEF conf_write, NotSaved
<1>4. ASSUME NEW n \in Names, Exits(n), pc = "menu" PROVE Saved'
  <2>1. ~changed /\ UNCHANGED <<session, saving, disk, old, count, flags>>
    BY <1>3, <1>4 DEF Exits
  <2>2. ~slip /\ UNCHANGED <<conf, disk>>
    BY <2>1 DEF session, flags
  <2>3. QED
    BY <1>4, <2>1, <2>2, SavedStays DEF CleanIsSaved
<1>5. CASE UNCHANGED filevars
  <2>1. UNCHANGED <<conf, disk, old>> /\ pc = "off" /\ told = "end" /\ ~slip
    BY <1>5 DEF filevars
  <2>2. QED
    BY <2>1, SavedStays DEF EndIsSaved, Whole
<1>6. ASSUME NEW n \in Names, NEW b \in BOOLEAN, Loads(n, b), pc = "menu" PROVE FALSE
  BY <1>6 DEF Loads
<1>7. ASSUME NEW p \in Parts, WriteSymbol(p) \/ \E v \in Vals : Set(p, v) PROVE FALSE
  BY <1>7 DEF WriteSymbol, Set
<1>8. ASSUME Close \/ Backup \/ Killed \/ \E f \in Fronts : Starts(f) PROVE FALSE
  BY <1>8 DEF Close, Backup, Killed, Starts
<1>9. QED
  BY <1>1, <1>2, <1>3, <1>4, <1>5, <1>6, <1>7, <1>8, FilesCases

LEMMA FilesInvStep == ASSUME FilesInv, [FilesNext]_filevars PROVE FilesInv'
<1>1. FilesTypeOK'
  BY FilesTypeStep DEF FilesInv
<1>2. CASE hurt'
  BY <1>1, <1>2 DEF FilesInv, AWholeFile
<1>3. CASE ~hurt'
  <2>1. ~hurt
    BY <1>3, HurtStays
  <2>2. AWholeFile' /\ SaveIsWhole' /\ CleanIsSaved' /\ EndIsSaved'
    BY <1>3, <2>1, WholeStep, SaveStep, CleanStep, EndStep DEF FilesInv
  <2>3. QED
    BY <1>1, <2>2 DEF FilesInv
<1>4. QED
  BY <1>2, <1>3

LEMMA FilesInvHolds == FilesSpec => []FilesInv
<1>1. FilesInit => FilesInv
  <2> SUFFICES ASSUME FilesInit PROVE FilesInv
    OBVIOUS
  <2>1. FilesTypeOK
    BY FilesTypeInit
  <2>2. AWholeFile /\ SaveIsWhole /\ CleanIsSaved /\ EndIsSaved
    BY DEF FilesInit, AWholeFile, SaveIsWhole, CleanIsSaved, EndIsSaved, Missing, Names
  <2>3. QED
    BY <2>1, <2>2 DEF FilesInv
<1>2. FilesInv /\ [FilesNext]_filevars => FilesInv'
  BY FilesInvStep
<1>3. QED
  BY <1>1, <1>2, PTL DEF FilesSpec

(* AWholeFile: however often programs are killed while they save, .config or *)
(* .config.old stays, and each file is the whole of a configuration, unless  *)
(* an operation failed or mconf was interrupted.                             *)
THEOREM FilesStayWhole == FilesSpec => []AWholeFile
<1>1. FilesInv => AWholeFile
  BY DEF FilesInv
<1>2. QED
  BY <1>1, FilesInvHolds, PTL

(* NothingIsLost: a program that ends without a word of unsaved changes      *)
(* leaves what it showed in one of the files.                                *)
THEOREM ChangesAreSaved == FilesSpec => []NothingIsLost
<1>1. FilesInv => NothingIsLost
  BY DEF FilesInv, EndIsSaved, Saved, NothingIsLost, Names
<1>2. QED
  BY <1>1, FilesInvHolds, PTL

-----------------------------------------------------------------------------
(* KbuildDeps: what make finds up to date is what a compilation from scratch *)
(* would make.                                                               *)

(* Whether autoconf.h defines a word when it is made of the values v.      *)
SeesIn(v, w) == v[w[1]] = IF w[2] = "" THEN "y" ELSE "m"

DepsTypes ==
    /\ dotconf \in [CfgSyms -> CfgVals] /\ auto \in [CfgSyms -> CfgVals]
    /\ header \in [CfgSyms -> CfgVals] /\ stale \in BOOLEAN
    /\ step \in {"idle", "split", "header", "auto"} /\ todo \subseteq CfgSyms
    /\ text \in [SrcFiles -> Texts]
    /\ newer \in [Obj -> SUBSET (SrcFiles \cup CfgSyms)] /\ DOMAIN deps = Obj
    /\ DOMAIN made = Obj /\ now \in Obj \cup {"none"}

(* The three files of conf: auto.conf is renewed last, and make compiles   *)
(* only when it is as new as .config.                                      *)
ConfInv ==
    /\ ~stale => step = "idle" /\ header = dotconf /\ auto = dotconf
    /\ step = "auto" => header = dotconf
    /\ now # "none" => ~stale

(* Before auto.conf is renewed, the stamp of each symbol it will change is *)
(* newer than every object.                                                *)
TouchedInv ==
    /\ step = "split" =>
         \A s \in CfgSyms \ todo : Changed(s) => \A o \in Obj : s \in newer[o]
    /\ step \in {"header", "auto"} =>
         \A s \in CfgSyms : Changed(s) => \A o \in Obj : s \in newer[o]

(* What an object was compiled from is what there is now, but for the      *)
(* files and symbols that are newer.                                       *)
MadeOf(o, f) ==
    /\ made[o][f].words = text[f].words
    /\ \A w \in text[f].words : w[1] \notin newer[o] =>
          (w \in made[o][f].defined <=> SeesIn(auto, w))
MadeInv ==
    \A o \in Obj : made[o] # NoObject =>
        /\ made[o] \in [Objects[o] -> [words : SUBSET CfgWords, defined : SUBSET CfgWords]]
        /\ \A f \in Objects[o] : made[o][f].defined \subseteq made[o][f].words
        /\ \A f \in Objects[o] \ newer[o] : MadeOf(o, f)

(* And fixdep has named all of them.                                       *)
FixdepInv ==
    \A o \in Obj : made[o] # NoObject /\ now # o =>
        /\ Objects[o] \subseteq deps[o]
        /\ \A f \in Objects[o] \ newer[o] : parse_config_file(text[f]) \subseteq deps[o]

DepsInv == DepsTypes /\ ConfInv /\ TouchedInv /\ MadeInv /\ FixdepInv

-----------------------------------------------------------------------------
(* Types *)

LEMMA TypesInit == ASSUME DepsInit PROVE DepsTypes
  BY DepsAssumption DEF DepsAssumption, DepsInit, DepsTypes, AllNo, Obj

(* What is touched is newer than every object, and the rest stays.         *)
LEMMA TouchType ==
    ASSUME DepsTypes, NEW x \in SrcFiles \cup CfgSyms
    PROVE  /\ Newer({x}) \in [Obj -> SUBSET (SrcFiles \cup CfgSyms)]
           /\ \A o \in Obj : Newer({x})[o] = newer[o] \cup {x}
  BY DEF DepsTypes, Newer

LEMMA TypesStep == ASSUME DepsTypes, [DepsNext]_depsvars PROVE DepsTypes'
<1>1. ASSUME NEW c \in [CfgSyms -> CfgVals], Configure(c) PROVE DepsTypes'
  BY <1>1 DEF DepsTypes, Configure, compiling
<1>2. ASSUME NEW f \in SrcFiles, NEW t \in Texts, EditFile(f, t) PROVE DepsTypes'
  BY <1>2, TouchType DEF DepsTypes, EditFile, configuring
<1>3. CASE conf_write_autoconf
  BY <1>3 DEF DepsTypes, conf_write_autoconf, compiling
<1>4. ASSUME NEW s \in CfgSyms, conf_split_config(s) PROVE DepsTypes'
  BY <1>4, TouchType DEF DepsTypes, conf_split_config
<1>5. CASE InstallHeader
  BY <1>5 DEF DepsTypes, InstallHeader, compiling
<1>6. CASE InstallAuto
  BY <1>6 DEF DepsTypes, InstallAuto, compiling
<1>7. ASSUME NEW o \in Obj, Compile(o) PROVE DepsTypes'
  BY <1>7 DEF DepsTypes, Compile, configuring
<1>8. CASE fixdep
  BY <1>8 DEF DepsTypes, fixdep, configuring
<1>9. CASE KillConf
  BY <1>9 DEF DepsTypes, KillConf, compiling
<1>10. CASE InterruptMake
  BY <1>10 DEF DepsTypes, InterruptMake, configuring
<1>11. CASE UNCHANGED depsvars
  BY <1>11 DEF DepsTypes, depsvars
<1>12. QED
  BY <1>1, <1>2, <1>3, <1>4, <1>5, <1>6, <1>7, <1>8, <1>9, <1>10, <1>11 DEF DepsNext

-----------------------------------------------------------------------------
(* conf: its files and the stamps *)

LEMMA ConfStep == ASSUME DepsTypes, ConfInv, [DepsNext]_depsvars PROVE ConfInv'
<1>1. ASSUME NEW c \in [CfgSyms -> CfgVals], Configure(c) PROVE ConfInv'
  BY <1>1 DEF ConfInv, Configure, compiling
<1>2. ASSUME NEW f \in SrcFiles, NEW t \in Texts, EditFile(f, t) PROVE ConfInv'
  BY <1>2 DEF ConfInv, EditFile, configuring
<1>3. CASE conf_write_autoconf
  BY <1>3 DEF ConfInv, conf_write_autoconf, compiling
<1>4. ASSUME NEW s \in CfgSyms, conf_split_config(s) PROVE ConfInv'
  BY <1>4 DEF ConfInv, conf_split_config
<1>5. CASE InstallHeader
  BY <1>5 DEF ConfInv, InstallHeader, compiling
<1>6. CASE InstallAuto
  BY <1>6 DEF ConfInv, InstallAuto, compiling
<1>7. ASSUME NEW o \in Obj, Compile(o) PROVE ConfInv'
  BY <1>7 DEF ConfInv, Compile, configuring
<1>8. CASE fixdep
  BY <1>8 DEF ConfInv, fixdep, configuring
<1>9. CASE KillConf
  BY <1>9 DEF ConfInv, KillConf, compiling
<1>10. CASE InterruptMake
  BY <1>10 DEF ConfInv, InterruptMake, configuring
<1>11. CASE UNCHANGED depsvars
  BY <1>11 DEF ConfInv, depsvars
<1>12. QED
  BY <1>1, <1>2, <1>3, <1>4, <1>5, <1>6, <1>7, <1>8, <1>9, <1>10, <1>11 DEF DepsNext

(* While conf is at work no object is compiled, so that nothing stops      *)
(* being newer.                                                            *)
LEMMA TouchedStep ==
    ASSUME DepsTypes, ConfInv, TouchedInv, [DepsNext]_depsvars PROVE TouchedInv'
<1>1. ASSUME NEW c \in [CfgSyms -> CfgVals], Configure(c) PROVE TouchedInv'
  BY <1>1 DEF TouchedInv, Configure, compiling
<1>2. ASSUME NEW f \in SrcFiles, NEW t \in Texts, EditFile(f, t) PROVE TouchedInv'
  BY <1>2, TouchType DEF TouchedInv, EditFile, configuring, Changed
<1>3. CASE conf_write_autoconf
  BY <1>3 DEF TouchedInv, conf_write_autoconf, compiling
<1>4. ASSUME NEW s \in CfgSyms, conf_split_config(s) PROVE TouchedInv'
  <2>1. /\ step = "split" /\ todo' = todo \ {s} /\ (Changed(s)' <=> Changed(s))
        /\ step' \in {"split", "header"} /\ (step' = "header" => todo' = {})
    BY <1>4 DEF conf_split_config, Changed
  <2>2. ASSUME NEW q \in CfgSyms \ todo', Changed(q)', NEW o \in Obj PROVE q \in newer'[o]
    <3>1. Changed(q) /\ (q = s \/ q \in CfgSyms \ todo)
      BY <1>4, <2>1, <2>2 DEF conf_split_config, Changed
    <3>2. CASE q = s
      <4>1. newer' = Newer({s})
        BY <1>4, <3>1, <3>2 DEF conf_split_config
      <4>2. Newer({s})[o] = newer[o] \cup {s}
        BY TouchType
      <4>3. QED
        BY <3>2, <4>1, <4>2
    <3>3. CASE q \in CfgSyms \ todo
      <4>1. q \in newer[o]
        BY <2>1, <3>1, <3>3 DEF TouchedInv
      <4>2. newer'[o] = newer[o] \/ newer'[o] = newer[o] \cup {s}
        BY <1>4, TouchType DEF conf_split_config
      <4>3. QED
        BY <4>1, <4>2
    <3>4. QED
      BY <3>1, <3>2, <3>3
  <2>3. QED
    BY <2>1, <2>2 DEF TouchedInv
<1>5. CASE InstallHeader
  BY <1>5 DEF TouchedInv, InstallHeader, compiling, Changed
<1>6. CASE InstallAuto
  BY <1>6 DEF TouchedInv, InstallAuto, compiling
<1>7. ASSUME NEW o \in Obj, Compile(o) PROVE TouchedInv'
  BY <1>7 DEF TouchedInv, Compile, configuring
<1>8. CASE fixdep
  BY <1>8 DEF TouchedInv, fixdep, configuring, Changed
<1>9. CASE KillConf
  BY <1>9 DEF TouchedInv, KillConf, compiling
<1>10. CASE InterruptMake
  BY <1>10 DEF TouchedInv, InterruptMake, configuring, Changed
<1>11. CASE UNCHANGED depsvars
  BY <1>11 DEF TouchedInv, depsvars, Changed
<1>12. QED
  BY <1>1, <1>2, <1>3, <1>4, <1>5, <1>6, <1>7, <1>8, <1>9, <1>10, <1>11 DEF DepsNext

-----------------------------------------------------------------------------
(* make: what the objects are *)

(* Steps that make nothing older and change no text, for the objects whose *)
(* values of auto.conf are the same.                                       *)
LEMMA MadeKept ==
    ASSUME MadeInv, UNCHANGED <<text, made>>, DepsTypes,
           \A o \in Obj : newer[o] \subseteq newer'[o],
           \A o \in Obj, s \in CfgSyms : s \notin newer'[o] => auto'[s] = auto[s]
    PROVE  MadeInv'
<1>1. SUFFICES ASSUME NEW o \in Obj, made'[o] # NoObject
               PROVE  /\ made'[o] \in [Objects[o] -> [words : SUBSET CfgWords, defined : SUBSET CfgWords]]
                      /\ \A f \in Objects[o] : made'[o][f].defined \subseteq made'[o][f].words
                      /\ \A f \in Objects[o] \ newer'[o] : MadeOf(o, f)'
  BY DEF MadeInv
<1>2. \A f \in Objects[o] \ newer[o] : MadeOf(o, f)
  BY <1>1 DEF MadeInv
<1>3. ASSUME NEW f \in Objects[o] \ newer'[o] PROVE MadeOf(o, f)'
  <2>1. MadeOf(o, f) /\ f \in SrcFiles
    BY <1>2, <1>3, DepsAssumption DEF DepsAssumption, Obj
  <2>2. ASSUME NEW w \in text[f].words, w[1] \notin newer'[o]
        PROVE  w \in made[o][f].defined <=> SeesIn(auto', w)
    <3>1. w[1] \in CfgSyms
      <4>1. text[f] \in Texts
        BY <2>1 DEF DepsTypes
      <4>2. w \in CfgWords
        BY <2>2, <4>1, DepsAssumption DEF DepsAssumption
      <4>3. QED
        BY <4>2 DEF CfgWords
    <3>2. QED
      BY <2>1, <2>2, <3>1 DEF MadeOf, SeesIn
  <2>3. QED
    BY <2>1, <2>2 DEF MadeOf
<1>4. QED
  BY <1>1, <1>3 DEF MadeInv

(* What a compilation sees, when autoconf.h and auto.conf agree.           *)
LEMMA CompiledIsNow ==
    ASSUME DepsTypes, header = auto, NEW o \in Obj
    PROVE  /\ Compiled(o) \in [Objects[o] -> [words : SUBSET CfgWords, defined : SUBSET CfgWords]]
           /\ \A f \in Objects[o] :
                 /\ Compiled(o)[f].words = text[f].words
                 /\ Compiled(o)[f].defined = {w \in text[f].words : SeesIn(auto, w)}
<1>1. \A f \in Objects[o] : text[f].words \in SUBSET CfgWords
  BY DepsAssumption DEF DepsAssumption, DepsTypes, Obj
<1>2. QED
  BY <1>1 DEF Compiled, Sees, SeesIn

LEMMA MadeStep ==
    ASSUME DepsTypes, ConfInv, TouchedInv, MadeInv, [DepsNext]_depsvars PROVE MadeInv'
<1>1. ASSUME NEW c \in [CfgSyms -> CfgVals], Configure(c) PROVE MadeInv'
  BY <1>1, MadeKept DEF Configure, compiling
<1>2. ASSUME NEW f \in SrcFiles, NEW t \in Texts, EditFile(f, t) PROVE MadeInv'
  <2>1. SUFFICES ASSUME NEW o \in Obj, made'[o] # NoObject
                 PROVE  /\ made'[o] \in [Objects[o] -> [words : SUBSET CfgWords, defined : SUBSET CfgWords]]
                        /\ \A g \in Objects[o] : made'[o][g].defined \subseteq made'[o][g].words
                        /\ \A g \in Objects[o] \ newer'[o] : MadeOf(o, g)'
    BY DEF MadeInv
  <2>2. newer'[o] = newer[o] \cup {f} /\ made' = made /\ auto' = auto
    BY <1>2, TouchType DEF EditFile, configuring
  <2>3. ASSUME NEW g \in Objects[o] \ newer'[o] PROVE MadeOf(o, g)'
    <3>1. g # f /\ MadeOf(o, g)
      BY <2>1, <2>2, <2>3 DEF MadeInv
    <3>2. text'[g] = text[g]
      BY <1>2, <3>1 DEF EditFile, DepsTypes
    <3>3. QED
      BY <2>2, <3>1, <3>2 DEF MadeOf, SeesIn
  <2>4. QED
    BY <2>1, <2>2, <2>3 DEF MadeInv
<1>3. CASE conf_write_autoconf
  BY <1>3, MadeKept DEF conf_write_autoconf, compiling
<1>4. ASSUME NEW s \in CfgSyms, conf_split_config(s) PROVE MadeInv'
  <2>1. \A o \in Obj : newer[o] \subseteq newer'[o]
    BY <1>4, TouchType DEF conf_split_config
  <2>2. QED
    BY <1>4, <2>1, MadeKept DEF conf_split_config
<1>5. CASE InstallHeader
  BY <1>5, MadeKept DEF InstallHeader, compiling
<1>6. CASE InstallAuto
  <2>1. \A o \in Obj, s \in CfgSyms : s \notin newer'[o] => auto'[s] = auto[s]
    BY <1>6 DEF InstallAuto, compiling, TouchedInv, Changed
  <2>2. QED
    BY <1>6, <2>1, MadeKept DEF InstallAuto, compiling
<1>7. ASSUME NEW o \in Obj, Compile(o) PROVE MadeInv'
  <2>1. SUFFICES ASSUME NEW q \in Obj, made'[q] # NoObject
                 PROVE  /\ made'[q] \in [Objects[q] -> [words : SUBSET CfgWords, defined : SUBSET CfgWords]]
                        /\ \A f \in Objects[q] : made'[q][f].defined \subseteq made'[q][f].words
                        /\ \A f \in Objects[q] \ newer'[q] : MadeOf(q, f)'
    BY DEF MadeInv
  <2>2. text' = text /\ auto' = auto /\ header = auto
    BY <1>7 DEF Compile, configuring, ConfInv
  <2>3. CASE q = o
    <3>1. made'[q] = Compiled(q)
      BY <1>7, <2>3 DEF Compile, DepsTypes
    <3>2. \A f \in Objects[q] : Compiled(q)[f].defined \subseteq Compiled(q)[f].words
      BY <2>2, CompiledIsNow
    <3>3. ASSUME NEW f \in Objects[q] PROVE MadeOf(q, f)'
      <4>1. /\ made'[q][f].words = text[f].words
            /\ made'[q][f].defined = {w \in text[f].words : SeesIn(auto, w)}
        BY <2>2, <3>1, CompiledIsNow
      <4>2. \A w \in text[f].words : w \in made'[q][f].defined <=> SeesIn(auto, w)
        BY <4>1
      <4>3. \A w \in text[f].words : w \in made'[q][f].defined <=> SeesIn(auto', w)
        BY <2>2, <4>2
      <4>4. QED
        BY <2>2, <4>1, <4>3 DEF MadeOf
    <3>4. QED
      BY <2>2, <3>1, <3>2, <3>3, CompiledIsNow
  <2>4. CASE q # o
    <3>1. made'[q] = made[q] /\ newer'[q] = newer[q]
      BY <1>7, <2>4 DEF Compile, DepsTypes
    <3>2. ASSUME NEW f \in Objects[q] \ newer'[q] PROVE MadeOf(q, f)'
      <4>1. MadeOf(q, f)
        BY <2>1, <3>1, <3>2 DEF MadeInv
      <4>2. QED
        BY <2>2, <3>1, <4>1 DEF MadeOf
    <3>3. QED
      BY <2>1, <3>1, <3>2 DEF MadeInv
  <2>5. QED
    BY <2>3, <2>4
<1>8. CASE fixdep
  BY <1>8, MadeKept DEF fixdep, configuring
<1>9. CASE KillConf
  BY <1>9, MadeKept DEF KillConf, compiling
<1>10. CASE InterruptMake
  <2>1. SUFFICES ASSUME NEW q \in Obj, made'[q] # NoObject
                 PROVE  /\ made'[q] \in [Objects[q] -> [words : SUBSET CfgWords, defined : SUBSET CfgWords]]
                        /\ \A f \in Objects[q] : made'[q][f].defined \subseteq made'[q][f].words
                        /\ \A f \in Objects[q] \ newer'[q] : MadeOf(q, f)'
    BY DEF MadeInv
  <2>2. /\ made'[q] = made[q] /\ newer'[q] = newer[q]
        /\ text' = text /\ auto' = auto
    BY <1>10, <2>1 DEF InterruptMake, configuring, DepsTypes
  <2>3. ASSUME NEW f \in Objects[q] \ newer'[q] PROVE MadeOf(q, f)'
    <3>1. MadeOf(q, f)
      BY <2>1, <2>2, <2>3 DEF MadeInv
    <3>2. QED
      BY <2>2, <3>1 DEF MadeOf
  <2>4. QED
    BY <2>1, <2>2, <2>3 DEF MadeInv
<1>11. CASE UNCHANGED depsvars
  BY <1>11, MadeKept DEF depsvars
<1>12. QED
  BY <1>1, <1>2, <1>3, <1>4, <1>5, <1>6, <1>7, <1>8, <1>9, <1>10, <1>11 DEF DepsNext

(* Of steps that leave objects, texts and what is known of them.           *)
LEMMA FixdepKept ==
    ASSUME FixdepInv, UNCHANGED <<text, made, deps, now>>,
           \A o \in Obj : newer[o] \subseteq newer'[o]
    PROVE  FixdepInv'
  BY DEF FixdepInv, parse_config_file

LEMMA FixdepStep == ASSUME DepsTypes, FixdepInv, [DepsNext]_depsvars PROVE FixdepInv'
<1>1. ASSUME NEW c \in [CfgSyms -> CfgVals], Configure(c) PROVE FixdepInv'
  BY <1>1, FixdepKept DEF Configure, compiling
<1>2. ASSUME NEW f \in SrcFiles, NEW t \in Texts, EditFile(f, t) PROVE FixdepInv'
  <2>1. SUFFICES ASSUME NEW o \in Obj, made'[o] # NoObject, now' # o
                 PROVE  /\ Objects[o] \subseteq deps'[o]
                        /\ \A g \in Objects[o] \ newer'[o] : parse_config_file(text'[g]) \subseteq deps'[o]
    BY DEF FixdepInv, parse_config_file
  <2>2. newer'[o] = newer[o] \cup {f} /\ made' = made /\ now' = now /\ deps' = deps
    BY <1>2, TouchType DEF EditFile
  <2>3. \A g \in SrcFiles \ {f} : text'[g] = text[g]
    BY <1>2 DEF EditFile, DepsTypes
  <2>4. Objects[o] \subseteq SrcFiles
    BY DepsAssumption DEF DepsAssumption, Obj
  <2>5. QED
    BY <2>1, <2>2, <2>3, <2>4 DEF FixdepInv
<1>3. CASE conf_write_autoconf
  BY <1>3, FixdepKept DEF conf_write_autoconf, compiling
<1>4. ASSUME NEW s \in CfgSyms, conf_split_config(s) PROVE FixdepInv'
  <2>1. \A o \in Obj : newer[o] \subseteq newer'[o]
    BY <1>4, TouchType DEF conf_split_config
  <2>2. QED
    BY <1>4, <2>1, FixdepKept DEF conf_split_config
<1>5. CASE InstallHeader
  BY <1>5, FixdepKept DEF InstallHeader, compiling
<1>6. CASE InstallAuto
  BY <1>6, FixdepKept DEF InstallAuto, compiling
<1>7. ASSUME NEW o \in Obj, Compile(o) PROVE FixdepInv'
  <2>1. \A q \in Obj \ {o} : made'[q] = made[q] /\ newer'[q] = newer[q]
    BY <1>7 DEF Compile, DepsTypes
  <2>2. now = "none" /\ now' = o /\ text' = text /\ deps' = deps
    BY <1>7 DEF Compile
  <2>3. "none" \notin Obj
    BY DepsAssumption DEF DepsAssumption, Obj
  <2>4. QED
    BY <2>1, <2>2, <2>3 DEF FixdepInv, parse_config_file
<1>8. CASE fixdep
  <2>1. now \in Obj /\ deps'[now] = parse_dep_file(now) /\ \A q \in Obj \ {now} : deps'[q] = deps[q]
    BY <1>8 DEF fixdep, DepsTypes
  <2>2. text' = text /\ made' = made /\ newer' = newer
    BY <1>8 DEF fixdep
  <2>3. /\ Objects[now] \subseteq parse_dep_file(now)
        /\ \A f \in Objects[now] : parse_config_file(text[f]) \subseteq parse_dep_file(now)
    BY DEF parse_dep_file
  <2>4. QED
    BY <2>1, <2>2, <2>3 DEF FixdepInv, parse_config_file
<1>9. CASE KillConf
  BY <1>9, FixdepKept DEF KillConf, compiling
<1>10. CASE InterruptMake
  <2>1. made' = [made EXCEPT ![now] = NoObject] /\ UNCHANGED <<text, newer, deps>>
    BY <1>10 DEF InterruptMake
  <2>2. \A q \in Obj : made'[q] # NoObject => q # now /\ made'[q] = made[q]
    BY <2>1 DEF DepsTypes
  <2>3. QED
    BY <2>1, <2>2 DEF FixdepInv, parse_config_file
<1>11. CASE UNCHANGED depsvars
  BY <1>11, FixdepKept DEF depsvars
<1>12. QED
  BY <1>1, <1>2, <1>3, <1>4, <1>5, <1>6, <1>7, <1>8, <1>9, <1>10, <1>11 DEF DepsNext

-----------------------------------------------------------------------------
(* The invariant of KbuildDeps: what is not newer than an object is what   *)
(* it was compiled from (conf_split_config, fixdep.c).                     *)
THEOREM DepsInvariant == DepsSpec => []DepsInv
<1>1. DepsInit => DepsInv
  <2>1. ASSUME DepsInit PROVE ConfInv /\ TouchedInv /\ MadeInv /\ FixdepInv
    BY <2>1 DEF DepsInit, ConfInv, TouchedInv, MadeInv, FixdepInv
  <2>2. QED
    BY <2>1, TypesInit DEF DepsInv
<1>2. DepsInv /\ [DepsNext]_depsvars => DepsInv'
  BY TypesStep, ConfStep, TouchedStep, MadeStep, FixdepStep DEF DepsInv
<1>3. QED
  BY <1>1, <1>2, PTL DEF DepsSpec

(* An object that make finds up to date is what a compilation from scratch *)
(* makes of the texts and of .config, though only what mentions a changed  *)
(* symbol was compiled again, and conf and make may have been killed       *)
(* anywhere (confdata.c, conf_write_autoconf; fixdep.c).                   *)
THEOREM UpToDateIsBuilt == DepsSpec => []BuiltAsConfigured
<1>1. DepsInv => BuiltAsConfigured
  <2>1. SUFFICES ASSUME DepsInv, step = "idle", ~stale, now = "none", ~\E o \in Obj : OutOfDate(o)
                 PROVE  /\ header = dotconf
                        /\ \A o \in Obj : (\A f \in Objects[o] : text[f].edge = {}) => made[o] = Compiled(o)
    BY DEF BuiltAsConfigured
  <2>2. DepsTypes /\ header = dotconf /\ header = auto
    BY <2>1 DEF DepsInv, ConfInv
  <2>3. ASSUME NEW o \in Obj, \A f \in Objects[o] : text[f].edge = {} PROVE made[o] = Compiled(o)
    <3>1. made[o] # NoObject /\ newer[o] \cap deps[o] = {} /\ now # o
      BY <2>1, DepsAssumption DEF OutOfDate, DepsAssumption, Obj
    <3>2. Objects[o] \cap newer[o] = {}
      BY <2>1, <3>1 DEF DepsInv, FixdepInv
    <3>3. \A f \in Objects[o] : parse_config_file(text[f]) \subseteq deps[o] /\ MadeOf(o, f)
      BY <2>1, <3>1, <3>2 DEF DepsInv, FixdepInv, MadeInv
    <3>4. ASSUME NEW f \in Objects[o] PROVE made[o][f] = Compiled(o)[f]
      <4>1. \A w \in text[f].words : w[1] \notin newer[o]
        BY <2>3, <3>1, <3>3 DEF parse_config_file
      <4>2. /\ made[o][f].words = text[f].words
            /\ \A w \in text[f].words : w \in made[o][f].defined <=> SeesIn(auto, w)
        BY <3>3, <4>1 DEF MadeOf
      <4>3. /\ made[o][f] \in [words : SUBSET CfgWords, defined : SUBSET CfgWords]
            /\ made[o][f].defined \subseteq made[o][f].words
        BY <2>1, <3>1 DEF DepsInv, MadeInv
      <4>4. made[o][f].defined = {w \in text[f].words : SeesIn(auto, w)}
        BY <4>2, <4>3
      <4>5. /\ Compiled(o)[f] \in [words : SUBSET CfgWords, defined : SUBSET CfgWords]
            /\ Compiled(o)[f].words = made[o][f].words
            /\ Compiled(o)[f].defined = made[o][f].defined
        BY <2>2, <4>2, <4>4, CompiledIsNow
      <4>6. QED
        BY <4>3, <4>5
    <3>5. DOMAIN made[o] = Objects[o] /\ DOMAIN Compiled(o) = Objects[o]
      BY <2>1, <3>1 DEF DepsInv, MadeInv, Compiled
    <3>6. /\ made[o] = [f \in Objects[o] |-> made[o][f]]
          /\ Compiled(o) = [f \in Objects[o] |-> Compiled(o)[f]]
      BY <2>1, <2>2, <3>1, CompiledIsNow DEF DepsInv, MadeInv
    <3>7. QED
      BY <3>4, <3>6
  <2>4. QED
    BY <2>2, <2>3
<1>2. QED
  BY <1>1, DepsInvariant, PTL

=============================================================================
