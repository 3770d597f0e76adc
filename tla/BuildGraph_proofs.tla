------------------------- MODULE BuildGraph_proofs -------------------------
(***************************************************************************)
(* The invariants of BuildGraph, for any packages, dependencies, selections *)
(* and number of makes.                                                    *)
(***************************************************************************)
EXTENDS BuildGraph, TLAPS

-----------------------------------------------------------------------------
(* The inductive invariant *)

(* What a recorded configuration may be, and what a make knows. *)
Confs == {<< >>} \cup UNION {[S -> PkgOpts] : S \in SUBSET Pkgs}
Makes == [inst : SUBSET Pkgs, ok : [Pkgs -> Confs], goals : SUBSET Pkgs,
          at : {"next", "unmark", "deps", "install", "mark", "record"}, pkg : Pkgs \cup {""}]

(* Types. *)
GraphTypes ==
    /\ wanted \in Selections
    /\ installed \subseteq Pkgs /\ gone \subseteq Pkgs
    /\ okconfigs \in [Pkgs -> Confs]
    /\ DOMAIN sysroot = Pkgs
    /\ stage \in {"idle", "clean", "components", "generate", "done"}
    /\ makes \in Seq(Makes)
    /\ stage \notin {"idle", "done"} => Len(makes) >= 1

(* What a make has read is out of date only where it errs on the safe side.  *)
ReadSoundly(m) ==
    /\ m.goals \subseteq wanted.on
    /\ \A p \in wanted.on : m.ok[p] = kconfigs_all_v(p) => okconfigs[p] = kconfigs_all_v(p)
    /\ \A p \in m.goals : p \in m.inst => p \in installed
    /\ (stage = "components" /\ m.at # "next") => m.pkg \in wanted.on
ReadsInv == stage \in {"clean", "components"} => \A i \in 1..Len(makes) : ReadSoundly(makes[i])

(* Of the packages a make was started for, each is done, under way or to come. *)
Pending(m, S) == \A d \in S : d \in m.goals \/ UpToDate(d) \/ (m.at # "next" /\ d = m.pkg)
NestInv ==
    stage = "components" =>
        /\ Pending(makes[1], wanted.on)
        /\ \A i \in 1..(Len(makes) - 1) :
              makes[i].at = "deps" /\ Pending(makes[i + 1], depspkgv(makes[i].pkg))
        /\ this.at \in {"next", "install", "mark", "record"}
        /\ this.at = "install" => \A d \in depspkgv(this.pkg) : UpToDate(d)
        /\ this.at = "record" => this.pkg \in installed

(* The cleanup leaves what is selected, and all that is made is selected. *)
CleanInv ==
    /\ stage = "clean" =>
          /\ Len(makes) = 1 /\ this.goals = wanted.on /\ this.at \in {"next", "unmark"}
          /\ gone \cap wanted.on = {} /\ installed \subseteq wanted.on \cup gone
          /\ this.at = "unmark" => this.pkg \in gone
    /\ stage \in {"components", "generate", "done"} => installed \subseteq wanted.on
    /\ stage \in {"generate", "done"} => \A p \in wanted.on : UpToDate(p)

(* The files of a package are what its marker and its record say of them,    *)
(* but while they are replaced or removed.                                   *)
AsRecorded(p) ==
    /\ sysroot[p].is = "whole" /\ DOMAIN sysroot[p].with = DOMAIN okconfigs[p]
    /\ \A q \in DOMAIN okconfigs[p] : sysroot[p].with[q] = [opt |-> okconfigs[p][q], whole |-> TRUE]
InFlux(p) == stage \in {"clean", "components"} /\ this.pkg = p /\ this.at \in {"unmark", "mark", "record"}
SysrootInv ==
    /\ \A p \in Pkgs \ cutoff : ~InFlux(p) =>
          IF p \in installed THEN AsRecorded(p) ELSE sysroot[p] = NoFiles
    /\ (stage = "clean" /\ this.at = "unmark") => sysroot[this.pkg] = NoFiles
    /\ (stage = "components" /\ this.at \in {"mark", "record"} /\ depspkgv(this.pkg) \cap cutoff = {}) =>
          sysroot[this.pkg] =
             [is |-> "whole", with |-> [q \in {this.pkg} \cup depspkgv(this.pkg) |->
                                          [opt |-> wanted.opt[q], whole |-> TRUE]]]
    /\ (stage = "done" /\ ~archive.lossy) => archive.of = sysroot

GraphInv == GraphTypes /\ ReadsInv /\ NestInv /\ CleanInv /\ SysrootInv

-----------------------------------------------------------------------------
(* Of the definitions *)

(* What is recorded of a package is a configuration. *)
LEMMA KconfigIsConf ==
    ASSUME wanted \in Selections, NEW p \in Pkgs
    PROVE  /\ kconfigs_all_v(p) \in Confs /\ kconfigs_all_v(p) # << >>
           /\ DOMAIN kconfigs_all_v(p) = {p} \cup depspkgv(p)
           /\ depspkgv(p) \subseteq wanted.on /\ wanted.on \subseteq Pkgs
           /\ \A q \in {p} \cup depspkgv(p) : kconfigs_all_v(p)[q] = wanted.opt[q]
<1>1. wanted \in [on : SUBSET Pkgs, opt : [Pkgs -> PkgOpts]] /\ Deps[p] \subseteq Pkgs
  BY GraphAssumption DEF GraphAssumption
<1>2. {p} \cup depspkgv(p) \in SUBSET Pkgs
  BY <1>1 DEF depspkgv
<1>3. kconfigs_all_v(p) \in [{p} \cup depspkgv(p) -> PkgOpts]
  BY <1>1, <1>2 DEF kconfigs_all_v
<1>4. kconfigs_all_v(p) \in Confs
  BY <1>2, <1>3 DEF Confs
<1>5. p \in DOMAIN kconfigs_all_v(p)
  BY <1>3
<1>6. kconfigs_all_v(p) # << >>
  BY <1>5
<1>7. QED
  BY <1>1, <1>3, <1>4, <1>6 DEF kconfigs_all_v, depspkgv

(* They are functions of the selection. *)
LEMMA SameSelection ==
    ASSUME wanted' = wanted
    PROVE  \A p : kconfigs_all_v(p)' = kconfigs_all_v(p) /\ depspkgv(p)' = depspkgv(p)
  BY DEF kconfigs_all_v, depspkgv

(* A step of the innermost make leaves the others as they are. *)
LEMMA ThisMakeChanges ==
    ASSUME makes \in Seq(Makes), Len(makes) >= 1, NEW m \in Makes, ThisMake(m)
    PROVE  /\ makes' \in Seq(Makes) /\ Len(makes') = Len(makes)
           /\ this' = m /\ makes'[Len(makes)] = m
           /\ \A i \in 1..(Len(makes) - 1) : makes'[i] = makes[i]
           /\ this \in Makes
  BY DEF ThisMake, this


(* The innermost make is one of the makes. *)
LEMMA ThisIsAMake ==
    ASSUME GraphTypes, stage \notin {"idle", "done"}
    PROVE  /\ this \in Makes /\ Len(makes) \in Nat /\ Len(makes) >= 1
           /\ this = makes[Len(makes)] /\ Len(makes) \in 1..Len(makes)
  BY DEF GraphTypes, this

(* A package that is up to date stays so while markers and records are only  *)
(* added, as they are for the selection.                                     *)
LEMMA UpToDateStays ==
    ASSUME wanted' = wanted, installed \subseteq installed',
           \A p : okconfigs[p] = kconfigs_all_v(p) => okconfigs'[p] = kconfigs_all_v(p)
    PROVE  \A p : UpToDate(p) => UpToDate(p)'
  BY SameSelection DEF UpToDate

-----------------------------------------------------------------------------
(* Between builds, and their start *)

LEMMA InitInv == ASSUME GraphInit PROVE GraphInv
<1>1. GraphTypes
  BY DEF GraphInit, GraphTypes, Confs
<1>2. SysrootInv
  BY DEF GraphInit, SysrootInv, InFlux
<1>3. ReadsInv /\ NestInv /\ CleanInv
  BY DEF GraphInit, ReadsInv, NestInv, CleanInv
<1>4. QED
  BY <1>1, <1>2, <1>3 DEF GraphInv

LEMMA SelectInv == ASSUME GraphInv, NEW c \in Selections, Select(c) PROVE GraphInv'
<1>1. GraphTypes'
  BY DEF GraphInv, Select, GraphTypes, ondisk
<1>2. SysrootInv'
  BY DEF GraphInv, SysrootInv, InFlux, AsRecorded, Select, ondisk
<1>3. ReadsInv' /\ NestInv' /\ CleanInv'
  BY DEF Select, ReadsInv, NestInv, CleanInv
<1>4. QED
  BY <1>1, <1>2, <1>3 DEF GraphInv

(* What a make reads when it starts is true. *)
LEMMA IncludeIsSound ==
    ASSUME GraphTypes, NEW goals \in SUBSET wanted.on
    PROVE  /\ include_pkg(goals) \in Makes
           /\ include_pkg(goals).at = "next" /\ include_pkg(goals).goals = goals
           /\ \A p \in wanted.on : include_pkg(goals).ok[p] = okconfigs[p]
           /\ include_pkg(goals).inst = installed
<1>1. wanted.on \subseteq Pkgs
  BY GraphAssumption DEF GraphAssumption, GraphTypes
<1>2. [p \in Pkgs |-> IF p \in wanted.on THEN okconfigs[p] ELSE << >>] \in [Pkgs -> Confs]
  BY DEF GraphTypes, Confs
<1>3. QED
  BY <1>1, <1>2 DEF GraphTypes, include_pkg, Makes

LEMMA rootfs_buildInv == ASSUME GraphInv, rootfs_build PROVE GraphInv'
<1> DEFINE m == include_pkg(wanted.on)
<1>1. /\ m \in Makes /\ m.at = "next" /\ m.goals = wanted.on /\ m.inst = installed
      /\ \A p \in wanted.on : m.ok[p] = okconfigs[p]
  BY IncludeIsSound DEF GraphInv
<1>2. /\ makes' = <<m>> /\ Len(makes') = 1 /\ makes'[1] = m /\ this' = m
      /\ wanted' = wanted /\ stage' = "clean" /\ gone' = installed \ wanted.on
      /\ installed' = installed /\ okconfigs' = okconfigs /\ sysroot' = sysroot
      /\ cutoff' = cutoff /\ stage \in {"idle", "done"}
  BY DEF rootfs_build, this, ondisk
<1>3. \A p : kconfigs_all_v(p)' = kconfigs_all_v(p)
  BY <1>2, SameSelection
<1> HIDE DEF m
<1>4. GraphTypes'
  BY <1>1, <1>2 DEF GraphInv, GraphTypes
<1>5. ReadsInv'
  BY <1>1, <1>2, <1>3 DEF ReadsInv, ReadSoundly
<1>6. NestInv' /\ CleanInv'
  BY <1>1, <1>2 DEF NestInv, CleanInv
<1>7. SysrootInv'
  BY <1>1, <1>2 DEF GraphInv, SysrootInv, InFlux, AsRecorded
<1>8. QED
  BY <1>4, <1>5, <1>6, <1>7 DEF GraphInv

(* Whatever is cut short is noted, and no make is left. *)
LEMMA StoppedInv == ASSUME GraphInv, Stopped PROVE GraphInv'
<1>1. /\ wanted' = wanted /\ installed' = installed /\ okconfigs' = okconfigs
      /\ stage' = "idle" /\ makes' = << >> /\ gone' = {}
  BY DEF Stopped
<1>2. DOMAIN sysroot' = Pkgs
  BY DEF Stopped, GraphInv, GraphTypes
<1>3. GraphTypes'
  BY <1>1, <1>2 DEF GraphInv, GraphTypes
<1>4. ReadsInv' /\ NestInv' /\ CleanInv'
  BY <1>1 DEF ReadsInv, NestInv, CleanInv
<1>5. ASSUME NEW p \in Pkgs \ cutoff' PROVE ~InFlux(p) /\ p \notin cutoff /\ sysroot'[p] = sysroot[p]
  BY <1>5 DEF Stopped, InFlux, GraphInv, GraphTypes
<1>6. SysrootInv'
  BY <1>1, <1>5 DEF GraphInv, SysrootInv, InFlux, AsRecorded
<1>7. QED
  BY <1>3, <1>4, <1>6 DEF GraphInv

-----------------------------------------------------------------------------
(* The cleanup *)

LEMMA CleanupFilesInv == ASSUME GraphInv, NEW p \in Pkgs, CleanupFiles(p) PROVE GraphInv'
<1> DEFINE m == [this EXCEPT !.at = "unmark", !.pkg = p]
<1>1. stage = "clean" /\ this.at = "next" /\ p \in gone /\ Len(makes) = 1 /\ makes[1] = this
  BY DEF CleanupFiles, GraphInv, CleanInv, this
<1>2. this \in Makes
  BY <1>1, ThisIsAMake DEF GraphInv
<1>3. /\ m \in Makes /\ m.at = "unmark" /\ m.pkg = p
      /\ m.goals = this.goals /\ m.inst = this.inst /\ m.ok = this.ok
  BY <1>2 DEF Makes
<1>4. /\ makes' \in Seq(Makes) /\ Len(makes') = 1 /\ this' = m /\ makes'[1] = m
      /\ wanted' = wanted /\ installed' = installed /\ okconfigs' = okconfigs
      /\ stage' = stage /\ gone' = gone /\ cutoff' = cutoff
      /\ sysroot' = [sysroot EXCEPT ![p] = NoFiles]
  BY <1>1, <1>3, ThisMakeChanges DEF CleanupFiles, GraphInv, GraphTypes
<1>5. \A q : kconfigs_all_v(q)' = kconfigs_all_v(q)
  BY <1>4, SameSelection
<1> HIDE DEF m
<1>6. GraphTypes'
  BY <1>1, <1>4 DEF GraphInv, GraphTypes
<1>7. ReadsInv'
  BY <1>1, <1>3, <1>4, <1>5 DEF GraphInv, ReadsInv, ReadSoundly
<1>8. NestInv' /\ CleanInv'
  BY <1>1, <1>3, <1>4 DEF GraphInv, NestInv, CleanInv
<1>9. SysrootInv'
  BY <1>1, <1>3, <1>4 DEF GraphInv, GraphTypes, SysrootInv, InFlux, AsRecorded
<1>10. QED
  BY <1>6, <1>7, <1>8, <1>9 DEF GraphInv

LEMMA CleanupStateInv == ASSUME GraphInv, CleanupState PROVE GraphInv'
<1> DEFINE m == [this EXCEPT !.at = "next"]
           p == this.pkg
<1>1. stage = "clean" /\ this.at = "unmark" /\ p \in gone /\ Len(makes) = 1 /\ makes[1] = this
  BY DEF CleanupState, GraphInv, CleanInv, this
<1>2. this \in Makes /\ p \in Pkgs /\ p \notin wanted.on
  BY <1>1, ThisIsAMake DEF GraphInv, GraphTypes, CleanInv
<1>3. /\ m \in Makes /\ m.at = "next" /\ m.pkg = p
      /\ m.goals = this.goals /\ m.inst = this.inst /\ m.ok = this.ok
  BY <1>2 DEF Makes
<1>4. /\ makes' \in Seq(Makes) /\ Len(makes') = 1 /\ this' = m /\ makes'[1] = m
      /\ wanted' = wanted /\ installed' = installed \ {p}
      /\ okconfigs' = [okconfigs EXCEPT ![p] = << >>]
      /\ stage' = stage /\ gone' = gone \ {p} /\ cutoff' = cutoff \ {p} /\ sysroot' = sysroot
  BY <1>1, <1>3, ThisMakeChanges DEF CleanupState, GraphInv, GraphTypes
<1>5. \A q : kconfigs_all_v(q)' = kconfigs_all_v(q)
  BY <1>4, SameSelection
<1>6. GraphTypes'
  <2>1. okconfigs' \in [Pkgs -> Confs]
    BY <1>2, <1>4 DEF GraphInv, GraphTypes, Confs
  <2>2. QED
    BY <2>1, <1>1, <1>4 DEF GraphInv, GraphTypes
<1>7. ReadsInv'
  <2>1. \A q \in wanted.on : okconfigs'[q] = okconfigs[q] /\ (q \in installed => q \in installed')
    BY <1>2, <1>4 DEF GraphInv, GraphTypes
  <2>2. ReadSoundly(this)
    BY <1>1 DEF GraphInv, ReadsInv
  <2>3. ReadSoundly(m)'
    BY <2>1, <2>2, <1>1, <1>3, <1>4, <1>5 DEF ReadSoundly
  <2>4. \A i \in 1..Len(makes') : makes'[i] = m
    BY <1>4
  <2>5. QED
    BY <2>3, <2>4, <1>4 DEF ReadsInv
<1>8. NestInv' /\ CleanInv'
  BY <1>1, <1>3, <1>4 DEF GraphInv, NestInv, CleanInv
<1>9. SysrootInv'
  <2>1. sysroot[p] = NoFiles
    BY <1>1 DEF GraphInv, SysrootInv
  <2>2. ASSUME NEW q \in Pkgs \ cutoff', q # p
        PROVE  IF q \in installed' THEN AsRecorded(q)' ELSE sysroot'[q] = NoFiles
    <3>1. ~InFlux(q) /\ q \notin cutoff
      BY <2>2, <1>4 DEF InFlux
    <3>2. okconfigs'[q] = okconfigs[q] /\ (q \in installed' <=> q \in installed)
      BY <2>2, <1>4 DEF GraphInv, GraphTypes
    <3>3. QED
      BY <3>1, <3>2, <1>4 DEF GraphInv, SysrootInv, AsRecorded
  <2>3. QED
    BY <2>1, <2>2, <1>1, <1>3, <1>4 DEF SysrootInv
<1>10. QED
  BY <1>6, <1>7, <1>8, <1>9 DEF GraphInv

LEMMA rootfs_mkinitpathInv == ASSUME GraphInv, rootfs_mkinitpath PROVE GraphInv'
<1>1. /\ stage = "clean" /\ this.at = "next" /\ gone = {} /\ stage' = "components"
      /\ Len(makes) = 1 /\ makes[1] = this /\ this.goals = wanted.on
      /\ makes' = makes /\ Len(makes') = 1 /\ makes'[1] = this /\ this' = this /\ wanted' = wanted /\ gone' = gone /\ cutoff' = cutoff
      /\ installed' = installed /\ okconfigs' = okconfigs /\ sysroot' = sysroot
  BY DEF rootfs_mkinitpath, ondisk, GraphInv, CleanInv, this
<1>2. \A q : kconfigs_all_v(q)' = kconfigs_all_v(q) /\ depspkgv(q)' = depspkgv(q)
  BY <1>1, SameSelection
<1>3. GraphTypes'
  BY <1>1 DEF GraphInv, GraphTypes
<1>4. ReadsInv'
  <2>1. ReadSoundly(this)
    BY <1>1 DEF GraphInv, ReadsInv
  <2>2. \A i \in 1..Len(makes') : makes'[i] = this
    BY <1>1
  <2>3. QED
    BY <2>1, <2>2, <1>1, <1>2 DEF ReadsInv, ReadSoundly
<1>5. NestInv' /\ CleanInv'
  <2>1. Pending(makes[1], wanted.on)'
    BY <1>1 DEF Pending
  <2>2. ASSUME NEW i \in 1..(Len(makes') - 1) PROVE FALSE
    <3>1. Len(makes') = 1
      BY <1>1
    <3>2. QED
      BY <3>1
  <2>3. NestInv'
    BY <2>1, <2>2, <1>1 DEF NestInv
  <2>4. CleanInv'
    BY <1>1 DEF GraphInv, CleanInv
  <2>5. QED
    BY <2>3, <2>4
<1>6. SysrootInv'
  BY <1>1 DEF GraphInv, SysrootInv, InFlux, AsRecorded
<1>7. QED
  BY <1>3, <1>4, <1>5, <1>6 DEF GraphInv

-----------------------------------------------------------------------------
(* The nesting of makes *)

(* Markers and records are only added, as they are for the selection. *)
Progress ==
    /\ stage = "components" /\ stage' = "components" /\ wanted' = wanted
    /\ installed \subseteq installed'
    /\ \A p : okconfigs[p] = kconfigs_all_v(p) => okconfigs'[p] = kconfigs_all_v(p)

(* m2 is what a step makes of the make m: it loses a goal only when that is  *)
(* under way or up to date.                                                  *)
Follows(m, m2) ==
    /\ m2.goals \subseteq m.goals /\ m2.ok = m.ok
    /\ \A p \in m2.goals : p \in m2.inst => p \in m.inst
    /\ m2.at # "next" => m2.pkg \in wanted.on
    /\ \A d : (d \in m.goals \/ (m.at # "next" /\ d = m.pkg)) =>
                 d \in m2.goals \/ UpToDate(d)' \/ (m2.at # "next" /\ d = m2.pkg)

LEMMA FollowsReads ==
    ASSUME Progress, NEW i, ReadSoundly(makes[i]), Follows(makes[i], makes'[i])
    PROVE  ReadSoundly(makes[i])'
<1>1. \A p : kconfigs_all_v(p)' = kconfigs_all_v(p)
  BY SameSelection DEF Progress
<1>2. QED
  BY <1>1 DEF Progress, ReadSoundly, Follows

LEMMA FollowsPending ==
    ASSUME Progress, NEW i, NEW S, Pending(makes[i], S), Follows(makes[i], makes'[i])
    PROVE  Pending(makes[i], S)'
<1>1. \A p : UpToDate(p) => UpToDate(p)'
  BY UpToDateStays DEF Progress
<1>2. QED
  BY <1>1 DEF Pending, Follows

LEMMA FollowsItself ==
    ASSUME Progress, NEW m, ReadSoundly(m)
    PROVE  Follows(m, m)
  BY DEF Progress, ReadSoundly, Follows

(* A step that changes the k-th make, and ends the one it runs or starts one *)
(* for the dependencies of the package it makes.                             *)
LEMMA MakesStep ==
    ASSUME GraphInv, Progress, NEW k \in 1..Len(makes),
           makes' \in Seq(Makes), Len(makes') = k \/ Len(makes') = k + 1,
           installed' \subseteq wanted.on, gone' = gone,
           okconfigs' \in [Pkgs -> Confs], DOMAIN sysroot' = Pkgs,
           \A i \in 1..(k - 1) : makes'[i] = makes[i],
           Follows(makes[k], makes'[k]),
           Len(makes') = k + 1 =>
              (makes[k].at = "deps" /\ ReadSoundly(makes[k + 1])
                /\ Pending(makes[k + 1], depspkgv(makes[k].pkg)))',
           this'.at \in {"next", "install", "mark", "record"},
           (this.at = "install" => \A d \in depspkgv(this.pkg) : UpToDate(d))',
           (this.at = "record" => this.pkg \in installed)'
    PROVE  GraphTypes' /\ ReadsInv' /\ NestInv' /\ CleanInv'
<1>1. /\ stage = "components" /\ stage' = "components" /\ wanted' = wanted
      /\ \A p : depspkgv(p)' = depspkgv(p)
      /\ Len(makes) \in Nat /\ Len(makes') \in Nat /\ k \in Nat /\ k >= 1
      /\ makes \in Seq(Makes)
  BY SameSelection DEF Progress, GraphInv, GraphTypes
<1>2. GraphTypes'
  <2>1. installed' \subseteq Pkgs
    BY GraphAssumption DEF GraphAssumption, GraphInv, GraphTypes
  <2>2. QED
    BY <2>1, <1>1 DEF GraphInv, GraphTypes
<1>3. \A i \in 1..k : ReadSoundly(makes[i]) /\ Follows(makes[i], makes'[i])
  <2>1. \A i \in 1..k : ReadSoundly(makes[i])
    BY <1>1 DEF GraphInv, ReadsInv
  <2>2. ASSUME NEW i \in 1..k PROVE Follows(makes[i], makes'[i])
    <3>1. CASE i = k
      BY <3>1
    <3>2. CASE i # k
      <4>1. makes'[i] = makes[i]
        BY <3>2, <1>1
      <4>2. QED
        BY <4>1, <2>1, FollowsItself
    <3>3. QED
      BY <3>1, <3>2
  <2>3. QED
    BY <2>1, <2>2
<1>4. ReadsInv'
  <2>1. ASSUME NEW i \in 1..Len(makes') PROVE ReadSoundly(makes[i])'
    <3>1. CASE i \in 1..k
      BY <3>1, <1>3, FollowsReads
    <3>2. CASE i = k + 1
      BY <3>2, <1>1
    <3>3. QED
      BY <3>1, <3>2, <1>1
  <2>2. QED
    BY <2>1 DEF ReadsInv
<1>5. Pending(makes[1], wanted.on)'
  <2>1. Pending(makes[1], wanted.on) /\ Follows(makes[1], makes'[1])
    BY <1>1, <1>3 DEF GraphInv, NestInv
  <2>2. QED
    BY <2>1, <1>1, FollowsPending DEF Pending
<1>6. ASSUME NEW i \in 1..(Len(makes') - 1)
      PROVE  (makes[i].at = "deps" /\ Pending(makes[i + 1], depspkgv(makes[i].pkg)))'
  <2>1. CASE i = k
    BY <2>1, <1>1
  <2>2. CASE i < k
    <3>1. /\ i \in 1..(k - 1) /\ i \in 1..(Len(makes) - 1) /\ i + 1 \in 1..k
          /\ makes'[i] = makes[i]
      BY <2>2, <1>1, SMTT(30)
    <3>2. makes[i].at = "deps" /\ Pending(makes[i + 1], depspkgv(makes[i].pkg))
      BY <3>1, <1>1 DEF GraphInv, NestInv
    <3>3. ASSUME NEW S, S = depspkgv(makes[i].pkg) PROVE Pending(makes[i + 1], S)'
      BY <3>1, <3>2, <3>3, <1>1, <1>3, FollowsPending
    <3>4. QED
      BY <3>1, <3>2, <3>3, <1>1 DEF Pending
  <2>3. QED
    BY <2>1, <2>2, <1>1
<1>7. NestInv'
  BY <1>1, <1>5, <1>6 DEF NestInv
<1>8. CleanInv'
  BY <1>1 DEF CleanInv
<1>9. QED
  BY <1>2, <1>4, <1>7, <1>8

(* What every recipe starts from. *)
LEMMA Innermost ==
    ASSUME GraphInv, stage = "components"
    PROVE  /\ makes \in Seq(Makes) /\ this \in Makes
           /\ Len(makes) \in Nat /\ Len(makes) \in 1..Len(makes)
           /\ this = makes[Len(makes)] /\ ReadSoundly(this)
           /\ wanted \in Selections /\ wanted.on \subseteq Pkgs
           /\ installed \subseteq wanted.on /\ okconfigs \in [Pkgs -> Confs] /\ DOMAIN sysroot = Pkgs
           /\ this.at # "next" => this.pkg \in wanted.on /\ this.pkg \in Pkgs
<1>1. /\ makes \in Seq(Makes) /\ this \in Makes
      /\ Len(makes) \in Nat /\ Len(makes) \in 1..Len(makes) /\ this = makes[Len(makes)]
  BY ThisIsAMake DEF GraphInv, GraphTypes
<1>2. ReadSoundly(this)
  BY <1>1 DEF GraphInv, ReadsInv
<1>3. wanted \in Selections /\ wanted.on \subseteq Pkgs
  BY GraphAssumption DEF GraphAssumption, GraphInv, GraphTypes
<1>4. installed \subseteq wanted.on /\ okconfigs \in [Pkgs -> Confs] /\ DOMAIN sysroot = Pkgs
  BY DEF GraphInv, GraphTypes, CleanInv
<1>5. this.at # "next" => this.pkg \in wanted.on
  BY <1>2 DEF ReadSoundly
<1>6. QED
  BY <1>1, <1>2, <1>3, <1>4, <1>5

(* A step that leaves the markers, the records and the sysroot alone. *)
LEMMA SysrootStays ==
    ASSUME SysrootInv, stage = "components", stage' \in {"components", "generate"},
           installed' = installed, okconfigs' = okconfigs, sysroot' = sysroot, cutoff' = cutoff,
           this.at \notin {"unmark", "mark", "record"}, this'.at \notin {"unmark", "mark", "record"}
    PROVE  SysrootInv'
  BY DEF SysrootInv, InFlux, AsRecorded

LEMMA NothingChangedIsProgress ==
    ASSUME stage = "components", stage' = stage, wanted' = wanted,
           installed' = installed, okconfigs' = okconfigs
    PROVE  Progress
  BY DEF Progress

-----------------------------------------------------------------------------
(* The recipes *)

(* A make with other goals. *)
LEMMA OtherGoals ==
    ASSUME NEW r \in Makes, NEW g \in SUBSET Pkgs
    PROVE  /\ [r EXCEPT !.goals = g] \in Makes /\ [r EXCEPT !.goals = g].goals = g
           /\ [r EXCEPT !.goals = g].at = r.at /\ [r EXCEPT !.goals = g].pkg = r.pkg
           /\ [r EXCEPT !.goals = g].inst = r.inst /\ [r EXCEPT !.goals = g].ok = r.ok
  BY DEF Makes

LEMMA SkipInv == ASSUME GraphInv, NEW p \in Pkgs, Skip(p) PROVE GraphInv'
<1> DEFINE m == [this EXCEPT !.goals = @ \ {p}]
<1>1. /\ stage = "components" /\ this.at = "next" /\ p \in this.goals /\ ~pkg_runrecipe(p)
      /\ ThisMake(m) /\ wanted' = wanted /\ installed' = installed /\ okconfigs' = okconfigs
      /\ sysroot' = sysroot /\ stage' = stage /\ gone' = gone /\ cutoff' = cutoff
  BY DEF Skip, ondisk
<1>2. /\ makes \in Seq(Makes) /\ this \in Makes /\ Len(makes) \in Nat /\ Len(makes) \in 1..Len(makes)
      /\ this = makes[Len(makes)] /\ ReadSoundly(this) /\ installed \subseteq wanted.on
      /\ okconfigs \in [Pkgs -> Confs] /\ DOMAIN sysroot = Pkgs
  BY <1>1, Innermost
<1>3. /\ m \in Makes /\ m.at = "next" /\ m.pkg = this.pkg /\ m.goals = this.goals \ {p}
      /\ m.inst = this.inst /\ m.ok = this.ok
  <2>1. PICK g \in SUBSET Pkgs : g = this.goals \ {p}
    BY <1>2 DEF Makes
  <2>2. m = [this EXCEPT !.goals = g]
    BY <2>1
  <2>3. this \in Makes
    BY <1>2
  <2> HIDE DEF m
  <2>4. /\ m \in Makes /\ m.goals = g /\ m.at = this.at /\ m.pkg = this.pkg
        /\ m.inst = this.inst /\ m.ok = this.ok
    BY <2>2, <2>3, OtherGoals
  <2>5. QED
    BY <2>1, <2>4, <1>1
<1> HIDE DEF m
<1>4. /\ makes' \in Seq(Makes) /\ Len(makes') = Len(makes) /\ this' = m
      /\ makes'[Len(makes)] = m /\ \A i \in 1..(Len(makes) - 1) : makes'[i] = makes[i]
  BY <1>1, <1>2, <1>3, ThisMakeChanges
<1>5. UpToDate(p)
  BY <1>1, <1>2 DEF pkg_runrecipe, installed_y, confchanged_y, ReadSoundly, UpToDate
<1>6. Progress /\ (\A q : UpToDate(q) => UpToDate(q)')
  BY <1>1, NothingChangedIsProgress, UpToDateStays DEF Progress
<1>7. Follows(makes[Len(makes)], makes'[Len(makes)])
  BY <1>1, <1>2, <1>3, <1>4, <1>5, <1>6 DEF Follows
<1>8. GraphTypes' /\ ReadsInv' /\ NestInv' /\ CleanInv'
  BY <1>1, <1>2, <1>3, <1>4, <1>6, <1>7, MakesStep
<1>9. SysrootInv'
  BY <1>1, <1>3, <1>4, SysrootStays DEF GraphInv
<1>10. QED
  BY <1>8, <1>9 DEF GraphInv

LEMMA MakeInstallInv == ASSUME GraphInv, MakeInstall PROVE GraphInv'
<1> DEFINE m == [this EXCEPT !.at = "mark"]
<1>0. PICK p : p = this.pkg
  OBVIOUS
<1>1. /\ stage = "components" /\ this.at = "install"
      /\ ThisMake(m) /\ wanted' = wanted /\ installed' = installed /\ okconfigs' = okconfigs
      /\ sysroot' = [sysroot EXCEPT ![p] = [is |-> "whole", with |-> BuiltWith(p)]]
      /\ stage' = stage /\ gone' = gone /\ cutoff' = cutoff
  BY <1>0 DEF MakeInstall
<1>2. /\ makes \in Seq(Makes) /\ this \in Makes /\ Len(makes) \in Nat /\ Len(makes) \in 1..Len(makes)
      /\ this = makes[Len(makes)] /\ ReadSoundly(this) /\ installed \subseteq wanted.on
      /\ okconfigs \in [Pkgs -> Confs] /\ DOMAIN sysroot = Pkgs /\ wanted \in Selections
      /\ p \in wanted.on /\ p \in Pkgs
  BY <1>0, <1>1, Innermost
<1>3. /\ m \in Makes /\ m.at = "mark" /\ m.pkg = p /\ m.goals = this.goals
      /\ m.inst = this.inst /\ m.ok = this.ok
  BY <1>0, <1>2 DEF Makes
<1>4. /\ makes' \in Seq(Makes) /\ Len(makes') = Len(makes) /\ this' = m
      /\ makes'[Len(makes)] = m /\ \A i \in 1..(Len(makes) - 1) : makes'[i] = makes[i]
  BY <1>1, <1>2, <1>3, ThisMakeChanges
<1>5. \A d \in depspkgv(p) : UpToDate(d)
  BY <1>0, <1>1 DEF GraphInv, NestInv
<1> HIDE DEF m
<1>6. Progress /\ (\A q : UpToDate(q) => UpToDate(q)')
  BY <1>1, NothingChangedIsProgress, UpToDateStays DEF Progress
<1>7. Follows(makes[Len(makes)], makes'[Len(makes)])
  BY <1>0, <1>1, <1>2, <1>3, <1>4, <1>6 DEF Follows
<1>8. GraphTypes' /\ ReadsInv' /\ NestInv' /\ CleanInv'
  <2>1. DOMAIN sysroot' = Pkgs
    BY <1>1, <1>2
  <2>2. QED
    BY <2>1, <1>1, <1>2, <1>3, <1>4, <1>6, <1>7, MakesStep
<1>9. SysrootInv'
  <2>1. \A q \in Pkgs : q # p => sysroot'[q] = sysroot[q]
    BY <1>1, <1>2
  <2>2. ASSUME NEW q \in Pkgs \ cutoff', ~InFlux(q)'
        PROVE  IF q \in installed' THEN AsRecorded(q)' ELSE sysroot'[q] = NoFiles
    <3>1. q # p /\ ~InFlux(q) /\ q \notin cutoff
      BY <2>2, <1>1, <1>3, <1>4 DEF InFlux
    <3>2. QED
      BY <3>1, <2>1, <1>1 DEF GraphInv, SysrootInv, AsRecorded
  <2>3. ASSUME depspkgv(p) \cap cutoff = {}
        PROVE  BuiltWith(p) = [q \in {p} \cup depspkgv(p) |-> [opt |-> wanted.opt[q], whole |-> TRUE]]
    <3>1. ASSUME NEW q \in depspkgv(p), q # p
          PROVE  sysroot[q].is = "whole" /\ sysroot[q].with[q].opt = wanted.opt[q]
      <4>1. q \in Pkgs \ cutoff /\ UpToDate(q)
        BY <3>1, <2>3, <1>2, <1>5, KconfigIsConf
      <4>2. AsRecorded(q)
        BY <4>1, <1>1 DEF GraphInv, SysrootInv, InFlux, UpToDate
      <4>3. q \in DOMAIN kconfigs_all_v(q) /\ kconfigs_all_v(q)[q] = wanted.opt[q]
        BY <4>1, <1>2, KconfigIsConf
      <4>4. okconfigs[q] = kconfigs_all_v(q)
        BY <4>1 DEF UpToDate
      <4>5. sysroot[q].with[q] = [opt |-> wanted.opt[q], whole |-> TRUE]
        BY <4>2, <4>3, <4>4 DEF AsRecorded
      <4>6. QED
        BY <4>2, <4>5 DEF AsRecorded
    <3>2. QED
      BY <3>1 DEF BuiltWith
  <2>4. depspkgv(p)' = depspkgv(p) /\ sysroot'[p] = [is |-> "whole", with |-> BuiltWith(p)]
    BY <1>1, <1>2, SameSelection
  <2>5. /\ this'.pkg = p /\ cutoff' = cutoff /\ wanted' = wanted
        /\ ~(stage' = "clean") /\ ~(stage' = "done")
    BY <1>1, <1>3, <1>4
  <2>6. QED
    BY <2>2, <2>3, <2>4, <2>5, SameSelection DEF SysrootInv
<1>10. QED
  BY <1>8, <1>9 DEF GraphInv

LEMMA setinstalled_pkgInv == ASSUME GraphInv, setinstalled_pkg PROVE GraphInv'
<1> DEFINE m == [this EXCEPT !.at = "record"]
<1>0. PICK p : p = this.pkg
  OBVIOUS
<1>1. /\ stage = "components" /\ this.at = "mark"
      /\ ThisMake(m) /\ wanted' = wanted /\ installed' = installed \cup {p} /\ okconfigs' = okconfigs
      /\ sysroot' = sysroot /\ stage' = stage /\ gone' = gone /\ cutoff' = cutoff
  BY <1>0 DEF setinstalled_pkg
<1>2. /\ makes \in Seq(Makes) /\ this \in Makes /\ Len(makes) \in Nat /\ Len(makes) \in 1..Len(makes)
      /\ this = makes[Len(makes)] /\ ReadSoundly(this) /\ installed \subseteq wanted.on
      /\ okconfigs \in [Pkgs -> Confs] /\ DOMAIN sysroot = Pkgs /\ p \in wanted.on
  BY <1>0, <1>1, Innermost
<1>3. /\ m \in Makes /\ m.at = "record" /\ m.pkg = p /\ m.goals = this.goals
      /\ m.inst = this.inst /\ m.ok = this.ok
  BY <1>0, <1>2 DEF Makes
<1> HIDE DEF m
<1>4. /\ makes' \in Seq(Makes) /\ Len(makes') = Len(makes) /\ this' = m
      /\ makes'[Len(makes)] = m /\ \A i \in 1..(Len(makes) - 1) : makes'[i] = makes[i]
  BY <1>1, <1>2, <1>3, ThisMakeChanges
<1>5. Progress /\ (\A q : UpToDate(q) => UpToDate(q)')
  BY <1>1, UpToDateStays DEF Progress
<1>6. Follows(makes[Len(makes)], makes'[Len(makes)])
  BY <1>0, <1>1, <1>2, <1>3, <1>4, <1>5 DEF Follows
<1>7. GraphTypes' /\ ReadsInv' /\ NestInv' /\ CleanInv'
  BY <1>1, <1>2, <1>3, <1>4, <1>5, <1>6, MakesStep
<1>8. SysrootInv'
  <2>1. ASSUME NEW q \in Pkgs \ cutoff', ~InFlux(q)'
        PROVE  IF q \in installed' THEN AsRecorded(q)' ELSE sysroot'[q] = NoFiles
    <3>1. q # p /\ ~InFlux(q) /\ q \notin cutoff
      BY <2>1, <1>0, <1>1, <1>3, <1>4 DEF InFlux
    <3>2. QED
      BY <3>1, <1>1 DEF GraphInv, SysrootInv, AsRecorded
  <2>2. /\ this'.pkg = this.pkg /\ depspkgv(this.pkg)' = depspkgv(this.pkg)
        /\ stage' = "components"
    BY <1>0, <1>1, <1>3, <1>4, SameSelection
  <2>3. QED
    BY <2>1, <2>2, <1>1 DEF GraphInv, SysrootInv
<1>9. QED
  BY <1>7, <1>8 DEF GraphInv

LEMMA pkg_gen_dotkconfigInv == ASSUME GraphInv, pkg_gen_dotkconfig PROVE GraphInv'
<1> DEFINE m == [this EXCEPT !.at = "next"]
<1>0. PICK p : p = this.pkg
  OBVIOUS
<1>1. /\ stage = "components" /\ this.at = "record"
      /\ ThisMake(m) /\ wanted' = wanted /\ installed' = installed
      /\ okconfigs' = [okconfigs EXCEPT ![p] = kconfigs_all_v(p)]
      /\ cutoff' = IF depspkgv(p) \cap cutoff = {} THEN cutoff \ {p} ELSE cutoff \cup {p}
      /\ sysroot' = sysroot /\ stage' = stage /\ gone' = gone
  BY <1>0 DEF pkg_gen_dotkconfig
<1>2. /\ makes \in Seq(Makes) /\ this \in Makes /\ Len(makes) \in Nat /\ Len(makes) \in 1..Len(makes)
      /\ this = makes[Len(makes)] /\ ReadSoundly(this) /\ installed \subseteq wanted.on
      /\ okconfigs \in [Pkgs -> Confs] /\ DOMAIN sysroot = Pkgs /\ wanted \in Selections
      /\ p \in wanted.on /\ p \in Pkgs
  BY <1>0, <1>1, Innermost
<1>3. /\ m \in Makes /\ m.at = "next" /\ m.pkg = p /\ m.goals = this.goals
      /\ m.inst = this.inst /\ m.ok = this.ok
  BY <1>0, <1>2 DEF Makes
<1> HIDE DEF m
<1>4. /\ makes' \in Seq(Makes) /\ Len(makes') = Len(makes) /\ this' = m
      /\ makes'[Len(makes)] = m /\ \A i \in 1..(Len(makes) - 1) : makes'[i] = makes[i]
  BY <1>1, <1>2, <1>3, ThisMakeChanges
<1>5. /\ okconfigs'[p] = kconfigs_all_v(p) /\ okconfigs' \in [Pkgs -> Confs]
      /\ \A q \in Pkgs : q # p => okconfigs'[q] = okconfigs[q]
  BY <1>1, <1>2, KconfigIsConf
<1>6. \A q : okconfigs[q] = kconfigs_all_v(q) => okconfigs'[q] = kconfigs_all_v(q)
  BY <1>1, <1>2, <1>5
<1>7. Progress /\ (\A q : UpToDate(q) => UpToDate(q)')
  BY <1>1, <1>6, UpToDateStays DEF Progress
<1>8. UpToDate(p)'
  <2>1. p \in installed
    BY <1>0, <1>1 DEF GraphInv, NestInv
  <2>2. QED
    BY <2>1, <1>1, <1>5, SameSelection DEF UpToDate
<1>9. Follows(makes[Len(makes)], makes'[Len(makes)])
  BY <1>0, <1>1, <1>2, <1>3, <1>4, <1>7, <1>8 DEF Follows
<1>10. GraphTypes' /\ ReadsInv' /\ NestInv' /\ CleanInv'
  BY <1>1, <1>2, <1>3, <1>4, <1>5, <1>7, <1>9, MakesStep
<1>11. SysrootInv'
  <2>1. ASSUME NEW q \in Pkgs \ cutoff', q # p
        PROVE  IF q \in installed' THEN AsRecorded(q)' ELSE sysroot'[q] = NoFiles
    <3>1. ~InFlux(q) /\ q \notin cutoff /\ okconfigs'[q] = okconfigs[q]
      BY <2>1, <1>0, <1>1, <1>5 DEF InFlux
    <3>2. QED
      BY <3>1, <1>1 DEF GraphInv, SysrootInv, AsRecorded
  <2>2. ASSUME p \notin cutoff' PROVE AsRecorded(p)'
    <3>1. sysroot[p] = [is |-> "whole", with |-> [q \in {p} \cup depspkgv(p) |->
                                                    [opt |-> wanted.opt[q], whole |-> TRUE]]]
      BY <2>2, <1>0, <1>1 DEF GraphInv, SysrootInv
    <3>2. /\ DOMAIN okconfigs'[p] = {p} \cup depspkgv(p)
          /\ \A q \in {p} \cup depspkgv(p) : okconfigs'[p][q] = wanted.opt[q]
      BY <1>2, <1>5, KconfigIsConf
    <3>3. /\ sysroot[p].is = "whole" /\ DOMAIN sysroot[p].with = {p} \cup depspkgv(p)
          /\ \A q \in {p} \cup depspkgv(p) :
                sysroot[p].with[q] = [opt |-> wanted.opt[q], whole |-> TRUE]
      BY <3>1
    <3>4. QED
      BY <3>2, <3>3, <1>1 DEF AsRecorded
  <2>3. p \in installed'
    BY <1>8 DEF UpToDate
  <2>4. this'.at = "next" /\ stage' = "components"
    BY <1>1, <1>3, <1>4
  <2>5. QED
    BY <2>1, <2>2, <2>3, <2>4 DEF SysrootInv
<1>12. QED
  BY <1>10, <1>11 DEF GraphInv

(* The recipe of p begins, after a make for its dependencies if it has any. *)
LEMMA InstallPkgInv == ASSUME GraphInv, NEW p \in Pkgs, InstallPkg(p) PROVE GraphInv'
<1>1. /\ stage = "components" /\ this.at = "next" /\ p \in this.goals
      /\ wanted' = wanted /\ installed' = installed /\ okconfigs' = okconfigs
      /\ sysroot' = sysroot /\ stage' = stage /\ gone' = gone /\ cutoff' = cutoff
  BY DEF InstallPkg, ondisk
<1>2. /\ makes \in Seq(Makes) /\ this \in Makes /\ Len(makes) \in Nat /\ Len(makes) \in 1..Len(makes)
      /\ this = makes[Len(makes)] /\ ReadSoundly(this) /\ installed \subseteq wanted.on
      /\ okconfigs \in [Pkgs -> Confs] /\ DOMAIN sysroot = Pkgs /\ wanted \in Selections
  BY <1>1, Innermost
<1>3. p \in wanted.on /\ depspkgv(p) \in SUBSET wanted.on
  BY <1>1, <1>2, KconfigIsConf DEF ReadSoundly
<1>4. PICK a \in {"install", "deps"} :
         a = IF depspkgv(p) = {} THEN "install" ELSE "deps"
  OBVIOUS
<1>5. PICK g \in SUBSET Pkgs, i \in SUBSET Pkgs : g = this.goals \ {p} /\ i = this.inst \cup {p}
  BY <1>2 DEF Makes
<1>6. PICK m : m = [this EXCEPT !.goals = g, !.pkg = p, !.inst = i, !.at = a]
  OBVIOUS
<1>7. /\ m \in Makes /\ m.goals = g /\ m.pkg = p /\ m.inst = i /\ m.at = a /\ m.ok = this.ok
  <2>1. PICK r \in Makes : r = this
    BY <1>2
  <2>2. m = [r EXCEPT !.goals = g, !.pkg = p, !.inst = i, !.at = a]
    BY <2>1, <1>6
  <2>3. QED
    BY <2>1, <2>2 DEF Makes
<1> DEFINE waiting == [makes EXCEPT ![Len(makes)] = m]
<1>8. makes' = IF depspkgv(p) = {} THEN waiting ELSE Append(waiting, include_pkg(depspkgv(p)))
  BY <1>4, <1>5, <1>6 DEF InstallPkg, install_pkgdeps
<1>9. /\ waiting \in Seq(Makes) /\ Len(waiting) = Len(makes) /\ waiting[Len(makes)] = m
      /\ \A j \in 1..(Len(makes) - 1) : waiting[j] = makes[j]
  BY <1>2, <1>7
<1>10. Progress /\ (\A q : UpToDate(q) => UpToDate(q)')
  BY <1>1, NothingChangedIsProgress, UpToDateStays DEF Progress
<1>11. Follows(this, m)
  BY <1>1, <1>3, <1>5, <1>7, <1>10 DEF Follows
<1> HIDE DEF waiting
<1>12. CASE depspkgv(p) = {}
  <2>1. /\ makes' = waiting /\ makes' \in Seq(Makes) /\ Len(makes') = Len(makes)
        /\ makes'[Len(makes)] = m /\ this' = m /\ m.at = "install"
        /\ \A j \in 1..(Len(makes) - 1) : makes'[j] = makes[j]
    BY <1>4, <1>7, <1>8, <1>9, <1>12 DEF this
  <2>2. depspkgv(p)' = {}
    BY <1>1, <1>12, SameSelection
  <2>3. (this.at = "install" => \A d \in depspkgv(this.pkg) : UpToDate(d))'
    BY <2>1, <2>2, <1>7
  <2>4. GraphTypes' /\ ReadsInv' /\ NestInv' /\ CleanInv'
    BY <2>1, <2>3, <1>1, <1>2, <1>10, <1>11, MakesStep
  <2>5. SysrootInv'
    BY <2>1, <1>1, SysrootStays DEF GraphInv
  <2>6. QED
    BY <2>4, <2>5 DEF GraphInv
<1>13. CASE depspkgv(p) # {}
  <2>1. PICK n, k : n = include_pkg(depspkgv(p)) /\ k = Len(makes)
    OBVIOUS
  <2>2. /\ n \in Makes /\ n.at = "next" /\ n.goals = depspkgv(p) /\ n.inst = installed
        /\ \A q \in wanted.on : n.ok[q] = okconfigs[q]
    BY <2>1, <1>3, IncludeIsSound DEF GraphInv
  <2>3. makes' = Append(waiting, n) /\ m.at = "deps"
    BY <2>1, <1>4, <1>7, <1>8, <1>13
  <2>4. /\ makes' \in Seq(Makes) /\ Len(makes') = k + 1 /\ k \in 1..Len(makes) /\ k \in Nat
        /\ makes'[k] = m /\ makes'[k + 1] = n /\ this' = n /\ makes[k] = this
        /\ \A j \in 1..(k - 1) : makes'[j] = makes[j]
    BY <2>1, <2>2, <2>3, <1>2, <1>9 DEF this
  <2>5. \A q : kconfigs_all_v(q)' = kconfigs_all_v(q) /\ depspkgv(q)' = depspkgv(q)
    BY <1>1, SameSelection
  <2>6. ReadSoundly(makes[k + 1])'
    BY <2>2, <2>4, <2>5, <1>1, <1>3 DEF ReadSoundly
  <2>7. Pending(makes[k + 1], depspkgv(makes[k].pkg))'
    BY <2>2, <2>4, <2>5, <1>7 DEF Pending
  <2>8. GraphTypes' /\ ReadsInv' /\ NestInv' /\ CleanInv'
    BY <2>2, <2>3, <2>4, <2>6, <2>7, <1>1, <1>2, <1>10, <1>11, MakesStep
  <2>9. SysrootInv'
    BY <2>2, <2>4, <1>1, SysrootStays DEF GraphInv
  <2>10. QED
    BY <2>8, <2>9 DEF GraphInv
<1>14. QED
  BY <1>12, <1>13

(* The dependencies of a package are made: its recipe goes on. *)
LEMMA DepsMadeInv == ASSUME GraphInv, DepsMade PROVE GraphInv'
<1>1. /\ stage = "components" /\ Len(makes) > 1 /\ this.at = "next" /\ this.goals = {}
      /\ wanted' = wanted /\ installed' = installed /\ okconfigs' = okconfigs
      /\ sysroot' = sysroot /\ stage' = stage /\ gone' = gone /\ cutoff' = cutoff
  BY DEF DepsMade, ondisk
<1>2. /\ makes \in Seq(Makes) /\ Len(makes) \in Nat /\ this = makes[Len(makes)]
      /\ installed \subseteq wanted.on /\ okconfigs \in [Pkgs -> Confs] /\ DOMAIN sysroot = Pkgs
  BY <1>1, Innermost
<1>3. PICK k, r, p : k = Len(makes) - 1 /\ r = makes[k] /\ p = r.pkg
  OBVIOUS
<1>4. k \in 1..(Len(makes) - 1) /\ k \in 1..Len(makes) /\ k \in Nat /\ k + 1 = Len(makes) /\ r \in Makes
  BY <1>1, <1>2, <1>3
<1>5. PICK m : m = [r EXCEPT !.at = "install"]
  OBVIOUS
<1>6. /\ m \in Makes /\ m.at = "install" /\ m.pkg = p /\ m.goals = r.goals
      /\ m.inst = r.inst /\ m.ok = r.ok
  BY <1>3, <1>4, <1>5 DEF Makes
<1>7. /\ makes' = [i \in 1..k |-> IF i = k THEN m ELSE makes[i]]
  BY <1>3, <1>4, <1>5 DEF DepsMade
<1>8. /\ makes' \in Seq(Makes) /\ Len(makes') = k /\ makes'[k] = m /\ this' = m
      /\ \A i \in 1..(k - 1) : makes'[i] = makes[i]
  BY <1>2, <1>4, <1>6, <1>7 DEF this
<1>9. r.at = "deps" /\ ReadSoundly(r) /\ \A d \in depspkgv(p) : UpToDate(d)
  <2>1. r.at = "deps" /\ Pending(makes[k + 1], depspkgv(r.pkg))
    BY <1>1, <1>3, <1>4 DEF GraphInv, NestInv
  <2>2. ReadSoundly(r)
    BY <1>1, <1>3, <1>4 DEF GraphInv, ReadsInv
  <2>3. QED
    BY <2>1, <2>2, <1>1, <1>2, <1>3, <1>4 DEF Pending
<1>10. Progress /\ (\A q : UpToDate(q) => UpToDate(q)') /\ depspkgv(p)' = depspkgv(p)
  BY <1>1, NothingChangedIsProgress, UpToDateStays, SameSelection DEF Progress
<1>11. Follows(makes[k], makes'[k])
  BY <1>1, <1>3, <1>6, <1>8, <1>9, <1>10 DEF Follows, ReadSoundly
<1>12. (this.at = "install" => \A d \in depspkgv(this.pkg) : UpToDate(d))'
  BY <1>6, <1>8, <1>9, <1>10
<1>13. GraphTypes' /\ ReadsInv' /\ NestInv' /\ CleanInv'
  BY <1>1, <1>2, <1>4, <1>6, <1>8, <1>10, <1>11, <1>12, MakesStep
<1>14. SysrootInv'
  BY <1>1, <1>6, <1>8, SysrootStays DEF GraphInv
<1>15. QED
  BY <1>13, <1>14 DEF GraphInv

-----------------------------------------------------------------------------
(* The image *)

LEMMA components_installInv == ASSUME GraphInv, components_install PROVE GraphInv'
<1>1. /\ stage = "components" /\ Len(makes) = 1 /\ this.at = "next" /\ this.goals = {}
      /\ wanted' = wanted /\ installed' = installed /\ okconfigs' = okconfigs /\ makes' = makes
      /\ sysroot' = sysroot /\ stage' = "generate" /\ gone' = gone /\ cutoff' = cutoff /\ this' = this
  BY DEF components_install, ondisk, this
<1>2. \A p \in wanted.on : UpToDate(p)
  <2>1. Pending(makes[1], wanted.on) /\ this = makes[1]
    BY <1>1 DEF GraphInv, NestInv, this
  <2>2. QED
    BY <2>1, <1>1 DEF Pending
<1>3. GraphTypes'
  BY <1>1 DEF GraphInv, GraphTypes
<1>4. ReadsInv' /\ NestInv'
  BY <1>1 DEF ReadsInv, NestInv
<1>5. CleanInv'
  BY <1>1, <1>2, SameSelection DEF GraphInv, CleanInv, UpToDate
<1>6. SysrootInv'
  BY <1>1, SysrootStays DEF GraphInv
<1>7. QED
  BY <1>3, <1>4, <1>5, <1>6 DEF GraphInv

LEMMA fs_generateInv == ASSUME GraphInv, fs_generate PROVE GraphInv'
<1>1. /\ stage = "generate" /\ stage' = "done" /\ makes' = << >>
      /\ wanted' = wanted /\ installed' = installed /\ okconfigs' = okconfigs
      /\ sysroot' = sysroot /\ gone' = gone /\ cutoff' = cutoff
  BY DEF fs_generate, ondisk
<1>0. ~archive'.lossy => archive'.of = sysroot
  <2>1. PICK failed \in BOOLEAN : archive' = [of |-> rootfs, lossy |-> failed \/ rootfs # sysroot]
    BY DEF fs_generate
  <2>2. archive'.of = rootfs /\ archive'.lossy = (failed \/ rootfs # sysroot)
    BY <2>1
  <2>3. QED
    BY <2>2
<1>2. GraphTypes'
  BY <1>1 DEF GraphInv, GraphTypes
<1>3. ReadsInv' /\ NestInv'
  BY <1>1 DEF ReadsInv, NestInv
<1>4. CleanInv'
  BY <1>1, SameSelection DEF GraphInv, CleanInv, UpToDate
<1>5. SysrootInv'
  BY <1>0, <1>1 DEF GraphInv, SysrootInv, InFlux, AsRecorded
<1>6. QED
  BY <1>2, <1>3, <1>4, <1>5 DEF GraphInv

-----------------------------------------------------------------------------
(* Every step *)

LEMMA StepInv == ASSUME GraphInv, [GraphNext]_graphvars PROVE GraphInv'
<1>1. ASSUME NEW c \in Selections, Select(c) PROVE GraphInv'
  BY <1>1, SelectInv
<1>2. CASE rootfs_build
  BY <1>2, rootfs_buildInv
<1>3. ASSUME NEW p \in Pkgs, CleanupFiles(p) PROVE GraphInv'
  BY <1>3, CleanupFilesInv
<1>4. CASE CleanupState
  BY <1>4, CleanupStateInv
<1>5. CASE rootfs_mkinitpath
  BY <1>5, rootfs_mkinitpathInv
<1>6. ASSUME NEW p \in Pkgs, Skip(p) PROVE GraphInv'
  BY <1>6, SkipInv
<1>7. ASSUME NEW p \in Pkgs, InstallPkg(p) PROVE GraphInv'
  BY <1>7, InstallPkgInv
<1>8. CASE DepsMade
  BY <1>8, DepsMadeInv
<1>9. CASE MakeInstall
  BY <1>9, MakeInstallInv
<1>10. CASE setinstalled_pkg
  BY <1>10, setinstalled_pkgInv
<1>11. CASE pkg_gen_dotkconfig
  BY <1>11, pkg_gen_dotkconfigInv
<1>12. CASE components_install
  BY <1>12, components_installInv
<1>13. CASE fs_generate
  BY <1>13, fs_generateInv
<1>14. CASE Stopped
  BY <1>14, StoppedInv
<1>15. CASE UNCHANGED graphvars
  <2>1. /\ wanted' = wanted /\ installed' = installed /\ okconfigs' = okconfigs
        /\ sysroot' = sysroot /\ stage' = stage /\ makes' = makes /\ gone' = gone
        /\ archive' = archive /\ cutoff' = cutoff /\ this' = this
    BY <1>15 DEF graphvars, ondisk, this
  <2>2. \A p : kconfigs_all_v(p)' = kconfigs_all_v(p) /\ depspkgv(p)' = depspkgv(p)
    BY <2>1, SameSelection
  <2>3. GraphTypes' /\ ReadsInv'
    BY <2>1, <2>2 DEF GraphInv, GraphTypes, ReadsInv, ReadSoundly
  <2>4. NestInv' /\ CleanInv'
    BY <2>1, <2>2 DEF GraphInv, NestInv, Pending, CleanInv, UpToDate
  <2>5. SysrootInv'
    BY <2>1, <2>2 DEF GraphInv, SysrootInv, InFlux, AsRecorded
  <2>6. QED
    BY <2>3, <2>4, <2>5 DEF GraphInv
<1>16. QED
  BY <1>1, <1>2, <1>3, <1>4, <1>5, <1>6, <1>7, <1>8, <1>9, <1>10, <1>11, <1>12, <1>13, <1>14, <1>15
     DEF GraphNext

(* The inductive invariant holds. *)
THEOREM GraphInvariant == GraphSpec => []GraphInv
<1>1. GraphInit => GraphInv
  BY InitInv
<1>2. GraphInv /\ [GraphNext]_graphvars => GraphInv'
  BY StepInv
<1>3. QED
  BY <1>1, <1>2, PTL DEF GraphSpec

-----------------------------------------------------------------------------
(* The properties *)

(* Nothing is compiled before its dependencies are as configured, for any    *)
(* graph of dependencies and whatever was built or cut short before: a make  *)
(* waits for the one it runs for them (install.mk, __embtk_install_pkgdeps). *)
THEOREM DependenciesComeFirst == GraphSpec => []DependenciesFirst
<1>1. GraphInv => DependenciesFirst
  BY DEF GraphInv, NestInv, DependenciesFirst
<1>2. QED
  BY <1>1, GraphInvariant, PTL

(* A make that ends well leaves nothing to the next one, for any graph of    *)
(* dependencies: what each nested make has read when it started is out of    *)
(* date only where it makes too much (include.mk, __embtk_pkg_runrecipe-y).  *)
THEOREM NothingIsLeft == GraphSpec => []NothingLeftToDo
<1>1. GraphInv => NothingLeftToDo
  BY DEF GraphInv, CleanInv, NothingLeftToDo
<1>2. QED
  BY <1>1, GraphInvariant, PTL

(* The image has the selected packages as they are configured, with direct   *)
(* dependencies as they are configured, and nothing of any other, but for    *)
(* what was cut short (rootfs.mk, __rootfs_components_install).              *)
THEOREM ImageHasSelection == GraphSpec => []ImageIsSelected
<1>1. GraphInv => ImageIsSelected
  <2>1. SUFFICES ASSUME GraphInv, stage = "done", ~archive.lossy, NEW p \in Pkgs \ cutoff
                 PROVE  IF p \in wanted.on THEN RightIn(p) ELSE archive.of[p] = NoFiles
    BY DEF ImageIsSelected
  <2>2. /\ archive.of = sysroot /\ wanted \in Selections
        /\ IF p \in installed THEN AsRecorded(p) ELSE sysroot[p] = NoFiles
    BY <2>1 DEF GraphInv, GraphTypes, SysrootInv, InFlux
  <2>3. installed \subseteq wanted.on /\ \A q \in wanted.on : UpToDate(q)
    BY <2>1 DEF GraphInv, CleanInv
  <2>4. CASE p \in wanted.on
    <3>1. AsRecorded(p) /\ okconfigs[p] = kconfigs_all_v(p)
      BY <2>2, <2>3, <2>4 DEF UpToDate
    <3>2. /\ DOMAIN kconfigs_all_v(p) = {p} \cup depspkgv(p)
          /\ \A q \in {p} \cup depspkgv(p) : kconfigs_all_v(p)[q] = wanted.opt[q]
      BY <2>1, <2>2, KconfigIsConf
    <3>3. QED
      BY <3>1, <3>2, <2>2, <2>4 DEF AsRecorded, RightIn
  <2>5. CASE p \notin wanted.on
    BY <2>2, <2>3, <2>5
  <2>6. QED
    BY <2>4, <2>5
<1>2. QED
  BY <1>1, GraphInvariant, PTL

=============================================================================
