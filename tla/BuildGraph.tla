----------------------------- MODULE BuildGraph -----------------------------
(***************************************************************************)
(* make rootfs_build over several packages: what is disabled is cleaned    *)
(* up, what is selected is built, each package after a make of its own for *)
(* its dependencies, and the sysroot is copied to an image.  Every make    *)
(* reads the markers and the recorded configurations when it starts        *)
(* (include.mk) and decides by what it then read, though the makes it runs *)
(* in between change them.  One package at a time is module PkgBuild; the  *)
(* toolchain, which the same make looks after first, is module Toolchain.  *)
(***************************************************************************)
EXTENDS Naturals, Sequences

CONSTANTS Pkgs,
          PkgOpts,      \* what the symbols of a package may be set to
          Deps,         \* [package -> what it depends on where that is selected]
          Selections,   \* the configurations: [on, opt]
          MaxMakes      \* bound: makes of the top level

ASSUME GraphAssumption ==
    /\ Deps \in [Pkgs -> SUBSET Pkgs]
    /\ Selections \subseteq [on : SUBSET Pkgs, opt : [Pkgs -> PkgOpts]]
    /\ MaxMakes \in Nat

VARIABLES wanted,       \* .config
          installed,    \* the packages with .embtk.installed
          okconfigs,    \* [package -> .embtk.kconfig]
          sysroot,      \* [package -> its files there, and what it was built with]
          stage,        \* which prerequisite of rootfs_build is made
          makes,        \* the running makes, each run by the one before it
          gone,         \* ROOTFS_COMPONENTS-, as far as not cleaned up yet
          rootfs, archive,  \* rootfs-*/ and the image made of it
          cutoff,       \* history: packages whose installation or cleanup was cut
                        \* short, or that were built with one
          builds        \* makes of the top level, for the bound
ondisk == <<installed, okconfigs, sysroot>>
graphvars == <<wanted, ondisk, stage, makes, gone, rootfs, archive, cutoff, builds>>

NoFiles == [is |-> "none", with |-> << >>]
NoImage == [of |-> [p \in Pkgs |-> NoFiles], lossy |-> TRUE]

depspkgv(p) == Deps[p] \cap wanted.on
(* __embtk_pkg_kconfigs_all_v: its own symbols and those of the packages it  *)
(* depends on directly.  (Broken: its own only.)                             *)
kconfigs_all_v_Own(p) == [q \in {p} |-> wanted.opt[q]]
kconfigs_all_v(p) == [q \in {p} \cup depspkgv(p) |-> wanted.opt[q]]

GraphInit ==
    /\ wanted \in Selections
    /\ installed = {} /\ okconfigs = [p \in Pkgs |-> << >>] /\ sysroot = [p \in Pkgs |-> NoFiles]
    /\ stage = "idle" /\ makes = << >> /\ gone = {}
    /\ rootfs = NoImage.of /\ archive = NoImage /\ cutoff = {} /\ builds = 0

(* make startconfig, between two builds *)
Select(c) ==
    /\ stage \in {"idle", "done"} /\ c # wanted
    /\ wanted' = c /\ stage' = "idle"
    /\ UNCHANGED <<ondisk, makes, gone, rootfs, archive, cutoff, builds>>

-----------------------------------------------------------------------------
(* A make that starts: the marker of each package and, where it is selected, *)
(* its recorded configuration are read now.                                  *)
include_pkg(goals) ==
    [inst |-> installed, ok |-> [p \in Pkgs |-> IF p \in wanted.on THEN okconfigs[p] ELSE << >>],
     goals |-> goals, at |-> "next", pkg |-> ""]

rootfs_build ==
    /\ stage \in {"idle", "done"} /\ stage' = "clean"
    /\ makes' = <<include_pkg(wanted.on)>> /\ gone' = installed \ wanted.on
    /\ builds < MaxMakes /\ builds' = builds + 1
    /\ UNCHANGED <<wanted, ondisk, rootfs, archive, cutoff>>

this == makes[Len(makes)]
ThisMake(make) == makes' = [makes EXCEPT ![Len(makes)] = make]

(* __rootfs_clean: each package that is installed and no longer selected,    *)
(* first its files, then its state directory; ...                            *)
CleanupFiles(p) ==
    /\ stage = "clean" /\ this.at = "next" /\ p \in gone
    /\ sysroot' = [sysroot EXCEPT ![p] = NoFiles]
    /\ ThisMake([this EXCEPT !.at = "unmark", !.pkg = p])
    /\ UNCHANGED <<wanted, installed, okconfigs, stage, gone, rootfs, archive, cutoff, builds>>

CleanupState ==
    /\ stage = "clean" /\ this.at = "unmark"
    /\ installed' = installed \ {this.pkg} /\ okconfigs' = [okconfigs EXCEPT ![this.pkg] = << >>]
    /\ cutoff' = cutoff \ {this.pkg} /\ gone' = gone \ {this.pkg}
    /\ ThisMake([this EXCEPT !.at = "next"])
    /\ UNCHANGED <<wanted, sysroot, stage, rootfs, archive, builds>>

(* ... then the images and what an earlier make left of the tree.  The new   *)
(* tree has the skeleton only.                                               *)
rootfs_mkinitpath ==
    /\ stage = "clean" /\ this.at = "next" /\ gone = {}
    /\ stage' = "components" /\ rootfs' = NoImage.of /\ archive' = NoImage
    /\ UNCHANGED <<wanted, ondisk, makes, gone, cutoff, builds>>

-----------------------------------------------------------------------------
(* __embtk_pkg_runrecipe-y: the marker may be one of now, the recorded       *)
(* configuration is the one read at the start.                               *)
installed_y(p)   == p \in this.inst \/ p \in installed
confchanged_y(p) == kconfigs_all_v(p) # this.ok[p]
pkg_runrecipe_Marked(p) == ~installed_y(p)
pkg_runrecipe(p) == ~installed_y(p) \/ confchanged_y(p)

(* The recipe of one goal; its first command makes what it depends on.  (The *)
(* goals come in the order they are listed in, which is any.)                *)
(* Broken: not where this make has read that they are all installed.         *)
install_pkgdeps_Read(p) == IF depspkgv(p) \subseteq this.inst THEN {} ELSE depspkgv(p)
install_pkgdeps(p) == depspkgv(p)

Skip(p) ==
    /\ stage = "components" /\ this.at = "next" /\ p \in this.goals /\ ~pkg_runrecipe(p)
    /\ ThisMake([this EXCEPT !.goals = @ \ {p}])
    /\ UNCHANGED <<wanted, ondisk, stage, gone, rootfs, archive, cutoff, builds>>

InstallPkg(p) ==
    /\ stage = "components" /\ this.at = "next" /\ p \in this.goals /\ pkg_runrecipe(p)
    /\ LET begun == [this EXCEPT !.goals = @ \ {p}, !.pkg = p, !.inst = @ \cup {p},
                                !.at = IF install_pkgdeps(p) = {} THEN "install" ELSE "deps"]
           waiting == [makes EXCEPT ![Len(makes)] = begun]
       IN makes' = IF install_pkgdeps(p) = {} THEN waiting
                   ELSE Append(waiting, include_pkg(install_pkgdeps(p)))
    /\ UNCHANGED <<wanted, ondisk, stage, gone, rootfs, archive, cutoff, builds>>

DepsMade ==
    /\ stage = "components" /\ Len(makes) > 1 /\ this.at = "next" /\ this.goals = {}
    /\ makes' = [i \in 1..(Len(makes) - 1) |->
                    IF i = Len(makes) - 1 THEN [makes[i] EXCEPT !.at = "install"] ELSE makes[i]]
    /\ UNCHANGED <<wanted, ondisk, stage, gone, rootfs, archive, cutoff, builds>>

(* Compiled and installed, with the dependencies the sysroot has.            *)
BuiltWith(p) ==
    [q \in {p} \cup depspkgv(p) |->
        IF q = p \/ sysroot[q].is # "whole" THEN [opt |-> wanted.opt[q], whole |-> q = p]
        ELSE [opt |-> sysroot[q].with[q].opt, whole |-> TRUE]]
MakeInstall ==
    /\ stage = "components" /\ this.at = "install"
    /\ sysroot' = [sysroot EXCEPT ![this.pkg] = [is |-> "whole", with |-> BuiltWith(this.pkg)]]
    /\ ThisMake([this EXCEPT !.at = "mark"])
    /\ UNCHANGED <<wanted, installed, okconfigs, stage, gone, rootfs, archive, cutoff, builds>>

setinstalled_pkg ==
    /\ stage = "components" /\ this.at = "mark"
    /\ installed' = installed \cup {this.pkg} /\ ThisMake([this EXCEPT !.at = "record"])
    /\ UNCHANGED <<wanted, okconfigs, sysroot, stage, gone, rootfs, archive, cutoff, builds>>

pkg_gen_dotkconfig ==
    /\ stage = "components" /\ this.at = "record"
    /\ okconfigs' = [okconfigs EXCEPT ![this.pkg] = kconfigs_all_v(this.pkg)]
    /\ cutoff' = IF depspkgv(this.pkg) \cap cutoff = {} THEN cutoff \ {this.pkg}
                 ELSE cutoff \cup {this.pkg}
    /\ ThisMake([this EXCEPT !.at = "next"])
    /\ UNCHANGED <<wanted, installed, sysroot, stage, gone, rootfs, archive, builds>>

-----------------------------------------------------------------------------
(* __rootfs_mkdevnodes and __rootfs_components_install: whatever is in the   *)
(* sysroot is copied; an error is ignored.                                   *)
components_install ==
    /\ stage = "components" /\ Len(makes) = 1 /\ this.at = "next" /\ this.goals = {}
    /\ \E lost \in {{}} \cup {{p} : p \in Pkgs} :
         rootfs' = [p \in Pkgs |-> IF p \in lost THEN NoFiles ELSE sysroot[p]]
    /\ stage' = "generate"
    /\ UNCHANGED <<wanted, ondisk, makes, gone, archive, cutoff, builds>>

(* tar and mv are joined by ';': what a tar that fails has written is taken. *)
fs_generate ==
    /\ stage = "generate"
    /\ \E failed \in BOOLEAN :
         archive' = [of |-> rootfs, lossy |-> failed \/ rootfs # sysroot]
    /\ rootfs' = NoImage.of /\ stage' = "done" /\ makes' = << >>
    /\ UNCHANGED <<wanted, ondisk, gone, cutoff, builds>>

(* A command fails, and with it every make that waits for it; or it is all   *)
(* killed.  What was being installed or removed may be half there.           *)
Stopped ==
    /\ stage \notin {"idle", "done"}
    /\ stage' = "idle" /\ makes' = << >> /\ gone' = {}
    /\ \/ /\ cutoff' = IF this.at \in {"unmark", "mark", "record"} THEN cutoff \cup {this.pkg} ELSE cutoff
          /\ UNCHANGED sysroot
       \/ /\ this.at \in {"unmark", "install"} /\ cutoff' = cutoff \cup {this.pkg}
          /\ sysroot' = [sysroot EXCEPT ![this.pkg] = [is |-> "part", with |-> << >>]]
    /\ UNCHANGED <<wanted, installed, okconfigs, rootfs, archive, builds>>

GraphNext ==
    \/ \E c \in Selections : Select(c)
    \/ rootfs_build \/ CleanupState \/ rootfs_mkinitpath \/ DepsMade
    \/ \E p \in Pkgs : CleanupFiles(p) \/ Skip(p) \/ InstallPkg(p)
    \/ MakeInstall \/ setinstalled_pkg \/ pkg_gen_dotkconfig
    \/ components_install \/ fs_generate \/ Stopped
GraphSpec == GraphInit /\ [][GraphNext]_graphvars

-----------------------------------------------------------------------------
(* A package a make would skip. *)
UpToDate(p) == p \in installed /\ okconfigs[p] = kconfigs_all_v(p)

(* However makes nest, and though each decides by what it read when it       *)
(* started, nothing is compiled before everything it depends on is           *)
(* installed as it is configured now.                                        *)
DependenciesFirst ==
    (stage = "components" /\ this.at = "install") => \A d \in depspkgv(this.pkg) : UpToDate(d)

(* A make that ends well leaves nothing to the next one: all that is         *)
(* selected would be skipped, and nothing else is installed.                 *)
NothingLeftToDo ==
    stage = "done" => installed \subseteq wanted.on /\ \A p \in wanted.on : UpToDate(p)

(* The image has the selected packages, each built as it is configured with  *)
(* the direct dependencies as they are configured, and nothing of any other; *)
(* whatever was selected, built, or cut short before.  (A package of which   *)
(* an installation or a cleanup was cut short may be skipped over its        *)
(* remains, or left out of every cleanup, and errors of the copying are      *)
(* ignored.)                                                                 *)
RightIn(p) ==
    /\ archive.of[p].is = "whole" /\ DOMAIN archive.of[p].with = {p} \cup depspkgv(p)
    /\ \A q \in {p} \cup depspkgv(p) : archive.of[p].with[q] = [opt |-> wanted.opt[q], whole |-> TRUE]
ImageIsSelected ==
    (stage = "done" /\ ~archive.lossy) =>
        \A p \in Pkgs \ cutoff : IF p \in wanted.on THEN RightIn(p) ELSE archive.of[p] = NoFiles
=============================================================================
