------------------------------ MODULE PkgBuild ------------------------------
(***************************************************************************)
(* The life of ONE package of the build system on the disk: what           *)
(* "make <pkg>_install" and "make <pkg>_clean" do to the downloaded files, *)
(* the source tree, the state directory and the sysroot, one action per    *)
(* command of the recipes in core/mk/pkg-macros/.  A recipe is a list of   *)
(* shell lines and any of them may fail or be killed, so a run can end     *)
(* after each step; the next run starts from the files it finds.           *)
(***************************************************************************)
CONSTANTS
    Versions,   \* the versions of the package the configuration may choose
    Options,    \* the values of all its other CONFIG_EMBTK_<PKG>_* symbols
    Kind,       \* [Versions -> {"tarball", "git", "svn"}]
    Tree,       \* [Versions -> source directory], __embtk_pkg_srcdir
    NeedPatch,  \* the versions with CONFIG_EMBTK_<PKG>_NEED_PATCH
    WipeOut,    \* CONFIG_EMBTK_WIPEOUTWORKSPACES
    MultiDirs,  \* <PKG>_MAKE_DIRS names several directories
    MayCrash,   \* the run may be killed (power, ^C) between two commands
    None

Trees   == {Tree[v] : v \in Versions}
Configs == [ver : Versions, opt : Options]

(* A tarball unpacks in a directory of its own; a checkout is shared by    *)
(* all the revisions of its repository; only tarballs and svn checkouts    *)
(* are ever patched.                                                       *)
ASSUME PkgAssumption ==
    /\ Kind \in [Versions -> {"tarball", "git", "svn"}]
    /\ DOMAIN Tree = Versions
    /\ NeedPatch \subseteq Versions
    /\ \A v \in Versions : Kind[v] = "git" => v \notin NeedPatch
    /\ \A v, w \in Versions :
         Tree[v] = Tree[w] => Kind[v] = Kind[w] /\ (v \in NeedPatch <=> w \in NeedPatch)
    /\ \A v, w \in Versions : Kind[v] = "tarball" /\ Tree[v] = Tree[w] => v = w
    /\ WipeOut \in BOOLEAN
    /\ MultiDirs \in BOOLEAN
    /\ MayCrash \in BOOLEAN
    /\ None \notin Versions /\ None \notin Configs

VARIABLES
    config,     \* the package's part of .config
    package_f,  \* [Versions -> File], the tarball in the download directory
    patch_f,    \* [Versions -> File], the patch in the download directory
    src,        \* [Trees -> SourceTree]
    installed,  \* .embtk-<pkg>/.embtk.installed exists
    okconfigs,  \* the configuration in .embtk-<pkg>/.embtk.kconfig, or None
    sysroot,    \* what the package has in the sysroot
    pc, cfg,    \* the running make: its next command, the .config it parsed
    cut         \* history: sysroot was left behind the state directory

disk == <<package_f, patch_f, src, installed, okconfigs, sysroot>>
vars == <<config, package_f, patch_f, src, installed, okconfigs, sysroot, pc, cfg, cut>>

File == {"absent", "partial", "whole"}

(* "damaged" is a history: an accident happened to the tree since it was   *)
(* last created from nothing (crashdamages, ApplyPatchEnd, DownloadFail).  *)
SourceTree == [body         : {"absent", "partial", "whole"},
               rev          : Versions \cup {None},
               patch        : {"no", "half", "yes", "spoiled"},
               decompressed : BOOLEAN,
               patched      : BOOLEAN,
               damaged      : BOOLEAN]
NoTree == [body |-> "absent", rev |-> None, patch |-> "no",
           decompressed |-> FALSE, patched |-> FALSE, damaged |-> FALSE]

(* What "make install" leaves in the sysroot: the configuration and the    *)
(* state of the source tree it was built from.                             *)
Content == [whole   : BOOLEAN,
            cfg     : Configs \cup {None},
            body    : {"absent", "partial", "whole"},
            rev     : Versions \cup {None},
            patch   : {"no", "half", "yes", "spoiled"},
            damaged : BOOLEAN]
Installation(w, c, t) == [whole |-> w, cfg |-> c, body |-> t.body, rev |-> t.rev,
                          patch |-> t.patch, damaged |-> t.damaged]
Nothing == Installation(FALSE, None, NoTree)

Installing == {"fetch", "fetching", "fetchpatch", "fetchingpatch", "unpack", "unpacking",
               "mark", "patch", "patching", "markpatch", "make", "installing",
               "touch", "truncate", "record", "wipe", "wiping"}
Cleaning   == {"rmfiles", "rmingfiles", "rmsrc", "rmingsrc", "rmstate", "rmingstate"}

tree    == Tree[cfg.ver]
tarball == Kind[cfg.ver] = "tarball"

TypeOK ==
    /\ config \in Configs
    /\ package_f \in [Versions -> File]
    /\ patch_f \in [Versions -> File]
    /\ src \in [Trees -> SourceTree]
    /\ installed \in BOOLEAN
    /\ okconfigs \in Configs \cup {None}
    /\ sysroot \in Content
    /\ pc \in {"idle"} \cup Installing \cup Cleaning
    /\ cfg \in Configs \cup {None} /\ (cfg = None <=> pc = "idle")
    /\ cut \in BOOLEAN

Init ==
    /\ config \in Configs
    /\ package_f = [v \in Versions |-> "absent"]
    /\ patch_f = [v \in Versions |-> "absent"]
    /\ src = [t \in Trees |-> NoTree]
    /\ installed = FALSE /\ okconfigs = None /\ sysroot = Nothing
    /\ pc = "idle" /\ cfg = None
    /\ cut = FALSE

-----------------------------------------------------------------------------
(* The user: make menuconfig, make <pkg>_install, make <pkg>_clean.  A     *)
(* make has read .config before its first command: an edit made while it   *)
(* runs is one made after it.                                              *)

Configure ==
    /\ pc = "idle"
    /\ config' \in Configs /\ config' # config
    /\ UNCHANGED <<disk, pc, cfg, cut>>

(* Broken: the recorded configuration is not compared.                     *)
runrecipeInstalled(c) == ~installed

(* The recipe is skipped when the package is installed and the             *)
(* configuration recorded by the last run is the present one.              *)
runrecipe(c) == ~installed \/ okconfigs # c

Install ==
    /\ pc = "idle" /\ runrecipe(config)
    /\ pc' = "fetch" /\ cfg' = config
    /\ UNCHANGED <<config, disk, cut>>

Clean ==
    /\ pc = "idle"
    /\ pc' = "rmfiles" /\ cfg' = config
    /\ UNCHANGED <<config, disk, cut>>

Go(next)    == pc' = next /\ UNCHANGED <<config, cfg>>
Stop        == pc' = "idle" /\ cfg' = None /\ UNCHANGED config
InTree(new) == src' = [src EXCEPT ![tree] = new]

-----------------------------------------------------------------------------
(* embtk_download_pkg *)

fetched == IF tarball THEN package_f[cfg.ver] # "absent" ELSE src[tree].body # "absent"

DownloadSkip ==
    /\ pc = "fetch" /\ fetched
    /\ Go("fetchpatch") /\ UNCHANGED <<disk, cut>>

(* wget -O truncates its output file, svn and git create the directory.    *)
DownloadBegin ==
    /\ pc = "fetch" /\ ~fetched
    /\ IF tarball
       THEN package_f' = [package_f EXCEPT ![cfg.ver] = "partial"] /\ UNCHANGED src
       ELSE InTree([NoTree EXCEPT !.body = "partial", !.rev = cfg.ver]) /\ UNCHANGED package_f
    /\ Go("fetching")
    /\ UNCHANGED <<patch_f, installed, okconfigs, sysroot, cut>>

DownloadEnd ==
    /\ pc = "fetching"
    /\ IF tarball
       THEN package_f' = [package_f EXCEPT ![cfg.ver] = "whole"] /\ UNCHANGED src
       ELSE InTree([src[tree] EXCEPT !.body = "whole"]) /\ UNCHANGED package_f
    /\ Go("fetchpatch")
    /\ UNCHANGED <<patch_f, installed, okconfigs, sysroot, cut>>

(* Broken: what a failed download has written stays.                       *)
DownloadFailKeeps == pc = "fetching" /\ Stop /\ UNCHANGED <<disk, cut>>

(* No site answered.  A tarball is removed; a failed checkout stays as it  *)
(* is (what is removed is the name of a tarball that is not used); git     *)
(* removes its own failed clone.                                           *)
DownloadFail ==
    /\ pc = "fetching"
    /\ CASE Kind[cfg.ver] = "tarball" ->
              package_f' = [package_f EXCEPT ![cfg.ver] = "absent"] /\ UNCHANGED src
         [] Kind[cfg.ver] = "svn" ->
              InTree([src[tree] EXCEPT !.damaged = TRUE]) /\ UNCHANGED package_f
         [] Kind[cfg.ver] = "git" ->
              InTree(NoTree) /\ UNCHANGED package_f
    /\ Stop
    /\ UNCHANGED <<patch_f, installed, okconfigs, sysroot, cut>>

(* git clone worked and checkout -b or reset --hard did not.               *)
GitRevisionFail ==
    /\ pc = "fetching" /\ Kind[cfg.ver] = "git"
    /\ \E v \in Versions :
         /\ Tree[v] = tree /\ v # cfg.ver
         /\ InTree([src[tree] EXCEPT !.body = "whole", !.rev = v])
    /\ Stop
    /\ UNCHANGED <<package_f, patch_f, installed, okconfigs, sysroot, cut>>

afterdownload == CASE Kind[cfg.ver] = "tarball" -> "unpack"
                   [] Kind[cfg.ver] = "svn"     -> "patch"
                   [] Kind[cfg.ver] = "git"     -> "make"

DownloadPatchSkip ==
    /\ pc = "fetchpatch"
    /\ cfg.ver \in NeedPatch => patch_f[cfg.ver] # "absent"
    /\ Go(afterdownload) /\ UNCHANGED <<disk, cut>>

DownloadPatchBegin ==
    /\ pc = "fetchpatch" /\ cfg.ver \in NeedPatch /\ patch_f[cfg.ver] = "absent"
    /\ patch_f' = [patch_f EXCEPT ![cfg.ver] = "partial"]
    /\ Go("fetchingpatch")
    /\ UNCHANGED <<package_f, src, installed, okconfigs, sysroot, cut>>

DownloadPatchEnd ==
    /\ pc = "fetchingpatch"
    /\ patch_f' = [patch_f EXCEPT ![cfg.ver] = "whole"]
    /\ Go(afterdownload)
    /\ UNCHANGED <<package_f, src, installed, okconfigs, sysroot, cut>>

(* Broken: what a failed download of the patch has written stays.          *)
DownloadPatchFailKeeps == pc = "fetchingpatch" /\ Stop /\ UNCHANGED <<disk, cut>>

DownloadPatchFail ==
    /\ pc = "fetchingpatch"
    /\ patch_f' = [patch_f EXCEPT ![cfg.ver] = "absent"]
    /\ Stop
    /\ UNCHANGED <<package_f, src, installed, okconfigs, sysroot, cut>>

-----------------------------------------------------------------------------
(* embtk_decompress_pkg and __embtk_applypatch_pkg                         *)

DecompressSkip ==
    /\ pc = "unpack" /\ src[tree].decompressed
    /\ Go("make") /\ UNCHANGED <<disk, cut>>

(* tar writes its files over those of the tree, if there are any; the      *)
(* files a patch had added to it stay there and upset the next patch.      *)
DecompressBegin ==
    /\ pc = "unpack" /\ ~src[tree].decompressed
    /\ \E left \in IF src[tree].patch = "no" THEN {"no"} ELSE {"no", "spoiled"} :
         InTree([src[tree] EXCEPT !.body = "partial", !.rev = cfg.ver, !.patch = left])
    /\ Go("unpacking")
    /\ UNCHANGED <<package_f, patch_f, installed, okconfigs, sysroot, cut>>

DecompressEnd ==
    /\ pc = "unpacking" /\ package_f[cfg.ver] = "whole"
    /\ InTree([src[tree] EXCEPT !.body = "whole"])
    /\ Go("mark")
    /\ UNCHANGED <<package_f, patch_f, installed, okconfigs, sysroot, cut>>

(* Broken: the marker is touched after a tar that failed.                  *)
DecompressFailIgnored ==
    /\ pc = "unpacking" /\ package_f[cfg.ver] = "partial"
    /\ Go("mark") /\ UNCHANGED <<disk, cut>>

DecompressFail ==
    /\ pc = "unpacking" /\ package_f[cfg.ver] = "partial"
    /\ Stop /\ UNCHANGED <<disk, cut>>

SetDecompressed ==
    /\ pc = "mark"
    /\ InTree([src[tree] EXCEPT !.decompressed = TRUE])
    /\ Go("patch")
    /\ UNCHANGED <<package_f, patch_f, installed, okconfigs, sysroot, cut>>

(* Broken: the marker .embtk.patched is not looked at; no patch at all.    *)
topatchAlways == cfg.ver \in NeedPatch
topatchNever  == FALSE

topatch == cfg.ver \in NeedPatch /\ ~src[tree].patched

ApplyPatchSkip ==
    /\ pc = "patch" /\ ~topatch
    /\ Go("make") /\ UNCHANGED <<disk, cut>>

ApplyPatchBegin ==
    /\ pc = "patch" /\ topatch
    /\ InTree([src[tree] EXCEPT !.patch = IF @ = "no" THEN "half" ELSE "spoiled"])
    /\ Go("patching")
    /\ UNCHANGED <<package_f, patch_f, installed, okconfigs, sysroot, cut>>

(* The exit status of patch is not looked at.                              *)
patchable == patch_f[cfg.ver] = "whole" /\ src[tree].body = "whole" /\ src[tree].patch = "half"

ApplyPatchEnd ==
    /\ pc = "patching"
    /\ InTree([src[tree] EXCEPT
                 !.patch  = IF patchable THEN "yes" ELSE "spoiled",
                 !.damaged = @ \/ patch_f[cfg.ver] # "whole"])
    /\ Go("markpatch")
    /\ UNCHANGED <<package_f, patch_f, installed, okconfigs, sysroot, cut>>

SetPatched ==
    /\ pc = "markpatch"
    /\ InTree([src[tree] EXCEPT !.patched = TRUE])
    /\ Go("make")
    /\ UNCHANGED <<package_f, patch_f, installed, okconfigs, sysroot, cut>>

-----------------------------------------------------------------------------
(* configure, make, make install, then __embtk_postinstall_pkg             *)

MakeFail ==
    /\ pc = "make"
    /\ Stop /\ UNCHANGED <<disk, cut>>

(* The package is compiled and "make install" has started.                 *)
MakeEnd ==
    /\ pc = "make"
    /\ sysroot' = Installation(FALSE, cfg, src[tree])
    /\ Go("installing")
    /\ UNCHANGED <<package_f, patch_f, src, installed, okconfigs, cut>>

(* With several directories only the status of the last one counts: the    *)
(* commands are separated by ";".                                          *)
InstallEnd ==
    /\ pc = "installing"
    /\ \E whole \in BOOLEAN :
         /\ whole \/ MultiDirs
         /\ sysroot' = Installation(whole, cfg, src[tree])
    /\ Go("touch")
    /\ UNCHANGED <<package_f, patch_f, src, installed, okconfigs, cut>>

(* Broken: the status of a failed "make install" is lost.                  *)
InstallFailIgnored == pc = "installing" /\ Go("touch") /\ UNCHANGED <<disk, cut>>

InstallFail ==
    /\ pc = "installing"
    /\ cut' = TRUE
    /\ Stop /\ UNCHANGED disk

SetInstalled ==
    /\ pc = "touch"
    /\ installed' = TRUE
    /\ Go("truncate")
    /\ UNCHANGED <<package_f, patch_f, src, okconfigs, sysroot, cut>>

(* echo ... > .embtk.kconfig empties the file, then writes it.             *)
TruncateKconfig ==
    /\ pc = "truncate"
    /\ okconfigs' = None
    /\ Go("record")
    /\ UNCHANGED <<package_f, patch_f, src, installed, sysroot, cut>>

GenKconfig ==
    /\ pc = "record"
    /\ okconfigs' = cfg
    /\ cut' = FALSE
    /\ Go("wipe")
    /\ UNCHANGED <<package_f, patch_f, src, installed, sysroot>>

WipeSkip ==
    /\ pc = "wipe" /\ ~(WipeOut /\ tarball)
    /\ Stop /\ UNCHANGED <<disk, cut>>

(* rm -rf on the source tree: files and markers go in any order.           *)
Erode ==
    \E d, p \in BOOLEAN :
      /\ d => src[tree].decompressed
      /\ p => src[tree].patched
      /\ InTree([src[tree] EXCEPT !.body = IF @ = "absent" THEN "absent" ELSE "partial",
                                  !.decompressed = d, !.patched = p])

WipeBegin ==
    /\ pc = "wipe" /\ WipeOut /\ tarball
    /\ Erode
    /\ Go("wiping")
    /\ UNCHANGED <<package_f, patch_f, installed, okconfigs, sysroot, cut>>

WipeEnd ==
    /\ pc = "wiping"
    /\ InTree(NoTree)
    /\ Stop
    /\ UNCHANGED <<package_f, patch_f, installed, okconfigs, sysroot, cut>>

-----------------------------------------------------------------------------
(* __embtk_cleanup_pkg                                                     *)

CleanFilesBegin ==
    /\ pc = "rmfiles"
    /\ sysroot' = [sysroot EXCEPT !.whole = FALSE]
    /\ Go("rmingfiles")
    /\ UNCHANGED <<package_f, patch_f, src, installed, okconfigs, cut>>

CleanFilesEnd ==
    /\ pc = "rmingfiles"
    /\ sysroot' = Nothing
    /\ Go("rmsrc")
    /\ UNCHANGED <<package_f, patch_f, src, installed, okconfigs, cut>>

(* A checkout is kept: only the installed marker goes.                     *)
CleanCheckout ==
    /\ pc = "rmsrc" /\ ~tarball
    /\ installed' = FALSE
    /\ Go("rmstate")
    /\ UNCHANGED <<package_f, patch_f, src, okconfigs, sysroot, cut>>

CleanSrcBegin ==
    /\ pc = "rmsrc" /\ tarball
    /\ Erode
    /\ Go("rmingsrc")
    /\ UNCHANGED <<package_f, patch_f, installed, okconfigs, sysroot, cut>>

CleanSrcEnd ==
    /\ pc = "rmingsrc"
    /\ InTree(NoTree)
    /\ Go("rmstate")
    /\ UNCHANGED <<package_f, patch_f, installed, okconfigs, sysroot, cut>>

CleanStateBegin ==
    /\ pc = "rmstate"
    /\ \/ installed' = FALSE /\ UNCHANGED okconfigs
       \/ okconfigs' = None /\ UNCHANGED installed
    /\ Go("rmingstate")
    /\ UNCHANGED <<package_f, patch_f, src, sysroot, cut>>

CleanStateEnd ==
    /\ pc = "rmingstate"
    /\ installed' = FALSE /\ okconfigs' = None
    /\ cut' = FALSE
    /\ Stop
    /\ UNCHANGED <<package_f, patch_f, src, sysroot>>

-----------------------------------------------------------------------------
(* The run is killed between two commands, or inside the one it is in.     *)

(* Whether that is an accident the next run does not repair: a checkout or *)
(* a removal cut short; a tarball unpacked but not patched; a patch half   *)
(* applied; an svn checkout patched but not marked as such.                *)
crashdamages ==
    \/ pc = "fetching" /\ ~tarball
    \/ pc = "patch" /\ tarball /\ topatch
    \/ pc = "patching"
    \/ pc = "markpatch" /\ ~tarball
    \/ pc \in {"wiping", "rmingsrc"}

behind == {"installing", "touch", "truncate", "record",
           "rmingfiles", "rmsrc", "rmingsrc", "rmstate", "rmingstate"}

Crash ==
    /\ MayCrash /\ pc # "idle"
    /\ InTree([src[tree] EXCEPT !.damaged = @ \/ crashdamages])
    /\ cut' = (cut \/ pc \in behind)
    /\ Stop
    /\ UNCHANGED <<package_f, patch_f, installed, okconfigs, sysroot>>

-----------------------------------------------------------------------------
Download   == DownloadSkip \/ DownloadBegin \/ DownloadEnd \/ DownloadFail \/ GitRevisionFail
DownloadPatch == \/ DownloadPatchSkip \/ DownloadPatchBegin
                 \/ DownloadPatchEnd \/ DownloadPatchFail
Decompress == DecompressSkip \/ DecompressBegin \/ DecompressEnd \/ DecompressFail \/ SetDecompressed
ApplyPatch == ApplyPatchSkip \/ ApplyPatchBegin \/ ApplyPatchEnd \/ SetPatched
MakeInstall == MakeFail \/ MakeEnd \/ InstallEnd \/ InstallFail
PostInstall == SetInstalled \/ TruncateKconfig \/ GenKconfig \/ WipeSkip \/ WipeBegin \/ WipeEnd
Cleanup    == \/ CleanFilesBegin \/ CleanFilesEnd \/ CleanCheckout \/ CleanSrcBegin
              \/ CleanSrcEnd \/ CleanStateBegin \/ CleanStateEnd

Recipe == \/ Download \/ DownloadPatch \/ Decompress \/ ApplyPatch
          \/ MakeInstall \/ PostInstall \/ Cleanup

Next == Configure \/ Install \/ Clean \/ Recipe \/ Crash

Spec == Init /\ [][Next]_vars
-----------------------------------------------------------------------------
(* What the recipes are for.                                               *)

PatchState(v) == IF v \in NeedPatch THEN "yes" ELSE "no"

(* The source tree t is what version v needs: complete, patched when (and  *)
(* only when) v has a patch and, for a tarball, of that version.           *)
RightFor(t, v) ==
    /\ t.body = "whole"
    /\ t.patch = PatchState(v)
    /\ Kind[v] = "tarball" => t.rev = v

(* The tree that the next run will compile as it is: the tests of          *)
(* embtk_download_pkg and embtk_decompress_pkg take it for finished.       *)
TakenAsIs(v) ==
    LET t == src[Tree[v]] IN
    CASE Kind[v] = "tarball" -> t.decompressed
      [] Kind[v] = "svn"     -> t.body # "absent" /\ (v \in NeedPatch => t.patched)
      [] Kind[v] = "git"     -> t.body # "absent"

(* Whatever was interrupted, retried or cleaned before, a tree the next    *)
(* run takes as it is (marker files .embtk.decompressed, .embtk.patched, a *)
(* checkout directory) is complete and patched exactly as configured,      *)
(* unless it was damaged by one of the accidents named in crashdamages,    *)
(* ApplyPatchEnd and DownloadFail: there is no other way to be wrong.      *)
MarkersAreRight ==
    pc = "idle" =>
      \A v \in Versions :
        TakenAsIs(v) /\ ~src[Tree[v]].damaged => RightFor(src[Tree[v]], v)

(* When "make" skips a package as up to date (__embtk_pkg_runrecipe-y),    *)
(* the sysroot has a complete installation of exactly the configured       *)
(* package, built from the right source, unless an installation or a       *)
(* cleanup was cut short behind the back of the state directory, or the    *)
(* tree it was built from had an accident.  Only a package with several    *)
(* make directories may be recorded though one of them failed.             *)
SkipIsSound ==
    pc = "idle" /\ ~runrecipe(config) /\ ~cut /\ ~sysroot.damaged =>
      /\ sysroot.cfg = config
      /\ sysroot.whole \/ MultiDirs
      /\ RightFor(sysroot, config.ver)

(* An undamaged tree that was patched is never patched a second time: it   *)
(* keeps its patch until the whole tree is removed (guard of               *)
(* __embtk_applypatch_pkg, run again on every build of an svn checkout).   *)
PatchedOnce ==
    [][\A t \in Trees :
         src[t].patch = "yes" /\ ~src[t].damaged =>
           src'[t].patch = "yes" \/ src'[t] = NoTree]_vars

(* The run that stops in the middle of a download of its own accord leaves *)
(* no partial tarball or patch behind: only a killed run does              *)
(* (__embtk_download_pkg_exitfailure).                                     *)
NoHalfDownload ==
    pc = "idle" /\ ~MayCrash =>
      \A v \in Versions : package_f[v] # "partial" /\ patch_f[v] # "partial"

(* The abstract ledger of module PkgLedger: okconfigs is written only over *)
(* a complete installation of the configuration it names.                  *)
Ledger == INSTANCE PkgLedger WITH
             built  <- IF sysroot.whole THEN sysroot.cfg ELSE None,
             record <- okconfigs
LedgerSpec == Ledger!Spec

-----------------------------------------------------------------------------
(* A run that is not killed goes on to its end; the user runs make again   *)
(* when the package is not up to date; the network and the compiler, tried *)
(* again and again, work at last.                                          *)
Fairness ==
    /\ WF_vars(Install)
    /\ WF_vars(Recipe)
    /\ SF_vars(DownloadEnd) /\ SF_vars(DownloadPatchEnd)
    /\ SF_vars(MakeEnd) /\ SF_vars(InstallEnd)

FairSpec == Spec /\ Fairness

(* Failed downloads, compilations and installations never stop the package *)
(* from being built by a later run: once the configuration stays the same  *)
(* and nobody cleans, it gets up to date and stays so.                     *)
Converges ==
    \A c \in Configs :
      <>[](config = c /\ pc \notin Cleaning) => <>[]~runrecipe(c)
=============================================================================
