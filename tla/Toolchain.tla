----------------------------- MODULE Toolchain -----------------------------
(***************************************************************************)
(* The cross toolchain and its cache: what "make" does, one action per     *)
(* command of the recipe toolchain_install and of the root filesystem      *)
(* packages built after it, to the one sysroot of the target, to the       *)
(* tarball and state directories kept per toolchain under                  *)
(* generated/toolchains/, and to the markers kept under build/; and what   *)
(* "make clean" leaves of them.  The recipe is expanded as a whole before  *)
(* its first command runs: every test it makes is made then (Start).       *)
(***************************************************************************)
EXTENDS Naturals

CONSTANTS
    Dirs,       \* toolchains: what TOOLCHAIN_DIR is named after (compiler, C library)
    Options,    \* the other options of the core (languages, threads, ...)
    Addons,     \* ltrace, strace, gdb, gdbserver
    Packages,   \* the packages of the root filesystem, all selected
    AddonPackages,  \* those an addon's recipe has installed first (ltrace: libelf)
    MaxCrashes, \* bound: how often a run is killed
    MustClean,  \* the user never changes to another toolchain without a "make clean"
    None

ASSUME ToolchainAssumption ==
    /\ MaxCrashes \in Nat
    /\ MustClean \in BOOLEAN
    /\ AddonPackages \in [Addons -> SUBSET Packages]
    /\ None \notin Options /\ None \notin Dirs \X Options

VARIABLES
    config,     \* .config
    cache,      \* [Dirs -> Cache], generated/toolchains/<toolchain>/
    sysroot,    \* sysroot-<target> and tools-<target>
    headers,    \* linux_headers has its installed marker
    addons,     \* the addons that have their installed marker
    packages,   \* the packages that have their installed marker
    pc, run,    \* the running make: its next command, what Start decided
    crashes,
    cleancut,   \* history: a "make clean" was killed before it removed the markers
    lost        \* history: the packages of addons that were marked and never packed

marks == <<headers, addons, packages>>
ghost == <<crashes, cleancut, lost>>
vars  == <<config, cache, sysroot, headers, addons, packages, pc, run,
           crashes, cleancut, lost>>

Configs == [dir : Dirs, opt : Options, addons : SUBSET Addons]

(* A partly built or unpacked core counts as None.                         *)
Sysroot == [core : (Dirs \X Options) \cup {None}, addons : SUBSET Addons,
            packages : SUBSET Packages]
Bare    == [core |-> None, addons |-> {}, packages |-> {}]

(* The state of "toolchain" and of "toolchain_addons"; a record of no      *)
(* addons at all reads like no record.                                     *)
Cache == [tarball : Sysroot \cup {None}, decompressed : BOOLEAN,
          installed  : BOOLEAN, okcore   : Options \cup {None},
          ainstalled : BOOLEAN, okaddons : SUBSET Addons]
NoCache == [tarball |-> None, decompressed |-> FALSE, installed |-> FALSE, okcore |-> None,
            ainstalled |-> FALSE, okaddons |-> {}]

Cleaning == {"cleandec", "cleanmarks", "cleansysroot"}
Steps == Cleaning \cup
         {"predeps", "uninstall", "undecompress", "corecleanup", "rmsysroot", "headers",
          "corebuild", "coremark", "corerecord", "addonunmark", "addoncleanup", "addonrm",
          "addonuntar", "addondisable", "addonbuild", "addonmark", "addonrecord",
          "pack", "packmark", "unpackrm", "unpack", "unpackmark", "rootfs"}
Runs == [cfg : Configs, core : BOOLEAN, addons : BOOLEAN, unpack : BOOLEAN,
         blind : BOOLEAN, seen : SUBSET Addons]

TypeOK ==
    /\ config \in Configs
    /\ cache \in [Dirs -> Cache]
    /\ sysroot \in Sysroot
    /\ headers \in BOOLEAN /\ addons \subseteq Addons /\ packages \subseteq Packages
    /\ pc \in {"idle"} \cup Steps
    /\ run \in IF pc = "idle" THEN {None} ELSE Runs
    /\ crashes \in 0..MaxCrashes /\ cleancut \in BOOLEAN /\ lost \subseteq Packages

Init ==
    /\ config \in Configs
    /\ cache = [d \in Dirs |-> NoCache]
    /\ sysroot = Bare
    /\ headers = FALSE /\ addons = {} /\ packages = {}
    /\ pc = "idle" /\ run = None
    /\ crashes = 0 /\ cleancut = FALSE /\ lost = {}

-----------------------------------------------------------------------------
(* __embtk_toolchain_runrecipe-y, __embtk_toolchain_addons_runrecipe-y *)
missed(c)    == cache[c.dir].tarball = None
runcore(c)   == ~cache[c.dir].installed \/ cache[c.dir].okcore # c.opt \/ missed(c)
runaddons(c) == ~cache[c.dir].ainstalled \/ cache[c.dir].okaddons # c.addons \/ missed(c)

cleaned == ~cache[config.dir].decompressed /\ sysroot = Bare /\ packages = {}

Configure ==
    /\ pc = "idle"
    /\ config' \in Configs /\ config' # config
    /\ MustClean /\ config'.dir # config.dir => cleaned
    /\ UNCHANGED <<cache, sysroot, marks, pc, run, ghost>>

(* What the expansion of the recipe decides: which parts are built,        *)
(* whether the tarball is unpacked, and which of linux_headers and the     *)
(* addons are skipped as installed, though the recipe itself may clean     *)
(* them up before.                                                         *)
Begin(step) ==
    /\ pc = "idle"
    /\ pc' = step
    /\ run' = [cfg    |-> config,
               core   |-> runcore(config),
               addons |-> runaddons(config),
               unpack |-> ~cache[config.dir].decompressed,
               blind  |-> headers,
               seen   |-> addons]
    /\ UNCHANGED <<config, cache, sysroot, marks, ghost>>

Start == Begin("predeps")
Clean == Begin("cleandec")

Go(next)      == pc' = next /\ UNCHANGED <<config, run, ghost>>
Stop          == pc' = "idle" /\ run' = None /\ UNCHANGED <<config, ghost>>
dir           == run.cfg.dir
InCache(entry) == cache' = [cache EXCEPT ![dir] = entry]

(* The run ends with its addons marked and its tarball not made: the next  *)
(* one unpacks the old tarball, and the packages keep their markers.       *)
LoseMarks == lost' = IF cache[dir].decompressed THEN lost ELSE packages

PredepsFail ==
    /\ pc = "predeps"
    /\ Stop /\ UNCHANGED <<cache, sysroot, marks>>

PredepsEnd ==
    /\ pc = "predeps"
    /\ Go(CASE run.core -> "uninstall"
            [] ~run.core /\ run.addons -> "addonunmark"
            [] ~run.core /\ ~run.addons /\ run.unpack -> "unpackrm"
            [] OTHER -> "rootfs")
    /\ UNCHANGED <<cache, sysroot, marks>>

-----------------------------------------------------------------------------
(* Commands that several parts of the recipe share.                        *)

CleanupPackage ==
    /\ pc \in {"corecleanup", "addoncleanup"}
    /\ \E p \in packages :
         /\ packages' = packages \ {p}
         /\ sysroot' = [sysroot EXCEPT !.packages = @ \ {p}]
         /\ lost' = lost \ {p}
    /\ UNCHANGED <<config, cache, headers, addons, pc, run, crashes, cleancut>>

RmSysroot ==
    /\ pc \in {"rmsysroot", "addonrm", "unpackrm"}
    /\ sysroot' = Bare
    /\ Go(CASE pc = "rmsysroot" -> "headers"
            [] pc = "addonrm"   -> "addonuntar"
            [] pc = "unpackrm"  -> "unpack")
    /\ UNCHANGED <<cache, marks>>

Untar ==
    /\ pc \in {"addonuntar", "unpack"}
    /\ sysroot' = cache[dir].tarball
    /\ Go(IF pc = "unpack" THEN "unpackmark" ELSE "addondisable")
    /\ UNCHANGED <<cache, marks>>

SetDecompressed ==
    /\ pc \in {"packmark", "unpackmark"}
    /\ InCache([cache[dir] EXCEPT !.decompressed = TRUE])
    /\ Go("rootfs") /\ UNCHANGED <<sysroot, marks>>

-----------------------------------------------------------------------------
(* __embtk_toolchain_core_build *)

CoreUninstall ==
    /\ pc = "uninstall"
    /\ InCache([cache[dir] EXCEPT !.installed = FALSE])
    /\ Go("undecompress") /\ UNCHANGED <<sysroot, marks>>

CoreUndecompress ==
    /\ pc = "undecompress"
    /\ InCache([cache[dir] EXCEPT !.decompressed = FALSE])
    /\ Go("corecleanup") /\ UNCHANGED <<sysroot, marks>>

(* Broken: the packages keep their markers.                                *)
CoreCleanupDeps ==
    /\ pc = "corecleanup"
    /\ headers' = FALSE
    /\ Go("rmsysroot") /\ UNCHANGED <<cache, sysroot, addons, packages>>

(* The components of the core lose their markers, then the packages do.    *)
CoreCleanup ==
    /\ pc = "corecleanup"
    /\ headers \/ packages = {}
    /\ headers' = FALSE
    /\ Go(IF packages = {} THEN "rmsysroot" ELSE pc)
    /\ UNCHANGED <<cache, sysroot, addons, packages>>

(* Broken: linux_headers is marked even when it is skipped.                *)
CoreHeadersMarked ==
    /\ pc = "headers"
    /\ headers' = TRUE
    /\ Go("corebuild") /\ UNCHANGED <<cache, sysroot, addons, packages>>

(* linux_headers has no symbol of its own in .config, so that only its     *)
(* marker counts: it is skipped when the expansion saw it.                 *)
CoreHeaders ==
    /\ pc = "headers"
    /\ headers' = ~run.blind
    /\ Go("corebuild") /\ UNCHANGED <<cache, sysroot, addons, packages>>

(* The C library does not compile without the headers.                     *)
CoreBuild ==
    /\ pc = "corebuild" /\ ~run.blind
    /\ sysroot' = [sysroot EXCEPT !.core = <<dir, run.cfg.opt>>]
    /\ Go("coremark") /\ UNCHANGED <<cache, marks>>

(* Broken: the status of a failed component is lost.                       *)
CoreFailIgnored ==
    /\ pc = "corebuild"
    /\ Go("coremark") /\ UNCHANGED <<cache, sysroot, marks>>

CoreFail ==
    /\ pc = "corebuild"
    /\ Stop /\ UNCHANGED <<cache, sysroot, marks>>

CoreSetInstalled ==
    /\ pc = "coremark"
    /\ InCache([cache[dir] EXCEPT !.installed = TRUE])
    /\ Go("corerecord") /\ UNCHANGED <<sysroot, marks>>

CoreRecord ==
    /\ pc = "corerecord"
    /\ InCache([cache[dir] EXCEPT !.okcore = run.cfg.opt])
    /\ Go(IF run.addons THEN "addonunmark" ELSE "pack") /\ UNCHANGED <<sysroot, marks>>

-----------------------------------------------------------------------------
(* __embtk_toolchain_addons_build *)

AddonsUninstall ==
    /\ pc = "addonunmark"
    /\ InCache([cache[dir] EXCEPT !.ainstalled = FALSE])
    /\ Go(IF run.core THEN "addondisable" ELSE "addoncleanup")
    /\ UNCHANGED <<sysroot, marks>>

(* Broken: the packages keep their markers.                                *)
AddonsCleanupNot ==
    /\ pc = "addoncleanup"
    /\ Go("addonrm") /\ UNCHANGED <<cache, sysroot, marks>>

AddonsCleanup ==
    /\ pc = "addoncleanup" /\ packages = {}
    /\ Go("addonrm") /\ UNCHANGED <<cache, sysroot, marks>>

(* After a new core the selected addons are cleaned up; the others always  *)
(* are, if they have a marker.                                             *)
todisable == IF run.core THEN run.seen ELSE run.seen \ run.cfg.addons

AddonDisable ==
    /\ pc = "addondisable"
    /\ \E a \in todisable \cap addons :
         /\ addons' = addons \ {a}
         /\ sysroot' = [sysroot EXCEPT !.addons = @ \ {a}]
    /\ Go(pc) /\ UNCHANGED <<cache, headers, packages>>

AddonsDisabled ==
    /\ pc = "addondisable" /\ todisable \cap addons = {}
    /\ Go("addonbuild") /\ UNCHANGED <<cache, sysroot, marks>>

tobuild == run.cfg.addons \ (run.seen \cup addons)

(* __embtk_install_pkgdeps: a nested make installs the packages an addon   *)
(* depends on, in the sysroot and with their markers, before the addon.    *)
AddonPackage ==
    /\ pc = "addonbuild"
    /\ \E a \in tobuild : \E p \in AddonPackages[a] \ packages :
         /\ packages' = packages \cup {p}
         /\ sysroot' = [sysroot EXCEPT !.packages = @ \cup {p}]
    /\ Go(pc) /\ UNCHANGED <<cache, headers, addons>>

AddonBuild ==
    /\ pc = "addonbuild"
    /\ \E a \in tobuild :
         /\ AddonPackages[a] \subseteq packages
         /\ addons' = addons \cup {a}
         /\ sysroot' = [sysroot EXCEPT !.addons = @ \cup {a}]
    /\ Go(pc) /\ UNCHANGED <<cache, headers, packages>>

AddonFail ==
    /\ pc = "addonbuild" /\ tobuild # {}
    /\ Stop /\ UNCHANGED <<cache, sysroot, marks>>

AddonsBuilt ==
    /\ pc = "addonbuild" /\ tobuild = {}
    /\ Go("addonmark") /\ UNCHANGED <<cache, sysroot, marks>>

AddonsSetInstalled ==
    /\ pc = "addonmark"
    /\ InCache([cache[dir] EXCEPT !.ainstalled = TRUE])
    /\ Go("addonrecord") /\ UNCHANGED <<sysroot, marks>>

AddonsRecord ==
    /\ pc = "addonrecord"
    /\ InCache([cache[dir] EXCEPT !.okaddons = run.cfg.addons])
    /\ Go("pack") /\ UNCHANGED <<sysroot, marks>>

-----------------------------------------------------------------------------
(* __embtk_toolchain_compress: the old tarball is replaced by mv, once tar *)
(* has finished.                                                           *)
Pack ==
    /\ pc = "pack"
    /\ InCache([cache[dir] EXCEPT !.tarball = sysroot])
    /\ Go("packmark") /\ UNCHANGED <<sysroot, marks>>

PackFail ==
    /\ pc = "pack"
    /\ LoseMarks
    /\ pc' = "idle" /\ run' = None
    /\ UNCHANGED <<config, cache, sysroot, marks, crashes, cleancut>>

-----------------------------------------------------------------------------
(* rootfs_build: the packages without a marker are installed, one after    *)
(* the other, in the sysroot.                                              *)
PackageBuild ==
    /\ pc = "rootfs"
    /\ \E p \in Packages \ packages :
         /\ packages' = packages \cup {p}
         /\ sysroot' = [sysroot EXCEPT !.packages = @ \cup {p}]
    /\ Go(pc) /\ UNCHANGED <<cache, headers, addons>>

PackageFail ==
    /\ pc = "rootfs" /\ packages # Packages
    /\ Stop /\ UNCHANGED <<cache, sysroot, marks>>

Finish ==
    /\ pc = "rootfs" /\ packages = Packages
    /\ Stop /\ UNCHANGED <<cache, sysroot, marks>>

-----------------------------------------------------------------------------
(* Broken: make clean leaves the decompressed marker.                      *)
CleanDecompressedNot ==
    /\ pc = "cleandec"
    /\ Go("cleanmarks") /\ UNCHANGED <<cache, sysroot, marks>>

(* make clean: toolchain_clean, then rmallpath removes what is under       *)
(* build/, then the sysroot; the tarballs and the records stay.            *)
CleanDecompressed ==
    /\ pc = "cleandec"
    /\ InCache([cache[dir] EXCEPT !.decompressed = FALSE])
    /\ Go("cleanmarks") /\ UNCHANGED <<sysroot, marks>>

CleanMarks ==
    /\ pc = "cleanmarks"
    /\ headers' = FALSE /\ addons' = {} /\ packages' = {}
    /\ cleancut' = FALSE /\ lost' = {}
    /\ pc' = "cleansysroot"
    /\ UNCHANGED <<config, cache, sysroot, run, crashes>>

CleanSysroot ==
    /\ pc = "cleansysroot"
    /\ sysroot' = Bare
    /\ Stop /\ UNCHANGED <<cache, marks>>

-----------------------------------------------------------------------------
(* The run is killed before its next command; a record it was writing may  *)
(* be left empty.                                                          *)
Crash ==
    /\ pc # "idle" /\ crashes < MaxCrashes
    /\ crashes' = crashes + 1
    /\ cleancut' = (cleancut \/ pc = "cleanmarks")
    /\ IF pc \in {"addonrecord", "pack"} THEN LoseMarks ELSE UNCHANGED lost
    /\ \/ UNCHANGED cache
       \/ pc = "corerecord" /\ InCache([cache[dir] EXCEPT !.okcore = None])
       \/ pc = "addonrecord" /\ InCache([cache[dir] EXCEPT !.okaddons = {}])
    /\ pc' = "idle" /\ run' = None
    /\ UNCHANGED <<config, sysroot, marks>>

-----------------------------------------------------------------------------
Shared == CleanupPackage \/ RmSysroot \/ Untar \/ SetDecompressed
Core   == \/ CoreUninstall \/ CoreUndecompress \/ CoreCleanup \/ CoreHeaders
          \/ CoreBuild \/ CoreFail \/ CoreSetInstalled \/ CoreRecord
AddonsPart == \/ AddonsUninstall \/ AddonsCleanup \/ AddonDisable \/ AddonsDisabled
              \/ AddonPackage \/ AddonBuild \/ AddonFail \/ AddonsBuilt
          \/ AddonsSetInstalled \/ AddonsRecord
Rootfs == PackageBuild \/ PackageFail \/ Finish
Cleanup == CleanDecompressed \/ CleanMarks \/ CleanSysroot

Recipe == PredepsFail \/ PredepsEnd \/ Shared \/ Core \/ AddonsPart
          \/ Pack \/ PackFail \/ Rootfs \/ Cleanup

Next == Configure \/ Start \/ Clean \/ Recipe \/ Crash

Spec == Init /\ [][Next]_vars
-----------------------------------------------------------------------------
(* Whatever was killed or failed, the tarball kept for a toolchain always  *)
(* holds a complete core of that very toolchain, with the addons in it all *)
(* that those depend on, and nothing of the root filesystem but what some  *)
(* addon depends on, though it is made from the one sysroot that all the   *)
(* toolchains and packages share.                                          *)
ofAddons == UNION {AddonPackages[a] : a \in Addons}
PackageIsWhole ==
    \A t \in Dirs :
      cache[t].tarball # None =>
        /\ cache[t].tarball.core \in {t} \X Options
        /\ cache[t].tarball.packages \subseteq ofAddons
        /\ \A a \in cache[t].tarball.addons :
             AddonPackages[a] \subseteq cache[t].tarball.packages

(* When make finds nothing to build and nothing to unpack, the sysroot has *)
(* the core of the cached tarball: the decompressed marker, which lies     *)
(* beside the tarball, is right about the sysroot that all the toolchains  *)
(* share, for a user who changes toolchain only after a "make clean".      *)
UnpackedIsCached ==
    pc = "idle" /\ MustClean /\ ~runcore(config) /\ ~runaddons(config)
                /\ cache[config.dir].decompressed =>
      sysroot.core = cache[config.dir].tarball.core

(* When the packages of the root filesystem are built, one that is skipped *)
(* for its installed marker is in the sysroot: the sysroot is not replaced *)
(* without the markers being removed first, or by a tarball that holds the *)
(* package.  Two accidents are exempt: a "make clean" killed between the   *)
(* two, and a run that has installed the packages its addons depend on,    *)
(* marked the addons and then does not make the tarball.                   *)
PackagesPresent ==
    pc = "rootfs" /\ MustClean /\ ~cleancut => packages \ lost \subseteq sysroot.packages

-----------------------------------------------------------------------------
(* The user runs make again and again, it is killed only so often, and     *)
(* what fails for the network's or the disk's sake works at last.          *)
Fairness ==
    /\ WF_vars(Start) /\ WF_vars(Recipe)
    /\ SF_vars(PredepsEnd) /\ SF_vars(CoreBuild) /\ SF_vars(AddonPackage)
    /\ SF_vars(AddonBuild) /\ SF_vars(Pack) /\ SF_vars(PackageBuild)

FairSpec == Spec /\ Fairness

uptodate(c) == ~runcore(c) /\ ~runaddons(c) /\ cache[c.dir].decompressed /\ packages = Packages

(* Runs that fail or are killed, even those that fail for what they skip   *)
(* (CoreHeaders), never keep the toolchain and the packages from being     *)
(* built by the runs after them, once .config is left alone.               *)
Converges ==
    <>[][config' = config /\ pc' \notin Cleaning]_vars => <>[]uptodate(config)
=============================================================================
