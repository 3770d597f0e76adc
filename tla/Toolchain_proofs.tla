-------------------------- MODULE Toolchain_proofs --------------------------
(***************************************************************************)
(* Proofs about Toolchain, for any toolchains, options, addons and         *)
(* packages, whatever packages the addons depend on: its type invariant;   *)
(* that the cached tarball of a toolchain is always a whole core of that   *)
(* toolchain, with what its addons need; that the packages' markers and    *)
(* the decompressed marker agree with the sysroot.                         *)
(***************************************************************************)
EXTENDS Toolchain, TLAPS

(* The commands between the end of a core, built or unpacked, and the      *)
(* packing of the tarball.                                                 *)
holding == {"coremark", "corerecord", "addondisable", "addonbuild", "addonmark",
            "addonrecord", "pack"}

incore == {"uninstall", "undecompress", "corecleanup", "rmsysroot", "headers",
           "corebuild", "coremark", "corerecord"}

(* The commands before which the packages have been cleaned up.            *)
emptied == {"rmsysroot", "headers", "corebuild", "coremark", "addonrm", "addonuntar",
            "cleansysroot"}

Complete(s) ==
    /\ s.packages \subseteq ofAddons
    /\ \A a \in s.addons : AddonPackages[a] \subseteq s.packages

(* A run that builds no core has a tarball to unpack; the sysroot of a run *)
(* that has built or unpacked one is that core, with the packages of its   *)
(* addons, those that are marked among them.                               *)
RunInv ==
    /\ pc \in emptied => packages = {}
    /\ pc \in incore => run.core
    /\ pc \in {"predeps", "addonunmark"} /\ ~run.core => cache[dir].tarball # None
    /\ pc \in {"addoncleanup", "addonrm", "addonuntar", "unpackrm", "unpack"} =>
         cache[dir].tarball # None
    /\ pc \in {"headers", "corebuild"} => sysroot.packages = {} /\ sysroot.addons = {}
    /\ pc \in holding \/ (pc = "addonunmark" /\ run.core) =>
         /\ sysroot.core \in {dir} \X Options
         /\ Complete(sysroot)
         /\ packages \subseteq sysroot.packages

IInv == TypeOK /\ RunInv /\ PackageIsWhole

-----------------------------------------------------------------------------
USE ToolchainAssumption

(* An empty sysroot and an empty cache entry are well typed.               *)
LEMMA BareType == Bare \in Sysroot /\ NoCache \in Cache
BY DEF Bare, Sysroot, NoCache, Cache

(* The invariant holds before the first run.                               *)
LEMMA InitIInv == Init => IInv
<1> SUFFICES ASSUME Init PROVE IInv
  OBVIOUS
<1>1. TypeOK
  <2>1. cache \in [Dirs -> Cache] /\ sysroot \in Sysroot
    BY BareType DEF Init
  <2>2. crashes \in 0..MaxCrashes
    BY DEF Init
  <2> QED
    BY <2>1, <2>2 DEF Init, TypeOK
<1>2. \A t \in Dirs : cache[t].tarball = None
  BY DEF Init, NoCache
<1>3. RunInv /\ PackageIsWhole
  BY <1>2 DEF Init, RunInv, incore, holding, emptied, PackageIsWhole
<1> QED
  BY <1>1, <1>3 DEF IInv

(* What TypeOK says of a run that is going on.                             *)
LEMMA Running ==
  ASSUME TypeOK, pc # "idle"
  PROVE  /\ run \in Runs /\ run.cfg \in Configs /\ dir \in Dirs /\ run.cfg.opt \in Options
         /\ cache[dir] \in Cache
BY DEF TypeOK, Runs, Configs, dir

(* Replacing the entry of the running toolchain keeps the cache well typed. *)
LEMMA InCacheType ==
  ASSUME TypeOK, NEW entry \in Cache, InCache(entry)
  PROVE  cache' \in [Dirs -> Cache]
BY DEF TypeOK, InCache

(* Every action preserves the types.                                       *)
LEMMA TypeStep == IInv /\ [Next]_vars => TypeOK'
<1> SUFFICES ASSUME IInv, [Next]_vars PROVE TypeOK'
  OBVIOUS
<1>a. TypeOK /\ RunInv
  BY DEF IInv
<1>b. ASSUME pc # "idle"
      PROVE  /\ run \in Runs /\ dir \in Dirs /\ run.cfg \in Configs
             /\ run.cfg.opt \in Options /\ run.cfg.addons \subseteq Addons
             /\ cache[dir] \in Cache
  BY <1>a, <1>b, Running DEF TypeOK, Configs
<1>c. /\ \A s \in SUBSET Packages : [sysroot EXCEPT !.packages = s] \in Sysroot
      /\ \A s \in SUBSET Addons : [sysroot EXCEPT !.addons = s] \in Sysroot
      /\ \A c \in (Dirs \X Options) \cup {None} : [sysroot EXCEPT !.core = c] \in Sysroot
      /\ sysroot.packages \subseteq Packages /\ sysroot.addons \subseteq Addons
      /\ packages \subseteq Packages /\ lost \subseteq Packages
  BY <1>a DEF TypeOK, Sysroot
<1> USE DEF TypeOK, Steps, Cleaning, marks, ghost
<1>1. CASE Configure
  BY <1>a, <1>b, BareType, <1>1 DEF Configure, Go, Stop
<1>2. CASE Start
  <2>1. run' \in Runs
    BY <1>a, <1>2 DEF Start, Begin, Runs, Configs, runcore, runaddons, missed,
        Cache
  <2> QED
    BY <1>a, <2>1, <1>2 DEF Start, Begin, Runs
<1>3. CASE Clean
  <2>1. run' \in Runs
    BY <1>a, <1>3 DEF Clean, Begin, Runs, Configs, runcore, runaddons, missed,
        Cache
  <2> QED
    BY <1>a, <2>1, <1>3 DEF Clean, Begin, Runs
<1>4. CASE PredepsFail
  BY <1>a, <1>b, BareType, <1>4 DEF PredepsFail, Go, Stop
<1>5. CASE PredepsEnd
  BY <1>a, <1>b, BareType, <1>5 DEF PredepsEnd, Go, Stop
<1>6. CASE CleanupPackage
  <2>1. PICK p \in packages :
          /\ packages' = packages \ {p}
          /\ sysroot' = [sysroot EXCEPT !.packages = @ \ {p}]
    BY <1>6, Zenon DEF CleanupPackage
  <2>2. sysroot' = [sysroot EXCEPT !.packages = sysroot.packages \ {p}]
    BY <2>1
  <2>3. p \in Packages /\ sysroot.packages \ {p} \in SUBSET Packages
    BY <1>a, <1>c, <2>1
  <2>4. sysroot' \in Sysroot
    BY <1>c, <2>2, <2>3, Zenon
  <2> QED
    BY <1>a, <2>1, <2>3, <2>4, <1>6 DEF CleanupPackage
<1>7. CASE RmSysroot
  BY <1>a, <1>b, BareType, <1>7 DEF RmSysroot, Go, Stop
<1>8. CASE Untar
  <2>1. cache[dir].tarball \in Sysroot
    BY <1>a, <1>b, <1>8 DEF Untar, RunInv, Cache
  <2> QED
    BY <1>a, <2>1, <1>8 DEF Untar, Go
<1>9. CASE SetDecompressed
  <2>1. [cache[dir] EXCEPT !.decompressed = TRUE] \in Cache
    BY <1>a, <1>b, <1>9 DEF SetDecompressed, Cache
  <2>2. cache' \in [Dirs -> Cache]
    BY <1>a, <2>1, <1>9, InCacheType DEF SetDecompressed
  <2> QED
    BY <1>a, <2>2, <1>9 DEF SetDecompressed, Go
<1>10. CASE CoreUninstall
  <2>1. [cache[dir] EXCEPT !.installed = FALSE] \in Cache
    BY <1>a, <1>b, <1>10 DEF CoreUninstall, Cache
  <2>2. cache' \in [Dirs -> Cache]
    BY <1>a, <2>1, <1>10, InCacheType DEF CoreUninstall
  <2> QED
    BY <1>a, <2>2, <1>10 DEF CoreUninstall, Go
<1>11. CASE CoreUndecompress
  <2>1. [cache[dir] EXCEPT !.decompressed = FALSE] \in Cache
    BY <1>a, <1>b, <1>11 DEF CoreUndecompress, Cache
  <2>2. cache' \in [Dirs -> Cache]
    BY <1>a, <2>1, <1>11, InCacheType DEF CoreUndecompress
  <2> QED
    BY <1>a, <2>2, <1>11 DEF CoreUndecompress, Go
<1>12. CASE CoreCleanup
  BY <1>a, <1>b, BareType, <1>12 DEF CoreCleanup, Go, Stop
<1>13. CASE CoreHeaders
  BY <1>a, <1>b, BareType, <1>13 DEF CoreHeaders, Go, Stop
<1>14. CASE CoreBuild
  <2>1. sysroot' = [sysroot EXCEPT !.core = <<dir, run.cfg.opt>>]
    BY <1>14 DEF CoreBuild
  <2>2. sysroot' \in Sysroot
    BY <1>b, <1>c, <2>1, <1>14 DEF CoreBuild
  <2> QED
    BY <1>a, <2>2, <1>14 DEF CoreBuild, Go
<1>15. CASE CoreFail
  BY <1>a, <1>b, BareType, <1>15 DEF CoreFail, Go, Stop
<1>16. CASE CoreSetInstalled
  <2>1. [cache[dir] EXCEPT !.installed = TRUE] \in Cache
    BY <1>a, <1>b, <1>16 DEF CoreSetInstalled, Cache
  <2>2. cache' \in [Dirs -> Cache]
    BY <1>a, <2>1, <1>16, InCacheType DEF CoreSetInstalled
  <2> QED
    BY <1>a, <2>2, <1>16 DEF CoreSetInstalled, Go
<1>17. CASE CoreRecord
  <2>1. [cache[dir] EXCEPT !.okcore = run.cfg.opt] \in Cache
    BY <1>a, <1>b, <1>17 DEF CoreRecord, Cache
  <2>2. cache' \in [Dirs -> Cache]
    BY <1>a, <2>1, <1>17, InCacheType DEF CoreRecord
  <2> QED
    BY <1>a, <2>2, <1>17 DEF CoreRecord, Go
<1>18. CASE AddonsUninstall
  <2>1. [cache[dir] EXCEPT !.ainstalled = FALSE] \in Cache
    BY <1>a, <1>b, <1>18 DEF AddonsUninstall, Cache
  <2>2. cache' \in [Dirs -> Cache]
    BY <1>a, <2>1, <1>18, InCacheType DEF AddonsUninstall
  <2> QED
    BY <1>a, <2>2, <1>18 DEF AddonsUninstall, Go
<1>19. CASE AddonsCleanup
  BY <1>a, <1>b, BareType, <1>19 DEF AddonsCleanup, Go, Stop
<1>20. CASE AddonDisable
  <2>1. PICK a \in todisable \cap addons :
          /\ addons' = addons \ {a}
          /\ sysroot' = [sysroot EXCEPT !.addons = @ \ {a}]
    BY <1>20, Zenon DEF AddonDisable
  <2>2. sysroot' = [sysroot EXCEPT !.addons = sysroot.addons \ {a}]
    BY <2>1
  <2>3. a \in Addons /\ sysroot.addons \ {a} \in SUBSET Addons
    BY <1>a, <1>b, <1>c, <2>1, <1>20 DEF AddonDisable
  <2>4. sysroot' \in Sysroot
    BY <1>c, <2>2, <2>3, Zenon
  <2> QED
    BY <1>a, <2>1, <2>3, <2>4, <1>20 DEF AddonDisable, Go
<1>21. CASE AddonsDisabled
  BY <1>a, <1>b, BareType, <1>21 DEF AddonsDisabled, Go, Stop
<1>22. CASE AddonBuild
  <2>1. PICK a \in tobuild :
          /\ addons' = addons \cup {a}
          /\ sysroot' = [sysroot EXCEPT !.addons = @ \cup {a}]
    BY <1>22, Zenon DEF AddonBuild
  <2>2. sysroot' = [sysroot EXCEPT !.addons = sysroot.addons \cup {a}]
    BY <2>1
  <2>3. a \in Addons /\ sysroot.addons \cup {a} \in SUBSET Addons
    BY <1>a, <1>b, <1>c, <2>1, <1>22 DEF AddonBuild, tobuild
  <2>4. sysroot' \in Sysroot
    BY <1>c, <2>2, <2>3, Zenon
  <2> QED
    BY <1>a, <2>1, <2>3, <2>4, <1>22 DEF AddonBuild, Go
<1>23. CASE AddonFail
  BY <1>a, <1>b, BareType, <1>23 DEF AddonFail, Go, Stop
<1>24. CASE AddonsBuilt
  BY <1>a, <1>b, BareType, <1>24 DEF AddonsBuilt, Go, Stop
<1>25. CASE AddonsSetInstalled
  <2>1. [cache[dir] EXCEPT !.ainstalled = TRUE] \in Cache
    BY <1>a, <1>b, <1>25 DEF AddonsSetInstalled, Cache
  <2>2. cache' \in [Dirs -> Cache]
    BY <1>a, <2>1, <1>25, InCacheType DEF AddonsSetInstalled
  <2> QED
    BY <1>a, <2>2, <1>25 DEF AddonsSetInstalled, Go
<1>26. CASE AddonsRecord
  <2>1. [cache[dir] EXCEPT !.okaddons = run.cfg.addons] \in Cache
    BY <1>a, <1>b, <1>26 DEF AddonsRecord, Cache
  <2>2. cache' \in [Dirs -> Cache]
    BY <1>a, <2>1, <1>26, InCacheType DEF AddonsRecord
  <2> QED
    BY <1>a, <2>2, <1>26 DEF AddonsRecord, Go
<1>27. CASE Pack
  <2>1. [cache[dir] EXCEPT !.tarball = sysroot] \in Cache
    BY <1>a, <1>b, <1>27 DEF Pack, Cache
  <2>2. cache' \in [Dirs -> Cache]
    BY <1>a, <2>1, <1>27, InCacheType DEF Pack
  <2> QED
    BY <1>a, <2>2, <1>27 DEF Pack, Go
<1>28. CASE PackFail
  BY <1>a, <1>b, BareType, <1>28 DEF PackFail, LoseMarks
<1>29. CASE PackageBuild
  <2>1. PICK p \in Packages \ packages :
          /\ packages' = packages \cup {p}
          /\ sysroot' = [sysroot EXCEPT !.packages = @ \cup {p}]
    BY <1>29, Zenon DEF PackageBuild
  <2>2. sysroot' = [sysroot EXCEPT !.packages = sysroot.packages \cup {p}]
    BY <2>1
  <2>3. p \in Packages /\ sysroot.packages \cup {p} \in SUBSET Packages
    BY <1>a, <1>c, <2>1
  <2>4. sysroot' \in Sysroot
    BY <1>c, <2>2, <2>3, Zenon
  <2> QED
    BY <1>a, <2>1, <2>3, <2>4, <1>29 DEF PackageBuild, Go
<1>30. CASE PackageFail
  BY <1>a, <1>b, BareType, <1>30 DEF PackageFail, Go, Stop
<1>31. CASE Finish
  BY <1>a, <1>b, BareType, <1>31 DEF Finish, Go, Stop
<1>32. CASE CleanDecompressed
  <2>1. [cache[dir] EXCEPT !.decompressed = FALSE] \in Cache
    BY <1>a, <1>b, <1>32 DEF CleanDecompressed, Cache
  <2>2. cache' \in [Dirs -> Cache]
    BY <1>a, <2>1, <1>32, InCacheType DEF CleanDecompressed
  <2> QED
    BY <1>a, <2>2, <1>32 DEF CleanDecompressed, Go
<1>33. CASE CleanMarks
  BY <1>a, <1>b, BareType, <1>33 DEF CleanMarks, Go, Stop
<1>34. CASE CleanSysroot
  BY <1>a, <1>b, BareType, <1>34 DEF CleanSysroot, Go, Stop
<1>35. CASE Crash
  <2>1. /\ [cache[dir] EXCEPT !.okcore = None] \in Cache
        /\ [cache[dir] EXCEPT !.okaddons = {}] \in Cache
    BY <1>a, <1>b, <1>35 DEF Crash, Cache
  <2>2. cache' \in [Dirs -> Cache]
    BY <1>a, <2>1, <1>35, InCacheType DEF Crash
  <2>3. crashes' \in 0..MaxCrashes
    BY <1>a, <1>35 DEF Crash
  <2>4. lost' \subseteq Packages
    BY <1>c, <1>35 DEF Crash, LoseMarks
  <2> QED
    BY <1>a, <2>2, <2>3, <2>4, <1>35 DEF Crash
<1>36. CASE UNCHANGED vars
  BY <1>a, <1>36 DEF vars
<1>37. CASE AddonPackage
  <2>1. PICK a \in tobuild, p \in UNION {AddonPackages[b] : b \in tobuild} :
          /\ p \in AddonPackages[a] \ packages
          /\ packages' = packages \cup {p}
          /\ sysroot' = [sysroot EXCEPT !.packages = @ \cup {p}]
    BY <1>37, Zenon DEF AddonPackage
  <2>2. sysroot' = [sysroot EXCEPT !.packages = sysroot.packages \cup {p}]
    BY <2>1
  <2>3. a \in Addons
    BY <1>a, <1>b, <2>1, <1>37 DEF AddonPackage, tobuild
  <2>4. p \in Packages /\ sysroot.packages \cup {p} \in SUBSET Packages
    BY <1>c, <2>1, <2>3
  <2>5. sysroot' \in Sysroot
    BY <1>c, <2>2, <2>4, Zenon
  <2> QED
    BY <1>a, <2>1, <2>4, <2>5, <1>37 DEF AddonPackage, Go
<1> QED
  BY <1>1, <1>2, <1>3, <1>4, <1>5, <1>6, <1>7, <1>8, <1>9, <1>10, <1>11, <1>12,
      <1>13, <1>14, <1>15, <1>16, <1>17, <1>18, <1>19, <1>20, <1>21, <1>22, <1>23,
      <1>24, <1>25, <1>26, <1>27, <1>28, <1>29, <1>30, <1>31, <1>32, <1>33, <1>34,
      <1>35, <1>36, <1>37 DEF Next, Recipe, Shared, Core, AddonsPart, Rootfs, Cleanup

(* Every action preserves what is known of the run and of the tarballs.    *)
LEMMA RunStep == IInv /\ [Next]_vars => RunInv' /\ PackageIsWhole'
<1> SUFFICES ASSUME IInv, [Next]_vars PROVE RunInv' /\ PackageIsWhole'
  OBVIOUS
<1>a. TypeOK /\ RunInv /\ PackageIsWhole
  BY DEF IInv
<1>b. ASSUME pc # "idle"
      PROVE  /\ dir \in Dirs /\ run.cfg.opt \in Options /\ cache[dir] \in Cache
             /\ DOMAIN cache = Dirs /\ run.cfg.addons \subseteq Addons
  BY <1>a, <1>b, Running DEF TypeOK, Configs
<1>c. \A t \in Dirs : cache[t] \in Cache
  BY <1>a DEF TypeOK
<1>d. sysroot \in Sysroot
  BY <1>a DEF TypeOK
<1> USE DEF RunInv, incore, holding, emptied, Complete, marks
<1>1. CASE Configure
  BY <1>a, <1>1 DEF Configure, PackageIsWhole
<1>2. CASE Start
  <2>1. PackageIsWhole'
    BY <1>a, <1>2 DEF Start, Begin, PackageIsWhole
  <2>2. pc' \in {"predeps", "cleandec"} /\ cache' = cache
    BY <1>2 DEF Start, Begin
  <2>3. ~run'.core => cache[run'.cfg.dir].tarball # None
    BY <1>2 DEF Start, Begin, runcore, missed
  <2> QED
    BY <2>1, <2>2, <2>3 DEF dir
<1>3. CASE Clean
  <2>1. PackageIsWhole'
    BY <1>a, <1>3 DEF Clean, Begin, PackageIsWhole
  <2>2. pc' \in {"predeps", "cleandec"} /\ cache' = cache
    BY <1>3 DEF Clean, Begin
  <2>3. ~run'.core => cache[run'.cfg.dir].tarball # None
    BY <1>3 DEF Clean, Begin, runcore, missed
  <2> QED
    BY <2>1, <2>2, <2>3 DEF dir
<1>4. CASE PredepsFail
  <2>1. UNCHANGED cache /\ PackageIsWhole'
    BY <1>a, <1>4 DEF PredepsFail, PackageIsWhole
  <2> QED
    BY <2>1, <1>4 DEF PredepsFail, Stop
<1>5. CASE PredepsEnd
  <2>1. UNCHANGED cache /\ PackageIsWhole'
    BY <1>a, <1>5 DEF PredepsEnd, PackageIsWhole
  <2>2. UNCHANGED run /\ dir' = dir
    BY <1>5 DEF PredepsEnd, Go, dir
  <2> QED
    BY <1>a, <1>b, <1>c, <1>d, <2>1, <2>2, <1>5 DEF PredepsEnd, Go
<1>6. CASE CleanupPackage
  <2>1. UNCHANGED cache /\ PackageIsWhole'
    BY <1>a, <1>6 DEF CleanupPackage, PackageIsWhole
  <2>2. UNCHANGED run /\ dir' = dir
    BY <1>6 DEF CleanupPackage, dir
  <2>3. pc \in {"corecleanup", "addoncleanup"} /\ pc' = pc
    BY <1>6 DEF CleanupPackage
  <2> QED
    BY <1>a, <2>1, <2>2, <2>3
<1>7. CASE RmSysroot
  <2>1. UNCHANGED cache /\ PackageIsWhole'
    BY <1>a, <1>7 DEF RmSysroot, PackageIsWhole
  <2>2. UNCHANGED run /\ dir' = dir
    BY <1>7 DEF RmSysroot, Go, dir
  <2> QED
    BY <1>a, <1>b, <1>c, <1>d, <2>1, <2>2, <1>7 DEF RmSysroot, Go, Bare
<1>8. CASE Untar
  <2>1. UNCHANGED cache /\ PackageIsWhole'
    BY <1>a, <1>8 DEF Untar, PackageIsWhole
  <2>2. UNCHANGED run /\ dir' = dir
    BY <1>8 DEF Untar, Go, dir
  <2> QED
    BY <1>a, <1>b, <1>c, <1>d, <2>1, <2>2, <1>8 DEF Untar, Go, PackageIsWhole
<1>9. CASE SetDecompressed
  <2>1. UNCHANGED <<run, sysroot>> /\ dir' = dir
    BY <1>9 DEF SetDecompressed, Go, dir
  <2>2. \A t \in Dirs : cache'[t].tarball = cache[t].tarball
    BY <1>b, <1>c, <1>9 DEF SetDecompressed, InCache, Cache
  <2>3. PackageIsWhole'
    BY <1>a, <2>2 DEF PackageIsWhole
  <2> QED
    BY <1>a, <1>b, <2>1, <2>2, <2>3, <1>9 DEF SetDecompressed, Go
<1>10. CASE CoreUninstall
  <2>1. UNCHANGED <<run, sysroot>> /\ dir' = dir
    BY <1>10 DEF CoreUninstall, Go, dir
  <2>2. \A t \in Dirs : cache'[t].tarball = cache[t].tarball
    BY <1>b, <1>c, <1>10 DEF CoreUninstall, InCache, Cache
  <2>3. PackageIsWhole'
    BY <1>a, <2>2 DEF PackageIsWhole
  <2> QED
    BY <1>a, <1>b, <2>1, <2>2, <2>3, <1>10 DEF CoreUninstall, Go
<1>11. CASE CoreUndecompress
  <2>1. UNCHANGED <<run, sysroot>> /\ dir' = dir
    BY <1>11 DEF CoreUndecompress, Go, dir
  <2>2. \A t \in Dirs : cache'[t].tarball = cache[t].tarball
    BY <1>b, <1>c, <1>11 DEF CoreUndecompress, InCache, Cache
  <2>3. PackageIsWhole'
    BY <1>a, <2>2 DEF PackageIsWhole
  <2> QED
    BY <1>a, <1>b, <2>1, <2>2, <2>3, <1>11 DEF CoreUndecompress, Go
<1>12. CASE CoreCleanup
  <2>1. UNCHANGED cache /\ PackageIsWhole'
    BY <1>a, <1>12 DEF CoreCleanup, PackageIsWhole
  <2>2. UNCHANGED run /\ dir' = dir
    BY <1>12 DEF CoreCleanup, Go, dir
  <2> QED
    BY <1>a, <1>b, <1>c, <1>d, <2>1, <2>2, <1>12 DEF CoreCleanup, Go
<1>13. CASE CoreHeaders
  <2>1. UNCHANGED cache /\ PackageIsWhole'
    BY <1>a, <1>13 DEF CoreHeaders, PackageIsWhole
  <2>2. UNCHANGED run /\ dir' = dir
    BY <1>13 DEF CoreHeaders, Go, dir
  <2> QED
    BY <1>a, <1>b, <1>c, <1>d, <2>1, <2>2, <1>13 DEF CoreHeaders, Go
<1>14. CASE CoreBuild
  <2>1. UNCHANGED cache /\ PackageIsWhole'
    BY <1>a, <1>14 DEF CoreBuild, PackageIsWhole
  <2>2. UNCHANGED run /\ dir' = dir
    BY <1>14 DEF CoreBuild, Go, dir
  <2> QED
    BY <1>a, <1>b, <1>c, <1>d, <2>1, <2>2, <1>14 DEF CoreBuild, Go, Sysroot
<1>15. CASE CoreFail
  <2>1. UNCHANGED cache /\ PackageIsWhole'
    BY <1>a, <1>15 DEF CoreFail, PackageIsWhole
  <2> QED
    BY <2>1, <1>15 DEF CoreFail, Stop
<1>16. CASE CoreSetInstalled
  <2>1. UNCHANGED <<run, sysroot>> /\ dir' = dir
    BY <1>16 DEF CoreSetInstalled, Go, dir
  <2>2. \A t \in Dirs : cache'[t].tarball = cache[t].tarball
    BY <1>b, <1>c, <1>16 DEF CoreSetInstalled, InCache, Cache
  <2>3. PackageIsWhole'
    BY <1>a, <2>2 DEF PackageIsWhole
  <2> QED
    BY <1>a, <1>b, <2>1, <2>2, <2>3, <1>16 DEF CoreSetInstalled, Go
<1>17. CASE CoreRecord
  <2>1. UNCHANGED <<run, sysroot>> /\ dir' = dir
    BY <1>17 DEF CoreRecord, Go, dir
  <2>2. \A t \in Dirs : cache'[t].tarball = cache[t].tarball
    BY <1>b, <1>c, <1>17 DEF CoreRecord, InCache, Cache
  <2>3. PackageIsWhole'
    BY <1>a, <2>2 DEF PackageIsWhole
  <2> QED
    BY <1>a, <1>b, <2>1, <2>2, <2>3, <1>17 DEF CoreRecord, Go
<1>18. CASE AddonsUninstall
  <2>1. UNCHANGED <<run, sysroot>> /\ dir' = dir
    BY <1>18 DEF AddonsUninstall, Go, dir
  <2>2. \A t \in Dirs : cache'[t].tarball = cache[t].tarball
    BY <1>b, <1>c, <1>18 DEF AddonsUninstall, InCache, Cache
  <2>3. PackageIsWhole'
    BY <1>a, <2>2 DEF PackageIsWhole
  <2> QED
    BY <1>a, <1>b, <2>1, <2>2, <2>3, <1>18 DEF AddonsUninstall, Go
<1>19. CASE AddonsCleanup
  <2>1. UNCHANGED cache /\ PackageIsWhole'
    BY <1>a, <1>19 DEF AddonsCleanup, PackageIsWhole
  <2>2. UNCHANGED run /\ dir' = dir
    BY <1>19 DEF AddonsCleanup, Go, dir
  <2> QED
    BY <1>a, <1>b, <1>c, <1>d, <2>1, <2>2, <1>19 DEF AddonsCleanup, Go
<1>20. CASE AddonDisable
  <2>1. UNCHANGED cache /\ PackageIsWhole'
    BY <1>a, <1>20 DEF AddonDisable, PackageIsWhole
  <2>2. UNCHANGED run /\ dir' = dir
    BY <1>20 DEF AddonDisable, Go, dir
  <2> QED
    BY <1>a, <1>b, <1>c, <1>d, <2>1, <2>2, <1>20 DEF AddonDisable, Go, Sysroot
<1>21. CASE AddonsDisabled
  <2>1. UNCHANGED cache /\ PackageIsWhole'
    BY <1>a, <1>21 DEF AddonsDisabled, PackageIsWhole
  <2>2. UNCHANGED run /\ dir' = dir
    BY <1>21 DEF AddonsDisabled, Go, dir
  <2> QED
    BY <1>a, <1>b, <1>c, <1>d, <2>1, <2>2, <1>21 DEF AddonsDisabled, Go
<1>22. CASE AddonBuild
  <2>1. UNCHANGED cache /\ PackageIsWhole'
    BY <1>a, <1>22 DEF AddonBuild, PackageIsWhole
  <2>2. UNCHANGED run /\ dir' = dir
    BY <1>22 DEF AddonBuild, Go, dir
  <2> QED
    BY <1>a, <1>b, <1>c, <1>d, <2>1, <2>2, <1>22 DEF AddonBuild, Go, Sysroot
<1>23. CASE AddonFail
  <2>1. UNCHANGED cache /\ PackageIsWhole'
    BY <1>a, <1>23 DEF AddonFail, PackageIsWhole
  <2> QED
    BY <2>1, <1>23 DEF AddonFail, Stop
<1>24. CASE AddonsBuilt
  <2>1. UNCHANGED cache /\ PackageIsWhole'
    BY <1>a, <1>24 DEF AddonsBuilt, PackageIsWhole
  <2>2. UNCHANGED run /\ dir' = dir
    BY <1>24 DEF AddonsBuilt, Go, dir
  <2> QED
    BY <1>a, <1>b, <1>c, <1>d, <2>1, <2>2, <1>24 DEF AddonsBuilt, Go
<1>25. CASE AddonsSetInstalled
  <2>1. UNCHANGED <<run, sysroot>> /\ dir' = dir
    BY <1>25 DEF AddonsSetInstalled, Go, dir
  <2>2. \A t \in Dirs : cache'[t].tarball = cache[t].tarball
    BY <1>b, <1>c, <1>25 DEF AddonsSetInstalled, InCache, Cache
  <2>3. PackageIsWhole'
    BY <1>a, <2>2 DEF PackageIsWhole
  <2> QED
    BY <1>a, <1>b, <2>1, <2>2, <2>3, <1>25 DEF AddonsSetInstalled, Go
<1>26. CASE AddonsRecord
  <2>1. UNCHANGED <<run, sysroot>> /\ dir' = dir
    BY <1>26 DEF AddonsRecord, Go, dir
  <2>2. \A t \in Dirs : cache'[t].tarball = cache[t].tarball
    BY <1>b, <1>c, <1>26 DEF AddonsRecord, InCache, Cache
  <2>3. PackageIsWhole'
    BY <1>a, <2>2 DEF PackageIsWhole
  <2> QED
    BY <1>a, <1>b, <2>1, <2>2, <2>3, <1>26 DEF AddonsRecord, Go
<1>27. CASE Pack
  <2>1. sysroot.core \in {dir} \X Options /\ Complete(sysroot)
    BY <1>a, <1>27 DEF Pack
  <2>2. \A t \in Dirs :
          cache'[t].tarball = IF t = dir THEN sysroot ELSE cache[t].tarball
    BY <1>b, <1>c, <1>27 DEF Pack, InCache, Cache
  <2>3. PackageIsWhole'
    BY <1>a, <2>1, <2>2 DEF PackageIsWhole
  <2> QED
    BY <2>3, <1>27 DEF Pack, Go
<1>28. CASE PackFail
  <2>1. UNCHANGED cache /\ PackageIsWhole'
    BY <1>a, <1>28 DEF PackFail, PackageIsWhole
  <2> QED
    BY <2>1, <1>28 DEF PackFail
<1>29. CASE PackageBuild
  <2>1. UNCHANGED cache /\ PackageIsWhole'
    BY <1>a, <1>29 DEF PackageBuild, PackageIsWhole
  <2>2. UNCHANGED run /\ dir' = dir
    BY <1>29 DEF PackageBuild, Go, dir
  <2> QED
    BY <1>a, <1>b, <1>c, <1>d, <2>1, <2>2, <1>29 DEF PackageBuild, Go
<1>30. CASE PackageFail
  <2>1. UNCHANGED cache /\ PackageIsWhole'
    BY <1>a, <1>30 DEF PackageFail, PackageIsWhole
  <2> QED
    BY <2>1, <1>30 DEF PackageFail, Stop
<1>31. CASE Finish
  <2>1. UNCHANGED cache /\ PackageIsWhole'
    BY <1>a, <1>31 DEF Finish, PackageIsWhole
  <2> QED
    BY <2>1, <1>31 DEF Finish, Stop
<1>32. CASE CleanDecompressed
  <2>1. UNCHANGED <<run, sysroot>> /\ dir' = dir
    BY <1>32 DEF CleanDecompressed, Go, dir
  <2>2. \A t \in Dirs : cache'[t].tarball = cache[t].tarball
    BY <1>b, <1>c, <1>32 DEF CleanDecompressed, InCache, Cache
  <2>3. PackageIsWhole'
    BY <1>a, <2>2 DEF PackageIsWhole
  <2> QED
    BY <1>a, <1>b, <2>1, <2>2, <2>3, <1>32 DEF CleanDecompressed, Go
<1>33. CASE CleanMarks
  <2>1. UNCHANGED cache /\ PackageIsWhole'
    BY <1>a, <1>33 DEF CleanMarks, PackageIsWhole
  <2>2. UNCHANGED run /\ dir' = dir
    BY <1>33 DEF CleanMarks, dir
  <2> QED
    BY <1>a, <1>b, <1>c, <1>d, <2>1, <2>2, <1>33 DEF CleanMarks
<1>34. CASE CleanSysroot
  <2>1. UNCHANGED cache /\ PackageIsWhole'
    BY <1>a, <1>34 DEF CleanSysroot, PackageIsWhole
  <2> QED
    BY <2>1, <1>34 DEF CleanSysroot, Stop
<1>35. CASE Crash
  <2>1. \A t \in Dirs : cache'[t].tarball = cache[t].tarball
    BY <1>b, <1>c, <1>35 DEF Crash, InCache, Cache
  <2>2. PackageIsWhole'
    BY <1>a, <2>1 DEF PackageIsWhole
  <2> QED
    BY <2>2, <1>35 DEF Crash
<1>36. CASE UNCHANGED vars
  BY <1>a, <1>36 DEF vars, dir, PackageIsWhole
<1>37. CASE AddonPackage
  <2>1. UNCHANGED cache /\ PackageIsWhole'
    BY <1>a, <1>37 DEF AddonPackage, PackageIsWhole
  <2>2. UNCHANGED run /\ dir' = dir
    BY <1>37 DEF AddonPackage, Go, dir
  <2>3. PICK a \in tobuild, p \in UNION {AddonPackages[b] : b \in tobuild} :
          /\ p \in AddonPackages[a] \ packages
          /\ packages' = packages \cup {p}
          /\ sysroot' = [sysroot EXCEPT !.packages = @ \cup {p}]
    BY <1>37, Zenon DEF AddonPackage
  <2>4. a \in Addons
    BY <1>b, <1>37, <2>3 DEF AddonPackage, tobuild
  <2>5. p \in ofAddons
    BY <2>3, <2>4 DEF ofAddons
  <2>6. /\ sysroot'.core = sysroot.core /\ sysroot'.addons = sysroot.addons
        /\ sysroot'.packages = sysroot.packages \cup {p}
    BY <1>d, <2>3 DEF Sysroot
  <2>7. pc = "addonbuild" /\ pc' = pc
    BY <1>37 DEF AddonPackage, Go
  <2> QED
    BY <1>a, <2>1, <2>2, <2>3, <2>5, <2>6, <2>7
<1> QED
  BY <1>1, <1>2, <1>3, <1>4, <1>5, <1>6, <1>7, <1>8, <1>9, <1>10, <1>11, <1>12,
      <1>13, <1>14, <1>15, <1>16, <1>17, <1>18, <1>19, <1>20, <1>21, <1>22, <1>23,
      <1>24, <1>25, <1>26, <1>27, <1>28, <1>29, <1>30, <1>31, <1>32, <1>33, <1>34,
      <1>35, <1>36, <1>37 DEF Next, Recipe, Shared, Core, AddonsPart, Rootfs, Cleanup

-----------------------------------------------------------------------------
(* Every reachable state of the toolchain recipes satisfies the inductive  *)
(* invariant.                                                              *)
THEOREM Inductive == Spec => []IInv
<1>1. IInv /\ [Next]_vars => IInv'
  BY TypeStep, RunStep DEF IInv
<1> QED
  BY <1>1, InitIInv, PTL DEF Spec

(* The variables keep their types.                                         *)
THEOREM TypeCorrect == Spec => []TypeOK
<1>1. IInv => TypeOK
  BY DEF IInv
<1> QED
  BY <1>1, Inductive, PTL

(* The cached tarball of a toolchain is always a complete core of that     *)
(* toolchain, with the packages its addons depend on and no others but     *)
(* addons', whatever failed or was killed (core/toolchain/toolchain.mk:43, *)
(* common.mk:93-98, pkg-macros/install.mk:167-177).                        *)
THEOREM Packaged == Spec => []PackageIsWhole
<1>1. IInv => PackageIsWhole
  BY DEF IInv
<1> QED
  BY <1>1, Inductive, PTL

-----------------------------------------------------------------------------
(* Towards PackagesPresent and UnpackedIsCached: the commands at which a   *)
(* new core is not packed yet, those of the addons, those that unpack or   *)
(* remove what the decompressed marker speaks of.                          *)
rebuilding == {"corecleanup", "rmsysroot", "headers", "corebuild", "coremark", "corerecord"}
adding == {"addondisable", "addonbuild", "addonmark"}
addoning == adding \cup {"addonunmark", "addonrecord", "pack"}
underneath == {"unpackrm", "unpack", "unpackmark", "cleanmarks", "cleansysroot"}

(* What the markers in the cache are while the recipe works on what they   *)
(* speak of.                                                               *)
StepInv ==
    /\ pc # "idle" => run.cfg = config
    /\ pc = "predeps" => /\ run.unpack <=> ~cache[dir].decompressed
                         /\ ~run.core => cache[dir].installed
                         /\ ~run.addons => cache[dir].ainstalled
    /\ pc \in {"undecompress", "corecleanup"} => ~cache[dir].installed
    /\ pc \in {"addoncleanup", "addonrm", "addonuntar"} =>
         ~cache[dir].ainstalled /\ ~run.core
    /\ pc \in adding => ~cache[dir].ainstalled
    /\ pc \in rebuilding \/ (pc \in addoning /\ run.core) => ~cache[dir].decompressed
    /\ pc \in underneath => ~cache[dir].decompressed
    /\ pc = "rootfs" => cache[dir].decompressed

(* The packages that are marked, lost marks apart, are in the sysroot that *)
(* is said to be unpacked; when none is, they are in the tarball, unless a *)
(* part of the recipe is to run first and cleans them up.                  *)
kept == packages \ lost
MarksInv ==
    MustClean /\ ~cleancut =>
      LET entry == cache[config.dir] IN
      /\ pc \in {"unpackrm", "unpack", "unpackmark", "packmark"} =>
           kept \subseteq entry.tarball.packages
      /\ entry.decompressed => kept \subseteq sysroot.packages
      /\ pc \notin {"cleanmarks", "addonrecord", "pack"} /\ ~entry.decompressed =>
           \/ entry.tarball = None \/ ~entry.installed \/ ~entry.ainstalled
           \/ kept \subseteq entry.tarball.packages

(* Only the configured toolchain is unpacked, and it is the cached one.    *)
UnpackedInv ==
    /\ pc \in {"packmark", "unpackmark"} => sysroot = cache[dir].tarball
    /\ pc \in adding /\ ~run.core => sysroot.core = cache[dir].tarball.core
    /\ MustClean =>
         /\ \A t \in Dirs \ {config.dir} : ~cache[t].decompressed
         /\ cache[config.dir].decompressed /\ cache[config.dir].ainstalled =>
              sysroot.core = cache[config.dir].tarball.core

CacheInv == StepInv /\ MarksInv /\ UnpackedInv

(* Before the first run there are no markers.                              *)
LEMMA InitCacheInv == Init => CacheInv
<1> SUFFICES ASSUME Init PROVE CacheInv
  OBVIOUS
<1>1. config.dir \in Dirs /\ \A t \in Dirs : cache[t] = NoCache
  BY DEF Init, Configs
<1>2. StepInv
  BY DEF Init, StepInv, rebuilding, adding, addoning, underneath
<1>3. MarksInv
  BY DEF Init, MarksInv, kept
<1>4. UnpackedInv
  BY <1>1 DEF Init, UnpackedInv, adding, NoCache
<1> QED
  BY <1>2, <1>3, <1>4 DEF CacheInv

(* Every action preserves CacheInv; its first steps say what the action    *)
(* does to the cache and to the sysroot.                                   *)
LEMMA CacheStep == IInv /\ CacheInv /\ [Next]_vars => CacheInv'
<1> SUFFICES ASSUME IInv, CacheInv, [Next]_vars PROVE CacheInv'
  OBVIOUS
<1>a. TypeOK /\ RunInv /\ StepInv /\ MarksInv /\ UnpackedInv
  BY DEF IInv, CacheInv
<1>b. ASSUME pc # "idle"
      PROVE  /\ run \in Runs /\ dir \in Dirs /\ run.cfg = config /\ dir = config.dir
             /\ cache[dir] \in Cache
  BY <1>a, <1>b, Running DEF StepInv, dir
<1>c. /\ cache \in [Dirs -> Cache] /\ sysroot \in Sysroot
      /\ config \in Configs /\ config.dir \in Dirs
  BY <1>a DEF TypeOK, Configs
<1> SUFFICES StepInv' /\ MarksInv' /\ UnpackedInv'
  BY DEF CacheInv
<1> USE DEF RunInv, emptied, rebuilding, adding, addoning, underneath, kept, marks, ghost
<1>1. CASE Configure
  <2>1. UNCHANGED cache
    BY <1>1 DEF Configure
  <2>2. UNCHANGED sysroot
    BY <1>1 DEF Configure
  <2>3. MustClean /\ config'.dir # config.dir =>
          ~cache[config.dir].decompressed /\ sysroot = Bare /\ packages = {}
    BY <1>1 DEF Configure, cleaned
  <2>4. MustClean => \A t \in Dirs \ {config'.dir} : ~cache[t].decompressed
    BY <1>a, <1>c, <2>3 DEF UnpackedInv
  <2>5. MustClean /\ cache[config'.dir].decompressed => config'.dir = config.dir
    BY <1>a, <1>c, <1>1 DEF UnpackedInv, Configure, Configs
  <2>6. StepInv'
    BY <1>a, <1>b, <1>c, <2>1, <2>2, <1>1, <2>3, <2>4, <2>5
       DEF StepInv, Configure, cleaned, dir
  <2>7. MarksInv'
    BY <1>a, <1>b, <1>c, <2>1, <2>2, <1>1, <2>3, <2>4, <2>5
       DEF StepInv, MarksInv, Configure, cleaned, dir
  <2>8. UnpackedInv'
    BY <1>a, <1>b, <1>c, <2>1, <2>2, <1>1, <2>3, <2>4, <2>5
       DEF StepInv, UnpackedInv, Configure, cleaned, dir
  <2> QED
    BY <2>6, <2>7, <2>8
<1>2. CASE Start
  <2>1. UNCHANGED cache
    BY <1>2 DEF Start, Begin
  <2>2. UNCHANGED sysroot
    BY <1>2 DEF Start, Begin
  <2>3. StepInv'
    BY <1>a, <1>b, <1>c, <2>1, <2>2, <1>2 DEF StepInv, Start, Begin, runcore, runaddons, dir
  <2>4. MarksInv'
    BY <1>a, <1>b, <1>c, <2>1, <2>2, <1>2
       DEF StepInv, MarksInv, Start, Begin, runcore, dir
  <2>5. UnpackedInv'
    BY <1>a, <1>b, <1>c, <2>1, <2>2, <1>2
       DEF StepInv, UnpackedInv, Start, Begin, runcore, dir
  <2> QED
    BY <2>3, <2>4, <2>5
<1>3. CASE Clean
  <2>1. UNCHANGED cache
    BY <1>3 DEF Clean, Begin
  <2>2. UNCHANGED sysroot
    BY <1>3 DEF Clean, Begin
  <2>3. StepInv'
    BY <1>a, <1>b, <1>c, <2>1, <2>2, <1>3 DEF StepInv, Clean, Begin, dir
  <2>4. MarksInv'
    BY <1>a, <1>b, <1>c, <2>1, <2>2, <1>3
       DEF StepInv, MarksInv, Clean, Begin, runcore, dir
  <2>5. UnpackedInv'
    BY <1>a, <1>b, <1>c, <2>1, <2>2, <1>3
       DEF StepInv, UnpackedInv, Clean, Begin, runcore, dir
  <2> QED
    BY <2>3, <2>4, <2>5
<1>4. CASE PredepsFail
  <2>1. UNCHANGED cache
    BY <1>4 DEF PredepsFail
  <2>2. UNCHANGED sysroot
    BY <1>4 DEF PredepsFail
  <2>3. StepInv'
    BY <1>a, <1>b, <1>c, <2>1, <2>2, <1>4 DEF StepInv, PredepsFail, Stop, dir
  <2>4. MarksInv'
    BY <1>a, <1>b, <1>c, <2>1, <2>2, <1>4
       DEF StepInv, MarksInv, PredepsFail, Stop, dir
  <2>5. UnpackedInv'
    BY <1>a, <1>b, <1>c, <2>1, <2>2, <1>4
       DEF StepInv, UnpackedInv, PredepsFail, Stop, dir
  <2> QED
    BY <2>3, <2>4, <2>5
<1>5. CASE PredepsEnd
  <2>1. UNCHANGED cache
    BY <1>5 DEF PredepsEnd
  <2>2. UNCHANGED sysroot
    BY <1>5 DEF PredepsEnd
  <2>3. UNCHANGED <<config, run, cleancut, lost>>
    BY <1>5 DEF PredepsEnd, Go
  <2>4. StepInv'
    BY <1>a, <1>b, <1>c, <2>1, <2>2, <2>3, <1>5 DEF StepInv, PredepsEnd, Go, dir
  <2>5. MarksInv'
    BY <1>a, <1>b, <1>c, <2>1, <2>2, <2>3, <1>5
       DEF StepInv, MarksInv, PredepsEnd, Go, dir
  <2>6. UnpackedInv'
    BY <1>a, <1>b, <1>c, <2>1, <2>2, <2>3, <1>5
       DEF StepInv, UnpackedInv, PredepsEnd, Go, dir
  <2> QED
    BY <2>4, <2>5, <2>6
<1>6. CASE CleanupPackage
  <2>1. UNCHANGED cache
    BY <1>6 DEF CleanupPackage
  <2>2. PICK p \in packages :
          /\ packages' = packages \ {p}
          /\ sysroot' = [sysroot EXCEPT !.packages = @ \ {p}]
    BY <1>6, Zenon DEF CleanupPackage
  <2>3. sysroot'.core = sysroot.core /\ sysroot'.packages = sysroot.packages \ {p}
    BY <1>c, <2>2 DEF Sysroot
  <2>4. packages' = packages \ {p}
    BY <2>2
  <2>5. UNCHANGED <<config, run, cleancut, pc>> /\ kept' = kept \ {p}
    BY <2>4, <1>6 DEF CleanupPackage
  <2>6. StepInv'
    BY <1>a, <1>b, <1>c, <2>1, <2>3, <2>4, <2>5, <1>6
       DEF StepInv, CleanupPackage, dir
  <2>7. MarksInv'
    BY <1>a, <1>b, <1>c, <2>1, <2>3, <2>4, <2>5, <1>6
       DEF StepInv, MarksInv, CleanupPackage, dir
  <2>8. UnpackedInv'
    BY <1>a, <1>b, <1>c, <2>1, <2>3, <2>4, <2>5, <1>6
       DEF StepInv, UnpackedInv, CleanupPackage, dir
  <2> QED
    BY <2>6, <2>7, <2>8
<1>7. CASE RmSysroot
  <2>1. UNCHANGED cache
    BY <1>7 DEF RmSysroot
  <2>2. sysroot'.core = None /\ sysroot'.packages = {}
    BY <1>7 DEF RmSysroot, Bare
  <2>3. UNCHANGED <<config, run, cleancut, lost>>
    BY <1>7 DEF RmSysroot, Go
  <2>4. StepInv'
    BY <1>a, <1>b, <1>c, <2>1, <2>2, <2>3, <1>7 DEF StepInv, RmSysroot, Go, dir
  <2>5. MarksInv'
    BY <1>a, <1>b, <1>c, <2>1, <2>2, <2>3, <1>7
       DEF StepInv, MarksInv, RmSysroot, Go, dir
  <2>6. UnpackedInv'
    BY <1>a, <1>b, <1>c, <2>1, <2>2, <2>3, <1>7
       DEF StepInv, UnpackedInv, RmSysroot, Go, dir
  <2> QED
    BY <2>4, <2>5, <2>6
<1>8. CASE Untar
  <2>1. UNCHANGED cache
    BY <1>8 DEF Untar
  <2>2. sysroot' = cache[dir].tarball
    BY <1>8 DEF Untar
  <2>3. UNCHANGED <<config, run, cleancut, lost>>
    BY <1>8 DEF Untar, Go
  <2>4. StepInv'
    BY <1>a, <1>b, <1>c, <2>1, <2>2, <2>3, <1>8 DEF StepInv, Untar, Go, dir
  <2>5. MarksInv'
    BY <1>a, <1>b, <1>c, <2>1, <2>2, <2>3, <1>8
       DEF StepInv, MarksInv, Untar, Go, dir
  <2>6. UnpackedInv'
    BY <1>a, <1>b, <1>c, <2>1, <2>2, <2>3, <1>8
       DEF StepInv, UnpackedInv, Untar, Go, dir
  <2> QED
    BY <2>4, <2>5, <2>6
<1>9. CASE SetDecompressed
  <2>1. \A t \in Dirs : /\ cache'[t].tarball = cache[t].tarball
                      /\ cache'[t].installed = cache[t].installed
                      /\ cache'[t].ainstalled = cache[t].ainstalled
                      /\ cache'[t].decompressed = IF t = dir THEN TRUE ELSE cache[t].decompressed
    BY <1>b, <1>c, <1>9 DEF SetDecompressed, InCache, Cache
  <2>2. UNCHANGED sysroot
    BY <1>9 DEF SetDecompressed
  <2>3. UNCHANGED <<config, run, cleancut, lost>>
    BY <1>9 DEF SetDecompressed, Go
  <2>4. pc \in {"packmark", "unpackmark"} /\ pc' = "rootfs" /\ UNCHANGED packages
    BY <1>9 DEF SetDecompressed, Go
  <2>5. StepInv'
    BY <1>a, <1>b, <1>c, <2>1, <2>2, <2>3, <2>4 DEF StepInv, dir
  <2>6. MarksInv'
    BY <1>a, <1>b, <1>c, <2>1, <2>2, <2>3, <2>4 DEF StepInv, MarksInv, UnpackedInv, dir
  <2>7. UnpackedInv'
    BY <1>a, <1>b, <1>c, <2>1, <2>2, <2>3, <2>4 DEF StepInv, UnpackedInv, dir
  <2> QED
    BY <2>5, <2>6, <2>7
<1>10. CASE CoreUninstall
  <2>1. \A t \in Dirs : /\ cache'[t].tarball = cache[t].tarball
                      /\ cache'[t].decompressed = cache[t].decompressed
                      /\ cache'[t].ainstalled = cache[t].ainstalled
                      /\ cache'[t].installed = IF t = dir THEN FALSE ELSE cache[t].installed
    BY <1>b, <1>c, <1>10 DEF CoreUninstall, InCache, Cache
  <2>2. UNCHANGED sysroot
    BY <1>10 DEF CoreUninstall
  <2>3. UNCHANGED <<config, run, cleancut, lost>>
    BY <1>10 DEF CoreUninstall, Go
  <2>4. pc = "uninstall" /\ pc' = "undecompress" /\ UNCHANGED packages
    BY <1>10 DEF CoreUninstall, Go
  <2>5. StepInv'
    BY <1>a, <1>b, <1>c, <2>1, <2>2, <2>3, <2>4 DEF StepInv, dir
  <2>6. MarksInv'
    BY <1>a, <1>b, <1>c, <2>1, <2>2, <2>3, <2>4 DEF StepInv, MarksInv, dir
  <2>7. UnpackedInv'
    BY <1>a, <1>b, <1>c, <2>1, <2>2, <2>3, <2>4 DEF StepInv, UnpackedInv, dir
  <2> QED
    BY <2>5, <2>6, <2>7
<1>11. CASE CoreUndecompress
  <2>1. \A t \in Dirs : /\ cache'[t].tarball = cache[t].tarball
                      /\ cache'[t].installed = cache[t].installed
                      /\ cache'[t].ainstalled = cache[t].ainstalled
                      /\ cache'[t].decompressed = IF t = dir THEN FALSE ELSE cache[t].decompressed
    BY <1>b, <1>c, <1>11 DEF CoreUndecompress, InCache, Cache
  <2>2. UNCHANGED sysroot
    BY <1>11 DEF CoreUndecompress
  <2>3. UNCHANGED <<config, run, cleancut, lost>>
    BY <1>11 DEF CoreUndecompress, Go
  <2>4. pc = "undecompress" /\ pc' = "corecleanup" /\ UNCHANGED packages
    BY <1>11 DEF CoreUndecompress, Go
  <2>5. StepInv'
    BY <1>a, <1>b, <1>c, <2>1, <2>2, <2>3, <2>4 DEF StepInv, dir
  <2>6. MarksInv'
    BY <1>a, <1>b, <1>c, <2>1, <2>2, <2>3, <2>4 DEF StepInv, MarksInv, dir
  <2>7. UnpackedInv'
    BY <1>a, <1>b, <1>c, <2>1, <2>2, <2>3, <2>4 DEF StepInv, UnpackedInv, dir
  <2> QED
    BY <2>5, <2>6, <2>7
<1>12. CASE CoreCleanup
  <2>1. UNCHANGED cache
    BY <1>12 DEF CoreCleanup
  <2>2. UNCHANGED sysroot
    BY <1>12 DEF CoreCleanup
  <2>3. UNCHANGED <<config, run, cleancut, lost>>
    BY <1>12 DEF CoreCleanup, Go
  <2>4. StepInv'
    BY <1>a, <1>b, <1>c, <2>1, <2>2, <2>3, <1>12 DEF StepInv, CoreCleanup, Go, dir
  <2>5. MarksInv'
    BY <1>a, <1>b, <1>c, <2>1, <2>2, <2>3, <1>12
       DEF StepInv, MarksInv, CoreCleanup, Go, dir
  <2>6. UnpackedInv'
    BY <1>a, <1>b, <1>c, <2>1, <2>2, <2>3, <1>12
       DEF StepInv, UnpackedInv, CoreCleanup, Go, dir
  <2> QED
    BY <2>4, <2>5, <2>6
<1>13. CASE CoreHeaders
  <2>1. UNCHANGED cache
    BY <1>13 DEF CoreHeaders
  <2>2. UNCHANGED sysroot
    BY <1>13 DEF CoreHeaders
  <2>3. UNCHANGED <<config, run, cleancut, lost>>
    BY <1>13 DEF CoreHeaders, Go
  <2>4. StepInv'
    BY <1>a, <1>b, <1>c, <2>1, <2>2, <2>3, <1>13 DEF StepInv, CoreHeaders, Go, dir
  <2>5. MarksInv'
    BY <1>a, <1>b, <1>c, <2>1, <2>2, <2>3, <1>13
       DEF StepInv, MarksInv, CoreHeaders, Go, dir
  <2>6. UnpackedInv'
    BY <1>a, <1>b, <1>c, <2>1, <2>2, <2>3, <1>13
       DEF StepInv, UnpackedInv, CoreHeaders, Go, dir
  <2> QED
    BY <2>4, <2>5, <2>6
<1>14. CASE CoreBuild
  <2>1. UNCHANGED cache
    BY <1>14 DEF CoreBuild
  <2>2. sysroot'.packages = sysroot.packages
    BY <1>c, <1>14 DEF CoreBuild, Sysroot
  <2>3. UNCHANGED <<config, run, cleancut, lost>>
    BY <1>14 DEF CoreBuild, Go
  <2>4. StepInv'
    BY <1>a, <1>b, <1>c, <2>1, <2>2, <2>3, <1>14 DEF StepInv, CoreBuild, Go, dir
  <2>5. MarksInv'
    BY <1>a, <1>b, <1>c, <2>1, <2>2, <2>3, <1>14
       DEF StepInv, MarksInv, CoreBuild, Go, dir
  <2>6. UnpackedInv'
    BY <1>a, <1>b, <1>c, <2>1, <2>2, <2>3, <1>14
       DEF StepInv, UnpackedInv, CoreBuild, Go, dir
  <2> QED
    BY <2>4, <2>5, <2>6
<1>15. CASE CoreFail
  <2>1. UNCHANGED cache
    BY <1>15 DEF CoreFail
  <2>2. UNCHANGED sysroot
    BY <1>15 DEF CoreFail
  <2>3. StepInv'
    BY <1>a, <1>b, <1>c, <2>1, <2>2, <1>15 DEF StepInv, CoreFail, Stop, dir
  <2>4. MarksInv'
    BY <1>a, <1>b, <1>c, <2>1, <2>2, <1>15
       DEF StepInv, MarksInv, CoreFail, Stop, dir
  <2>5. UnpackedInv'
    BY <1>a, <1>b, <1>c, <2>1, <2>2, <1>15
       DEF StepInv, UnpackedInv, CoreFail, Stop, dir
  <2> QED
    BY <2>3, <2>4, <2>5
<1>16. CASE CoreSetInstalled
  <2>1. \A t \in Dirs : /\ cache'[t].tarball = cache[t].tarball
                      /\ cache'[t].decompressed = cache[t].decompressed
                      /\ cache'[t].ainstalled = cache[t].ainstalled
                      /\ cache'[t].installed = IF t = dir THEN TRUE ELSE cache[t].installed
    BY <1>b, <1>c, <1>16 DEF CoreSetInstalled, InCache, Cache
  <2>2. UNCHANGED sysroot
    BY <1>16 DEF CoreSetInstalled
  <2>3. UNCHANGED <<config, run, cleancut, lost>>
    BY <1>16 DEF CoreSetInstalled, Go
  <2>4. pc = "coremark" /\ pc' = "corerecord" /\ UNCHANGED packages
    BY <1>16 DEF CoreSetInstalled, Go
  <2>5. StepInv'
    BY <1>a, <1>b, <1>c, <2>1, <2>2, <2>3, <2>4 DEF StepInv, dir
  <2>6. MarksInv'
    BY <1>a, <1>b, <1>c, <2>1, <2>2, <2>3, <2>4 DEF StepInv, MarksInv, dir
  <2>7. UnpackedInv'
    BY <1>a, <1>b, <1>c, <2>1, <2>2, <2>3, <2>4 DEF StepInv, UnpackedInv, dir
  <2> QED
    BY <2>5, <2>6, <2>7
<1>17. CASE CoreRecord
  <2>1. \A t \in Dirs : /\ cache'[t].tarball = cache[t].tarball
                      /\ cache'[t].decompressed = cache[t].decompressed
                      /\ cache'[t].installed = cache[t].installed
                      /\ cache'[t].ainstalled = cache[t].ainstalled
    BY <1>b, <1>c, <1>17 DEF CoreRecord, InCache, Cache
  <2>2. UNCHANGED sysroot
    BY <1>17 DEF CoreRecord
  <2>3. UNCHANGED <<config, run, cleancut, lost>>
    BY <1>17 DEF CoreRecord, Go
  <2>4. pc = "corerecord" /\ pc' \in {"addonunmark", "pack"} /\ UNCHANGED packages
    BY <1>17 DEF CoreRecord, Go
  <2>5. StepInv'
    BY <1>a, <1>b, <1>c, <2>1, <2>2, <2>3, <2>4 DEF StepInv, dir
  <2>6. MarksInv'
    BY <1>a, <1>b, <1>c, <2>1, <2>2, <2>3, <2>4 DEF StepInv, MarksInv, dir
  <2>7. UnpackedInv'
    BY <1>a, <1>b, <1>c, <2>1, <2>2, <2>3, <2>4 DEF StepInv, UnpackedInv, dir
  <2> QED
    BY <2>5, <2>6, <2>7
<1>18. CASE AddonsUninstall
  <2>1. \A t \in Dirs : /\ cache'[t].tarball = cache[t].tarball
                      /\ cache'[t].decompressed = cache[t].decompressed
                      /\ cache'[t].installed = cache[t].installed
                      /\ cache'[t].ainstalled = IF t = dir THEN FALSE ELSE cache[t].ainstalled
    BY <1>b, <1>c, <1>18 DEF AddonsUninstall, InCache, Cache
  <2>2. UNCHANGED sysroot
    BY <1>18 DEF AddonsUninstall
  <2>3. UNCHANGED <<config, run, cleancut, lost>>
    BY <1>18 DEF AddonsUninstall, Go
  <2>4. /\ pc = "addonunmark"
       /\ pc' = (IF run.core THEN "addondisable" ELSE "addoncleanup")
       /\ UNCHANGED packages
    BY <1>18 DEF AddonsUninstall, Go
  <2>5. StepInv'
    BY <1>a, <1>b, <1>c, <2>1, <2>2, <2>3, <2>4 DEF StepInv, dir
  <2>6. MarksInv'
    BY <1>a, <1>b, <1>c, <2>1, <2>2, <2>3, <2>4 DEF StepInv, MarksInv, dir
  <2>7. UnpackedInv'
    BY <1>a, <1>b, <1>c, <2>1, <2>2, <2>3, <2>4 DEF StepInv, UnpackedInv, dir
  <2> QED
    BY <2>5, <2>6, <2>7
<1>19. CASE AddonsCleanup
  <2>1. UNCHANGED cache
    BY <1>19 DEF AddonsCleanup
  <2>2. UNCHANGED sysroot
    BY <1>19 DEF AddonsCleanup
  <2>3. UNCHANGED <<config, run, cleancut, lost>>
    BY <1>19 DEF AddonsCleanup, Go
  <2>4. StepInv'
    BY <1>a, <1>b, <1>c, <2>1, <2>2, <2>3, <1>19 DEF StepInv, AddonsCleanup, Go, dir
  <2>5. MarksInv'
    BY <1>a, <1>b, <1>c, <2>1, <2>2, <2>3, <1>19
       DEF StepInv, MarksInv, AddonsCleanup, Go, dir
  <2>6. UnpackedInv'
    BY <1>a, <1>b, <1>c, <2>1, <2>2, <2>3, <1>19
       DEF StepInv, UnpackedInv, AddonsCleanup, Go, dir
  <2> QED
    BY <2>4, <2>5, <2>6
<1>20. CASE AddonDisable
  <2>1. UNCHANGED cache
    BY <1>20 DEF AddonDisable
  <2>2. sysroot'.core = sysroot.core /\ sysroot'.packages = sysroot.packages
    BY <1>c, <1>20 DEF AddonDisable, Sysroot
  <2>3. UNCHANGED <<config, run, cleancut, lost>>
    BY <1>20 DEF AddonDisable, Go
  <2>4. StepInv'
    BY <1>a, <1>b, <1>c, <2>1, <2>2, <2>3, <1>20 DEF StepInv, AddonDisable, Go, dir
  <2>5. MarksInv'
    BY <1>a, <1>b, <1>c, <2>1, <2>2, <2>3, <1>20
       DEF StepInv, MarksInv, AddonDisable, Go, dir
  <2>6. UnpackedInv'
    BY <1>a, <1>b, <1>c, <2>1, <2>2, <2>3, <1>20
       DEF StepInv, UnpackedInv, AddonDisable, Go, dir
  <2> QED
    BY <2>4, <2>5, <2>6
<1>21. CASE AddonsDisabled
  <2>1. UNCHANGED cache
    BY <1>21 DEF AddonsDisabled
  <2>2. UNCHANGED sysroot
    BY <1>21 DEF AddonsDisabled
  <2>3. UNCHANGED <<config, run, cleancut, lost>>
    BY <1>21 DEF AddonsDisabled, Go
  <2>4. StepInv'
    BY <1>a, <1>b, <1>c, <2>1, <2>2, <2>3, <1>21
       DEF StepInv, AddonsDisabled, Go, dir
  <2>5. MarksInv'
    BY <1>a, <1>b, <1>c, <2>1, <2>2, <2>3, <1>21
       DEF StepInv, MarksInv, AddonsDisabled, Go, dir
  <2>6. UnpackedInv'
    BY <1>a, <1>b, <1>c, <2>1, <2>2, <2>3, <1>21
       DEF StepInv, UnpackedInv, AddonsDisabled, Go, dir
  <2> QED
    BY <2>4, <2>5, <2>6
<1>22. CASE AddonBuild
  <2>1. UNCHANGED cache
    BY <1>22 DEF AddonBuild
  <2>2. sysroot'.core = sysroot.core /\ sysroot'.packages = sysroot.packages
    BY <1>c, <1>22 DEF AddonBuild, Sysroot
  <2>3. UNCHANGED <<config, run, cleancut, lost>>
    BY <1>22 DEF AddonBuild, Go
  <2>4. StepInv'
    BY <1>a, <1>b, <1>c, <2>1, <2>2, <2>3, <1>22 DEF StepInv, AddonBuild, Go, dir
  <2>5. MarksInv'
    BY <1>a, <1>b, <1>c, <2>1, <2>2, <2>3, <1>22
       DEF StepInv, MarksInv, AddonBuild, Go, dir
  <2>6. UnpackedInv'
    BY <1>a, <1>b, <1>c, <2>1, <2>2, <2>3, <1>22
       DEF StepInv, UnpackedInv, AddonBuild, Go, dir
  <2> QED
    BY <2>4, <2>5, <2>6
<1>23. CASE AddonFail
  <2>1. UNCHANGED cache
    BY <1>23 DEF AddonFail
  <2>2. UNCHANGED sysroot
    BY <1>23 DEF AddonFail
  <2>3. StepInv'
    BY <1>a, <1>b, <1>c, <2>1, <2>2, <1>23 DEF StepInv, AddonFail, Stop, dir
  <2>4. MarksInv'
    BY <1>a, <1>b, <1>c, <2>1, <2>2, <1>23
       DEF StepInv, MarksInv, AddonFail, Stop, dir
  <2>5. UnpackedInv'
    BY <1>a, <1>b, <1>c, <2>1, <2>2, <1>23
       DEF StepInv, UnpackedInv, AddonFail, Stop, dir
  <2> QED
    BY <2>3, <2>4, <2>5
<1>24. CASE AddonsBuilt
  <2>1. UNCHANGED cache
    BY <1>24 DEF AddonsBuilt
  <2>2. UNCHANGED sysroot
    BY <1>24 DEF AddonsBuilt
  <2>3. UNCHANGED <<config, run, cleancut, lost>>
    BY <1>24 DEF AddonsBuilt, Go
  <2>4. StepInv'
    BY <1>a, <1>b, <1>c, <2>1, <2>2, <2>3, <1>24 DEF StepInv, AddonsBuilt, Go, dir
  <2>5. MarksInv'
    BY <1>a, <1>b, <1>c, <2>1, <2>2, <2>3, <1>24
       DEF StepInv, MarksInv, AddonsBuilt, Go, dir
  <2>6. UnpackedInv'
    BY <1>a, <1>b, <1>c, <2>1, <2>2, <2>3, <1>24
       DEF StepInv, UnpackedInv, AddonsBuilt, Go, dir
  <2> QED
    BY <2>4, <2>5, <2>6
<1>25. CASE AddonsSetInstalled
  <2>1. \A t \in Dirs : /\ cache'[t].tarball = cache[t].tarball
                      /\ cache'[t].decompressed = cache[t].decompressed
                      /\ cache'[t].installed = cache[t].installed
                      /\ cache'[t].ainstalled = IF t = dir THEN TRUE ELSE cache[t].ainstalled
    BY <1>b, <1>c, <1>25 DEF AddonsSetInstalled, InCache, Cache
  <2>2. UNCHANGED sysroot
    BY <1>25 DEF AddonsSetInstalled
  <2>3. UNCHANGED <<config, run, cleancut, lost>>
    BY <1>25 DEF AddonsSetInstalled, Go
  <2>4. pc = "addonmark" /\ pc' = "addonrecord" /\ UNCHANGED packages
    BY <1>25 DEF AddonsSetInstalled, Go
  <2>5. StepInv'
    BY <1>a, <1>b, <1>c, <2>1, <2>2, <2>3, <2>4 DEF StepInv, dir
  <2>6. MarksInv'
    BY <1>a, <1>b, <1>c, <2>1, <2>2, <2>3, <2>4 DEF StepInv, MarksInv, dir
  <2>7. ~cache[dir].decompressed \/ sysroot.core = cache[dir].tarball.core
    BY <1>a, <2>4 DEF StepInv, UnpackedInv
  <2>8. MustClean => \A t \in Dirs \ {config'.dir} : ~cache'[t].decompressed
    BY <1>a, <1>b, <2>1, <2>3, <2>4 DEF UnpackedInv
  <2>9. cache'[config'.dir].decompressed => sysroot'.core = cache'[config'.dir].tarball.core
    BY <1>b, <2>1, <2>2, <2>3, <2>4, <2>7
  <2>10. pc' \notin {"packmark", "unpackmark"} \cup adding
    BY <2>4
  <2>11. UnpackedInv'
    BY <2>8, <2>9, <2>10 DEF UnpackedInv
  <2> QED
    BY <2>5, <2>6, <2>11
<1>26. CASE AddonsRecord
  <2>1. \A t \in Dirs : /\ cache'[t].tarball = cache[t].tarball
                      /\ cache'[t].decompressed = cache[t].decompressed
                      /\ cache'[t].installed = cache[t].installed
                      /\ cache'[t].ainstalled = cache[t].ainstalled
    BY <1>b, <1>c, <1>26 DEF AddonsRecord, InCache, Cache
  <2>2. UNCHANGED sysroot
    BY <1>26 DEF AddonsRecord
  <2>3. UNCHANGED <<config, run, cleancut, lost>>
    BY <1>26 DEF AddonsRecord, Go
  <2>4. pc = "addonrecord" /\ pc' = "pack" /\ UNCHANGED packages
    BY <1>26 DEF AddonsRecord, Go
  <2>5. StepInv'
    BY <1>a, <1>b, <1>c, <2>1, <2>2, <2>3, <2>4 DEF StepInv, dir
  <2>6. MarksInv'
    BY <1>a, <1>b, <1>c, <2>1, <2>2, <2>3, <2>4 DEF StepInv, MarksInv, dir
  <2>7. UnpackedInv'
    BY <1>a, <1>b, <1>c, <2>1, <2>2, <2>3, <2>4 DEF StepInv, UnpackedInv, dir
  <2> QED
    BY <2>5, <2>6, <2>7
<1>27. CASE Pack
  <2>1. \A t \in Dirs : /\ cache'[t].decompressed = cache[t].decompressed
                      /\ cache'[t].installed = cache[t].installed
                      /\ cache'[t].ainstalled = cache[t].ainstalled
                      /\ cache'[t].tarball = IF t = dir THEN sysroot ELSE cache[t].tarball
    BY <1>b, <1>c, <1>27 DEF Pack, InCache, Cache
  <2>2. UNCHANGED sysroot
    BY <1>27 DEF Pack
  <2>3. UNCHANGED <<config, run, cleancut, lost>>
    BY <1>27 DEF Pack, Go
  <2>4. pc = "pack" /\ pc' = "packmark" /\ UNCHANGED packages
    BY <1>27 DEF Pack, Go
  <2>5. StepInv'
    BY <1>a, <1>b, <1>c, <2>1, <2>2, <2>3, <2>4 DEF StepInv, dir
  <2>6. MarksInv'
    BY <1>a, <1>b, <1>c, <2>1, <2>2, <2>3, <2>4 DEF StepInv, MarksInv, holding, dir
  <2>7. UnpackedInv'
    BY <1>a, <1>b, <1>c, <2>1, <2>2, <2>3, <2>4 DEF StepInv, UnpackedInv, dir
  <2> QED
    BY <2>5, <2>6, <2>7
<1>28. CASE PackFail
  <2>1. UNCHANGED cache
    BY <1>28 DEF PackFail
  <2>2. UNCHANGED sysroot
    BY <1>28 DEF PackFail
  <2>3. StepInv'
    BY <1>a, <1>b, <1>c, <2>1, <2>2, <1>28 DEF StepInv, PackFail, LoseMarks, dir
  <2>4. MarksInv'
    BY <1>a, <1>b, <1>c, <2>1, <2>2, <1>28
       DEF StepInv, MarksInv, PackFail, LoseMarks, dir
  <2>5. UnpackedInv'
    BY <1>a, <1>b, <1>c, <2>1, <2>2, <1>28
       DEF StepInv, UnpackedInv, PackFail, LoseMarks, dir
  <2> QED
    BY <2>3, <2>4, <2>5
<1>29. CASE PackageBuild
  <2>1. UNCHANGED cache
    BY <1>29 DEF PackageBuild
  <2>2. PICK p \in Packages \ packages :
          /\ packages' = packages \cup {p}
          /\ sysroot' = [sysroot EXCEPT !.packages = @ \cup {p}]
    BY <1>29, Zenon DEF PackageBuild
  <2>3. sysroot'.core = sysroot.core /\ sysroot'.packages = sysroot.packages \cup {p}
    BY <1>c, <2>2 DEF Sysroot
  <2>4. packages' = packages \cup {p}
    BY <2>2
  <2>5. UNCHANGED <<config, run, cleancut, lost>>
    BY <1>29 DEF PackageBuild, Go
  <2>6. StepInv'
    BY <1>a, <1>b, <1>c, <2>1, <2>3, <2>4, <2>5, <1>29
       DEF StepInv, PackageBuild, Go, dir
  <2>7. MarksInv'
    BY <1>a, <1>b, <1>c, <2>1, <2>3, <2>4, <2>5, <1>29
       DEF StepInv, MarksInv, PackageBuild, Go, dir
  <2>8. UnpackedInv'
    BY <1>a, <1>b, <1>c, <2>1, <2>3, <2>4, <2>5, <1>29
       DEF StepInv, UnpackedInv, PackageBuild, Go, dir
  <2> QED
    BY <2>6, <2>7, <2>8
<1>30. CASE PackageFail
  <2>1. UNCHANGED cache
    BY <1>30 DEF PackageFail
  <2>2. UNCHANGED sysroot
    BY <1>30 DEF PackageFail
  <2>3. StepInv'
    BY <1>a, <1>b, <1>c, <2>1, <2>2, <1>30 DEF StepInv, PackageFail, Stop, dir
  <2>4. MarksInv'
    BY <1>a, <1>b, <1>c, <2>1, <2>2, <1>30
       DEF StepInv, MarksInv, PackageFail, Stop, dir
  <2>5. UnpackedInv'
    BY <1>a, <1>b, <1>c, <2>1, <2>2, <1>30
       DEF StepInv, UnpackedInv, PackageFail, Stop, dir
  <2> QED
    BY <2>3, <2>4, <2>5
<1>31. CASE Finish
  <2>1. UNCHANGED cache
    BY <1>31 DEF Finish
  <2>2. UNCHANGED sysroot
    BY <1>31 DEF Finish
  <2>3. StepInv'
    BY <1>a, <1>b, <1>c, <2>1, <2>2, <1>31 DEF StepInv, Finish, Stop, dir
  <2>4. MarksInv'
    BY <1>a, <1>b, <1>c, <2>1, <2>2, <1>31 DEF StepInv, MarksInv, Finish, Stop, dir
  <2>5. UnpackedInv'
    BY <1>a, <1>b, <1>c, <2>1, <2>2, <1>31
       DEF StepInv, UnpackedInv, Finish, Stop, dir
  <2> QED
    BY <2>3, <2>4, <2>5
<1>32. CASE CleanDecompressed
  <2>1. \A t \in Dirs : /\ cache'[t].tarball = cache[t].tarball
                      /\ cache'[t].installed = cache[t].installed
                      /\ cache'[t].ainstalled = cache[t].ainstalled
                      /\ cache'[t].decompressed = IF t = dir THEN FALSE ELSE cache[t].decompressed
    BY <1>b, <1>c, <1>32 DEF CleanDecompressed, InCache, Cache
  <2>2. UNCHANGED sysroot
    BY <1>32 DEF CleanDecompressed
  <2>3. UNCHANGED <<config, run, cleancut, lost>>
    BY <1>32 DEF CleanDecompressed, Go
  <2>4. pc = "cleandec" /\ pc' = "cleanmarks" /\ UNCHANGED packages
    BY <1>32 DEF CleanDecompressed, Go
  <2>5. StepInv'
    BY <1>a, <1>b, <1>c, <2>1, <2>2, <2>3, <2>4 DEF StepInv, dir
  <2>6. MarksInv'
    BY <1>a, <1>b, <1>c, <2>1, <2>2, <2>3, <2>4 DEF StepInv, MarksInv, dir
  <2>7. UnpackedInv'
    BY <1>a, <1>b, <1>c, <2>1, <2>2, <2>3, <2>4 DEF StepInv, UnpackedInv, dir
  <2> QED
    BY <2>5, <2>6, <2>7
<1>33. CASE CleanMarks
  <2>1. UNCHANGED cache
    BY <1>33 DEF CleanMarks
  <2>2. UNCHANGED sysroot
    BY <1>33 DEF CleanMarks
  <2>3. StepInv'
    BY <1>a, <1>b, <1>c, <2>1, <2>2, <1>33 DEF StepInv, CleanMarks, dir
  <2>4. MarksInv'
    BY <1>a, <1>b, <1>c, <2>1, <2>2, <1>33 DEF StepInv, MarksInv, CleanMarks, dir
  <2>5. UnpackedInv'
    BY <1>a, <1>b, <1>c, <2>1, <2>2, <1>33 DEF StepInv, UnpackedInv, CleanMarks, dir
  <2> QED
    BY <2>3, <2>4, <2>5
<1>34. CASE CleanSysroot
  <2>1. UNCHANGED cache
    BY <1>34 DEF CleanSysroot
  <2>2. sysroot'.core = None /\ sysroot'.packages = {}
    BY <1>34 DEF CleanSysroot, Bare
  <2>3. StepInv'
    BY <1>a, <1>b, <1>c, <2>1, <2>2, <1>34 DEF StepInv, CleanSysroot, Stop, dir
  <2>4. MarksInv'
    BY <1>a, <1>b, <1>c, <2>1, <2>2, <1>34
       DEF StepInv, MarksInv, CleanSysroot, Stop, dir
  <2>5. UnpackedInv'
    BY <1>a, <1>b, <1>c, <2>1, <2>2, <1>34
       DEF StepInv, UnpackedInv, CleanSysroot, Stop, dir
  <2> QED
    BY <2>3, <2>4, <2>5
<1>35. CASE Crash
  <2>1. \A t \in Dirs : /\ cache'[t].tarball = cache[t].tarball
                      /\ cache'[t].decompressed = cache[t].decompressed
                      /\ cache'[t].installed = cache[t].installed
                      /\ cache'[t].ainstalled = cache[t].ainstalled
    BY <1>b, <1>c, <1>35 DEF Crash, InCache, Cache
  <2>2. UNCHANGED sysroot
    BY <1>35 DEF Crash
  <2>3. StepInv'
    BY <1>a, <1>b, <1>c, <2>1, <2>2, <1>35 DEF StepInv, Crash, dir
  <2>4. MarksInv'
    BY <1>a, <1>b, <1>c, <2>1, <2>2, <1>35 DEF StepInv, MarksInv, Crash, LoseMarks, dir
  <2>5. UnpackedInv'
    BY <1>a, <1>b, <1>c, <2>1, <2>2, <1>35 DEF StepInv, UnpackedInv, Crash, dir
  <2> QED
    BY <2>3, <2>4, <2>5
<1>36. CASE UNCHANGED vars
  BY <1>a, <1>36 DEF vars, StepInv, MarksInv, UnpackedInv, dir
<1>37. CASE AddonPackage
  <2>1. UNCHANGED cache
    BY <1>37 DEF AddonPackage
  <2>2. PICK a \in tobuild, p \in UNION {AddonPackages[b] : b \in tobuild} :
          /\ p \in AddonPackages[a] \ packages
          /\ packages' = packages \cup {p}
          /\ sysroot' = [sysroot EXCEPT !.packages = @ \cup {p}]
    BY <1>37, Zenon DEF AddonPackage
  <2>3. sysroot'.core = sysroot.core /\ sysroot'.packages = sysroot.packages \cup {p}
    BY <1>c, <2>2 DEF Sysroot
  <2>4. UNCHANGED <<config, run, cleancut, lost>> /\ pc = "addonbuild" /\ pc' = pc
    BY <1>37 DEF AddonPackage, Go
  <2>5. StepInv'
    BY <1>a, <1>b, <2>1, <2>4 DEF StepInv, dir
  <2>6. MarksInv'
    BY <1>a, <1>b, <2>1, <2>2, <2>3, <2>4 DEF StepInv, MarksInv, dir
  <2>7. UnpackedInv'
    BY <1>a, <1>b, <2>1, <2>3, <2>4 DEF UnpackedInv, dir
  <2> QED
    BY <2>5, <2>6, <2>7
<1> QED
  BY <1>1, <1>2, <1>3, <1>4, <1>5, <1>6, <1>7, <1>8, <1>9, <1>10, <1>11, <1>12,
     <1>13, <1>14, <1>15, <1>16, <1>17, <1>18, <1>19, <1>20, <1>21, <1>22, <1>23,
     <1>24, <1>25, <1>26, <1>27, <1>28, <1>29, <1>30, <1>31, <1>32, <1>33, <1>34,
     <1>35, <1>36, <1>37
     DEF Next, Recipe, Shared, Core, AddonsPart, Rootfs, Cleanup

(* Every reachable state satisfies both parts of the inductive invariant:  *)
(* markers and records are removed before what they speak of.              *)
THEOREM CacheInductive == Spec => [](IInv /\ CacheInv)
<1>1. Init => IInv /\ CacheInv
  BY InitIInv, InitCacheInv
<1>2. IInv /\ CacheInv /\ [Next]_vars => (IInv /\ CacheInv)'
  BY TypeStep, RunStep, CacheStep DEF IInv
<1> QED
  BY <1>1, <1>2, PTL DEF Spec

(* When the packages are built, one with its installed marker is in the    *)
(* sysroot: no command takes the sysroot away under the packages (core.mk, *)
(* addons.mk, common.mk), the two named accidents apart.                   *)
THEOREM Present == Spec => []PackagesPresent
<1>1. CacheInv => PackagesPresent
  BY DEF CacheInv, StepInv, MarksInv, kept, dir, PackagesPresent
<1> QED
  BY <1>1, CacheInductive, PTL

(* When make finds nothing to build, the core it finds unpacked is that of *)
(* the cached tarball (__embtk_toolchain_decompress).                      *)
THEOREM Unpacked == Spec => []UnpackedIsCached
<1>1. CacheInv => UnpackedIsCached
  BY DEF CacheInv, UnpackedInv, UnpackedIsCached, runaddons
<1> QED
  BY <1>1, CacheInductive, PTL
=============================================================================
