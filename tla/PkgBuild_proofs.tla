--------------------------- MODULE PkgBuild_proofs ---------------------------
(***************************************************************************)
(* Proofs about PkgBuild, for any set of versions, options and patches:    *)
(* its type invariant, the two invariants that say when the marker files   *)
(* and the skip test can be trusted, that the recipes keep the ledger of   *)
(* PkgLedger, that a tree is patched once and no partial download stays.   *)
(***************************************************************************)
EXTENDS PkgBuild, TLAPS

(* A tree nobody works on, in the shape the markers announce.              *)
Settled(t, v) ==
    /\ Kind[v] = "tarball" =>
         IF t.decompressed THEN RightFor(t, v) /\ (t.patched => v \in NeedPatch)
                           ELSE t.patch = "no" /\ ~t.patched
    /\ Kind[v] = "svn" =>
         /\ t.body # "partial"
         /\ t.patch = IF t.patched THEN "yes" ELSE "no"
         /\ t.patched => v \in NeedPatch /\ t.body = "whole"
    /\ Kind[v] = "git" => t.body # "partial" /\ t.patch = "no"

(* The shapes a tree goes through while the recipe works on it.            *)
Midway(v) ==
    /\ cfg # None /\ Tree[cfg.ver] = Tree[v]
    /\ \/ pc = "fetching" /\ Kind[v] # "tarball"
       \/ pc = "patch" /\ Kind[v] = "tarball" /\ v \in NeedPatch
       \/ pc \in {"patching", "markpatch", "wiping", "rmingsrc"}

Shape(t, v) ==
    /\ pc = "fetching" => t.body = "partial" /\ t.patch = "no" /\ ~t.patched
    /\ pc \in {"patch", "patching", "markpatch"} =>
         /\ t.body = "whole" /\ ~t.patched
         /\ Kind[v] = "tarball" => t.decompressed /\ t.rev = v
    /\ pc = "patch"     => t.patch = "no"
    /\ pc = "patching"  => t.patch = "half"
    /\ pc = "markpatch" => t.patch = "yes"

TreeInv(t, v) == ~t.damaged => IF Midway(v) THEN Shape(t, v) ELSE Settled(t, v)

SourceInv == \A v \in Versions : TreeInv(src[Tree[v]], v)

(* What the recipe has established when it reaches each command.           *)
compiled == {"make", "installing", "touch", "truncate", "record", "wipe"}

ControlInv ==
    /\ pc \in {"unpack", "unpacking", "mark", "wiping", "rmingsrc"} => tarball
    /\ pc \in {"unpacking", "mark"} => ~src[tree].decompressed /\ src[tree].rev = cfg.ver
    /\ pc = "mark" => src[tree].body = "whole"
    /\ pc \in {"fetchpatch", "fetchingpatch", "patch", "patching", "markpatch"} =>
         tarball \/ src[tree].body # "absent"
    /\ pc \in {"patch", "patching", "markpatch"} =>
         Kind[cfg.ver] # "git" /\ (tarball => src[tree].decompressed)
    /\ pc \in {"patching", "markpatch"} => cfg.ver \in NeedPatch
    /\ pc \in compiled => TakenAsIs(cfg.ver)

Installed(c) ==
    /\ sysroot.cfg = c
    /\ sysroot.whole \/ MultiDirs
    /\ ~sysroot.damaged => RightFor(sysroot, c.ver)

SysrootInv ==
    /\ pc \in {"touch", "truncate", "record"} => Installed(cfg)
    /\ ~cut /\ installed /\ okconfigs # None /\ pc \notin behind => Installed(okconfigs)

(* The inductive invariant.                                                *)
IInv == TypeOK /\ SourceInv /\ ControlInv /\ SysrootInv

-----------------------------------------------------------------------------
USE PkgAssumption

(* The tree that rm -rf leaves is well typed.                              *)
LEMMA NoTreeType == NoTree \in SourceTree
BY DEF NoTree, SourceTree

(* Replacing the tree the recipe works on keeps src well typed.            *)
LEMMA InTreeType ==
  ASSUME src \in [Trees -> SourceTree], NEW new \in SourceTree, InTree(new)
  PROVE  src' \in [Trees -> SourceTree]
BY DEF InTree

(* Before the first run nothing is downloaded, unpacked or installed.      *)
LEMMA InitTypeOK == Init => TypeOK
<1> SUFFICES ASSUME Init PROVE TypeOK
  OBVIOUS
<1>1. src \in [Trees -> SourceTree]
  BY NoTreeType DEF Init
<1>2. sysroot \in Content
  BY DEF Init, Content, Nothing, Installation, NoTree
<1> QED
  BY <1>1, <1>2 DEF Init, TypeOK, File

(* The steps that write in the source tree.                                *)
LEMMA SourceType ==
  ASSUME TypeOK, cfg # None, Next
  PROVE  src' \in [Trees -> SourceTree]
<1>1. src \in [Trees -> SourceTree]
  BY DEF TypeOK
<1>2. cfg.ver \in Versions /\ src[tree] \in SourceTree
  BY <1>1 DEF TypeOK, tree, Trees, Configs
<1>3. \A new \in SourceTree : InTree(new) => src' \in [Trees -> SourceTree]
  BY <1>1, InTreeType
<1>4. CASE DownloadBegin
  <2>1. [NoTree EXCEPT !.body = "partial", !.rev = cfg.ver] \in SourceTree
    BY <1>2 DEF NoTree, SourceTree
  <2> QED
    BY <1>1, <1>3, <1>4, <2>1 DEF DownloadBegin
<1>5. CASE DownloadEnd
  <2>1. [src[tree] EXCEPT !.body = "whole"] \in SourceTree
    BY <1>2 DEF SourceTree
  <2> QED
    BY <1>1, <1>3, <1>5, <2>1 DEF DownloadEnd
<1>6. CASE DownloadFail
  <2>1. [src[tree] EXCEPT !.damaged = TRUE] \in SourceTree
    BY <1>2 DEF SourceTree
  <2>2. Kind[cfg.ver] \in {"tarball", "svn", "git"}
    BY <1>2, PkgAssumption
  <2> QED
    BY <1>1, <1>3, <1>6, <2>1, <2>2, NoTreeType DEF DownloadFail
<1>7. CASE GitRevisionFail
  <2>1. \A v \in Versions : [src[tree] EXCEPT !.body = "whole", !.rev = v] \in SourceTree
    BY <1>2 DEF SourceTree
  <2> QED
    BY <1>3, <1>7, <2>1 DEF GitRevisionFail
<1>8. CASE DecompressBegin
  <2>1. \A p \in {"no", "spoiled"} :
          [src[tree] EXCEPT !.body = "partial", !.rev = cfg.ver, !.patch = p] \in SourceTree
    BY <1>2 DEF SourceTree
  <2> QED
    BY <1>3, <1>8, <2>1 DEF DecompressBegin
<1>9. CASE DecompressEnd
  <2>1. [src[tree] EXCEPT !.body = "whole"] \in SourceTree
    BY <1>2 DEF SourceTree
  <2> QED
    BY <1>3, <1>9, <2>1 DEF DecompressEnd
<1>10. CASE SetDecompressed
  <2>1. [src[tree] EXCEPT !.decompressed = TRUE] \in SourceTree
    BY <1>2 DEF SourceTree
  <2> QED
    BY <1>3, <1>10, <2>1 DEF SetDecompressed
<1>11. CASE ApplyPatchBegin
  <2>1. [src[tree] EXCEPT !.patch = IF @ = "no" THEN "half" ELSE "spoiled"] \in SourceTree
    BY <1>2 DEF SourceTree
  <2> QED
    BY <1>3, <1>11, <2>1 DEF ApplyPatchBegin
<1>12. CASE ApplyPatchEnd
  <2>1. \A p \in {"yes", "spoiled"}, d \in BOOLEAN :
          [src[tree] EXCEPT !.patch = p, !.damaged = d] \in SourceTree
    BY <1>2 DEF SourceTree
  <2> QED
    BY <1>3, <1>12, <2>1 DEF ApplyPatchEnd
<1>13. CASE SetPatched
  <2>1. [src[tree] EXCEPT !.patched = TRUE] \in SourceTree
    BY <1>2 DEF SourceTree
  <2> QED
    BY <1>3, <1>13, <2>1 DEF SetPatched
<1>14. CASE Erode
  <2>1. PICK d \in BOOLEAN, p \in BOOLEAN :
          InTree([src[tree] EXCEPT !.body = IF @ = "absent" THEN "absent" ELSE "partial",
                                   !.decompressed = d, !.patched = p])
    BY <1>14, Zenon DEF Erode
  <2>2. [src[tree] EXCEPT !.body = IF @ = "absent" THEN "absent" ELSE "partial",
                          !.decompressed = d, !.patched = p] \in SourceTree
    BY <1>2 DEF SourceTree
  <2> QED
    BY <1>3, <2>1, <2>2, Zenon
<1>15. CASE WipeEnd \/ CleanSrcEnd
  BY <1>3, <1>15, NoTreeType DEF WipeEnd, CleanSrcEnd
<1>16. CASE Crash
  <2>1. \A d \in BOOLEAN : [src[tree] EXCEPT !.damaged = d] \in SourceTree
    BY <1>2 DEF SourceTree
  <2> QED
    BY <1>3, <1>16, <2>1 DEF Crash
<1>17. CASE UNCHANGED src
  BY <1>1, <1>17
<1>18. \/ DownloadBegin \/ DownloadEnd \/ DownloadFail \/ GitRevisionFail
       \/ DecompressBegin \/ DecompressEnd \/ SetDecompressed
       \/ ApplyPatchBegin \/ ApplyPatchEnd \/ SetPatched
       \/ Erode \/ WipeEnd \/ CleanSrcEnd \/ Crash \/ UNCHANGED src
  BY DEF Next, Recipe, Download, DownloadPatch, Decompress, ApplyPatch, MakeInstall, PostInstall,
         Cleanup, Configure, Install, Clean, DownloadSkip, DownloadPatchSkip, DownloadPatchBegin,
         DownloadPatchEnd, DownloadPatchFail, DecompressSkip, DecompressFail, ApplyPatchSkip,
         MakeFail, MakeEnd, InstallEnd, InstallFail, SetInstalled, TruncateKconfig, GenKconfig,
         WipeSkip, WipeBegin, CleanFilesBegin, CleanFilesEnd, CleanCheckout, CleanSrcBegin,
         CleanStateBegin, CleanStateEnd, disk
<1> QED
  BY <1>4, <1>5, <1>6, <1>7, <1>8, <1>9, <1>10, <1>11, <1>12, <1>13, <1>14, <1>15, <1>16,
     <1>17, <1>18

(* ... and the steps that write in the sysroot.                            *)
LEMMA SysrootType ==
  ASSUME TypeOK, cfg # None, Next
  PROVE  sysroot' \in Content
<1>1. cfg \in Configs /\ src[tree] \in SourceTree /\ sysroot \in Content
  BY DEF TypeOK, tree, Trees, Configs
<1>2. CASE MakeEnd \/ InstallEnd
  <2>1. \A w \in BOOLEAN : Installation(w, cfg, src[tree]) \in Content
    BY <1>1 DEF Installation, SourceTree, Content
  <2>2. PICK w \in BOOLEAN : sysroot' = Installation(w, cfg, src[tree])
    BY <1>2, Zenon DEF MakeEnd, InstallEnd
  <2> QED
    BY <2>1, <2>2
<1>3. CASE CleanFilesBegin
  <2>1. [sysroot EXCEPT !.whole = FALSE] \in Content
    BY <1>1 DEF Content
  <2> QED
    BY <1>3, <2>1 DEF CleanFilesBegin
<1>4. CASE CleanFilesEnd
  BY <1>4 DEF CleanFilesEnd, Nothing, NoTree, Installation, Content
<1>5. CASE UNCHANGED sysroot
  BY <1>1, <1>5
<1>6. MakeEnd \/ InstallEnd \/ CleanFilesBegin \/ CleanFilesEnd \/ UNCHANGED sysroot
  BY DEF Next, Recipe, Download, DownloadPatch, Decompress, ApplyPatch,
      MakeInstall, PostInstall, Cleanup, Configure, Install, Clean,
      DownloadSkip, DownloadBegin, DownloadEnd, DownloadFail, GitRevisionFail,
      DownloadPatchSkip, DownloadPatchBegin, DownloadPatchEnd,
      DownloadPatchFail, DecompressSkip, DecompressBegin, DecompressEnd,
      DecompressFail, SetDecompressed, ApplyPatchSkip, ApplyPatchBegin,
      ApplyPatchEnd, SetPatched, MakeFail, InstallFail, SetInstalled,
      TruncateKconfig, GenKconfig, WipeSkip, WipeBegin, WipeEnd, CleanCheckout,
      CleanSrcBegin, CleanSrcEnd, CleanStateBegin, CleanStateEnd, Crash, disk
<1> QED
  BY <1>2, <1>3, <1>4, <1>5, <1>6

(* The type invariant: every step keeps it.                                *)
LEMMA TypeStep == TypeOK /\ [Next]_vars => TypeOK'
<1> SUFFICES ASSUME TypeOK, [Next]_vars PROVE TypeOK'
  OBVIOUS
<1>a. ASSUME cfg # None
      PROVE  cfg \in Configs /\ cfg.ver \in Versions
  BY <1>a DEF TypeOK, Configs
<1>b. ASSUME Next PROVE src' \in [Trees -> SourceTree] /\ sysroot' \in Content
  <2>1. CASE cfg # None
    BY <1>b, <2>1, SourceType, SysrootType
  <2>2. CASE cfg = None
    BY <1>b, <2>2 DEF TypeOK, Next, Recipe, Download, DownloadPatch,
        Decompress, ApplyPatch, MakeInstall, PostInstall, Cleanup, Configure,
        Install, Clean, DownloadSkip, DownloadBegin, DownloadEnd, DownloadFail,
        GitRevisionFail, DownloadPatchSkip, DownloadPatchBegin,
        DownloadPatchEnd, DownloadPatchFail, DecompressSkip, DecompressBegin,
        DecompressEnd, DecompressFail, SetDecompressed, ApplyPatchSkip,
        ApplyPatchBegin, ApplyPatchEnd, SetPatched, MakeFail, MakeEnd,
        InstallEnd, InstallFail, SetInstalled, TruncateKconfig, GenKconfig,
        WipeSkip, WipeBegin, WipeEnd, CleanFilesBegin, CleanFilesEnd,
        CleanCheckout, CleanSrcBegin, CleanSrcEnd, CleanStateBegin,
        CleanStateEnd, Crash, disk
  <2> QED
    BY <2>1, <2>2
<1> USE DEF TypeOK, Installing, Cleaning
<1>1. CASE Configure
  <2>1. src' \in [Trees -> SourceTree] /\ sysroot' \in Content
    BY <1>b, <1>1 DEF Next
  <2> QED
    BY <1>a, <1>1, <2>1 DEF Configure, disk
<1>2. CASE Install
  <2>1. src' \in [Trees -> SourceTree] /\ sysroot' \in Content
    BY <1>b, <1>2 DEF Next
  <2> QED
    BY <1>a, <1>2, <2>1 DEF Install, disk
<1>3. CASE Clean
  <2>1. src' \in [Trees -> SourceTree] /\ sysroot' \in Content
    BY <1>b, <1>3 DEF Next
  <2> QED
    BY <1>a, <1>3, <2>1 DEF Clean, disk
<1>4. CASE DownloadSkip
  <2>1. src' \in [Trees -> SourceTree] /\ sysroot' \in Content
    BY <1>b, <1>4 DEF Next, Recipe, Download
  <2> QED
    BY <1>a, <1>4, <2>1 DEF DownloadSkip, Go, disk
<1>5. CASE DownloadBegin
  <2>1. src' \in [Trees -> SourceTree] /\ sysroot' \in Content
    BY <1>b, <1>5 DEF Next, Recipe, Download
  <2> QED
    BY <1>a, <1>5, <2>1 DEF DownloadBegin, Go, File
<1>6. CASE DownloadEnd
  <2>1. src' \in [Trees -> SourceTree] /\ sysroot' \in Content
    BY <1>b, <1>6 DEF Next, Recipe, Download
  <2> QED
    BY <1>a, <1>6, <2>1 DEF DownloadEnd, Go, File
<1>7. CASE DownloadFail
  <2>1. src' \in [Trees -> SourceTree] /\ sysroot' \in Content
    BY <1>b, <1>7 DEF Next, Recipe, Download
  <2>2. Kind[cfg.ver] \in {"tarball", "svn", "git"}
    BY <1>a, <1>7 DEF DownloadFail
  <2>3. package_f' = package_f \/ package_f' = [package_f EXCEPT ![cfg.ver] = "absent"]
    BY <1>7, <2>2 DEF DownloadFail
  <2>4. package_f' \in [Versions -> File]
    BY <1>a, <1>7, <2>3 DEF DownloadFail, File
  <2> QED
    BY <1>7, <2>1, <2>4 DEF DownloadFail, Stop
<1>8. CASE GitRevisionFail
  <2>1. src' \in [Trees -> SourceTree] /\ sysroot' \in Content
    BY <1>b, <1>8 DEF Next, Recipe, Download
  <2> QED
    BY <1>a, <1>8, <2>1 DEF GitRevisionFail, Stop
<1>9. CASE DownloadPatchSkip
  <2>1. src' \in [Trees -> SourceTree] /\ sysroot' \in Content
    BY <1>b, <1>9 DEF Next, Recipe, DownloadPatch
  <2> QED
    BY <1>a, <1>9, <2>1 DEF DownloadPatchSkip, Go, disk, afterdownload
<1>10. CASE DownloadPatchBegin
  <2>1. src' \in [Trees -> SourceTree] /\ sysroot' \in Content
    BY <1>b, <1>10 DEF Next, Recipe, DownloadPatch
  <2> QED
    BY <1>a, <1>10, <2>1 DEF DownloadPatchBegin, Go, File
<1>11. CASE DownloadPatchEnd
  <2>1. src' \in [Trees -> SourceTree] /\ sysroot' \in Content
    BY <1>b, <1>11 DEF Next, Recipe, DownloadPatch
  <2> QED
    BY <1>a, <1>11, <2>1 DEF DownloadPatchEnd, Go, File, afterdownload
<1>12. CASE DownloadPatchFail
  <2>1. src' \in [Trees -> SourceTree] /\ sysroot' \in Content
    BY <1>b, <1>12 DEF Next, Recipe, DownloadPatch
  <2> QED
    BY <1>a, <1>12, <2>1 DEF DownloadPatchFail, Stop, File
<1>13. CASE DecompressSkip
  <2>1. src' \in [Trees -> SourceTree] /\ sysroot' \in Content
    BY <1>b, <1>13 DEF Next, Recipe, Decompress
  <2> QED
    BY <1>a, <1>13, <2>1 DEF DecompressSkip, Go, disk
<1>14. CASE DecompressBegin
  <2>1. src' \in [Trees -> SourceTree] /\ sysroot' \in Content
    BY <1>b, <1>14 DEF Next, Recipe, Decompress
  <2> QED
    BY <1>a, <1>14, <2>1 DEF DecompressBegin, Go
<1>15. CASE DecompressEnd
  <2>1. src' \in [Trees -> SourceTree] /\ sysroot' \in Content
    BY <1>b, <1>15 DEF Next, Recipe, Decompress
  <2> QED
    BY <1>a, <1>15, <2>1 DEF DecompressEnd, Go
<1>16. CASE DecompressFail
  <2>1. src' \in [Trees -> SourceTree] /\ sysroot' \in Content
    BY <1>b, <1>16 DEF Next, Recipe, Decompress
  <2> QED
    BY <1>a, <1>16, <2>1 DEF DecompressFail, Stop, disk
<1>17. CASE SetDecompressed
  <2>1. src' \in [Trees -> SourceTree] /\ sysroot' \in Content
    BY <1>b, <1>17 DEF Next, Recipe, Decompress
  <2> QED
    BY <1>a, <1>17, <2>1 DEF SetDecompressed, Go
<1>18. CASE ApplyPatchSkip
  <2>1. src' \in [Trees -> SourceTree] /\ sysroot' \in Content
    BY <1>b, <1>18 DEF Next, Recipe, ApplyPatch
  <2> QED
    BY <1>a, <1>18, <2>1 DEF ApplyPatchSkip, Go, disk
<1>19. CASE ApplyPatchBegin
  <2>1. src' \in [Trees -> SourceTree] /\ sysroot' \in Content
    BY <1>b, <1>19 DEF Next, Recipe, ApplyPatch
  <2> QED
    BY <1>a, <1>19, <2>1 DEF ApplyPatchBegin, Go
<1>20. CASE ApplyPatchEnd
  <2>1. src' \in [Trees -> SourceTree] /\ sysroot' \in Content
    BY <1>b, <1>20 DEF Next, Recipe, ApplyPatch
  <2> QED
    BY <1>a, <1>20, <2>1 DEF ApplyPatchEnd, Go
<1>21. CASE SetPatched
  <2>1. src' \in [Trees -> SourceTree] /\ sysroot' \in Content
    BY <1>b, <1>21 DEF Next, Recipe, ApplyPatch
  <2> QED
    BY <1>a, <1>21, <2>1 DEF SetPatched, Go
<1>22. CASE MakeFail
  <2>1. src' \in [Trees -> SourceTree] /\ sysroot' \in Content
    BY <1>b, <1>22 DEF Next, Recipe, MakeInstall
  <2> QED
    BY <1>a, <1>22, <2>1 DEF MakeFail, Stop, disk
<1>23. CASE MakeEnd
  <2>1. src' \in [Trees -> SourceTree] /\ sysroot' \in Content
    BY <1>b, <1>23 DEF Next, Recipe, MakeInstall
  <2> QED
    BY <1>a, <1>23, <2>1 DEF MakeEnd, Go
<1>24. CASE InstallEnd
  <2>1. src' \in [Trees -> SourceTree] /\ sysroot' \in Content
    BY <1>b, <1>24 DEF Next, Recipe, MakeInstall
  <2> QED
    BY <1>a, <1>24, <2>1 DEF InstallEnd, Go
<1>25. CASE InstallFail
  <2>1. src' \in [Trees -> SourceTree] /\ sysroot' \in Content
    BY <1>b, <1>25 DEF Next, Recipe, MakeInstall
  <2> QED
    BY <1>a, <1>25, <2>1 DEF InstallFail, Stop, disk
<1>26. CASE SetInstalled
  <2>1. src' \in [Trees -> SourceTree] /\ sysroot' \in Content
    BY <1>b, <1>26 DEF Next, Recipe, PostInstall
  <2> QED
    BY <1>a, <1>26, <2>1 DEF SetInstalled, Go
<1>27. CASE TruncateKconfig
  <2>1. src' \in [Trees -> SourceTree] /\ sysroot' \in Content
    BY <1>b, <1>27 DEF Next, Recipe, PostInstall
  <2> QED
    BY <1>a, <1>27, <2>1 DEF TruncateKconfig, Go
<1>28. CASE GenKconfig
  <2>1. src' \in [Trees -> SourceTree] /\ sysroot' \in Content
    BY <1>b, <1>28 DEF Next, Recipe, PostInstall
  <2> QED
    BY <1>a, <1>28, <2>1 DEF GenKconfig, Go
<1>29. CASE WipeSkip
  <2>1. src' \in [Trees -> SourceTree] /\ sysroot' \in Content
    BY <1>b, <1>29 DEF Next, Recipe, PostInstall
  <2> QED
    BY <1>a, <1>29, <2>1 DEF WipeSkip, Stop, disk
<1>30. CASE WipeBegin
  <2>1. src' \in [Trees -> SourceTree] /\ sysroot' \in Content
    BY <1>b, <1>30 DEF Next, Recipe, PostInstall
  <2> QED
    BY <1>a, <1>30, <2>1 DEF WipeBegin, Go
<1>31. CASE WipeEnd
  <2>1. src' \in [Trees -> SourceTree] /\ sysroot' \in Content
    BY <1>b, <1>31 DEF Next, Recipe, PostInstall
  <2> QED
    BY <1>a, <1>31, <2>1 DEF WipeEnd, Stop
<1>32. CASE CleanFilesBegin
  <2>1. src' \in [Trees -> SourceTree] /\ sysroot' \in Content
    BY <1>b, <1>32 DEF Next, Recipe, Cleanup
  <2> QED
    BY <1>a, <1>32, <2>1 DEF CleanFilesBegin, Go
<1>33. CASE CleanFilesEnd
  <2>1. src' \in [Trees -> SourceTree] /\ sysroot' \in Content
    BY <1>b, <1>33 DEF Next, Recipe, Cleanup
  <2> QED
    BY <1>a, <1>33, <2>1 DEF CleanFilesEnd, Go
<1>34. CASE CleanCheckout
  <2>1. src' \in [Trees -> SourceTree] /\ sysroot' \in Content
    BY <1>b, <1>34 DEF Next, Recipe, Cleanup
  <2> QED
    BY <1>a, <1>34, <2>1 DEF CleanCheckout, Go
<1>35. CASE CleanSrcBegin
  <2>1. src' \in [Trees -> SourceTree] /\ sysroot' \in Content
    BY <1>b, <1>35 DEF Next, Recipe, Cleanup
  <2> QED
    BY <1>a, <1>35, <2>1 DEF CleanSrcBegin, Go
<1>36. CASE CleanSrcEnd
  <2>1. src' \in [Trees -> SourceTree] /\ sysroot' \in Content
    BY <1>b, <1>36 DEF Next, Recipe, Cleanup
  <2> QED
    BY <1>a, <1>36, <2>1 DEF CleanSrcEnd, Go
<1>37. CASE CleanStateBegin
  <2>1. src' \in [Trees -> SourceTree] /\ sysroot' \in Content
    BY <1>b, <1>37 DEF Next, Recipe, Cleanup
  <2> QED
    BY <1>a, <1>37, <2>1 DEF CleanStateBegin, Go
<1>38. CASE CleanStateEnd
  <2>1. src' \in [Trees -> SourceTree] /\ sysroot' \in Content
    BY <1>b, <1>38 DEF Next, Recipe, Cleanup
  <2> QED
    BY <1>a, <1>38, <2>1 DEF CleanStateEnd, Stop
<1>39. CASE Crash
  <2>1. src' \in [Trees -> SourceTree] /\ sysroot' \in Content
    BY <1>b, <1>39 DEF Next
  <2> QED
    BY <1>a, <1>39, <2>1 DEF Crash, Stop
<1>40. CASE UNCHANGED vars
  BY <1>40 DEF vars
<1> QED
  BY <1>1, <1>2, <1>3, <1>4, <1>5, <1>6, <1>7, <1>8, <1>9, <1>10, <1>11, <1>12,
      <1>13, <1>14, <1>15, <1>16, <1>17, <1>18, <1>19, <1>20, <1>21, <1>22,
      <1>23, <1>24, <1>25, <1>26, <1>27, <1>28, <1>29, <1>30, <1>31, <1>32,
      <1>33, <1>34, <1>35, <1>36, <1>37, <1>38, <1>39, <1>40 DEF Next, Recipe,
      Download, DownloadPatch, Decompress, ApplyPatch, MakeInstall,
      PostInstall, Cleanup

-----------------------------------------------------------------------------
(* While make runs: its configuration, the tree it works on, the kind of   *)
(* source.                                                                 *)
LEMMA Running ==
  ASSUME TypeOK, cfg # None
  PROVE  /\ cfg \in Configs /\ cfg.ver \in Versions
         /\ Kind[cfg.ver] \in {"tarball", "svn", "git"}
         /\ tree \in Trees /\ tree \in DOMAIN src /\ src[tree] \in SourceTree
BY DEF TypeOK, Configs, tree, Trees

(* What the recipe has established at each command stays established.      *)
LEMMA ControlStep == TypeOK /\ ControlInv /\ [Next]_vars => ControlInv'
<1> SUFFICES ASSUME TypeOK, ControlInv, [Next]_vars PROVE ControlInv'
  OBVIOUS
<1>a. cfg # None =>
        /\ cfg.ver \in Versions /\ Kind[cfg.ver] \in {"tarball", "svn", "git"}
        /\ tree \in DOMAIN src /\ src[tree] \in SourceTree
  BY Running
<1>b. pc = "idle" <=> cfg = None
  BY DEF TypeOK
<1> USE DEF ControlInv, compiled, TakenAsIs, tarball, tree
<1>1. CASE pc' \in {"idle", "fetch", "rmfiles", "rmingfiles", "rmsrc", "rmstate", "rmingstate"}
  BY <1>1
<1>2. CASE DownloadSkip
  BY <1>a, <1>b, <1>2 DEF DownloadSkip, Go, disk, fetched
<1>3. CASE DownloadBegin
  BY <1>a, <1>b, <1>3 DEF DownloadBegin, Go, File, InTree, NoTree, fetched,
      SourceTree
<1>4. CASE DownloadEnd
  BY <1>a, <1>b, <1>4 DEF DownloadEnd, Go, File, InTree, SourceTree
<1>5. CASE DownloadPatchSkip
  BY <1>a, <1>b, <1>5 DEF DownloadPatchSkip, Go, disk, afterdownload
<1>6. CASE DownloadPatchBegin
  BY <1>a, <1>b, <1>6 DEF DownloadPatchBegin, Go, File
<1>7. CASE DownloadPatchEnd
  BY <1>a, <1>b, <1>7 DEF DownloadPatchEnd, Go, File, afterdownload
<1>8. CASE DecompressSkip
  BY <1>a, <1>b, <1>8 DEF DecompressSkip, Go, disk
<1>9. CASE DecompressBegin
  <2>1. PICK p : InTree([src[tree] EXCEPT !.body = "partial", !.rev = cfg.ver, !.patch = p])
    BY <1>9, Zenon DEF DecompressBegin
  <2> QED
    BY <1>a, <1>b, <1>9, <2>1 DEF DecompressBegin, Go, InTree, SourceTree
<1>10. CASE DecompressEnd
  BY <1>a, <1>b, <1>10 DEF DecompressEnd, Go, InTree, SourceTree
<1>11. CASE SetDecompressed
  BY <1>a, <1>b, <1>11 DEF SetDecompressed, Go, InTree, SourceTree
<1>12. CASE ApplyPatchSkip
  BY <1>a, <1>b, <1>12 DEF ApplyPatchSkip, Go, disk, topatch
<1>13. CASE ApplyPatchBegin
  BY <1>a, <1>b, <1>13 DEF ApplyPatchBegin, Go, InTree, topatch, SourceTree
<1>14. CASE ApplyPatchEnd
  BY <1>a, <1>b, <1>14 DEF ApplyPatchEnd, Go, InTree, SourceTree
<1>15. CASE SetPatched
  BY <1>a, <1>b, <1>15 DEF SetPatched, Go, InTree, SourceTree
<1>16. CASE MakeEnd
  BY <1>a, <1>b, <1>16 DEF MakeEnd, Go
<1>17. CASE InstallEnd
  BY <1>a, <1>b, <1>17 DEF InstallEnd, Go
<1>18. CASE SetInstalled
  BY <1>a, <1>b, <1>18 DEF SetInstalled, Go
<1>19. CASE TruncateKconfig
  BY <1>a, <1>b, <1>19 DEF TruncateKconfig, Go
<1>20. CASE GenKconfig
  BY <1>a, <1>b, <1>20 DEF GenKconfig, Go
<1>21. CASE WipeBegin
  BY <1>a, <1>b, <1>21 DEF WipeBegin, Go, Erode, InTree, SourceTree
<1>22. CASE CleanSrcBegin
  BY <1>a, <1>b, <1>22 DEF CleanSrcBegin, Go, Erode, InTree, SourceTree
<1>23. CASE UNCHANGED vars
  BY <1>23 DEF vars
<1>24. ASSUME Configure \/ Install \/ Clean \/ DownloadFail \/ GitRevisionFail
           \/ DownloadPatchFail \/ DecompressFail \/ MakeFail \/ InstallFail
           \/ WipeSkip \/ WipeEnd \/ CleanFilesBegin \/ CleanFilesEnd
           \/ CleanCheckout \/ CleanSrcEnd \/ CleanStateBegin \/ CleanStateEnd
           \/ Crash
      PROVE  pc' \in {"idle", "fetch", "rmfiles", "rmingfiles", "rmsrc", "rmstate", "rmingstate"}
  BY <1>24 DEF Configure, Install, Clean, DownloadFail, GitRevisionFail,
      DownloadPatchFail, DecompressFail, MakeFail, InstallFail, WipeSkip,
      WipeEnd, CleanFilesBegin, CleanFilesEnd, CleanCheckout, CleanSrcEnd,
      CleanStateBegin, CleanStateEnd, Crash, Go, Stop
<1> QED
  BY <1>1, <1>2, <1>3, <1>4, <1>5, <1>6, <1>7, <1>8, <1>9, <1>10, <1>11, <1>12,
      <1>13, <1>14, <1>15, <1>16, <1>17, <1>18, <1>19, <1>20, <1>21, <1>22,
      <1>23, <1>24 DEF Next, Recipe, Download, DownloadPatch, Decompress,
      ApplyPatch, MakeInstall, PostInstall, Cleanup

(* The tree the recipe works on goes through the shapes of Shape and comes *)
(* out settled, or damaged; the other trees do not change.                 *)
LEMMA SourceStep ==
  ASSUME TypeOK, ControlInv, SourceInv, [Next]_vars
  PROVE  SourceInv'
<1> SUFFICES ASSUME NEW v \in Versions PROVE TreeInv(src[Tree[v]], v)'
  BY DEF SourceInv
<1>a. cfg # None =>
        /\ cfg.ver \in Versions /\ Kind[cfg.ver] \in {"tarball", "svn", "git"}
        /\ tree \in DOMAIN src /\ src[tree] \in SourceTree
  BY Running
<1>b. /\ src[Tree[v]] \in SourceTree /\ Tree[v] \in DOMAIN src
      /\ Kind[v] \in {"tarball", "svn", "git"}
  BY DEF TypeOK, Trees
<1>c. TreeInv(src[Tree[v]], v)
  BY DEF SourceInv
<1>d. pc = "idle" <=> cfg = None
  BY DEF TypeOK
<1>e. ASSUME cfg # None, Tree[v] = tree
      PROVE  /\ Kind[cfg.ver] = Kind[v] /\ (v \in NeedPatch <=> cfg.ver \in NeedPatch)
             /\ tarball => v = cfg.ver
  BY <1>a, <1>e DEF tree, tarball
<1> USE DEF TreeInv, Midway, Shape, Settled, RightFor, PatchState
<1> DEFINE midway == {"fetching", "patch", "patching", "markpatch", "wiping", "rmingsrc"}
<1>1. CASE UNCHANGED src /\ pc \notin midway /\ pc' \notin midway
  BY <1>c, <1>1
<1>2. CASE UNCHANGED vars
  BY <1>c, <1>2 DEF vars
<1>3. CASE DownloadBegin
  <2>1. CASE cfg # None /\ Tree[v] = tree
    <3>1. CASE tarball
      BY <1>a, <1>b, <1>c, <1>d, <1>e, <1>3, <2>1, <3>1 DEF DownloadBegin, Go,
          InTree, NoTree, fetched, tarball, tree, SourceTree, ControlInv,
          compiled, TakenAsIs
    <3>2. CASE ~tarball
      <4>1. src'[Tree[v]] = [NoTree EXCEPT !.body = "partial", !.rev = cfg.ver]
        BY <1>b, <1>3, <2>1, <3>2 DEF DownloadBegin, InTree
      <4>2. /\ src'[Tree[v]].body = "partial" /\ src'[Tree[v]].patch = "no"
            /\ ~src'[Tree[v]].patched
        BY <4>1, Zenon DEF NoTree
      <4>3. pc' = "fetching" /\ cfg' = cfg /\ Kind[v] # "tarball" /\ Tree[cfg.ver] = Tree[v]
        BY <1>e, <1>3, <2>1, <3>2 DEF DownloadBegin, Go, tarball, tree
      <4> QED
        BY <2>1, <4>2, <4>3
    <3> QED
      BY <3>1, <3>2
  <2>2. CASE cfg = None \/ Tree[v] # tree
    BY <1>a, <1>b, <1>c, <1>d, <1>3, <2>2 DEF DownloadBegin, Go, InTree, tree
  <2> QED
    BY <2>1, <2>2
<1>4. CASE DownloadEnd
  <2>1. CASE cfg # None /\ Tree[v] = tree
    BY <1>a, <1>b, <1>c, <1>d, <1>e, <1>4, <2>1 DEF DownloadEnd, Go, InTree,
        tarball, tree, SourceTree, ControlInv, compiled, TakenAsIs
  <2>2. CASE cfg = None \/ Tree[v] # tree
    BY <1>a, <1>b, <1>c, <1>d, <1>4, <2>2 DEF DownloadEnd, Go, InTree, tree
  <2> QED
    BY <2>1, <2>2
<1>5. CASE DownloadFail
  <2>1. CASE cfg # None /\ Tree[v] = tree
    <3>1. CASE tarball
      BY <1>a, <1>b, <1>c, <1>d, <1>e, <1>5, <2>1, <3>1 DEF DownloadFail, Stop,
          InTree, NoTree, tarball, tree, SourceTree, ControlInv, compiled,
          TakenAsIs
    <3>2. CASE Kind[cfg.ver] = "svn"
      BY <1>a, <1>b, <1>c, <1>d, <1>e, <1>5, <2>1, <3>2 DEF DownloadFail, Stop,
          InTree, NoTree, tarball, tree, SourceTree, ControlInv, compiled,
          TakenAsIs
    <3>3. CASE Kind[cfg.ver] = "git"
      BY <1>a, <1>b, <1>c, <1>d, <1>e, <1>5, <2>1, <3>3 DEF DownloadFail, Stop,
          InTree, NoTree, tarball, tree, SourceTree, ControlInv, compiled,
          TakenAsIs
    <3> QED
      BY <1>a, <2>1, <3>1, <3>2, <3>3 DEF tarball
  <2>2. CASE cfg = None \/ Tree[v] # tree
    <3>1. UNCHANGED src \/ \E t : InTree(t)
      BY <1>a, <1>d, <1>5 DEF DownloadFail
    <3> QED
      BY <1>a, <1>b, <1>c, <1>d, <1>5, <2>2, <3>1 DEF DownloadFail, Stop,
          InTree, tree
  <2> QED
    BY <2>1, <2>2
<1>6. CASE GitRevisionFail
  <2>1. CASE cfg # None /\ Tree[v] = tree
    <3>1. PICK w \in Versions : InTree([src[tree] EXCEPT !.body = "whole", !.rev = w])
      BY <1>6, Zenon DEF GitRevisionFail
    <3> QED
      BY <1>a, <1>b, <1>c, <1>d, <1>e, <1>6, <2>1, <3>1 DEF GitRevisionFail,
          Stop, InTree, tarball, tree, SourceTree, ControlInv, compiled,
          TakenAsIs
  <2>2. CASE cfg = None \/ Tree[v] # tree
    <3>1. PICK t : InTree(t)
      BY <1>6, Zenon DEF GitRevisionFail
    <3> QED
      BY <1>a, <1>b, <1>c, <1>d, <1>6, <2>2, <3>1 DEF GitRevisionFail, Stop,
          InTree, tree
  <2> QED
    BY <2>1, <2>2
<1>7. CASE DownloadPatchSkip
  <2>1. CASE cfg # None /\ Tree[v] = tree
    BY <1>a, <1>b, <1>c, <1>d, <1>e, <1>7, <2>1 DEF DownloadPatchSkip, Go,
        disk, afterdownload, tarball, tree, SourceTree, ControlInv, compiled,
        TakenAsIs
  <2>2. CASE cfg = None \/ Tree[v] # tree
    BY <1>a, <1>b, <1>c, <1>d, <1>7, <2>2 DEF DownloadPatchSkip, Go, disk,
        afterdownload, tree
  <2> QED
    BY <2>1, <2>2
<1>8. CASE DownloadPatchEnd
  <2>1. CASE cfg # None /\ Tree[v] = tree
    BY <1>a, <1>b, <1>c, <1>d, <1>e, <1>8, <2>1 DEF DownloadPatchEnd, Go,
        afterdownload, tarball, tree, SourceTree, ControlInv, compiled,
        TakenAsIs
  <2>2. CASE cfg = None \/ Tree[v] # tree
    BY <1>a, <1>b, <1>c, <1>d, <1>8, <2>2 DEF DownloadPatchEnd, Go,
        afterdownload, tree
  <2> QED
    BY <2>1, <2>2
<1>9. CASE DecompressBegin
  <2>1. CASE cfg # None /\ Tree[v] = tree
    <3>1. PICK p \in IF src[tree].patch = "no" THEN {"no"} ELSE {"no", "spoiled"} :
            InTree([src[tree] EXCEPT !.body = "partial", !.rev = cfg.ver, !.patch = p])
      BY <1>9, Zenon DEF DecompressBegin
    <3> QED
      BY <1>a, <1>b, <1>c, <1>d, <1>e, <1>9, <2>1, <3>1 DEF DecompressBegin,
          Go, InTree, tarball, tree, SourceTree, ControlInv, compiled,
          TakenAsIs
  <2>2. CASE cfg = None \/ Tree[v] # tree
    <3>1. PICK t : InTree(t)
      BY <1>9, Zenon DEF DecompressBegin
    <3> QED
      BY <1>a, <1>b, <1>c, <1>d, <1>9, <2>2, <3>1 DEF DecompressBegin, Go,
          InTree, tree
  <2> QED
    BY <2>1, <2>2
<1>10. CASE DecompressEnd
  <2>1. CASE cfg # None /\ Tree[v] = tree
    BY <1>a, <1>b, <1>c, <1>d, <1>e, <1>10, <2>1 DEF DecompressEnd, Go, InTree,
        tarball, tree, SourceTree, ControlInv, compiled, TakenAsIs
  <2>2. CASE cfg = None \/ Tree[v] # tree
    BY <1>a, <1>b, <1>c, <1>d, <1>10, <2>2 DEF DecompressEnd, Go, InTree, tree
  <2> QED
    BY <2>1, <2>2
<1>11. CASE SetDecompressed
  <2>1. CASE cfg # None /\ Tree[v] = tree
    BY <1>a, <1>b, <1>c, <1>d, <1>e, <1>11, <2>1 DEF SetDecompressed, Go,
        InTree, tarball, tree, SourceTree, ControlInv, compiled, TakenAsIs
  <2>2. CASE cfg = None \/ Tree[v] # tree
    BY <1>a, <1>b, <1>c, <1>d, <1>11, <2>2 DEF SetDecompressed, Go, InTree,
        tree
  <2> QED
    BY <2>1, <2>2
<1>12. CASE ApplyPatchSkip
  <2>1. CASE cfg # None /\ Tree[v] = tree
    BY <1>a, <1>b, <1>c, <1>d, <1>e, <1>12, <2>1 DEF ApplyPatchSkip, Go, disk,
        topatch, tarball, tree, SourceTree, ControlInv, compiled, TakenAsIs
  <2>2. CASE cfg = None \/ Tree[v] # tree
    BY <1>a, <1>b, <1>c, <1>d, <1>12, <2>2 DEF ApplyPatchSkip, Go, disk, tree
  <2> QED
    BY <2>1, <2>2
<1>13. CASE ApplyPatchBegin
  <2>1. CASE cfg # None /\ Tree[v] = tree
    BY <1>a, <1>b, <1>c, <1>d, <1>e, <1>13, <2>1 DEF ApplyPatchBegin, Go,
        InTree, topatch, tarball, tree, SourceTree, ControlInv, compiled,
        TakenAsIs
  <2>2. CASE cfg = None \/ Tree[v] # tree
    BY <1>a, <1>b, <1>c, <1>d, <1>13, <2>2 DEF ApplyPatchBegin, Go, InTree,
        tree
  <2> QED
    BY <2>1, <2>2
<1>14. CASE ApplyPatchEnd
  <2>1. CASE cfg # None /\ Tree[v] = tree
    BY <1>a, <1>b, <1>c, <1>d, <1>e, <1>14, <2>1 DEF ApplyPatchEnd, Go, InTree,
        patchable, tarball, tree, SourceTree, ControlInv, compiled, TakenAsIs
  <2>2. CASE cfg = None \/ Tree[v] # tree
    BY <1>a, <1>b, <1>c, <1>d, <1>14, <2>2 DEF ApplyPatchEnd, Go, InTree, tree
  <2> QED
    BY <2>1, <2>2
<1>15. CASE SetPatched
  <2>1. CASE cfg # None /\ Tree[v] = tree
    BY <1>a, <1>b, <1>c, <1>d, <1>e, <1>15, <2>1 DEF SetPatched, Go, InTree,
        tarball, tree, SourceTree, ControlInv, compiled, TakenAsIs
  <2>2. CASE cfg = None \/ Tree[v] # tree
    BY <1>a, <1>b, <1>c, <1>d, <1>15, <2>2 DEF SetPatched, Go, InTree, tree
  <2> QED
    BY <2>1, <2>2
<1>16. CASE WipeBegin
  <2>1. CASE cfg # None /\ Tree[v] = tree
    BY <1>a, <1>b, <1>c, <1>d, <1>e, <1>16, <2>1 DEF WipeBegin, Go, InTree,
        Erode, tarball, tree, SourceTree, ControlInv, compiled, TakenAsIs
  <2>2. CASE cfg = None \/ Tree[v] # tree
    BY <1>a, <1>b, <1>c, <1>d, <1>16, <2>2 DEF WipeBegin, Go, InTree, Erode,
        tree
  <2> QED
    BY <2>1, <2>2
<1>17. CASE WipeEnd
  <2>1. CASE cfg # None /\ Tree[v] = tree
    BY <1>a, <1>b, <1>c, <1>d, <1>e, <1>17, <2>1 DEF WipeEnd, Stop, InTree,
        NoTree, tarball, tree, SourceTree, ControlInv, compiled, TakenAsIs
  <2>2. CASE cfg = None \/ Tree[v] # tree
    BY <1>a, <1>b, <1>c, <1>d, <1>17, <2>2 DEF WipeEnd, Stop, InTree, tree
  <2> QED
    BY <2>1, <2>2
<1>18. CASE CleanSrcBegin
  <2>1. CASE cfg # None /\ Tree[v] = tree
    BY <1>a, <1>b, <1>c, <1>d, <1>e, <1>18, <2>1 DEF CleanSrcBegin, Go, InTree,
        Erode, tarball, tree, SourceTree, ControlInv, compiled, TakenAsIs
  <2>2. CASE cfg = None \/ Tree[v] # tree
    BY <1>a, <1>b, <1>c, <1>d, <1>18, <2>2 DEF CleanSrcBegin, Go, InTree,
        Erode, tree
  <2> QED
    BY <2>1, <2>2
<1>19. CASE CleanSrcEnd
  <2>1. CASE cfg # None /\ Tree[v] = tree
    BY <1>a, <1>b, <1>c, <1>d, <1>e, <1>19, <2>1 DEF CleanSrcEnd, Go, InTree,
        NoTree, tarball, tree, SourceTree, ControlInv, compiled, TakenAsIs
  <2>2. CASE cfg = None \/ Tree[v] # tree
    BY <1>a, <1>b, <1>c, <1>d, <1>19, <2>2 DEF CleanSrcEnd, Go, InTree, tree
  <2> QED
    BY <2>1, <2>2
<1>20. CASE Crash
  <2>1. CASE cfg # None /\ Tree[v] = tree
    BY <1>a, <1>b, <1>c, <1>d, <1>e, <1>20, <2>1, ZenonT(40) DEF Crash, Stop, InTree,
        crashdamages, topatch, tarball, tree, SourceTree, ControlInv, compiled,
        TakenAsIs
  <2>2. CASE cfg = None \/ Tree[v] # tree
    BY <1>a, <1>b, <1>c, <1>d, <1>20, <2>2 DEF Crash, Stop, InTree, tree
  <2> QED
    BY <2>1, <2>2
<1>21. ASSUME Configure \/ Install \/ Clean \/ DownloadSkip
           \/ DownloadPatchBegin \/ DownloadPatchFail \/ DecompressSkip \/ DecompressFail
           \/ MakeFail \/ MakeEnd \/ InstallEnd \/ InstallFail
           \/ SetInstalled \/ TruncateKconfig \/ GenKconfig \/ WipeSkip
           \/ CleanFilesBegin \/ CleanFilesEnd \/ CleanCheckout \/ CleanStateBegin
           \/ CleanStateEnd
      PROVE  UNCHANGED src /\ pc \notin midway /\ pc' \notin midway
  BY <1>21 DEF Configure, Install, Clean, DownloadSkip, DownloadPatchBegin,
      DownloadPatchFail, DecompressSkip, DecompressFail, MakeFail, MakeEnd,
      InstallEnd, InstallFail, SetInstalled, TruncateKconfig, GenKconfig,
      WipeSkip, CleanFilesBegin, CleanFilesEnd, CleanCheckout, CleanStateBegin,
      CleanStateEnd, Go, Stop, disk
<1> QED
  BY <1>1, <1>2, <1>3, <1>4, <1>5, <1>6, <1>7, <1>8, <1>9, <1>10, <1>11, <1>12,
      <1>13, <1>14, <1>15, <1>16, <1>17, <1>18, <1>19, <1>20, <1>21 DEF Next,
      Recipe, Download, DownloadPatch, Decompress, ApplyPatch, MakeInstall,
      PostInstall, Cleanup

(* The tree a package is compiled from is the right one, or damaged.       *)
LEMMA RightToBuild ==
  ASSUME IInv, pc \in {"make", "installing"}, ~src[tree].damaged
  PROVE  RightFor(src[tree], cfg.ver)
<1>1. cfg # None
  BY DEF IInv, TypeOK
<1>2. cfg.ver \in Versions /\ Kind[cfg.ver] \in {"tarball", "svn", "git"}
      /\ src[tree] \in SourceTree
  BY <1>1, Running DEF IInv
<1>3. TreeInv(src[tree], cfg.ver) /\ ~Midway(cfg.ver)
  BY <1>2 DEF IInv, SourceInv, tree, Midway
<1>4. TakenAsIs(cfg.ver)
  BY DEF IInv, ControlInv, compiled
<1> QED
  BY <1>2, <1>3, <1>4 DEF TreeInv, Settled, TakenAsIs, RightFor, PatchState, tree, SourceTree

(* What is recorded as installed is what was installed: make install ends  *)
(* before the record is written, and nothing alters the sysroot under a    *)
(* record without setting cut if it is interrupted.                        *)
LEMMA SysrootStep == IInv /\ [Next]_vars => SysrootInv'
<1> SUFFICES ASSUME IInv, [Next]_vars PROVE SysrootInv'
  OBVIOUS
<1>a. cfg # None =>
        cfg \in Configs /\ cfg.ver \in Versions /\ src[tree] \in SourceTree
  BY Running DEF IInv
<1>b. pc = "idle" <=> cfg = None
  BY DEF IInv, TypeOK
<1>c. SysrootInv
  BY DEF IInv
<1> USE DEF SysrootInv, behind, Installed, RightFor, PatchState
<1> DEFINE apart == behind
<1>1. CASE UNCHANGED <<installed, okconfigs, sysroot, cut>> /\ pc \notin apart /\ pc' \notin apart
  BY <1>c, <1>1
<1>2. CASE UNCHANGED vars
  BY <1>c, <1>2 DEF vars
<1>3. CASE MakeEnd
  BY <1>a, <1>b, <1>c, <1>3 DEF MakeEnd, Go
<1>4. CASE InstallEnd
  <2>1. PICK w \in BOOLEAN : (w \/ MultiDirs) /\ sysroot' = Installation(w, cfg, src[tree])
    BY <1>4, Zenon DEF InstallEnd
  <2>2. ~src[tree].damaged => RightFor(src[tree], cfg.ver)
    BY <1>4, RightToBuild DEF InstallEnd
  <2> QED
    BY <1>a, <1>b, <1>4, <2>1, <2>2 DEF InstallEnd, Go, Installation
<1>5. CASE InstallFail
  BY <1>a, <1>b, <1>c, <1>5 DEF InstallFail, Stop, disk
<1>6. CASE SetInstalled
  BY <1>a, <1>b, <1>c, <1>6 DEF SetInstalled, Go
<1>7. CASE TruncateKconfig
  BY <1>a, <1>b, <1>c, <1>7 DEF TruncateKconfig, Go
<1>8. CASE GenKconfig
  BY <1>a, <1>b, <1>c, <1>8 DEF GenKconfig, Go
<1>9. CASE CleanFilesBegin
  BY <1>a, <1>b, <1>c, <1>9 DEF CleanFilesBegin, Go
<1>10. CASE CleanFilesEnd
  BY <1>a, <1>b, <1>c, <1>10 DEF CleanFilesEnd, Go
<1>11. CASE CleanCheckout
  BY <1>a, <1>b, <1>c, <1>11 DEF CleanCheckout, Go
<1>12. CASE CleanSrcBegin
  BY <1>a, <1>b, <1>c, <1>12 DEF CleanSrcBegin, Go
<1>13. CASE CleanSrcEnd
  BY <1>a, <1>b, <1>c, <1>13 DEF CleanSrcEnd, Go
<1>14. CASE CleanStateBegin
  BY <1>a, <1>b, <1>c, <1>14 DEF CleanStateBegin, Go
<1>15. CASE CleanStateEnd
  BY <1>a, <1>b, <1>c, <1>15 DEF CleanStateEnd, Stop
<1>16. CASE Crash
  BY <1>a, <1>b, <1>c, <1>16 DEF Crash, Stop
<1>17. ASSUME Configure \/ Install \/ Clean \/ DownloadSkip
           \/ DownloadBegin \/ DownloadEnd \/ DownloadFail \/ GitRevisionFail
           \/ DownloadPatchSkip \/ DownloadPatchBegin \/ DownloadPatchEnd \/ DownloadPatchFail
           \/ DecompressSkip \/ DecompressBegin \/ DecompressEnd \/ DecompressFail
           \/ SetDecompressed \/ ApplyPatchSkip \/ ApplyPatchBegin \/ ApplyPatchEnd
           \/ SetPatched \/ MakeFail \/ WipeSkip \/ WipeBegin
           \/ WipeEnd
      PROVE  UNCHANGED <<installed, okconfigs, sysroot, cut>> /\ pc \notin apart /\ pc' \notin apart
  <2>1. Kind[cfg.ver] \in {"tarball", "svn", "git"} \/ cfg = None
    BY Running DEF IInv
  <2> QED
    BY <1>b, <1>17, <2>1 DEF Configure, Install, Clean, DownloadSkip,
        DownloadBegin, DownloadEnd, DownloadFail, GitRevisionFail,
        DownloadPatchSkip, DownloadPatchBegin, DownloadPatchEnd,
        DownloadPatchFail, DecompressSkip, DecompressBegin, DecompressEnd,
        DecompressFail, SetDecompressed, ApplyPatchSkip, ApplyPatchBegin,
        ApplyPatchEnd, SetPatched, MakeFail, WipeSkip, WipeBegin, WipeEnd, Go,
        Stop, disk, afterdownload
<1> QED
  BY <1>1, <1>2, <1>3, <1>4, <1>5, <1>6, <1>7, <1>8, <1>9, <1>10, <1>11, <1>12,
      <1>13, <1>14, <1>15, <1>16, <1>17 DEF Next, Recipe, Download,
      DownloadPatch, Decompress, ApplyPatch, MakeInstall, PostInstall, Cleanup

-----------------------------------------------------------------------------
(* The invariant holds of an empty disk.                                   *)
LEMMA InitIInv == Init => IInv
<1> SUFFICES ASSUME Init PROVE IInv
  OBVIOUS
<1>1. TypeOK
  BY InitTypeOK
<1>2. \A v \in Versions : src[Tree[v]] = NoTree
  <2> SUFFICES ASSUME NEW v \in Versions PROVE src[Tree[v]] = NoTree
    OBVIOUS
  <2>1. Tree[v] \in Trees
    BY DEF Trees
  <2> QED
    BY <2>1 DEF Init
<1>3. SourceInv
  <2> SUFFICES ASSUME NEW v \in Versions PROVE Settled(NoTree, v) /\ ~Midway(v)
    BY <1>2 DEF SourceInv, TreeInv
  <2> QED
    BY DEF Init, Midway, Settled, NoTree
<1>4. ControlInv /\ SysrootInv
  BY DEF Init, ControlInv, SysrootInv, compiled
<1> QED
  BY <1>1, <1>3, <1>4 DEF IInv

(* No command of the recipes, edit or kill breaks the invariant.           *)
LEMMA StepIInv == IInv /\ [Next]_vars => IInv'
BY TypeStep, ControlStep, SourceStep, SysrootStep DEF IInv

(* Every reachable state satisfies the inductive invariant: what the       *)
(* recipes have established at each of their commands.                     *)
THEOREM Inductive == Spec => []IInv
BY InitIInv, StepIInv, PTL DEF Spec

(* The variables keep their types along every run of the recipes.          *)
THEOREM TypeCorrect == Spec => []TypeOK
<1>1. IInv => TypeOK
  BY DEF IInv
<1> QED
  BY <1>1, Inductive, PTL

(* A tree the next run takes as it is, by its marker files or its mere     *)
(* existence, is complete and patched as configured, unless one of the     *)
(* named accidents happened to it (install.mk:90-103, download.mk:163-207).*)
THEOREM Markers == Spec => []MarkersAreRight
<1>1. IInv => MarkersAreRight
  <2> SUFFICES ASSUME IInv, pc = "idle", NEW v \in Versions,
                      TakenAsIs(v), ~src[Tree[v]].damaged
               PROVE  RightFor(src[Tree[v]], v)
    BY DEF MarkersAreRight
  <2>1. cfg = None /\ src[Tree[v]] \in SourceTree
    BY DEF IInv, TypeOK, Trees
  <2>2. Settled(src[Tree[v]], v)
    BY <2>1 DEF IInv, SourceInv, TreeInv, Midway
  <2>3. Kind[v] \in {"tarball", "svn", "git"} /\ (Kind[v] = "git" => v \notin NeedPatch)
    OBVIOUS
  <2> QED
    BY <2>1, <2>2, <2>3 DEF TakenAsIs, Settled, RightFor, PatchState, SourceTree
<1> QED
  BY <1>1, Inductive, PTL

(* A package that make skips as up to date is installed as configured,     *)
(* from the right source, unless an installation or a cleanup was cut      *)
(* short or its tree had an accident (install.mk:122-127).                 *)
THEOREM Skip == Spec => []SkipIsSound
<1>1. IInv => SkipIsSound
  <2> SUFFICES ASSUME IInv, pc = "idle", ~runrecipe(config), ~cut, ~sysroot.damaged
               PROVE  /\ sysroot.cfg = config
                      /\ sysroot.whole \/ MultiDirs
                      /\ RightFor(sysroot, config.ver)
    BY DEF SkipIsSound
  <2>1. installed /\ okconfigs = config /\ okconfigs # None
    BY DEF runrecipe, IInv, TypeOK
  <2>2. Installed(config)
    BY <2>1 DEF IInv, SysrootInv, behind
  <2> QED
    BY <2>2 DEF Installed
<1> QED
  BY <1>1, Inductive, PTL

-----------------------------------------------------------------------------
(* With one make directory, okconfigs is written only over a complete      *)
(* installation of the configuration it names: the recipes implement the   *)
(* ledger of PkgLedger (install.mk:112-119, 187-193).                      *)
THEOREM Refinement == ASSUME ~MultiDirs PROVE Spec => LedgerSpec
<1> DEFINE built == IF sysroot.whole THEN sysroot.cfg ELSE None
<1>1. Init => Ledger!Init
  BY DEF Init, Ledger!Init, Nothing, Installation
<1>2. IInv /\ [Next]_vars => [Ledger!Next]_(Ledger!ledger)
  <2> SUFFICES ASSUME IInv, [Next]_vars PROVE [Ledger!Next]_(Ledger!ledger)
    OBVIOUS
  <2>1. built' \in Configs \cup {None}
    <3>1. sysroot' \in Content
      BY TypeStep DEF IInv, TypeOK
    <3> QED
      BY <3>1 DEF Content
  <2>2. CASE GenKconfig
    <3>1. Installed(cfg) /\ cfg \in Configs /\ sysroot.whole \in BOOLEAN
      BY <2>2 DEF GenKconfig, IInv, TypeOK, SysrootInv, Content
    <3>2. built = cfg /\ built # None
      BY <3>1, PkgAssumption DEF Installed
    <3>3. okconfigs' = built /\ UNCHANGED built
      BY <2>2, <3>2 DEF GenKconfig
    <3>4. Ledger!Record
      BY <3>2, <3>3 DEF Ledger!Record
    <3> QED
      BY <3>4 DEF Ledger!Next
  <2>3. CASE UNCHANGED okconfigs
    <3>1. Ledger!Alter
      BY <2>1, <2>3 DEF Ledger!Alter
    <3> QED
      BY <3>1 DEF Ledger!Next
  <2>4. CASE okconfigs' = None /\ UNCHANGED sysroot
    <3>1. Ledger!Forget
      BY <2>4 DEF Ledger!Forget
    <3> QED
      BY <3>1 DEF Ledger!Next
  <2>5. GenKconfig \/ UNCHANGED okconfigs \/ (okconfigs' = None /\ UNCHANGED sysroot)
    BY DEF vars, Next, Recipe, Download, DownloadPatch, Decompress, ApplyPatch,
        MakeInstall, PostInstall, Cleanup, Configure, Install, Clean,
        DownloadSkip, DownloadBegin, DownloadEnd, DownloadFail, GitRevisionFail,
        DownloadPatchSkip, DownloadPatchBegin, DownloadPatchEnd,
        DownloadPatchFail, DecompressSkip, DecompressBegin, DecompressEnd,
        DecompressFail, SetDecompressed, ApplyPatchSkip, ApplyPatchBegin,
        ApplyPatchEnd, SetPatched, MakeFail, MakeEnd, InstallEnd, InstallFail,
        SetInstalled, TruncateKconfig, WipeSkip, WipeBegin, WipeEnd,
        CleanFilesBegin, CleanFilesEnd, CleanCheckout, CleanSrcBegin,
        CleanSrcEnd, CleanStateBegin, CleanStateEnd, Crash, disk
  <2> QED
    BY <2>2, <2>3, <2>4, <2>5
<1> QED
  BY <1>1, <1>2, Inductive, PTL DEF Spec, LedgerSpec, Ledger!Spec

-----------------------------------------------------------------------------
(* No action touches the patch of an undamaged tree that has it.           *)
LEMMA PatchKept ==
  ASSUME IInv, [Next]_vars, NEW t \in Trees, src[t].patch = "yes", ~src[t].damaged
  PROVE  src'[t].patch = "yes" \/ src'[t] = NoTree
<1>1. PICK v \in Versions : t = Tree[v]
  BY DEF Trees
<1>2. /\ TreeInv(src[t], v) /\ src[t] \in SourceTree
      /\ t \in DOMAIN src /\ Kind[v] \in {"tarball", "svn", "git"}
  BY <1>1 DEF IInv, SourceInv, TypeOK
<1>3. CASE UNCHANGED src
  BY <1>3
<1>4. CASE DownloadBegin
  <2>1. CASE tree = t /\ ~tarball
    <3>1. Kind[v] # "tarball" /\ src[t].body = "absent"
      BY <1>1, <1>2, <1>4, <2>1 DEF DownloadBegin, fetched, tarball, tree, IInv, TypeOK, Configs
    <3> QED
      BY <1>2, <1>4, <3>1 DEF DownloadBegin, TreeInv, Midway, Settled
  <2> QED
    BY <1>2, <1>4, <2>1 DEF DownloadBegin, InTree
<1>5. CASE DownloadFail
  <2>1. Kind[cfg.ver] \in {"tarball", "svn", "git"}
    BY <1>5, Running DEF DownloadFail, IInv, TypeOK
  <2>2. UNCHANGED src \/ InTree([src[tree] EXCEPT !.damaged = TRUE]) \/ InTree(NoTree)
    BY <1>5, <2>1 DEF DownloadFail
  <2> QED
    BY <1>2, <2>2 DEF InTree, SourceTree
<1>6. CASE GitRevisionFail
  <2>1. PICK w \in Versions : InTree([src[tree] EXCEPT !.body = "whole", !.rev = w])
    BY <1>6, Zenon DEF GitRevisionFail
  <2> QED
    BY <1>2, <2>1 DEF InTree, SourceTree
<1>7. CASE DecompressBegin
  <2>1. CASE tree = t
    <3>1. Kind[v] = "tarball" /\ ~src[t].decompressed
      BY <1>1, <1>7, <2>1 DEF DecompressBegin, IInv, ControlInv, TypeOK, Configs, tarball, tree
    <3> QED
      BY <1>2, <1>7, <3>1 DEF DecompressBegin, TreeInv, Midway, Settled
  <2> QED
    BY <1>2, <1>7, <2>1 DEF DecompressBegin, InTree
<1>8. CASE ApplyPatchBegin
  <2>1. CASE tree = t
    <3>1. /\ cfg # None /\ Tree[cfg.ver] = Tree[v] /\ Kind[cfg.ver] = Kind[v]
          /\ v \in NeedPatch /\ ~src[t].patched /\ pc = "patch"
      BY <1>1, <1>8, <2>1 DEF ApplyPatchBegin, topatch, IInv, TypeOK, Configs, tree
    <3> QED
      BY <1>2, <3>1 DEF TreeInv, Midway, Shape, Settled
  <2> QED
    BY <1>2, <1>8, <2>1 DEF ApplyPatchBegin, InTree
<1>9. CASE ApplyPatchEnd
  <2>1. CASE tree = t
    <3>1. cfg # None /\ Tree[cfg.ver] = Tree[v] /\ pc = "patching"
      BY <1>1, <1>9, <2>1 DEF ApplyPatchEnd, IInv, TypeOK, tree
    <3> QED
      BY <1>2, <3>1 DEF TreeInv, Midway, Shape
  <2> QED
    BY <1>2, <1>9, <2>1 DEF ApplyPatchEnd, InTree
<1>10. CASE Erode
  <2>1. PICK d \in BOOLEAN, p \in BOOLEAN :
          InTree([src[tree] EXCEPT !.body = IF @ = "absent" THEN "absent" ELSE "partial",
                                   !.decompressed = d, !.patched = p])
    BY <1>10, Zenon DEF Erode
  <2> QED
    BY <1>2, <2>1 DEF InTree, SourceTree
<1>11. CASE DownloadEnd
  BY <1>2, <1>11 DEF DownloadEnd, InTree, SourceTree
<1>12. CASE \/ DecompressEnd \/ SetDecompressed \/ SetPatched
            \/ WipeEnd \/ CleanSrcEnd \/ Crash
  BY <1>2, <1>12 DEF DecompressEnd, SetDecompressed, SetPatched, WipeEnd,
      CleanSrcEnd, Crash, InTree, SourceTree
<1>13. \/ DownloadBegin \/ DownloadEnd \/ DownloadFail \/ GitRevisionFail
       \/ DecompressBegin \/ DecompressEnd \/ SetDecompressed
       \/ ApplyPatchBegin \/ ApplyPatchEnd \/ SetPatched
       \/ Erode \/ WipeEnd \/ CleanSrcEnd \/ Crash \/ UNCHANGED src
  BY DEF vars, Next, Recipe, Download, DownloadPatch, Decompress, ApplyPatch, MakeInstall,
         PostInstall, Cleanup, Configure, Install, Clean, DownloadSkip, DownloadPatchSkip,
         DownloadPatchBegin, DownloadPatchEnd, DownloadPatchFail, DecompressSkip, DecompressFail,
         ApplyPatchSkip, MakeFail, MakeEnd, InstallEnd, InstallFail, SetInstalled, TruncateKconfig,
         GenKconfig, WipeSkip, WipeBegin, CleanFilesBegin, CleanFilesEnd, CleanCheckout,
         CleanSrcBegin, CleanStateBegin, CleanStateEnd, disk
<1> QED
  BY <1>3, <1>4, <1>5, <1>6, <1>7, <1>8, <1>9, <1>10, <1>11, <1>12, <1>13

(* A patched and undamaged tree keeps its patch until it is removed as a   *)
(* whole (download.mk:163-169).                                            *)
THEOREM Patched == Spec => PatchedOnce
<1>1. IInv /\ [Next]_vars =>
        [\A t \in Trees :
           src[t].patch = "yes" /\ ~src[t].damaged =>
             src'[t].patch = "yes" \/ src'[t] = NoTree]_vars
  BY PatchKept
<1> QED
  BY <1>1, Inductive, PTL DEF Spec, PatchedOnce

-----------------------------------------------------------------------------
(* Without kills, a partial file is the one that is being downloaded.      *)
HalfInv ==
    ~MayCrash =>
      \A v \in Versions :
        /\ package_f[v] = "partial" => pc = "fetching" /\ tarball /\ v = cfg.ver
        /\ patch_f[v] = "partial" => pc = "fetchingpatch" /\ v = cfg.ver

(* Every action, kills apart, preserves HalfInv.                           *)
LEMMA HalfStep == TypeOK /\ HalfInv /\ [Next]_vars => HalfInv'
<1> SUFFICES ASSUME TypeOK, HalfInv, [Next]_vars PROVE HalfInv'
  OBVIOUS
<1>1. CASE MayCrash
  BY <1>1 DEF HalfInv
<1>2. CASE ~MayCrash
  <2>a. /\ package_f \in [Versions -> File] /\ patch_f \in [Versions -> File]
        /\ pc # "idle" => cfg \in Configs /\ cfg.ver \in Versions
    BY DEF TypeOK, Configs
  <2>b. ASSUME UNCHANGED <<package_f, patch_f>>, pc \notin {"fetching", "fetchingpatch"}
        PROVE  HalfInv'
    BY <2>b, <2>a DEF HalfInv
  <2>1. CASE DownloadBegin
    BY <1>2, <2>a, <2>1 DEF HalfInv, DownloadBegin, Go, tarball, File
  <2>2. CASE DownloadEnd
    BY <1>2, <2>a, <2>2 DEF HalfInv, DownloadEnd, Go, tarball, File
  <2>3. CASE DownloadFail
    <3>1. pc' = "idle" /\ pc = "fetching" /\ UNCHANGED patch_f
      BY <2>3 DEF DownloadFail, Stop
    <3>2. CASE tarball
      <4>1. package_f' = [package_f EXCEPT ![cfg.ver] = "absent"]
        BY <2>3, <3>2 DEF DownloadFail, tarball
      <4> QED
        BY <1>2, <2>a, <3>1, <4>1 DEF HalfInv, File
    <3>3. CASE ~tarball
      <4>1. Kind[cfg.ver] \in {"svn", "git"}
        BY <2>a, <3>1, <3>3 DEF tarball
      <4>2. UNCHANGED package_f
        BY <2>3, <4>1 DEF DownloadFail
      <4> QED
        BY <1>2, <3>1, <3>3, <4>2 DEF HalfInv
    <3> QED
      BY <3>2, <3>3
  <2>4. CASE GitRevisionFail
    BY <1>2, <2>a, <2>4 DEF HalfInv, GitRevisionFail, Stop, tarball
  <2>5. CASE DownloadPatchBegin
    BY <1>2, <2>a, <2>5 DEF HalfInv, DownloadPatchBegin, Go, tarball, File
  <2>6. CASE DownloadPatchEnd
    BY <1>2, <2>a, <2>6 DEF HalfInv, DownloadPatchEnd, afterdownload, Go, tarball, File
  <2>7. CASE DownloadPatchFail
    BY <1>2, <2>a, <2>7 DEF HalfInv, DownloadPatchFail, Stop, tarball, File
  <2>8. CASE Configure \/ Install \/ Clean \/ DownloadSkip \/ DownloadPatchSkip
    BY <2>b, <2>8 DEF Configure, Install, Clean, DownloadSkip, DownloadPatchSkip, disk
  <2>9. CASE Decompress \/ ApplyPatch
    BY <2>b, <2>9 DEF Decompress, DecompressSkip, DecompressBegin, DecompressEnd,
        DecompressFail, SetDecompressed, ApplyPatch, ApplyPatchSkip, ApplyPatchBegin,
        ApplyPatchEnd, SetPatched, disk
  <2>10. CASE MakeInstall \/ PostInstall
    BY <2>b, <2>10 DEF MakeInstall, MakeFail, MakeEnd, InstallEnd, InstallFail, PostInstall,
        SetInstalled, TruncateKconfig, GenKconfig, WipeSkip, WipeBegin, WipeEnd, disk
  <2>11. CASE Cleanup
    BY <2>b, <2>11 DEF Cleanup, CleanFilesBegin, CleanFilesEnd, CleanCheckout,
        CleanSrcBegin, CleanSrcEnd, CleanStateBegin, CleanStateEnd
  <2>12. CASE UNCHANGED vars
    BY <2>12 DEF HalfInv, vars, tarball
  <2> QED
    BY <1>2, <2>1, <2>2, <2>3, <2>4, <2>5, <2>6, <2>7, <2>8, <2>9, <2>10, <2>11, <2>12
       DEF Next, Recipe, Download, DownloadPatch, Crash
<1> QED
  BY <1>1, <1>2

(* When nothing is killed, a run that has stopped leaves no partial        *)
(* download behind (__embtk_download_pkg_exitfailure).                     *)
THEOREM NoHalf == Spec => []NoHalfDownload
<1>1. Init => HalfInv
  BY DEF Init, HalfInv
<1>2. HalfInv => NoHalfDownload
  BY DEF HalfInv, NoHalfDownload
<1> QED
  BY <1>1, <1>2, HalfStep, TypeCorrect, PTL DEF Spec
=============================================================================
