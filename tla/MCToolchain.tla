---------------------------- MODULE MCToolchain ----------------------------
(* The packages the addons depend on, and what comments of the sources say *)
(* of the toolchain recipes and the recipes do not keep.                   *)
EXTENDS Toolchain

(* ltrace.mk:39 and gdb/common.mk:26; strace depends on no package.        *)
MCAddonPackages ==
    [a \in Addons |-> Packages \cap CASE a = "ltrace" -> {"libelf"}
                                      [] a = "gdb" -> {"ncurses"}
                                      [] OTHER -> {}]

uptodateNow == pc = "idle" /\ uptodate(config)

(* core/toolchain/common.mk:61 "Toolchain macros evaluating if core and    *)
(* addons need to be built": when neither need be, the sysroot has the     *)
(* configured core.  Refuted by a core that is rebuilt and recorded in a   *)
(* run that then fails to build an addon or to pack the tarball: the next  *)
(* run unpacks the old core, and finds nothing to build.                   *)
CoreIsConfigured == uptodateNow => sysroot.core = <<config.dir, config.opt>>

(* The same comment, for the addons: when none need be built, all the      *)
(* selected ones are there.  Refuted by an option of the core: the core is *)
(* built again in an empty sysroot, and the addons are not.                *)
AddonsPresent == uptodateNow => config.addons \subseteq sysroot.addons
=============================================================================
