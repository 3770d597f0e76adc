---------------------------- MODULE MCPkgBuild ----------------------------
(* Small instances of PkgBuild for TLC: a patched and a plain tarball, two *)
(* revisions of one git repository, two of one patched svn branch.         *)
EXTENDS PkgBuild, TLC

CONSTANTS t1, t2, g1, g2, s1, s2

KindOf(v) == CASE v \in {t1, t2} -> "tarball" [] v \in {g1, g2} -> "git" [] v \in {s1, s2} -> "svn"
MCKind == [v \in Versions |-> KindOf(v)]
MCTree == [v \in Versions |-> IF v \in {t1, t2} THEN v ELSE KindOf(v)]

-----------------------------------------------------------------------------
(* What comments and prompts of the sources say of the recipes, and the    *)
(* recipes do not keep: each is refuted by a run of its own.               *)

(* install.mk:122 "A macro to test if a package build recipe needs to be   *)
(* run or not": if it needs not, the configured package is installed.      *)
(* Refuted by an installation that fails and an edit that goes back to the *)
(* configuration recorded before it.                                       *)
SkippedIsInstalled ==
    pc = "idle" /\ ~runrecipe(config) => sysroot.whole /\ sysroot.cfg = config

(* install.mk:102 "A macro to test if a package is already patched".       *)
(* Refuted by a run killed while wget writes the patch: the next run takes *)
(* the partial file, and does not look at the exit status of patch.        *)
PatchedIsPatched ==
    \A t \in Trees : src[t].patched /\ src[t].body = "whole" => src[t].patch = "yes"

(* gcc.kconfig:96 "Checkout a specific revision instead of the latest":    *)
(* what is installed for a revision was built from that revision.  Refuted *)
(* by a "git reset --hard" to it that fails after the clone: the next run  *)
(* finds a checkout and builds it as it is, at the latest revision.  (So   *)
(* it does where another revision is configured once there is a checkout.) *)
RevisionIsConfigured ==
    pc = "idle" /\ ~runrecipe(config) /\ ~cut => sysroot.rev = config.ver
=============================================================================
