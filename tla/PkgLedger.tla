----------------------------- MODULE PkgLedger -----------------------------
(***************************************************************************)
(* What the state directory of a package promises, with no recipe in it:   *)
(* a ledger that records which configuration of the package was installed. *)
(* The sysroot may change at any time under the record, and the record may *)
(* be dropped at any time, but it is written only while the sysroot has a  *)
(* complete installation, and it then names the configuration of that one. *)
(***************************************************************************)
CONSTANTS Configs, None

VARIABLES
    built,  \* the configuration completely installed in the sysroot, or None
    record  \* the configuration the state directory names, or None

ledger == <<built, record>>

Init == built = None /\ record = None

(* An installation completes, or the installed files are touched.          *)
Alter ==
    /\ built' \in Configs \cup {None}
    /\ UNCHANGED record

Record ==
    /\ built # None
    /\ record' = built
    /\ UNCHANGED built

Forget ==
    /\ record' = None
    /\ UNCHANGED built

Next == Alter \/ Record \/ Forget

Spec == Init /\ [][Next]_ledger
=============================================================================
