------------------------------ MODULE Tristate ------------------------------
(* The values of scripts/kconfig/expr.h: enum tristate, and no expression. *)
EXTENDS Naturals

no == 0
mod == 1
yes == 2
None == << >>

Min2(a, b) == IF a < b THEN a ELSE b
Max2(a, b) == IF a > b THEN a ELSE b
=============================================================================
