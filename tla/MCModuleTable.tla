--------------------------- MODULE MCModuleTable ----------------------------
(***************************************************************************)
(* Instances of ModuleTable for TLC: insmods and requests are model values *)
(* and neither the specification nor the invariants tell them apart, so    *)
(* permuting either set is a symmetry.                                     *)
(***************************************************************************)
EXTENDS ModuleTable, TLC

CONSTANTS m1, m2, m3, m4, r1, r2, r3, r4

Symmetry == Permutations(Insmod) \cup Permutations(Request)
=============================================================================
