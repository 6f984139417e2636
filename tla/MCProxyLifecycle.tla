-------------------------- MODULE MCProxyLifecycle --------------------------
(***************************************************************************)
(* An instance of ProxyLifecycle for TLC.  Insmods are interchangeable in  *)
(* the specification and in the invariants.                                *)
(***************************************************************************)
EXTENDS ProxyLifecycle, TLC

CONSTANTS i1, i2, s1

Symmetry == Permutations(Insmod)
=============================================================================
