----------------------------- MODULE MCVmSetup ------------------------------
(***************************************************************************)
(* Instances of VmSetup for TLC; the cfg files choose the number of rows.  *)
(***************************************************************************)
EXTENDS VmSetup
=============================================================================
