---------------------------- MODULE MCHostServer ----------------------------
(***************************************************************************)
(* An instance of HostServer for TLC: ints have five bits and a row three  *)
(* bytes, so that the table grows once and then meets the limit of int.    *)
(***************************************************************************)
EXTENDS HostServer
=============================================================================
