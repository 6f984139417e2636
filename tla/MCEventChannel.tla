--------------------------- MODULE MCEventChannel ---------------------------
(***************************************************************************)
(* Instances of EventChannel for TLC.  Insmods and servers are model       *)
(* values; the cfg files choose how many, whether a server may be killed   *)
(* and whether the environment is paced.  There is no symmetry set: the    *)
(* runs check liveness.                                                    *)
(***************************************************************************)
EXTENDS EventChannel
=============================================================================
