----------------------------- MODULE RowService -----------------------------
(***************************************************************************)
(* What a host server promises for the entries it has received: as long as *)
(* it is up it processes them one at a time, in the order received, each   *)
(* once, and passes none over.  A server that cannot process an entry goes *)
(* down.  EventChannel (main() around process_entry()), VmSetup (inside    *)
(* process_entry()) and, within its first table size, HostServer           *)
(* implement this.                                                         *)
(***************************************************************************)
EXTENDS Naturals

VARIABLES phase,     \* "up" or "down"
          received,  \* entries received so far, 0 once down
          served     \* those that are processed, {} once down

rvars == <<phase, received, served>>

Init == phase = "up" /\ received = 0 /\ served = {}

Receive ==
    /\ phase = "up"
    /\ received' = received + 1
    /\ UNCHANGED <<phase, served>>

(* The first entry that is not processed gets processed.                   *)
Serve ==
    /\ phase = "up"
    /\ \E k \in 1..received :
         /\ k \notin served
         /\ 1..(k - 1) \subseteq served
         /\ served' = served \cup {k}
    /\ UNCHANGED <<phase, received>>

Stop == phase = "up" /\ phase' = "down" /\ received' = 0 /\ served' = {}

Next == Receive \/ Serve \/ Stop

Spec == Init /\ [][Next]_rvars
=============================================================================
