------------------------------ MODULE Delivery ------------------------------
(***************************************************************************)
(* What the proxy module promises to whoever asks it for pending modules:  *)
(* the modules put by the containers' insmods form a log; asking for the   *)
(* pending module gives out the first entry of that log that nobody has;   *)
(* and an asker that could not be given its entry after all makes the last *)
(* entry given out pending again.                                          *)
(***************************************************************************)
EXTENDS Naturals, Sequences

CONSTANT Module     \* the modules that insmods may put in the log

VARIABLES log,      \* the modules put so far, in the order they were put
          given     \* how many askers have been given each module

dvars == <<log, given>>

Init ==
    /\ log = <<>>
    /\ given = [m \in Module |-> 0]

(* A module that is not in the log yet is put at its end.                  *)
Offer(m) ==
    /\ \A k \in 1..Len(log) : log[k] # m
    /\ log' = Append(log, m)
    /\ UNCHANGED given

(* The first module of the log that nobody has is given out.               *)
Take(k) ==
    /\ given[log[k]] = 0
    /\ \A j \in 1..(k - 1) : given[log[j]] = 1
    /\ given' = [given EXCEPT ![log[k]] = 1]
    /\ UNCHANGED log

(* The last module given out is given back.                                *)
Return(k) ==
    /\ given[log[k]] = 1
    /\ \A j \in (k + 1)..Len(log) : given[log[j]] = 0
    /\ given' = [given EXCEPT ![log[k]] = 0]
    /\ UNCHANGED log

Next ==
    \/ \E m \in Module : Offer(m)
    \/ \E k \in 1..Len(log) : Take(k) \/ Return(k)

Spec == Init /\ [][Next]_dvars

(* Nobody has a module that another has too, and what has been given out   *)
(* is always a beginning of the log: nothing is passed over.               *)
InOrder ==
    /\ \A m \in Module : given[m] \in {0, 1}
    /\ \A j, k \in 1..Len(log) : j < k => given[log[k]] <= given[log[j]]
=============================================================================
