--------------------------- MODULE DeliveryProofs ---------------------------
(***************************************************************************)
(* The guarantee of Delivery, proved for any modules.                      *)
(***************************************************************************)
EXTENDS Delivery, TLAPS

(* The log has no repetitions, and a module outside it was not given out.  *)
LogInv ==
    /\ log \in Seq(Module)
    /\ given \in [Module -> {0, 1}]
    /\ \A j, k \in 1..Len(log) : log[j] = log[k] => j = k
    /\ \A m \in Module : given[m] = 1 => \E k \in 1..Len(log) : log[k] = m
    /\ \A j, k \in 1..Len(log) : j < k => given[log[k]] <= given[log[j]]

(* Delivery starts with an empty log and nothing given out.                *)
LEMMA LogInit == Init => LogInv
  BY DEF Init, LogInv

(* Offer, Take and Return preserve LogInv.                                 *)
LEMMA LogStep == LogInv /\ [Next]_dvars => LogInv'
<1> SUFFICES ASSUME LogInv, [Next]_dvars PROVE LogInv'
  OBVIOUS
<1>1. ASSUME NEW m \in Module, Offer(m) PROVE LogInv'
  <2>1. /\ log' \in Seq(Module)
        /\ Len(log') = Len(log) + 1
        /\ log'[Len(log) + 1] = m
        /\ \A k \in 1..Len(log) : log'[k] = log[k]
    BY <1>1 DEF Offer, LogInv
  <2>2. given[m] = 0
    BY <1>1 DEF Offer, LogInv
  <2> QED
    BY <1>1, <2>1, <2>2 DEF Offer, LogInv
<1>2. ASSUME NEW n \in 1..Len(log), Take(n) PROVE LogInv'
  BY <1>2 DEF Take, LogInv
<1>3. ASSUME NEW n \in 1..Len(log), Return(n) PROVE LogInv'
  BY <1>3 DEF Return, LogInv
<1>4. CASE UNCHANGED dvars
  BY <1>4 DEF dvars, LogInv
<1> QED
  BY <1>1, <1>2, <1>3, <1>4 DEF Next

(* No module is with two askers, and what has been given out is at any     *)
(* time a beginning of the log, through any number of returns.             *)
THEOREM GivenInOrder == Spec => []InOrder
<1>1. LogInv => InOrder
  BY DEF LogInv, InOrder
<1> QED
  BY <1>1, LogInit, LogStep, PTL DEF Spec
=============================================================================
