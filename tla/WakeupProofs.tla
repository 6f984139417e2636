---------------------------- MODULE WakeupProofs ----------------------------
(***************************************************************************)
(* Machine-checked proofs about the wakeups of EventChannel: why a server  *)
(* finds nothing when select() fires, and what pacing the insmods and the  *)
(* server starts gives, for any finite set of insmods, any set of servers, *)
(* with or without kills.                                                  *)
(***************************************************************************)
EXTENDS EventChannelProofs

-----------------------------------------------------------------------------
(* The signals a server got, against the insmods that signalled.           *)

Notified == {i \in Insmod : ipc[i] = "notified"}

(* What s took on a wakeup, i.e. not in a start-up loop.                   *)
TakenAwake(s) ==
    {h.uuid : h \in {g \in popped : g.to = s}} \ drained

Due(s) == IF spc[s] \in {"wake_copy", "read"} THEN 1 ELSE 0

(* Every signal that s has unread, swallowed or used up on a wakeup came   *)
(* from an insmod of its own; between the pop and the read() the signal of *)
(* the current wakeup is counted twice.                                    *)
LedgerInv ==
    \A s \in Server : ~GoingDown(s) =>
        efd[s] + swallowed[s] + Cardinality(TakenAwake(s))
           <= Cardinality(Notified) + Due(s)

(* The insmods that have signalled, and the uuids a server took, can be    *)
(* counted.                                                                *)
LEMMA LedgerFinite ==
  ASSUME TypeOK, NEW s \in Server
  PROVE  /\ IsFiniteSet(Notified) /\ Cardinality(Notified) \in Nat
         /\ IsFiniteSet(TakenAwake(s)) /\ Cardinality(TakenAwake(s)) \in Nat
<1>1. Notified \subseteq Insmod
  BY DEF Notified
<1>2. TakenAwake(s) \subseteq Insmod
  <2>1. popped \subseteq HandOut
    BY DEF TypeOK
  <2> QED
    BY <2>1 DEF TakenAwake, HandOut
<1>3. IsFiniteSet(Notified) /\ IsFiniteSet(TakenAwake(s))
  BY <1>1, <1>2, EventChannelAssumption, FS_Subset
<1> QED
  BY <1>3, FS_CardinalityType

(* An insmod that signals counts once more.                                *)
LEMMA NotifiedEnter ==
  ASSUME TypeOK, NEW i \in Insmod, ipc[i] = "signal",
         ipc' = [ipc EXCEPT ![i] = "notified"]
  PROVE  Cardinality(Notified') = Cardinality(Notified) + 1
<1>1. Notified' = Notified \cup {i} /\ i \notin Notified
  BY DEF Notified, TypeOK
<1>2. IsFiniteSet(Notified)
  <2>1. Notified \subseteq Insmod
    BY DEF Notified
  <2> QED
    BY <2>1, EventChannelAssumption, FS_Subset
<1> QED
  BY <1>1, <1>2, FS_AddElement

(* A pop adds at most the popped uuid to what its server took on wakeups,  *)
(* and nothing to what another server took.                                *)
LEMMA PopTaken ==
  ASSUME NEW s \in Server, NEW t \in Server, NEW none, NEW copy,
         get_pending_module(s, none, copy), HasPending, drained \subseteq drained'
  PROVE  /\ TakenAwake(t)' \subseteq TakenAwake(t) \cup {table_peek}
         /\ s # t \/ table_peek \in drained' =>
               TakenAwake(t)' \subseteq TakenAwake(t)
<1>1. popped' = popped \cup {[to |-> s, uuid |-> table_peek]}
  BY DEF get_pending_module
<1>2. ASSUME NEW u \in TakenAwake(t)'
      PROVE  /\ u \in TakenAwake(t) \/ u = table_peek
             /\ s # t \/ table_peek \in drained' => u \in TakenAwake(t)
  <2>1. PICK h \in popped' : h.to = t /\ h.uuid = u
    BY DEF TakenAwake
  <2>2. u \notin drained' /\ u \notin drained
    BY DEF TakenAwake
  <2>3. CASE h \in popped
    BY <2>1, <2>2, <2>3 DEF TakenAwake
  <2>4. CASE h = [to |-> s, uuid |-> table_peek]
    BY <2>1, <2>2, <2>4
  <2> QED
    BY <1>1, <2>1, <2>3, <2>4
<1> QED
  BY <1>2

(* A server that is going down does not come back.                         *)
LEMMA DownForGood ==
  ASSUME TypeInv, [Next]_vars, NEW t \in Server, ~GoingDown(t)'
  PROVE  ~GoingDown(t)
<1> USE DEF TypeInv, TypeOK, GoingDown, proxyVars
<1>1. ASSUME NEW i \in Insmod, PutModule(i) \/ InsmodRun(i) PROVE UNCHANGED spc
  BY <1>1 DEF PutModule, InsmodRun, send_event, eventfd_signal, SignalDangling
<1>2. ASSUME NEW s \in Server,
             \/ ServerOpen(s) \/ ServerRun(s) \/ ProcessAll(s) \/ ProcessOne(s)
             \/ SelectFails(s) \/ SigInt(s) \/ Kill(s)
      PROVE  ~GoingDown(t)
  BY <1>2 DEF ServerOpen, ServerRun, Register, SelectReturns, SelectFails,
     ReadEventfd, Deregister, Close, SigInt, Kill, DrainEntry, TakeEntry,
     get_pending_module, CopyEntry, get_new_entry, CopyFails, ProcessAll,
     ProcessOne, process_entry
<1>3. UNCHANGED vars => UNCHANGED spc
  BY DEF vars
<1> QED
  BY <1>1, <1>2, <1>3 DEF Next

(* Every step preserves LedgerInv: a signal adds one to both sides, a pop  *)
(* and its read() together move one unit on the left.                      *)
LEMMA LedgerStep == TypeInv /\ LedgerInv /\ [Next]_vars => LedgerInv'
<1> SUFFICES ASSUME TypeInv, LedgerInv, [Next]_vars,
                    NEW t \in Server, ~GoingDown(t)'
             PROVE  efd'[t] + swallowed'[t] + Cardinality(TakenAwake(t)')
                       <= Cardinality(Notified') + Due(t)'
  BY DEF LedgerInv
<1> DEFINE T == Cardinality(TakenAwake(t))
           N == Cardinality(Notified)
           Goal == efd'[t] + swallowed'[t] + T' <= N' + Due(t)'
<1>0. /\ T \in Nat /\ N \in Nat
      /\ efd[t] \in Nat /\ swallowed[t] \in Nat /\ Due(t) \in {0, 1}
  BY LedgerFinite DEF TypeInv, TypeOK, Due
<1>a. ~GoingDown(t)
  BY DownForGood
<1>b. efd[t] + swallowed[t] + T <= N + Due(t)
  BY <1>a DEF LedgerInv
<1>c. ASSUME UNCHANGED ipc PROVE N' = N
  BY <1>c DEF Notified
<1>d. ASSUME UNCHANGED <<popped, drained>> PROVE T' = T
  BY <1>d DEF TakenAwake
<1> SUFFICES Goal
  OBVIOUS
<1> HIDE DEF T, N
<1>e. ASSUME UNCHANGED <<ipc, efd, swallowed, popped, drained>>, Due(t)' >= Due(t), Due(t)' \in Nat
      PROVE  Goal
  BY <1>0, <1>b, <1>c, <1>d, <1>e
<1>1. ASSUME NEW i \in Insmod, PutModule(i) \/ send_event(i) PROVE Goal
  <2>1. Notified' = Notified
    BY <1>1 DEF PutModule, send_event, Notified, TypeInv, TypeOK
  <2>2. UNCHANGED <<spc, efd, swallowed, popped, drained>>
    BY <1>1 DEF PutModule, send_event, popVars
  <2>3. T' = T /\ N' = N /\ Due(t)' = Due(t)
    BY <1>d, <2>1, <2>2 DEF N, Due
  <2> QED
    BY <1>b, <2>2, <2>3
<1>2. ASSUME NEW i \in Insmod, eventfd_signal(i) \/ SignalDangling(i) PROVE Goal
  <2>1. UNCHANGED <<spc, swallowed, popped, drained>>
    BY <1>2 DEF eventfd_signal, SignalDangling, popVars
  <2>2. T' = T /\ Due(t)' = Due(t)
    BY <1>d, <2>1 DEF Due
  <2>3. CASE ipc' = [ipc EXCEPT ![i] = "notified"]
    <3>1. N' = N + 1
      BY <1>2, <2>3, NotifiedEnter DEF eventfd_signal, SignalDangling, N, TypeInv
    <3>2. efd'[t] = efd[t] \/ efd'[t] = efd[t] + 1
      BY <1>2 DEF eventfd_signal, SignalDangling, TypeInv, TypeOK
    <3> QED
      BY <1>0, <1>b, <2>1, <2>2, <3>1, <3>2
  <2>4. CASE ipc' = [ipc EXCEPT ![i] = "oops"] /\ UNCHANGED efd
    <3>1. Notified' = Notified
      BY <1>2, <2>4 DEF eventfd_signal, SignalDangling, Notified, TypeInv, TypeOK
    <3> QED
      BY <1>b, <2>1, <2>2, <2>4, <3>1 DEF N
  <2> QED
    BY <1>2, <2>3, <2>4 DEF eventfd_signal, SignalDangling
<1>3. ASSUME NEW s \in Server,
             \/ ServerOpen(s) \/ Register(s) \/ SelectReturns(s) \/ SelectFails(s)
             \/ CopyEntry(s) \/ Deregister(s) \/ Close(s) \/ SigInt(s) \/ Kill(s)
             \/ ProcessAll(s) \/ ProcessOne(s)
      PROVE  Goal
  <2>1. UNCHANGED <<ipc, efd, swallowed, popped, drained>>
    BY <1>3 DEF ServerOpen, Register, SelectReturns, SelectFails, CopyEntry,
       Deregister, Close, SigInt, Kill, ProcessAll, ProcessOne, popVars
  <2>2. spc[t] \in {"wake_copy", "read"} => spc'[t] \in {"wake_copy", "read"}
    BY <1>3 DEF ServerOpen, Register, SelectReturns, SelectFails, CopyEntry,
       get_new_entry, CopyFails, Deregister, Close, SigInt, Kill, ProcessAll,
       ProcessOne, process_entry, GoingDown, TypeInv, TypeOK
  <2>3. Due(t)' >= Due(t) /\ Due(t)' \in Nat
    BY <2>2 DEF Due
  <2> QED
    BY <1>e, <2>1, <2>3
<1>4. ASSUME NEW s \in Server, DrainEntry(s) \/ TakeEntry(s) PROVE Goal
  <2>1. UNCHANGED <<ipc, efd, swallowed>> /\ drained \subseteq drained'
    BY <1>4 DEF DrainEntry, TakeEntry
  <2>2. s # t => Due(t)' = Due(t)
    BY <1>4 DEF DrainEntry, TakeEntry, get_pending_module, Due, TypeInv, TypeOK
  <2>3. CASE ~HasPending
    <3>1. popped' = popped /\ drained' = drained
      BY <1>4, <2>3 DEF DrainEntry, TakeEntry, get_pending_module, table_pop
    <3>2. spc[t] \in {"wake_copy", "read"} => spc'[t] \in {"wake_copy", "read"}
      BY <1>4 DEF DrainEntry, TakeEntry, get_pending_module, TypeInv, TypeOK
    <3>3. Due(t)' >= Due(t) /\ Due(t)' \in Nat
      BY <3>2 DEF Due
    <3> QED
      BY <1>e, <2>1, <3>1, <3>3
  <2>4. CASE HasPending
    <3>0. PICK none, copy : get_pending_module(s, none, copy)
      BY <1>4 DEF DrainEntry, TakeEntry
    <3>1. /\ TakenAwake(t)' \subseteq TakenAwake(t) \cup {table_peek}
          /\ s # t \/ table_peek \in drained' =>
               TakenAwake(t)' \subseteq TakenAwake(t)
      BY <2>1, <2>4, <3>0, PopTaken
    <3>2. IsFiniteSet(TakenAwake(t))
      BY LedgerFinite DEF TypeInv
    <3>3. T' \in Nat /\ T' <= T + 1
      <4>1. /\ IsFiniteSet(TakenAwake(t) \cup {table_peek})
            /\ Cardinality(TakenAwake(t) \cup {table_peek}) <= T + 1
        BY <1>0, <3>2, FS_AddElement DEF T
      <4>2. /\ IsFiniteSet(TakenAwake(t)')
            /\ T' <= Cardinality(TakenAwake(t) \cup {table_peek})
        BY <3>1, <4>1, FS_Subset DEF T
      <4>3. T' \in Nat /\ Cardinality(TakenAwake(t) \cup {table_peek}) \in Nat
        BY <4>1, <4>2, FS_CardinalityType DEF T
      <4> QED
        BY <1>0, <4>1, <4>2, <4>3
    <3>4. s # t \/ table_peek \in drained' => T' <= T
      BY <3>1, <3>2, FS_Subset DEF T
    <3>5. CASE s # t \/ DrainEntry(s)
      <4>1. DrainEntry(s) => table_peek \in drained'
        BY <2>4 DEF DrainEntry
      <4>2. Due(t)' >= Due(t) /\ Due(t)' \in Nat
        BY <1>0, <2>2, <3>5 DEF Due, DrainEntry, TypeInv, TypeOK
      <4>3. T' <= T
        BY <3>4, <3>5, <4>1
      <4> QED
        BY <1>0, <1>b, <1>c, <2>1, <3>3, <4>2, <4>3
    <3>6. CASE s = t /\ TakeEntry(s)
      <4>1. Due(t) = 0 /\ Due(t)' = 1
        BY <2>4, <3>6 DEF TakeEntry, get_pending_module, Due, TypeInv, TypeOK
      <4> QED
        BY <1>0, <1>b, <1>c, <2>1, <3>3, <4>1
    <3> QED
      BY <1>4, <3>5, <3>6
  <2> QED
    BY <2>3, <2>4
<1>5. ASSUME NEW s \in Server, ReadEventfd(s) PROVE Goal
  <2>1. N' = N /\ T' = T
    BY <1>5, <1>c, <1>d DEF ReadEventfd, popVars
  <2>2. CASE s = t
    <3>1. efd'[t] = 0 /\ swallowed'[t] = swallowed[t] + efd[t] - 1
      BY <1>5, <2>2 DEF ReadEventfd, GoingDown, TypeInv, TypeOK
    <3>2. Due(t) = 1 /\ Due(t)' = 0
      BY <1>5, <2>2 DEF ReadEventfd, GoingDown, Due, TypeInv, TypeOK
    <3> QED
      BY <1>0, <1>b, <2>1, <3>1, <3>2
  <2>3. CASE s # t
    <3>1. efd'[t] = efd[t] /\ swallowed'[t] = swallowed[t] /\ Due(t)' = Due(t)
      BY <1>5, <2>3 DEF ReadEventfd, Due, TypeInv, TypeOK
    <3> QED
      BY <1>b, <2>1, <3>1
  <2> QED
    BY <2>2, <2>3
<1>6. CASE UNCHANGED vars
  <2>1. Due(t)' = Due(t)
    BY <1>6 DEF vars, Due
  <2> QED
    BY <1>0, <1>6, <1>e, <2>1 DEF vars
<1> QED
  BY <1>1, <1>2, <1>3, <1>4, <1>5, <1>6 DEF Next, InsmodRun, ServerRun

(* When select() fires with nothing to take, an insmod signalled for an    *)
(* entry that a start-up loop or another server had taken: otherwise the   *)
(* server itself took the entry of every insmod that signalled, each on a  *)
(* wakeup of its own, and there would be one signal more than insmods.     *)
THEOREM SpuriousHasCause == Spec => []SpuriousExplained
<1> DEFINE Inv == TypeInv /\ LogInv /\ LedgerInv /\ InTableInv
<1>1. Init => LogInv /\ LedgerInv /\ InTableInv
  <2> SUFFICES ASSUME Init PROVE LogInv /\ LedgerInv /\ InTableInv
    OBVIOUS
  <2>1. LogInv /\ InTableInv
    BY LogInit DEF Init, InTableInv
  <2>2. Notified = {} /\ \A s \in Server : TakenAwake(s) = {}
    BY DEF Init, Notified, TakenAwake
  <2>3. LedgerInv
    <3> SUFFICES ASSUME NEW s \in Server
                 PROVE  efd[s] + swallowed[s] + Cardinality(TakenAwake(s))
                           <= Cardinality(Notified) + Due(s)
      BY DEF LedgerInv
    <3>1. efd[s] = 0 /\ swallowed[s] = 0 /\ Due(s) = 0
      BY DEF Init, Due
    <3>2. Cardinality(TakenAwake(s)) = 0 /\ Cardinality(Notified) = 0
      BY <2>2, FS_EmptySet
    <3> QED
      BY <3>1, <3>2
  <2> QED
    BY <2>1, <2>3
<1>2. Inv => SpuriousExplained
  <2> SUFFICES ASSUME Inv, NEW s \in Server, spc[s] = "wake", ~HasPending,
                      \A h \in popped :
                         ipc[h.uuid] = "notified" =>
                            h.to = s /\ h.uuid \notin drained
               PROVE  FALSE
    BY DEF SpuriousExplained
  <2>1. table_index + 1 = Len(module_table)
    BY DEF TypeInv, TypeOK, HasPending, table_num_entries
  <2>2. Notified \subseteq TakenAwake(s)
    <3> SUFFICES ASSUME NEW i \in Notified PROVE i \in TakenAwake(s)
      OBVIOUS
    <3>1. i \in Insmod /\ ipc[i] = "notified"
      BY DEF Notified
    <3>2. PICK k \in 1..Len(module_table) : module_table[k] = i
      BY <3>1 DEF InTableInv
    <3>3. PICK h \in popped : h.uuid = i
      BY <2>1, <3>2 DEF LogInv, PopInv
    <3> QED
      BY <3>1, <3>3 DEF TakenAwake
  <2>3. Cardinality(Notified) <= Cardinality(TakenAwake(s))
    BY <2>2, LedgerFinite, FS_Subset DEF TypeInv
  <2>4. efd[s] > 0 /\ efd[s] \in Nat /\ swallowed[s] \in Nat
    BY DEF TypeInv, TypeOK, WakeInv
  <2>5. efd[s] + swallowed[s] + Cardinality(TakenAwake(s)) <= Cardinality(Notified)
    <3>1. ~GoingDown(s) /\ Due(s) = 0
      BY DEF GoingDown, Due
    <3>2. Cardinality(Notified) \in Nat
      BY LedgerFinite DEF TypeInv
    <3> QED
      BY <3>1, <3>2 DEF LedgerInv
  <2>6. Cardinality(Notified) \in Nat /\ Cardinality(TakenAwake(s)) \in Nat
    BY LedgerFinite DEF TypeInv
  <2> QED
    BY <2>3, <2>4, <2>5, <2>6
<1> QED
  BY <1>1, <1>2, TypeInit, TypeStep, LogStep, LedgerStep, InTableStep, PTL DEF Spec

-----------------------------------------------------------------------------
(* What pacing gives.  Nothing below depends on KillAllowed.               *)

(* Between its start and the end of its second loop, and from the signal   *)
(* to the end of process_entry(), a server is at work.                     *)
Busy(s) ==
    \/ spc[s] \in {"opened", "drain", "drain_copy", "process_all", "wake",
                   "wake_copy", "read", "process_one"}
    \/ spc[s] = "select" /\ efd[s] > 0

(* One insmod is under way, or one server is at work, and never both.      *)
OneActor ==
    /\ \A i, j \in InFlight : i = j
    /\ InFlight # {} => \A s \in Server : ~Busy(s)
    /\ \A s, t \in Server : Busy(s) /\ Busy(t) => s = t

(* A server at work past its registration is the registered one, or nobody *)
(* that waits for an event is: no sleeping registered server is there when *)
(* its failed copy puts an entry back.                                     *)
WorkerInv ==
    \A s \in Server :
        Busy(s) /\ spc[s] # "opened" => ks \in {s, None} \/ GoingDown(ks)

(* A counter is positive only between a signal and the read() it causes,   *)
(* and the entry the signal is for waits in the table until it is taken.   *)
SignalInv ==
    /\ \A s \in Server :
          spc[s] \in {"start", "opened", "drain", "drain_copy", "process_all",
                      "process_one"}
             => efd[s] = 0
    /\ \A i \in Insmod : ipc[i] = "signal" => HasPending
    /\ \A s \in Server :
          \/ spc[s] = "wake"
          \/ spc[s] = "select" /\ efd[s] > 0
          => HasPending

(* The registered server is never behind by more than the entry at hand.   *)
BehindInv ==
    \A s \in Server : ks = s =>
        /\ spc[s] \in {"process_all", "wake_copy", "read", "process_one"} =>
              ~HasPending
        /\ spc[s] \in {"select", "wake"} => NumPending <= 1
        /\ spc[s] = "select" /\ efd[s] = 0 /\ InFlight = {} => ~HasPending

PacedInv == OneActor /\ WorkerInv /\ SignalInv /\ BehindInv

(* A paced put or start finds nobody at work.                              *)
LEMMA QuietIdle ==
  ASSUME TypeOK, Quiet
  PROVE  InFlight = {} /\ \A s \in Server : ~Busy(s)
<1>1. InFlight = {}
  BY DEF Quiet
<1>2. ASSUME NEW s \in Server PROVE ~Busy(s)
  <2>1. CASE spc[s] \in {"start", "exited", "killed"}
    BY <2>1 DEF Busy
  <2>2. CASE spc[s] = "select" /\ efd[s] = 0
    BY <2>2 DEF Busy
  <2> QED
    BY <2>1, <2>2 DEF Quiet
<1> QED
  BY <1>1, <1>2

(* A request takes the entry at table_index + 1 when there is one.         *)
LEMMA GetPendingCount ==
  ASSUME TypeOK, NEW s \in Server, NEW none, NEW copy,
         get_pending_module(s, none, copy), UNCHANGED module_table
  PROVE  /\ NumPending \in Nat /\ NumPending' \in Nat
         /\ HasPending <=> NumPending > 0
         /\ HasPending' <=> NumPending' > 0
         /\ NumPending' = IF HasPending THEN NumPending - 1 ELSE NumPending
<1> USE DEF HasPending, NumPending, table_num_entries
<1>1. CASE ~HasPending
  <2>1. UNCHANGED table_index
    BY <1>1 DEF get_pending_module, table_pop
  <2> QED
    BY <1>1, <2>1 DEF TypeOK
<1>2. CASE HasPending
  <2>1. table_index' = table_index + 1
    BY <1>2 DEF get_pending_module, table_pop
  <2>2. Len(module_table) \in Nat /\ table_index \in Int
    BY DEF TypeOK
  <2> QED
    BY <1>2, <2>1, <2>2
<1> QED
  BY <1>1, <1>2

(* A request that comes back takes nothing from the table.                 *)
LEMMA CopyPending ==
  ASSUME TypeOK, NEW s \in Server, CopyEntry(s), HasPending
  PROVE  HasPending'
<1>1. UNCHANGED table_index \/ table_pop_reverse
  BY Zenon DEF CopyEntry, get_new_entry, CopyFails
<1>2. UNCHANGED module_table
  BY Zenon DEF CopyEntry
<1>3. table_index \in Int
  BY DEF TypeOK
<1>4. table_index' <= table_index /\ table_index' \in Int
  BY <1>1, <1>3 DEF table_pop_reverse
<1> QED
  BY <1>2, <1>3, <1>4 DEF HasPending, table_num_entries, TypeOK

(* Every step of a paced environment keeps one actor at a time.            *)
LEMMA OneActorStep ==
  ASSUME Paced
  PROVE  TypeInv /\ LockInv /\ PacedInv /\ [Next]_vars => OneActor'
<1> SUFFICES ASSUME TypeInv, LockInv, PacedInv, [Next]_vars PROVE OneActor'
  OBVIOUS
<1>0. OneActor /\ TypeOK
  BY DEF PacedInv, TypeInv
<1>1. ASSUME NEW i \in Insmod, PutModule(i) PROVE OneActor'
  <2>1. InFlight = {} /\ \A s \in Server : ~Busy(s)
    BY <1>0, <1>1, QuietIdle DEF PutModule
  <2>2. InFlight' = {i}
    BY <1>0, <1>1, <2>1 DEF PutModule, InFlight, TypeOK
  <2>3. \A s \in Server : ~Busy(s)'
    BY <1>1, <2>1 DEF PutModule, Busy
  <2> QED
    BY <2>2, <2>3 DEF OneActor
<1>2. ASSUME NEW i \in Insmod, send_event(i) PROVE OneActor'
  <2>1. InFlight' \subseteq InFlight
    BY <1>0, <1>2 DEF send_event, InFlight, TypeOK
  <2>2. \A s \in Server : Busy(s)' <=> Busy(s)
    BY <1>2 DEF send_event, Busy
  <2> QED
    BY <1>0, <2>1, <2>2 DEF OneActor
<1>3. ASSUME NEW i \in Insmod, eventfd_signal(i) \/ SignalDangling(i) PROVE OneActor'
  <2>1. i \in InFlight
    BY <1>3 DEF eventfd_signal, SignalDangling, InFlight
  <2>2. InFlight' = {}
    BY <1>0, <1>3, <2>1 DEF eventfd_signal, SignalDangling, InFlight, OneActor, TypeOK
  <2>3. \A s \in Server : ~Busy(s)
    BY <1>0, <2>1 DEF OneActor
  <2>4. \E r : \A s \in Server : s # r => efd'[s] = efd[s]
    BY <1>0, <1>3 DEF eventfd_signal, SignalDangling, TypeOK
  <2>5. UNCHANGED spc
    BY <1>3 DEF eventfd_signal, SignalDangling
  <2>6. \A s, t \in Server : Busy(s)' /\ Busy(t)' => s = t
    BY <2>3, <2>4, <2>5 DEF Busy
  <2> QED
    BY <2>2, <2>6 DEF OneActor
<1>4. ASSUME NEW s \in Server, ServerOpen(s) PROVE OneActor'
  <2>1. InFlight = {} /\ \A t \in Server : ~Busy(t)
    BY <1>0, <1>4, QuietIdle DEF ServerOpen
  <2>2. InFlight' = {}
    BY <1>4, <2>1 DEF ServerOpen, InFlight
  <2>3. \A t \in Server : t # s => ~Busy(t)'
    BY <1>0, <1>4, <2>1 DEF ServerOpen, Busy, TypeOK
  <2> QED
    BY <2>2, <2>3 DEF OneActor
<1>5. ASSUME NEW s \in Server,
             \/ ServerRun(s) \/ ProcessAll(s) \/ ProcessOne(s) \/ SelectFails(s)
             \/ SigInt(s) \/ Kill(s)
      PROVE  OneActor'
  <2>1. UNCHANGED ipc
    BY <1>5 DEF ServerRun, Register, SelectReturns, SelectFails, ReadEventfd,
       Deregister, Close, SigInt, Kill, DrainEntry, TakeEntry, CopyEntry, ProcessAll,
       ProcessOne
  <2>2. \A t \in Server : t # s => spc'[t] = spc[t] /\ efd'[t] = efd[t]
    BY <1>0, <1>5 DEF ServerRun, Register, SelectReturns, SelectFails, ReadEventfd,
       Deregister, Close, SigInt, Kill, DrainEntry, TakeEntry, get_pending_module,
       CopyEntry, get_new_entry, CopyFails, ProcessAll, ProcessOne, process_entry,
       TypeOK
  <2>3. Busy(s)' => Busy(s)
    BY <1>0, <1>5 DEF ServerRun, Register, SelectReturns, SelectFails, ReadEventfd,
       Deregister, Close, SigInt, Kill, DrainEntry, TakeEntry, get_pending_module,
       CopyEntry, get_new_entry, CopyFails, ProcessAll, ProcessOne, process_entry,
       TypeOK, Busy
  <2>4. \A t \in Server : Busy(t)' => Busy(t)
    BY <2>2, <2>3 DEF Busy
  <2>5. InFlight' = InFlight
    BY <2>1 DEF InFlight
  <2> QED
    BY <1>0, <2>4, <2>5 DEF OneActor
<1>6. CASE UNCHANGED vars
  BY <1>0, <1>6 DEF vars, OneActor, Busy, InFlight
<1> QED
  BY <1>1, <1>2, <1>3, <1>4, <1>5, <1>6 DEF Next, InsmodRun

(* Every step of a paced environment keeps WorkerInv: a server that is     *)
(* started or woken is the only one at work, and is woken by a signal to   *)
(* the registered server, or through the pointer a killed one left.        *)
LEMMA WorkerStep ==
  ASSUME Paced
  PROVE  TypeInv /\ LockInv /\ PacedInv /\ [Next]_vars => WorkerInv'
<1> SUFFICES ASSUME TypeInv, LockInv, PacedInv, [Next]_vars,
                    NEW t \in Server, Busy(t)', spc'[t] # "opened"
             PROVE  ks' \in {t, None} \/ GoingDown(ks)'
  BY DEF WorkerInv
<1>0. OneActor /\ WorkerInv /\ TypeOK
  BY DEF PacedInv, TypeInv
<1>a. ASSUME UNCHANGED <<ks, spc>>, Busy(t) PROVE ks' \in {t, None} \/ GoingDown(ks)'
  BY <1>0, <1>a DEF WorkerInv, GoingDown
<1>1. ASSUME NEW i \in Insmod, PutModule(i) \/ send_event(i)
      PROVE  ks' \in {t, None} \/ GoingDown(ks)'
  <2>1. UNCHANGED <<ks, spc, efd>>
    BY <1>1 DEF PutModule, send_event
  <2>2. Busy(t)
    BY <2>1 DEF Busy
  <2> QED
    BY <1>a, <2>1, <2>2
<1>2. ASSUME NEW i \in Insmod, eventfd_signal(i)
      PROVE  ks' \in {t, None} \/ GoingDown(ks)'
  <2>1. UNCHANGED <<ks, spc>> /\ (t # ks => efd'[t] = efd[t])
    BY <1>0, <1>2 DEF eventfd_signal, TypeOK
  <2>2. CASE t # ks
    <3>1. Busy(t)
      BY <2>1, <2>2 DEF Busy
    <3> QED
      BY <1>a, <2>1, <3>1
  <2> QED
    BY <2>1, <2>2
<1>3. ASSUME NEW i \in Insmod, SignalDangling(i)
      PROVE  ks' \in {t, None} \/ GoingDown(ks)'
  <2>1. UNCHANGED <<ks, spc>> /\ ~EfdOpen(ks)
    BY <1>3 DEF SignalDangling
  <2>2. ks \in Server /\ spc[ks] = "killed"
    BY <1>0, <1>3, <2>1, EventChannelAssumption
    DEF SignalDangling, LockInv, MutexInv, KsInv, EfdOpen, TypeOK
  <2> QED
    BY <2>1, <2>2 DEF GoingDown
<1>4. ASSUME NEW s \in Server, ServerOpen(s)
      PROVE  ks' \in {t, None} \/ GoingDown(ks)'
  <2>1. \A u \in Server : ~Busy(u)
    BY <1>0, <1>4, QuietIdle DEF ServerOpen
  <2>2. s # t => spc'[t] = spc[t] /\ efd'[t] = efd[t]
    BY <1>0, <1>4 DEF ServerOpen, TypeOK
  <2>3. s = t => ~Busy(t)' \/ spc'[t] = "opened"
    BY <1>0, <1>4 DEF ServerOpen, TypeOK, Busy
  <2> QED
    BY <2>1, <2>2, <2>3 DEF Busy
<1>5. ASSUME NEW s \in Server, Register(s)
      PROVE  ks' \in {t, None} \/ GoingDown(ks)'
  <2>1. Busy(s)
    BY <1>5 DEF Register, Busy
  <2>2. CASE s = t
    BY <1>5, <2>2 DEF Register
  <2>3. CASE s # t
    <3>1. spc'[t] = spc[t] /\ efd'[t] = efd[t]
      BY <1>0, <1>5, <2>3 DEF Register, TypeOK
    <3> QED
      BY <1>0, <2>1, <2>3, <3>1 DEF OneActor, Busy
  <2> QED
    BY <2>2, <2>3
<1>6. ASSUME NEW s \in Server, Deregister(s)
      PROVE  ks' \in {t, None} \/ GoingDown(ks)'
  BY <1>6 DEF Deregister
<1>7. ASSUME NEW s \in Server,
             \/ DrainEntry(s) \/ CopyEntry(s) \/ SelectReturns(s) \/ TakeEntry(s)
             \/ ReadEventfd(s) \/ Close(s) \/ ProcessAll(s) \/ ProcessOne(s)
             \/ SelectFails(s) \/ SigInt(s) \/ Kill(s)
      PROVE  ks' \in {t, None} \/ GoingDown(ks)'
  <2>1. UNCHANGED ks
    BY <1>7 DEF DrainEntry, CopyEntry, SelectReturns, TakeEntry, ReadEventfd, Close,
       ProcessAll, ProcessOne, SelectFails, SigInt, Kill, proxyVars
  <2>2. Busy(t) /\ spc[t] # "opened"
    BY <1>0, <1>7 DEF Busy, DrainEntry, CopyEntry, SelectReturns, TakeEntry,
       ReadEventfd, Close, ProcessAll, ProcessOne, SelectFails, SigInt, Kill,
       get_pending_module, get_new_entry, CopyFails, process_entry, TypeOK
  <2>3. GoingDown(ks) /\ ks \in Server => GoingDown(ks)'
    <3>1. ks \in Server /\ ~GoingDown(ks)' => ~GoingDown(ks)
      BY <2>1, DownForGood DEF GoingDown
    <3> QED
      BY <3>1
  <2>4. ks \in Server \cup {None}
    BY <1>0 DEF TypeOK
  <2> QED
    BY <1>0, <2>1, <2>2, <2>3, <2>4 DEF WorkerInv
<1>8. CASE UNCHANGED vars
  BY <1>8, <1>a DEF vars, Busy
<1> QED
  BY <1>1, <1>2, <1>3, <1>4, <1>5, <1>6, <1>7, <1>8 DEF Next, InsmodRun, ServerRun

(* Every step of a paced environment keeps the entry of an unread signal   *)
(* in the table: only the one server at work could take it.                *)
LEMMA SignalStep ==
  ASSUME Paced
  PROVE  TypeInv /\ LockInv /\ PacedInv /\ [Next]_vars => SignalInv'
<1> SUFFICES ASSUME TypeInv, LockInv, PacedInv, [Next]_vars PROVE SignalInv'
  OBVIOUS
<1>0. OneActor /\ SignalInv /\ TypeOK
  BY DEF PacedInv, TypeInv
<1>a. ASSUME UNCHANGED <<module_table, table_index>> PROVE HasPending' = HasPending
  BY <1>a DEF HasPending, table_num_entries
<1>1. ASSUME NEW i \in Insmod, PutModule(i) PROVE SignalInv'
  <2>1. HasPending'
    BY <1>0, <1>1 DEF PutModule, table_put, HasPending, table_num_entries, TypeOK
  <2> QED
    BY <1>0, <1>1, <2>1 DEF PutModule, SignalInv
<1>2. ASSUME NEW i \in Insmod, send_event(i) PROVE SignalInv'
  BY <1>0, <1>2, <1>a DEF send_event, SignalInv, TypeOK
<1>3. ASSUME NEW i \in Insmod, eventfd_signal(i) \/ SignalDangling(i) PROVE SignalInv'
  <2>1. HasPending'
    BY <1>0, <1>3, <1>a DEF eventfd_signal, SignalDangling, SignalInv
  <2>2. \A s \in Server : ~Busy(s)
    BY <1>0, <1>3 DEF eventfd_signal, SignalDangling, InFlight, OneActor
  <2>3. \A s \in Server : efd'[s] = efd[s] \/ EfdOpen(s)
    BY <1>0, <1>3 DEF eventfd_signal, SignalDangling, TypeOK
  <2>4. UNCHANGED spc
    BY <1>3 DEF eventfd_signal, SignalDangling
  <2>5. ASSUME NEW s \in Server,
               spc[s] \in {"start", "opened", "drain", "drain_copy",
                           "process_all", "process_one"}
        PROVE  efd'[s] = 0
    BY <1>0, <2>2, <2>3, <2>5 DEF SignalInv, Busy, EfdOpen
  <2> QED
    BY <2>1, <2>4, <2>5 DEF SignalInv
<1>4. ASSUME NEW s \in Server,
             \/ ServerOpen(s) \/ Register(s) \/ SelectReturns(s) \/ SelectFails(s)
             \/ Deregister(s) \/ Close(s) \/ SigInt(s) \/ Kill(s) \/ ProcessAll(s)
             \/ ProcessOne(s)
      PROVE  SignalInv'
  <2>1. UNCHANGED <<module_table, table_index, ipc, efd>>
    BY <1>4 DEF ServerOpen, Register, SelectReturns, SelectFails, Deregister, Close,
       SigInt, Kill, ProcessAll, ProcessOne, proxyVars
  <2>2. \A t \in Server : t # s => spc'[t] = spc[t]
    BY <1>0, <1>4 DEF ServerOpen, Register, SelectReturns, SelectFails, Deregister,
       Close, SigInt, Kill, ProcessAll, ProcessOne, process_entry, TypeOK
  <2>3. /\ spc'[s] \in {"start", "opened", "drain", "drain_copy", "process_all",
                        "process_one"} => efd[s] = 0
        /\ spc'[s] = "wake" \/ (spc'[s] = "select" /\ efd[s] > 0) => HasPending
    <3> USE <1>0 DEF TypeOK, SignalInv
    <3>1. CASE ServerOpen(s) \/ Register(s)
      BY <3>1 DEF ServerOpen, Register
    <3>2. CASE SelectReturns(s) \/ SelectFails(s)
      BY <3>2 DEF SelectReturns, SelectFails
    <3>3. CASE Deregister(s) \/ Close(s) \/ SigInt(s) \/ Kill(s)
      BY <3>3 DEF Deregister, Close, SigInt, Kill
    <3>4. CASE ProcessAll(s) \/ ProcessOne(s)
      BY <3>4 DEF ProcessAll, ProcessOne, process_entry
    <3> QED
      BY <1>4, <3>1, <3>2, <3>3, <3>4
  <2> QED
    BY <1>0, <1>a, <2>1, <2>2, <2>3 DEF SignalInv
<1>5. ASSUME NEW s \in Server, DrainEntry(s) \/ TakeEntry(s) PROVE SignalInv'
  <2>1. Busy(s) /\ UNCHANGED <<ipc, efd>>
    BY <1>5 DEF DrainEntry, TakeEntry, Busy
  <2>2. \A i \in Insmod : ipc[i] # "signal"
    BY <1>0, <2>1 DEF OneActor, InFlight
  <2>3. \A t \in Server : t # s => ~Busy(t) /\ spc'[t] = spc[t]
    BY <1>0, <1>5, <2>1 DEF OneActor, DrainEntry, TakeEntry, get_pending_module,
       TypeOK
  <2>4. CASE DrainEntry(s)
    <3>1. spc'[s] \in {"drain_copy", "process_all"} /\ efd[s] = 0
      BY <1>0, <2>4 DEF DrainEntry, get_pending_module, TypeOK, SignalInv
    <3> QED
      BY <1>0, <2>1, <2>2, <2>3, <3>1 DEF SignalInv, Busy
  <2>5. CASE TakeEntry(s)
    <3>1. spc'[s] \in {"wake_copy", "out"}
      BY <1>0, <2>5 DEF TakeEntry, get_pending_module, TypeOK
    <3> QED
      BY <1>0, <2>1, <2>2, <2>3, <3>1 DEF SignalInv, Busy
  <2> QED
    BY <1>5, <2>4, <2>5
<1>6. ASSUME NEW s \in Server, ReadEventfd(s) PROVE SignalInv'
  <2>1. UNCHANGED <<module_table, table_index, ipc>>
    BY <1>6 DEF ReadEventfd, proxyVars
  <2>2. \A t \in Server : t # s => spc'[t] = spc[t] /\ efd'[t] = efd[t]
    BY <1>0, <1>6 DEF ReadEventfd, TypeOK
  <2>3. spc'[s] = "out" \/ (spc'[s] = "process_one" /\ efd'[s] = 0)
    BY <1>0, <1>6 DEF ReadEventfd, TypeOK
  <2> QED
    BY <1>0, <1>a, <2>1, <2>2, <2>3 DEF SignalInv
<1>7. ASSUME NEW s \in Server, CopyEntry(s) PROVE SignalInv'
  <2>1. UNCHANGED <<ipc, efd>>
    BY <1>7 DEF CopyEntry
  <2>2. \A t \in Server : t # s => spc'[t] = spc[t]
    BY <1>0, <1>7 DEF CopyEntry, get_new_entry, CopyFails, TypeOK
  <2>3. \/ spc'[s] \in {"read", "out"}
        \/ spc[s] = "drain_copy" /\ spc'[s] = "drain"
    BY <1>0, <1>7 DEF CopyEntry, get_new_entry, CopyFails, TypeOK
  <2>4. HasPending => HasPending'
    BY <1>0, <1>7, CopyPending
  <2> QED
    BY <1>0, <2>1, <2>2, <2>3, <2>4 DEF SignalInv
<1>8. CASE UNCHANGED vars
  BY <1>0, <1>8, <1>a DEF vars, SignalInv
<1> QED
  BY <1>1, <1>2, <1>3, <1>4, <1>5, <1>6, <1>7, <1>8 DEF Next, InsmodRun, ServerRun

(* Every step of a paced environment keeps the registered server up to     *)
(* date: the next insmod waits until the entry of the last one was taken   *)
(* and processed.                                                          *)
LEMMA BehindStep ==
  ASSUME Paced
  PROVE  TypeInv /\ LockInv /\ PacedInv /\ [Next]_vars => BehindInv'
<1> DEFINE P(t) ==
      /\ spc[t] \in {"process_all", "wake_copy", "read", "process_one"} =>
            ~HasPending
      /\ spc[t] \in {"select", "wake"} => NumPending <= 1
      /\ spc[t] = "select" /\ efd[t] = 0 /\ InFlight = {} => ~HasPending
<1> SUFFICES ASSUME TypeInv, LockInv, PacedInv, [Next]_vars,
                    NEW t \in Server, ks' = t
             PROVE  P(t)'
  BY DEF BehindInv
<1>0. OneActor /\ WorkerInv /\ SignalInv /\ TypeOK /\ WakeInv
  BY DEF PacedInv, TypeInv
<1>a. ks = t => P(t)
  BY DEF PacedInv, BehindInv
<1>b. /\ NumPending \in Nat
      /\ HasPending <=> NumPending > 0
  BY <1>0 DEF TypeOK, NumPending, HasPending, table_num_entries
<1>c. ASSUME UNCHANGED <<module_table, table_index>>
      PROVE  HasPending' = HasPending /\ NumPending' = NumPending
  BY <1>c DEF HasPending, NumPending, table_num_entries
<1>d. ASSUME UNCHANGED ipc PROVE InFlight' = InFlight
  BY <1>d DEF InFlight
<1>1. ASSUME NEW i \in Insmod, PutModule(i) PROVE P(t)'
  <2>1. InFlight = {} /\ ~Busy(t)
    BY <1>0, <1>1, QuietIdle DEF PutModule
  <2>2. InFlight' # {} /\ UNCHANGED <<ks, spc, efd>>
    BY <1>0, <1>1 DEF PutModule, InFlight, TypeOK
  <2>3. spc[t] \notin {"process_all", "wake_copy", "read", "process_one", "wake"}
    BY <2>1 DEF Busy
  <2>4. spc[t] = "select" => efd[t] = 0
    BY <1>0, <2>1 DEF Busy, TypeOK
  <2>5. NumPending' = NumPending + 1
    BY <1>0, <1>1 DEF PutModule, table_put, NumPending, table_num_entries, TypeOK
  <2>6. spc[t] = "select" => NumPending = 0
    BY <1>a, <1>b, <2>1, <2>2, <2>4
  <2> QED
    BY <2>2, <2>3, <2>5, <2>6
<1>2. ASSUME NEW i \in Insmod, send_event(i) PROVE P(t)'
  <2>1. UNCHANGED <<ks, spc, efd, module_table, table_index>>
    BY <1>2 DEF send_event
  <2>2. HasPending => InFlight' # {}
    BY <1>0, <1>2, <2>1, EventChannelAssumption DEF send_event, InFlight, TypeOK
  <2> QED
    BY <1>a, <1>c, <2>1, <2>2
<1>3. ASSUME NEW i \in Insmod, eventfd_signal(i) PROVE P(t)'
  <2>1. UNCHANGED <<ks, spc, module_table, table_index>> /\ efd'[t] = efd[t] + 1
    BY <1>0, <1>3 DEF eventfd_signal, TypeOK
  <2>2. efd'[t] # 0
    BY <1>0, <2>1 DEF TypeOK
  <2> QED
    BY <1>a, <1>c, <2>1, <2>2
<1>4. ASSUME NEW i \in Insmod, SignalDangling(i) PROVE P(t)'
  <2>1. spc'[t] \in {"start", "exited", "killed"}
    BY <1>4 DEF SignalDangling, EfdOpen
  <2> QED
    BY <2>1
<1>5. ASSUME NEW s \in Server, ServerOpen(s) \/ Register(s) PROVE P(t)'
  <2>1. CASE s = t
    BY <1>0, <1>5, <2>1, EventChannelAssumption DEF ServerOpen, Register, TypeOK
  <2>2. CASE s # t
    <3>1. /\ UNCHANGED <<module_table, table_index, ipc, efd>>
          /\ spc'[t] = spc[t] /\ ks = t
      BY <1>0, <1>5, <2>2, EventChannelAssumption DEF ServerOpen, Register, TypeOK, proxyVars
    <3> QED
      BY <1>a, <1>c, <1>d, <3>1
  <2> QED
    BY <2>1, <2>2
<1>6. ASSUME NEW s \in Server,
             \/ SelectReturns(s) \/ SelectFails(s) \/ Close(s) \/ SigInt(s)
             \/ Kill(s) \/ ProcessAll(s) \/ ProcessOne(s)
      PROVE  P(t)'
  <2>1. UNCHANGED <<module_table, table_index, ipc, efd, ks>>
    BY <1>6 DEF SelectReturns, SelectFails, Close, SigInt, Kill, ProcessAll,
       ProcessOne, proxyVars
  <2>2. \/ spc'[t] = spc[t]
        \/ spc[t] = "select" /\ spc'[t] = "wake"
        \/ /\ spc[t] \in {"process_all", "process_one"}
           /\ spc'[t] \in {"process_all", "select", "out"}
        \/ spc'[t] \in {"out", "exited", "sigint", "killed"}
    BY <1>0, <1>6 DEF SelectReturns, SelectFails, Close, SigInt, Kill, ProcessAll,
       ProcessOne, process_entry, TypeOK
  <2> QED
    BY <1>a, <1>b, <1>c, <1>d, <2>1, <2>2
<1>7. ASSUME NEW s \in Server, DrainEntry(s) \/ TakeEntry(s) PROVE P(t)'
  <2>1. UNCHANGED <<module_table, ks, ipc, efd>>
    BY <1>7 DEF DrainEntry, TakeEntry
  <2>2. \E none, copy \in ServerState : get_pending_module(s, none, copy)
    BY <1>7 DEF DrainEntry, TakeEntry, ServerState
  <2>3. /\ NumPending' \in Nat
        /\ HasPending' <=> NumPending' > 0
        /\ NumPending' = IF HasPending THEN NumPending - 1 ELSE NumPending
    BY <1>0, <2>1, <2>2, GetPendingCount
  <2>4. CASE s # t
    <3>1. spc'[t] = spc[t]
      BY <1>0, <1>7, <2>4 DEF DrainEntry, TakeEntry, get_pending_module, TypeOK
    <3> QED
      BY <1>a, <1>b, <1>d, <2>1, <2>3, <3>1
  <2>5. CASE s = t /\ DrainEntry(s)
    <3>1. spc'[t] = "drain_copy" \/ (spc'[t] = "process_all" /\ ~HasPending)
      BY <1>0, <2>5 DEF DrainEntry, get_pending_module, TypeOK
    <3> QED
      BY <1>b, <2>3, <3>1
  <2>6. CASE s = t /\ TakeEntry(s)
    <3>1. spc[t] = "wake" /\ spc'[t] \in {"wake_copy", "out"}
      BY <1>0, <2>6 DEF TakeEntry, get_pending_module, TypeOK
    <3>2. NumPending <= 1
      BY <1>a, <2>1, <3>1
    <3> QED
      BY <1>b, <2>3, <3>1, <3>2
  <2> QED
    BY <1>7, <2>4, <2>5, <2>6
<1>8. ASSUME NEW s \in Server, ReadEventfd(s) PROVE P(t)'
  <2>1. UNCHANGED <<module_table, table_index, ipc, ks>>
    BY <1>8 DEF ReadEventfd, proxyVars
  <2>2. \/ spc'[t] = spc[t] /\ efd'[t] = efd[t]
        \/ spc[t] = "read" /\ spc'[t] \in {"process_one", "out"}
    BY <1>0, <1>8 DEF ReadEventfd, TypeOK
  <2> QED
    BY <1>a, <1>c, <1>d, <2>1, <2>2
<1>9. ASSUME NEW s \in Server, Deregister(s) PROVE FALSE
  BY <1>9, EventChannelAssumption DEF Deregister
<1>10. ASSUME NEW s \in Server, CopyEntry(s) PROVE P(t)'
  <2>1. UNCHANGED <<module_table, ks, ipc, efd>> /\ Busy(s) /\ spc[s] # "opened"
    BY <1>10 DEF CopyEntry, Busy
  <2>2. CASE s = t
    <3>1. \/ spc'[t] \in {"drain", "out"}
          \/ spc[t] = "wake_copy" /\ spc'[t] = "read" /\ UNCHANGED table_index
      BY <1>0, <1>10, <2>2 DEF CopyEntry, get_new_entry, CopyFails, TypeOK
    <3> QED
      BY <1>a, <1>c, <2>1, <3>1
  <2>3. CASE s # t
    <3>1. spc'[t] = spc[t]
      BY <1>0, <1>10, <2>3 DEF CopyEntry, get_new_entry, CopyFails, TypeOK
    <3>2. GoingDown(t)
      BY <1>0, <2>1, <2>3, EventChannelAssumption DEF WorkerInv
    <3> QED
      BY <3>1, <3>2 DEF GoingDown
  <2> QED
    BY <2>2, <2>3
<1>11. CASE UNCHANGED vars
  BY <1>11, <1>a, <1>c, <1>d DEF vars
<1> QED
  BY <1>1, <1>2, <1>3, <1>4, <1>5, <1>6, <1>7, <1>8, <1>9, <1>10, <1>11
  DEF Next, InsmodRun, ServerRun

(* The paced invariant holds at first and is inductive.                    *)
LEMMA PacedInvariant ==
  ASSUME Paced
  PROVE  Spec => [](TypeInv /\ PacedInv)
<1>1. Init => LockInv /\ PacedInv
  <2> SUFFICES ASSUME Init PROVE LockInv /\ PacedInv
    OBVIOUS
  <2>1. LockInv
    BY EventChannelAssumption DEF Init, LockInv, MutexInv, KsInv
  <2>2. InFlight = {} /\ \A s \in Server : ~Busy(s)
    BY DEF Init, InFlight, Busy
  <2>3. OneActor
    BY <2>2 DEF OneActor
  <2>4. SignalInv /\ BehindInv
    BY EventChannelAssumption DEF Init, SignalInv, BehindInv
  <2>5. WorkerInv
    BY <2>2 DEF WorkerInv
  <2> QED
    BY <2>1, <2>3, <2>4, <2>5 DEF PacedInv
<1>2. TypeInv /\ LockInv /\ PacedInv /\ [Next]_vars => PacedInv'
  BY OneActorStep, WorkerStep, SignalStep, BehindStep DEF PacedInv
<1> QED
  BY <1>1, <1>2, TypeInit, TypeStep, LockStep, PTL DEF Spec

(* When insmods and server starts are spaced out, no entry is left waiting *)
(* while the registered server sleeps: one read() then consumes one signal *)
(* at most.  This holds even if servers are killed at any point.           *)
THEOREM PacedLosesNoWakeup ==
  ASSUME Paced
  PROVE  Spec => []NoLostWakeup
<1>1. PacedInv => NoLostWakeup
  BY DEF PacedInv, BehindInv, NoLostWakeup
<1> QED
  BY <1>1, PacedInvariant, PTL

(* When insmods and server starts are spaced out, select() never fires     *)
(* without an entry to take, so the error exit of the main loop is not     *)
(* reached, even if servers are killed at any point.                       *)
THEOREM PacedWakesForEntry ==
  ASSUME Paced
  PROVE  Spec => []NoSpurious
<1>1. PacedInv => NoSpurious
  BY DEF PacedInv, SignalInv, NoSpurious
<1> QED
  BY <1>1, PacedInvariant, PTL
=============================================================================
