------------------------- MODULE EventChannelProofs -------------------------
(***************************************************************************)
(* Machine-checked proofs about EventChannel, for any finite set of        *)
(* insmods, any set of servers, with or without kills and pacing.          *)
(***************************************************************************)
EXTENDS EventChannel, FiniteSetTheorems, TLAPS

-----------------------------------------------------------------------------
(* The inductive invariant, part by part.                                  *)

(* select() returned because the counter was positive, and only the server *)
(* itself resets it.                                                       *)
WakeInv ==
    \A s \in Server : spc[s] \in {"wake", "wake_copy", "read"} => efd[s] > 0

(* A request that has popped an entry knows its index.                     *)
CopyInv == \A s \in Server : InIoctl(s) => mt[s] < Len(module_table)

(* ks_mutex is held across steps by the one insmod about to signal, or by  *)
(* one that died there; it signals a server that is registered.            *)
MutexInv ==
    \A i \in Insmod :
        /\ ipc[i] \in {"signal", "oops"} <=> ks_mutex = i
        /\ ipc[i] = "signal" => ks # None

(* The registered server has not left the registered part of main().       *)
KsInv ==
    ks # None => spc[ks] \in {"drain", "drain_copy", "process_all", "select",
                              "wake", "wake_copy", "read", "process_one", "out",
                              "sigint", "killed"}

(* Every entry up to table_index was popped by someone.                    *)
PopInv ==
    \A k \in 1..(table_index + 1) :
        \E h \in popped : h.uuid = module_table[k]

(* Only insmods that have run are in the table, each once.                 *)
PutInv ==
    /\ \A k \in 1..Len(module_table) : ipc[module_table[k]] # "idle"
    /\ \A j, k \in 1..Len(module_table) : module_table[j] = module_table[k] => j = k

(* An entry is with one request for being at or below table_index, and     *)
(* with at most one more for every un-pop that gave back another entry.    *)
Popped(k) == IF k <= table_index + 1 THEN 1 ELSE 0

GivenInv ==
    /\ \A k \in 1..Len(module_table) :
          /\ given[module_table[k]] <= misreturned + Popped(k)
          /\ misreturned = 0 => given[module_table[k]] = Popped(k)
    /\ \A i \in Insmod : ipc[i] = "idle" => given[i] = 0

(* From the end of its start-up loop on, every entry pending for the       *)
(* registered server is paid for: by a signal in its counter, by a signal  *)
(* that an earlier read() swallowed, by an un-pop, or by an insmod still on *)
(* its way to the signal.  Between the pop and the read() one signal is    *)
(* owed.                                                                   *)
Owed(s) == NumPending + (IF spc[s] \in {"wake_copy", "read"} THEN 1 ELSE 0)

Paid(s) == efd[s] + swallowed[s] + returned + Cardinality(InFlight)

Serving == {"process_all", "select", "wake", "wake_copy", "read", "process_one"}

StrandInv == \A s \in Server : ks = s /\ spc[s] \in Serving => Owed(s) <= Paid(s)

(* What the rows of s's uuid_table look like at each point of main().      *)
LastNew(s) ==
    /\ uuid_table[s] # <<>>
    /\ \A k \in 1..Len(uuid_table[s]) :
          uuid_table[s][k].st =
             IF k = Len(uuid_table[s]) THEN "new" ELSE "processed"

RowInv ==
    \A s \in Server :
        /\ spc[s] \in {"start", "opened"} => uuid_table[s] = <<>>
        /\ spc[s] \in {"drain", "drain_copy", "process_all"} =>
              \A k \in 1..Len(uuid_table[s]) :
                  uuid_table[s][k].st \in {"new", "processed"}
        /\ spc[s] \in {"select", "wake", "wake_copy"} =>
              \A k \in 1..Len(uuid_table[s]) :
                  uuid_table[s][k].st = "processed"
        /\ spc[s] \in {"read", "process_one"} => LastNew(s)

TypeInv == TypeOK /\ WakeInv /\ CopyInv

(* Signalling an eventfd lowers no counter.                                *)
LEMMA SignalType ==
  ASSUME NEW f \in [Server -> Nat], NEW t
  PROVE  /\ [f EXCEPT ![t] = @ + 1] \in [Server -> Nat]
         /\ \A s \in Server : [f EXCEPT ![t] = @ + 1][s] >= f[s]
<1> DEFINE g == [f EXCEPT ![t] = @ + 1]
<1>1. \A s \in Server : g[s] = IF s = t THEN f[s] + 1 ELSE f[s]
  OBVIOUS
<1>2. g = [s \in Server |-> g[s]]
  OBVIOUS
<1>3. \A s \in Server : g[s] \in Nat /\ g[s] >= f[s]
  BY <1>1
<1> HIDE DEF g
<1>4. g \in [Server -> Nat]
  BY <1>2, <1>3
<1> QED
  BY <1>3, <1>4 DEF g

(* What table_pop() returns is a row of the table: a uuid of some insmod.  *)
LEMMA PopType ==
  ASSUME TypeOK, HasPending
  PROVE  table_peek \in Insmod
BY DEF TypeOK, HasPending, table_peek, table_num_entries

(* The pop keeps the index within the table and remembers it.              *)
LEMMA GetPendingType ==
  ASSUME TypeOK, NEW s \in Server, NEW none, NEW copy,
         get_pending_module(s, none, copy)
  PROVE  /\ table_index' \in -1..(Len(module_table) - 1)
         /\ mt' \in [Server -> Nat]
         /\ popped' \in SUBSET HandOut
         /\ given' \in [Insmod -> Int]
         /\ \A t \in Server : t # s => mt'[t] = mt[t]
         /\ \/ ~HasPending /\ spc' = [spc EXCEPT ![s] = none]
            \/ /\ HasPending /\ spc' = [spc EXCEPT ![s] = copy]
               /\ mt'[s] < Len(module_table)
<1>1. CASE ~HasPending
  BY <1>1 DEF get_pending_module, table_pop, TypeOK
<1>2. CASE HasPending
  <2>1. table_peek \in Insmod
    BY <1>2, PopType
  <2>2. [to |-> s, uuid |-> table_peek] \in HandOut
    BY <2>1 DEF HandOut
  <2>3. /\ table_index' = table_index + 1
        /\ mt' = [mt EXCEPT ![s] = table_index + 1]
        /\ popped' = popped \cup {[to |-> s, uuid |-> table_peek]}
        /\ given' = [given EXCEPT ![table_peek] = @ + 1]
        /\ spc' = [spc EXCEPT ![s] = copy]
    BY <1>2 DEF get_pending_module, table_pop
  <2>4. table_index + 1 \in 0..(Len(module_table) - 1)
    BY <1>2 DEF HasPending, table_num_entries, TypeOK
  <2>5. given' \in [Insmod -> Int]
    BY <2>1, <2>3 DEF TypeOK
  <2>6. popped' \in SUBSET HandOut
    BY <2>2, <2>3 DEF TypeOK
  <2>7. /\ table_index' \in -1..(Len(module_table) - 1)
        /\ mt' \in [Server -> Nat]
        /\ \A t \in Server : t # s => mt'[t] = mt[t]
        /\ mt'[s] < Len(module_table)
    BY <2>3, <2>4 DEF TypeOK
  <2> QED
    BY <1>2, <2>3, <2>5, <2>6, <2>7
<1> QED
  BY <1>1, <1>2

(* A request under way has popped a row of the table.                      *)
LEMMA CopyType ==
  ASSUME TypeInv, NEW s \in Server, InIoctl(s)
  PROVE  uuid(s) \in Insmod
<1>1. mt[s] \in Nat /\ mt[s] < Len(module_table) /\ module_table \in Seq(Insmod)
  BY DEF TypeInv, TypeOK, CopyInv
<1> QED
  BY <1>1 DEF uuid

(* The end of a request keeps the index within the table and the rows typed. *)
LEMMA GetNewEntryType ==
  ASSUME TypeInv, NEW s \in Server, CopyEntry(s)
  PROVE  /\ table_index' \in -1..(Len(module_table) - 1)
         /\ given' \in [Insmod -> Int]
         /\ returned' \in Nat /\ misreturned' \in Nat
         /\ uuid_table' \in [Server -> Seq(Entry)]
         /\ \E to \in {"drain", "read", "out"} :
               /\ spc' = [spc EXCEPT ![s] = to]
               /\ to = "read" => spc[s] = "wake_copy"
<1>0. uuid(s) \in Insmod /\ TypeOK
  BY CopyType DEF CopyEntry, InIoctl, TypeInv
<1>1. CASE /\ uuid_table' = [uuid_table EXCEPT ![s] =
                                Append(@, [uuid |-> uuid(s), st |-> "new"])]
           /\ spc' = [spc EXCEPT ![s] = IF @ = "drain_copy" THEN "drain" ELSE "read"]
           /\ UNCHANGED <<table_index, given, returned, misreturned>>
  <2>1. [uuid |-> uuid(s), st |-> "new"] \in Entry
    BY <1>0 DEF Entry
  <2>2. uuid_table' \in [Server -> Seq(Entry)]
    BY <1>0, <1>1, <2>1 DEF TypeOK
  <2>3. \/ spc[s] = "drain_copy" /\ spc' = [spc EXCEPT ![s] = "drain"]
        \/ spc[s] = "wake_copy" /\ spc' = [spc EXCEPT ![s] = "read"]
    BY <1>0, <1>1 DEF CopyEntry, TypeOK
  <2> QED
    BY <1>0, <1>1, <2>2, <2>3 DEF TypeOK
<1>2. CASE /\ spc' = [spc EXCEPT ![s] = "out"]
           /\ UNCHANGED <<uuid_table, table_index, given, returned, misreturned>>
  BY <1>0, <1>2 DEF TypeOK
<1>3. CASE CopyFails(s)
  <2>1. /\ UNCHANGED uuid_table /\ spc' = [spc EXCEPT ![s] = "out"]
        /\ table_index' \in -1..(Len(module_table) - 1)
    BY <1>0, <1>3 DEF CopyFails, table_pop_reverse, TypeOK
  <2>2. CASE table_index <= 0
    BY <1>0, <1>3, <2>1, <2>2 DEF CopyFails, TypeOK
  <2>3. CASE ~(table_index <= 0)
    <3>1. /\ given' = [given EXCEPT ![uuid(s)] = @ - 1]
          /\ returned' = returned + 1
          /\ misreturned' \in {misreturned, misreturned + 1}
      BY <1>0, <1>3, <2>3 DEF CopyFails, TypeOK
    <3>2. given' \in [Insmod -> Int] /\ returned' \in Nat /\ misreturned' \in Nat
      BY <1>0, <3>1 DEF TypeOK
    <3> QED
      BY <1>0, <2>1, <3>2 DEF TypeOK
  <2> QED
    BY <2>2, <2>3
<1> QED
  BY <1>1, <1>2, <1>3 DEF CopyEntry, get_new_entry

(* process_entry() changes at most one flag of one row.                    *)
LEMMA ProcessEntryType ==
  ASSUME TypeOK, NEW s \in Server, NEW none \in ServerState,
         NEW one \in ServerState, process_entry(s, none, one)
  PROVE  /\ uuid_table' \in [Server -> Seq(Entry)]
         /\ \E to \in {none, one, "out"} : spc' = [spc EXCEPT ![s] = to]
<1>1. CASE UNCHANGED uuid_table
  BY <1>1 DEF process_entry, TypeOK
<1>2. ASSUME NEW k \in 1..Len(uuid_table[s]),
             NEW st \in {"processed", "could_not_process"},
             uuid_table' =
                [uuid_table EXCEPT ![s][k] = [uuid |-> @.uuid, st |-> st]],
             spc' = [spc EXCEPT ![s] = IF st = "processed" THEN one ELSE "out"]
      PROVE  /\ uuid_table' \in [Server -> Seq(Entry)]
             /\ \E to \in {none, one, "out"} : spc' = [spc EXCEPT ![s] = to]
  <2>1. uuid_table[s] \in Seq(Entry)
    BY DEF TypeOK
  <2>2. uuid_table[s][k] \in Entry
    BY <2>1
  <2>3. [uuid |-> uuid_table[s][k].uuid, st |-> st] \in Entry
    BY <2>2 DEF Entry
  <2>4. [uuid_table[s] EXCEPT
            ![k] = [uuid |-> uuid_table[s][k].uuid, st |-> st]] \in Seq(Entry)
    BY <2>1, <2>3
  <2> QED
    BY <1>2, <2>4 DEF TypeOK
<1> QED
  BY <1>1, <1>2 DEF process_entry

(* Init establishes the types and what holds between select() and read().  *)
LEMMA TypeInit == Init => TypeInv
  BY EventChannelAssumption
  DEF Init, TypeInv, TypeOK, WakeInv, CopyInv, InIoctl, InsmodState, ServerState

(* Every step preserves the types.  The only delicate one is read(): that  *)
(* swallowed stays a natural number rests on WakeInv.                      *)
LEMMA TypeStep == TypeInv /\ [Next]_vars => TypeInv'
<1> SUFFICES ASSUME TypeInv, [Next]_vars PROVE TypeInv'
  OBVIOUS
<1> USE EventChannelAssumption DEF TypeInv, TypeOK, WakeInv, CopyInv, InIoctl,
        InsmodState, ServerState, proxyVars, popVars
<1>1. ASSUME NEW i \in Insmod, PutModule(i) PROVE TypeInv'
  BY <1>1 DEF PutModule, table_put
<1>2. ASSUME NEW i \in Insmod, send_event(i) PROVE TypeInv'
  BY <1>2 DEF send_event
<1>3. ASSUME NEW i \in Insmod, eventfd_signal(i) PROVE TypeInv'
  <2>1. efd' \in [Server -> Nat] /\ \A s \in Server : efd'[s] >= efd[s]
    BY <1>3, SignalType DEF eventfd_signal
  <2>2. TypeOK'
    BY <1>3, <2>1 DEF eventfd_signal
  <2>3. WakeInv'
    BY <1>3, <2>1 DEF eventfd_signal
  <2>4. CopyInv'
    BY <1>3 DEF eventfd_signal
  <2> QED
    BY <2>2, <2>3, <2>4
<1>4. ASSUME NEW i \in Insmod, SignalDangling(i) PROVE TypeInv'
  <2>1. efd' \in [Server -> Nat] /\ \A s \in Server : efd'[s] >= efd[s]
    <3>0. efd \in [Server -> Nat]
      OBVIOUS
    <3> HIDE DEF TypeInv, TypeOK, WakeInv, CopyInv
    <3>1. CASE UNCHANGED efd
      BY <3>0, <3>1
    <3>2. CASE \E s \in Server : efd' = [efd EXCEPT ![s] = @ + 1]
      BY <3>0, <3>2, SignalType
    <3> QED
      BY <1>4, <3>1, <3>2 DEF SignalDangling
  <2>2. TypeOK'
    BY <1>4, <2>1 DEF SignalDangling
  <2>3. WakeInv'
    BY <1>4, <2>1 DEF SignalDangling
  <2>4. CopyInv'
    BY <1>4 DEF SignalDangling
  <2> QED
    BY <2>2, <2>3, <2>4
<1>5. ASSUME NEW s \in Server, ServerOpen(s) PROVE TypeInv'
  BY <1>5 DEF ServerOpen
<1>6. ASSUME NEW s \in Server, Register(s) PROVE TypeInv'
  BY <1>6 DEF Register
<1>7. ASSUME NEW s \in Server, DrainEntry(s) PROVE TypeInv'
  <2>1. get_pending_module(s, "process_all", "drain_copy")
    BY <1>7 DEF DrainEntry
  <2>2. /\ table_index' \in -1..(Len(module_table) - 1)
        /\ mt' \in [Server -> Nat]
        /\ popped' \in SUBSET HandOut
        /\ given' \in [Insmod -> Int]
        /\ \A t \in Server : t # s => mt'[t] = mt[t]
        /\ \/ spc' = [spc EXCEPT ![s] = "process_all"]
           \/ spc' = [spc EXCEPT ![s] = "drain_copy"] /\ mt'[s] < Len(module_table)
    BY <2>1, GetPendingType
  <2>3. drained' \in SUBSET Insmod
    BY <1>7, PopType DEF DrainEntry
  <2>4. TypeOK'
    BY <1>7, <2>2, <2>3 DEF DrainEntry
  <2>5. WakeInv' /\ CopyInv'
    BY <1>7, <2>2 DEF DrainEntry
  <2> QED
    BY <2>4, <2>5
<1>8. ASSUME NEW s \in Server, ProcessAll(s) PROVE TypeInv'
  <2>1. process_entry(s, "select", "process_all")
    BY <1>8 DEF ProcessAll
  <2>2. /\ uuid_table' \in [Server -> Seq(Entry)]
        /\ \E to \in {"select", "process_all", "out"} : spc' = [spc EXCEPT ![s] = to]
    BY <2>1, ProcessEntryType
  <2> QED
    BY <1>8, <2>2 DEF ProcessAll
<1>9. ASSUME NEW s \in Server, SelectReturns(s) PROVE TypeInv'
  BY <1>9 DEF SelectReturns
<1>10. ASSUME NEW s \in Server, TakeEntry(s) PROVE TypeInv'
  <2>1. get_pending_module(s, "out", "wake_copy")
    BY <1>10 DEF TakeEntry
  <2>2. /\ table_index' \in -1..(Len(module_table) - 1)
        /\ mt' \in [Server -> Nat]
        /\ popped' \in SUBSET HandOut
        /\ given' \in [Insmod -> Int]
        /\ \A t \in Server : t # s => mt'[t] = mt[t]
        /\ \/ spc' = [spc EXCEPT ![s] = "out"]
           \/ spc' = [spc EXCEPT ![s] = "wake_copy"] /\ mt'[s] < Len(module_table)
    BY <2>1, GetPendingType
  <2>3. TypeOK'
    BY <1>10, <2>2 DEF TakeEntry
  <2>4. WakeInv' /\ CopyInv'
    BY <1>10, <2>2 DEF TakeEntry
  <2> QED
    BY <2>3, <2>4
<1>11. ASSUME NEW s \in Server, ReadEventfd(s) PROVE TypeInv'
  <2>1. CASE spc' = [spc EXCEPT ![s] = "process_one"]
    <3>1. efd' = [efd EXCEPT ![s] = 0] /\ efd[s] > 0
      BY <1>11, <2>1 DEF ReadEventfd
    <3>2. swallowed' \in [Server -> Nat]
      <4>1. swallowed \in [Server -> Nat] /\ efd[s] \in Nat /\ efd[s] > 0
        BY <3>1
      <4>2. swallowed' = [swallowed EXCEPT ![s] = @ + efd[s] - 1]
        BY <1>11, <2>1 DEF ReadEventfd
      <4>3. swallowed[s] + efd[s] - 1 \in Nat
        BY <4>1
      <4> HIDE DEF TypeInv, TypeOK, WakeInv, CopyInv
      <4> QED
        BY <4>1, <4>2, <4>3
    <3>3. TypeOK'
      BY <1>11, <2>1, <3>1, <3>2 DEF ReadEventfd
    <3>4. WakeInv' /\ CopyInv'
      BY <1>11, <2>1, <3>1 DEF ReadEventfd
    <3> QED
      BY <3>3, <3>4
  <2>2. CASE spc' = [spc EXCEPT ![s] = "out"] /\ UNCHANGED <<efd, swallowed>>
    BY <1>11, <2>2 DEF ReadEventfd
  <2> QED
    BY <1>11, <2>1, <2>2 DEF ReadEventfd
<1>12. ASSUME NEW s \in Server, ProcessOne(s) PROVE TypeInv'
  <2>1. process_entry(s, "out", "select")
    BY <1>12 DEF ProcessOne
  <2>2. /\ uuid_table' \in [Server -> Seq(Entry)]
        /\ \E to \in {"out", "select", "out"} : spc' = [spc EXCEPT ![s] = to]
    BY <2>1, ProcessEntryType
  <2> QED
    BY <1>12, <2>2 DEF ProcessOne
<1>13. ASSUME NEW s \in Server, Deregister(s) PROVE TypeInv'
  BY <1>13 DEF Deregister
<1>14. ASSUME NEW s \in Server, Close(s) PROVE TypeInv'
  BY <1>14 DEF Close
<1>15. ASSUME NEW s \in Server, SigInt(s) PROVE TypeInv'
  BY <1>15 DEF SigInt
<1>16. ASSUME NEW s \in Server, Kill(s) PROVE TypeInv'
  BY <1>16 DEF Kill
<1>18. ASSUME NEW s \in Server, CopyEntry(s) PROVE TypeInv'
  <2>1. PICK to \in {"drain", "read", "out"} :
           /\ spc' = [spc EXCEPT ![s] = to]
           /\ to = "read" => spc[s] = "wake_copy"
    BY <1>18, GetNewEntryType
  <2>2. TypeOK'
    BY <1>18, <2>1, GetNewEntryType DEF CopyEntry
  <2>3. WakeInv' /\ CopyInv'
    BY <1>18, <2>1 DEF CopyEntry
  <2> QED
    BY <2>2, <2>3
<1>19. ASSUME NEW s \in Server, SelectFails(s) PROVE TypeInv'
  BY <1>19 DEF SelectFails
<1>17. CASE UNCHANGED vars
  BY <1>17 DEF vars
<1> QED
  BY <1>1, <1>2, <1>3, <1>4, <1>5, <1>6, <1>7, <1>8, <1>9, <1>10, <1>11,
     <1>12, <1>13, <1>14, <1>15, <1>16, <1>17, <1>18, <1>19
  DEF Next, InsmodRun, ServerRun

(* The variables keep their types: table_index stays within the table, and *)
(* no counter goes below zero, for every number of insmods and servers.    *)
THEOREM TypeCorrect == Spec => []TypeOK
<1>1. TypeInv => TypeOK
  BY DEF TypeInv
<1> QED
  BY <1>1, TypeInit, TypeStep, PTL DEF Spec

-----------------------------------------------------------------------------
(* Mutual exclusion on ks_mutex and the life of a registration.            *)

LockInv == MutexInv /\ KsInv

(* Every step preserves LockInv; ks_mutex serialises what touches ks.      *)
LEMMA LockStep == TypeInv /\ LockInv /\ [Next]_vars => LockInv'
<1> SUFFICES ASSUME TypeInv, LockInv, [Next]_vars PROVE LockInv'
  OBVIOUS
<1> USE EventChannelAssumption DEF TypeInv, TypeOK, LockInv, MutexInv, KsInv,
        proxyVars
<1>1. ASSUME NEW i \in Insmod, PutModule(i) PROVE LockInv'
  BY <1>1 DEF PutModule, table_put
<1>2. ASSUME NEW i \in Insmod, send_event(i) PROVE LockInv'
  BY <1>2 DEF send_event
<1>3. ASSUME NEW i \in Insmod, eventfd_signal(i) PROVE LockInv'
  BY <1>3 DEF eventfd_signal
<1>4. ASSUME NEW i \in Insmod, SignalDangling(i) PROVE LockInv'
  BY <1>4 DEF SignalDangling
<1>5. ASSUME NEW s \in Server, ServerOpen(s) PROVE LockInv'
  BY <1>5 DEF ServerOpen
<1>6. ASSUME NEW s \in Server, Register(s) PROVE LockInv'
  BY <1>6 DEF Register
<1>7. ASSUME NEW s \in Server, DrainEntry(s) PROVE LockInv'
  BY <1>7 DEF DrainEntry, get_pending_module
<1>8. ASSUME NEW s \in Server, ProcessAll(s) PROVE LockInv'
  BY <1>8 DEF ProcessAll, process_entry
<1>9. ASSUME NEW s \in Server, SelectReturns(s) PROVE LockInv'
  BY <1>9 DEF SelectReturns
<1>10. ASSUME NEW s \in Server, TakeEntry(s) PROVE LockInv'
  BY <1>10 DEF TakeEntry, get_pending_module
<1>11. ASSUME NEW s \in Server, ReadEventfd(s) PROVE LockInv'
  BY <1>11 DEF ReadEventfd
<1>12. ASSUME NEW s \in Server, ProcessOne(s) PROVE LockInv'
  BY <1>12 DEF ProcessOne, process_entry
<1>13. ASSUME NEW s \in Server, Deregister(s) PROVE LockInv'
  BY <1>13 DEF Deregister
<1>14. ASSUME NEW s \in Server, Close(s) PROVE LockInv'
  BY <1>14 DEF Close
<1>15. ASSUME NEW s \in Server, SigInt(s) PROVE LockInv'
  BY <1>15 DEF SigInt
<1>16. ASSUME NEW s \in Server, Kill(s) PROVE LockInv'
  BY <1>16 DEF Kill
<1>18. ASSUME NEW s \in Server, CopyEntry(s) PROVE LockInv'
  BY <1>18 DEF CopyEntry, get_new_entry, CopyFails
<1>19. ASSUME NEW s \in Server, SelectFails(s) PROVE LockInv'
  BY <1>19 DEF SelectFails
<1>17. CASE UNCHANGED vars
  BY <1>17 DEF vars
<1> QED
  BY <1>1, <1>2, <1>3, <1>4, <1>5, <1>6, <1>7, <1>8, <1>9, <1>10, <1>11,
     <1>12, <1>13, <1>14, <1>15, <1>16, <1>17, <1>18, <1>19
  DEF Next, InsmodRun, ServerRun

(* send_event() signals only a server that is registered, and its eventfd  *)
(* is open unless the process died without deregistering: an orderly exit  *)
(* waits for ks_mutex.                                                     *)
THEOREM SignalSafe == Spec => []DanglingOnlyByKill
<1>1. Init => LockInv
  BY EventChannelAssumption DEF Init, LockInv, MutexInv, KsInv
<1>2. TypeInv /\ LockInv => DanglingOnlyByKill
  BY DEF TypeInv, TypeOK, LockInv, MutexInv, KsInv, DanglingOnlyByKill, EfdOpen
<1> QED
  BY <1>1, <1>2, TypeInit, TypeStep, LockStep, PTL DEF Spec

(* Without kills no server dies unregistered and no insmod dies in         *)
(* send_event().                                                           *)
OrderlyInv ==
    /\ \A s \in Server : spc[s] # "killed"
    /\ \A i \in Insmod : ipc[i] # "oops"

(* Every step but a kill keeps OrderlyInv: the only step that could harm   *)
(* an insmod, SignalDangling, is not enabled.                              *)
LEMMA OrderlyStep ==
  ASSUME ~KillAllowed
  PROVE  TypeInv /\ LockInv /\ OrderlyInv /\ [Next]_vars => OrderlyInv'
<1> SUFFICES ASSUME TypeInv, LockInv, OrderlyInv, [Next]_vars PROVE OrderlyInv'
  OBVIOUS
<1> USE DEF TypeInv, TypeOK, OrderlyInv
<1>1. ASSUME NEW i \in Insmod, PutModule(i) \/ send_event(i) \/ eventfd_signal(i)
      PROVE  OrderlyInv'
  BY <1>1 DEF PutModule, send_event, eventfd_signal
<1>2. ASSUME NEW i \in Insmod, SignalDangling(i) PROVE FALSE
  <2>1. ks \in Server /\ ~EfdOpen(ks)
    BY <1>2 DEF SignalDangling, LockInv, MutexInv
  <2> QED
    BY <2>1, EventChannelAssumption DEF LockInv, KsInv, EfdOpen
<1>3. ASSUME NEW s \in Server,
             \/ ServerOpen(s) \/ ServerRun(s) \/ ProcessAll(s) \/ ProcessOne(s)
             \/ SelectFails(s) \/ SigInt(s)
      PROVE  OrderlyInv'
  BY <1>3 DEF ServerOpen, ServerRun, Register, SelectReturns, SelectFails,
     ReadEventfd, Deregister, Close, SigInt, DrainEntry, TakeEntry,
     get_pending_module, CopyEntry, get_new_entry, CopyFails, ProcessAll,
     ProcessOne, process_entry
<1>4. ASSUME NEW s \in Server, Kill(s) PROVE FALSE
  BY <1>4 DEF Kill
<1>5. CASE UNCHANGED vars
  BY <1>5 DEF vars
<1> QED
  BY <1>1, <1>2, <1>3, <1>4, <1>5 DEF Next, InsmodRun

(* As long as servers end through their own exit code or the SIGINT        *)
(* handler, send_event() always finds the registered server's eventfd      *)
(* open, and no insmod dies with ks_mutex held: only a process killed      *)
(* without deregistering breaks what the code takes for granted.           *)
THEOREM OrderlyExitsAreSafe ==
  ASSUME ~KillAllowed
  PROVE  Spec => [](SignalTargetOpen /\ OrderlyInv)
<1>1. Init => LockInv /\ OrderlyInv
  BY EventChannelAssumption DEF Init, LockInv, MutexInv, KsInv, OrderlyInv
<1>2. TypeInv /\ LockInv /\ OrderlyInv => SignalTargetOpen
  BY EventChannelAssumption
  DEF TypeInv, TypeOK, LockInv, MutexInv, KsInv, OrderlyInv, SignalTargetOpen, EfdOpen
<1> QED
  BY <1>1, <1>2, TypeInit, TypeStep, LockStep, OrderlyStep, PTL DEF Spec

-----------------------------------------------------------------------------
(* The proxy's table implements the log of Delivery.                       *)

LogInv == PopInv /\ PutInv /\ GivenInv

(* A pop moves the first pending entry to its request.                     *)
LEMMA LogPop ==
  ASSUME TypeOK, LogInv, NEW s \in Server, NEW none, NEW copy,
         get_pending_module(s, none, copy),
         UNCHANGED <<module_table, ipc, misreturned>>
  PROVE  LogInv'
<1>0. /\ module_table \in Seq(Insmod) /\ Len(module_table) \in Nat
      /\ table_index \in -1..(Len(module_table) - 1)
      /\ given \in [Insmod -> Int] /\ misreturned \in Nat
      /\ \A k \in 1..Len(module_table) : module_table[k] \in Insmod
  BY DEF TypeOK
<1>1. CASE ~HasPending
  <2>1. UNCHANGED <<table_index, popped, given>>
    BY <1>1 DEF get_pending_module, table_pop
  <2> QED
    BY <2>1 DEF LogInv, PopInv, PutInv, GivenInv, Popped
<1>2. CASE HasPending
  <2> DEFINE q == table_index + 2
  <2>1. /\ table_index' = table_index + 1
        /\ popped' = popped \cup {[to |-> s, uuid |-> module_table[q]]}
        /\ given' = [given EXCEPT ![module_table[q]] = @ + 1]
        /\ q \in 1..Len(module_table)
    BY <1>0, <1>2 DEF get_pending_module, table_pop, HasPending, table_peek,
                      table_num_entries
  <2>2. PutInv'
    BY DEF LogInv, PutInv
  <2>3. PopInv'
    <3> SUFFICES ASSUME NEW k \in 1..(table_index' + 1)
                 PROVE  \E h \in popped' : h.uuid = module_table[k]
      BY DEF PopInv
    <3>1. CASE k = q
      <4>1. [to |-> s, uuid |-> module_table[q]] \in popped'
        BY <2>1
      <4> QED
        BY <3>1, <4>1
    <3>2. CASE k # q
      <4>1. k \in 1..(table_index + 1)
        BY <1>0, <2>1, <3>2
      <4> QED
        BY <2>1, <4>1 DEF LogInv, PopInv
    <3> QED
      BY <3>1, <3>2
  <2>4. ASSUME NEW k \in 1..Len(module_table)
        PROVE  /\ given'[module_table[k]] =
                     given[module_table[k]] + (IF k = q THEN 1 ELSE 0)
               /\ Popped(k)' = Popped(k) + (IF k = q THEN 1 ELSE 0)
    <3>1. module_table[k] = module_table[q] <=> k = q
      BY <2>1 DEF LogInv, PutInv
    <3>2. given'[module_table[k]] =
             given[module_table[k]] + (IF k = q THEN 1 ELSE 0)
      BY <1>0, <2>1, <3>1, SMTT(20)
    <3>3. Popped(k)' = Popped(k) + (IF k = q THEN 1 ELSE 0)
      BY <1>0, <2>1 DEF Popped
    <3> QED
      BY <3>2, <3>3
  <2>5. ASSUME NEW k \in 1..Len(module_table)
        PROVE  /\ given'[module_table[k]] <= misreturned + Popped(k)'
               /\ misreturned = 0 => given'[module_table[k]] = Popped(k)'
    <3>1. given[module_table[k]] \in Int /\ Popped(k) \in Int
      BY <1>0 DEF Popped
    <3>2. /\ given[module_table[k]] <= misreturned + Popped(k)
          /\ misreturned = 0 => given[module_table[k]] = Popped(k)
      BY DEF LogInv, GivenInv
    <3> QED
      BY <1>0, <2>4, <3>1, <3>2
  <2>6. ASSUME NEW i \in Insmod, ipc[i] = "idle" PROVE given'[i] = 0
    BY <1>0, <2>1, <2>6 DEF LogInv, PutInv, GivenInv
  <2> QED
    BY <2>2, <2>3, <2>5, <2>6 DEF LogInv, GivenInv
<1> QED
  BY <1>1, <1>2

(* An un-pop makes the entry at table_index pending.  When the request had *)
(* popped another one, the entry at table_index stays with its request     *)
(* although it is pending again: misreturned pays for it.                  *)
LEMMA LogCopy ==
  ASSUME TypeInv, LogInv, NEW s \in Server, CopyEntry(s)
  PROVE  LogInv'
<1>0. /\ module_table \in Seq(Insmod) /\ Len(module_table) \in Nat
      /\ table_index \in -1..(Len(module_table) - 1)
      /\ given \in [Insmod -> Int] /\ misreturned \in Nat
      /\ mt[s] \in Nat /\ mt[s] < Len(module_table)
      /\ \A k \in 1..Len(module_table) : module_table[k] \in Insmod
  BY DEF TypeInv, TypeOK, CopyEntry, CopyInv, InIoctl
<1>a. UNCHANGED <<module_table, ipc, popped>>
  BY DEF CopyEntry
<1>1. CASE UNCHANGED <<table_index, given, misreturned>>
  BY <1>1, <1>a DEF LogInv, PopInv, PutInv, GivenInv, Popped
<1>2. CASE table_index > 0 /\ CopyFails(s)
  <2> DEFINE p == table_index + 1
             q == mt[s] + 1
  <2>1. /\ table_index' = table_index - 1
        /\ given' = [given EXCEPT ![module_table[q]] = @ - 1]
        /\ misreturned' = misreturned + (IF p = q THEN 0 ELSE 1)
        /\ p \in 1..Len(module_table) /\ q \in 1..Len(module_table)
    <3>1. ~(table_index <= 0)
      BY <1>0, <1>2
    <3>2. table_index' = table_index - 1
      BY <1>2, <3>1 DEF CopyFails, table_pop_reverse
    <3>3. given' = [given EXCEPT ![module_table[q]] = @ - 1]
      BY <1>2, <3>1 DEF CopyFails, uuid
    <3>4. misreturned' = misreturned + (IF mt[s] = table_index THEN 0 ELSE 1)
      BY <1>2, <3>1 DEF CopyFails
    <3>5. p = q <=> mt[s] = table_index
      BY <1>0
    <3>6. p \in 1..Len(module_table) /\ q \in 1..Len(module_table)
      BY <1>0, <3>1
    <3> HIDE DEF p, q
    <3> QED
      BY <3>2, <3>3, <3>4, <3>5, <3>6
  <2>2. PutInv'
    BY <1>a DEF LogInv, PutInv
  <2>3. PopInv'
    <3>1. 1..(table_index' + 1) \subseteq 1..(table_index + 1)
      BY <1>0, <2>1
    <3> QED
      BY <1>a, <3>1 DEF LogInv, PopInv
  <2>4. ASSUME NEW k \in 1..Len(module_table)
        PROVE  /\ given'[module_table[k]] =
                     given[module_table[k]] - (IF k = q THEN 1 ELSE 0)
               /\ Popped(k)' = Popped(k) - (IF k = p THEN 1 ELSE 0)
    <3>1. module_table[k] = module_table[q] <=> k = q
      BY <2>1 DEF LogInv, PutInv
    <3>2. given'[module_table[k]] =
             given[module_table[k]] - (IF k = q THEN 1 ELSE 0)
      BY <1>0, <2>1, <3>1, SMTT(20)
    <3>3. Popped(k)' = Popped(k) - (IF k = p THEN 1 ELSE 0)
      BY <1>0, <2>1 DEF Popped
    <3> QED
      BY <3>2, <3>3
  <2>5. ASSUME NEW k \in 1..Len(module_table)
        PROVE  /\ given'[module_table[k]] <= misreturned' + Popped(k)'
               /\ misreturned' = 0 => given'[module_table[k]] = Popped(k)'
    <3>1. given[module_table[k]] \in Int /\ Popped(k) \in Int
      BY <1>0 DEF Popped
    <3>2. /\ given[module_table[k]] <= misreturned + Popped(k)
          /\ misreturned = 0 => given[module_table[k]] = Popped(k)
      BY DEF LogInv, GivenInv
    <3>0. /\ given'[module_table[k]] =
                given[module_table[k]] - (IF k = q THEN 1 ELSE 0)
          /\ Popped(k)' = Popped(k) - (IF k = p THEN 1 ELSE 0)
      BY <2>4
    <3> HIDE DEF p, q
    <3>3. CASE p = q
      BY <1>0, <2>1, <3>0, <3>1, <3>2, <3>3
    <3>4. CASE p # q
      <4>1. misreturned' = misreturned + 1 /\ misreturned' # 0
        BY <1>0, <2>1, <3>4
      <4> QED
        BY <1>0, <3>0, <3>1, <3>2, <4>1
    <3> QED
      BY <3>3, <3>4
  <2>6. ASSUME NEW i \in Insmod, ipc[i] = "idle" PROVE given'[i] = 0
    BY <1>0, <2>1, <2>6 DEF LogInv, PutInv, GivenInv
  <2> QED
    BY <1>a, <2>2, <2>3, <2>5, <2>6 DEF LogInv, GivenInv
<1> QED
  BY <1>0, <1>1, <1>2 DEF CopyEntry, get_new_entry, CopyFails, table_pop_reverse

(* A put adds a module that nobody has.                                    *)
LEMMA LogPut ==
  ASSUME TypeOK, LogInv, NEW i \in Insmod, PutModule(i)
  PROVE  LogInv'
<1>1. /\ Len(module_table) \in Nat
      /\ table_index \in -1..(Len(module_table) - 1)
      /\ Len(module_table') = Len(module_table) + 1
      /\ module_table'[Len(module_table) + 1] = i
      /\ \A k \in 1..Len(module_table) : module_table'[k] = module_table[k]
      /\ \A k \in 1..Len(module_table) : module_table[k] \in Insmod
      /\ UNCHANGED <<table_index, popped, given, misreturned>>
      /\ misreturned \in Nat
  BY DEF PutModule, table_put, popVars, TypeOK
<1>2. /\ ipc[i] = "idle" /\ ipc'[i] = "event"
      /\ \A j \in Insmod : j # i => ipc'[j] = ipc[j]
  BY DEF PutModule, TypeOK
<1>3. PutInv'
  BY <1>1, <1>2 DEF LogInv, PutInv
<1>4. PopInv'
  BY <1>1 DEF LogInv, PopInv
<1>5. given[i] = 0
  BY <1>2 DEF LogInv, GivenInv
<1>6. \A k : Popped(k)' = Popped(k)
  BY <1>1 DEF Popped
<1>7. ASSUME NEW k \in 1..Len(module_table')
      PROVE  /\ given'[module_table'[k]] <= misreturned' + Popped(k)'
             /\ misreturned' = 0 => given'[module_table'[k]] = Popped(k)'
  <2>1. CASE k = Len(module_table) + 1
    <3>1. module_table'[k] = i /\ given' = given /\ misreturned' = misreturned
      BY <1>1, <2>1
    <3>2. given'[module_table'[k]] = 0
      BY <1>5, <3>1
    <3>3. Popped(k)' = 0
      <4>1. ~(k <= table_index' + 1)
        BY <1>1, <2>1
      <4> QED
        BY <4>1 DEF Popped
    <3>4. misreturned' \in Nat
      BY <1>1
    <3>5. given'[module_table'[k]] <= misreturned' + Popped(k)'
      BY <3>2, <3>3, <3>4
    <3>6. given'[module_table'[k]] = Popped(k)'
      BY <3>2, <3>3
    <3> QED
      BY <3>5, <3>6
  <2>2. CASE k # Len(module_table) + 1
    <3>1. k \in 1..Len(module_table)
      BY <1>1, <2>2
    <3> QED
      BY <1>1, <1>6, <3>1 DEF LogInv, GivenInv
  <2> QED
    BY <2>1, <2>2
<1>8. \A j \in Insmod : ipc'[j] = "idle" => given'[j] = 0
  BY <1>1, <1>2 DEF LogInv, GivenInv
<1> QED
  BY <1>3, <1>4, <1>7, <1>8 DEF LogInv, GivenInv

(* Every step preserves LogInv; only table_put(), table_pop() and          *)
(* table_pop_reverse() matter.                                             *)
LEMMA LogStep == TypeInv /\ LogInv /\ [Next]_vars => LogInv'
<1> SUFFICES ASSUME TypeInv, LogInv, [Next]_vars PROVE LogInv'
  OBVIOUS
<1>0. TypeOK
  BY DEF TypeInv
<1>a. ASSUME UNCHANGED <<module_table, table_index, popped, given, misreturned>>,
             \A i \in Insmod : ipc'[i] = "idle" <=> ipc[i] = "idle"
      PROVE  LogInv'
  <2>1. \A k \in 1..Len(module_table) : module_table[k] \in Insmod
    BY <1>0 DEF TypeOK
  <2> QED
    BY <1>a, <2>1 DEF LogInv, PopInv, PutInv, GivenInv, Popped
<1>1. ASSUME NEW i \in Insmod, PutModule(i) PROVE LogInv'
  BY <1>0, <1>1, LogPut
<1>2. ASSUME NEW i \in Insmod, InsmodRun(i) PROVE LogInv'
  BY <1>0, <1>2, <1>a DEF InsmodRun, send_event, eventfd_signal, SignalDangling,
     popVars, TypeOK
<1>3. ASSUME NEW s \in Server, DrainEntry(s) PROVE LogInv'
  BY <1>0, <1>3, LogPop DEF DrainEntry
<1>4. ASSUME NEW s \in Server, TakeEntry(s) PROVE LogInv'
  BY <1>0, <1>4, LogPop DEF TakeEntry
<1>5. ASSUME NEW s \in Server, CopyEntry(s) PROVE LogInv'
  BY <1>5, LogCopy
<1>6. ASSUME NEW s \in Server,
             \/ ServerOpen(s) \/ Register(s) \/ SelectReturns(s) \/ SelectFails(s)
             \/ ReadEventfd(s) \/ Deregister(s) \/ Close(s) \/ SigInt(s)
             \/ Kill(s) \/ ProcessAll(s) \/ ProcessOne(s)
      PROVE  LogInv'
  BY <1>6, <1>a DEF ServerOpen, Register, SelectReturns, SelectFails, ReadEventfd,
     Deregister, Close, SigInt, Kill, ProcessAll, ProcessOne, proxyVars, popVars
<1>7. CASE UNCHANGED vars
  BY <1>7, <1>a DEF vars
<1> QED
  BY <1>1, <1>2, <1>3, <1>4, <1>5, <1>6, <1>7 DEF Next, ServerRun

(* An insmod that left "idle" has put its module.                          *)
InTableInv ==
    \A i \in Insmod : ipc[i] # "idle" =>
        \E k \in 1..Len(module_table) : module_table[k] = i

(* Every step preserves InTableInv; no entry ever leaves module_table.     *)
LEMMA InTableStep == TypeInv /\ InTableInv /\ [Next]_vars => InTableInv'
<1> SUFFICES ASSUME TypeInv, InTableInv, [Next]_vars PROVE InTableInv'
  OBVIOUS
<1> USE DEF TypeInv, TypeOK, InTableInv
<1>1. ASSUME NEW i \in Insmod, PutModule(i) PROVE InTableInv'
  <2>1. /\ Len(module_table') = Len(module_table) + 1
        /\ module_table'[Len(module_table) + 1] = i
        /\ \A k \in 1..Len(module_table) : module_table'[k] = module_table[k]
    BY <1>1 DEF PutModule, table_put
  <2>2. \A j \in Insmod : j # i => ipc'[j] = ipc[j]
    BY <1>1 DEF PutModule
  <2>3. ASSUME NEW j \in Insmod, ipc'[j] # "idle"
        PROVE  \E k \in 1..Len(module_table') : module_table'[k] = j
    <3>1. CASE j = i
      <4>1. Len(module_table) \in Nat
        OBVIOUS
      <4>2. Len(module_table) + 1 \in 1..Len(module_table')
        BY <2>1, <4>1
      <4> QED
        BY <2>1, <3>1, <4>2
    <3>2. CASE j # i
      <4>1. PICK k \in 1..Len(module_table) : module_table[k] = j
        BY <2>2, <2>3, <3>2
      <4> QED
        BY <2>1, <4>1
    <3> QED
      BY <3>1, <3>2
  <2> QED
    BY <2>3
<1>2. ASSUME NEW i \in Insmod, InsmodRun(i) PROVE InTableInv'
  <2>1. UNCHANGED module_table /\ \A j \in Insmod : ipc'[j] # "idle" => ipc[j] # "idle"
    BY <1>2 DEF InsmodRun, send_event, eventfd_signal, SignalDangling
  <2> QED
    BY <2>1
<1>3. ASSUME NEW s \in Server,
             \/ ServerOpen(s) \/ ServerRun(s) \/ ProcessAll(s) \/ ProcessOne(s)
             \/ SelectFails(s) \/ SigInt(s) \/ Kill(s)
      PROVE  UNCHANGED <<module_table, ipc>>
  BY <1>3 DEF ServerOpen, ServerRun, Register, SelectReturns, SelectFails,
     ReadEventfd, Deregister, Close, SigInt, Kill, DrainEntry, CopyEntry, TakeEntry,
     ProcessAll, ProcessOne, proxyVars
<1>4. UNCHANGED vars => UNCHANGED <<module_table, ipc>>
  BY DEF vars
<1> QED
  BY <1>1, <1>2, <1>3, <1>4 DEF Next

(* Nothing is popped, and nothing given, at first.                         *)
LEMMA LogInit == Init => LogInv
  BY DEF Init, LogInv, PopInv, PutInv, GivenInv

(* Without a misdirected un-pop, each step of the system is a step of      *)
(* Delivery or leaves it alone.                                            *)
LEMMA DeliveryStep ==
  ASSUME TypeInv, LogInv, [Next]_vars, misreturned' = 0
  PROVE  [D!Next]_<<module_table, given>>
<1>0. /\ module_table \in Seq(Insmod) /\ Len(module_table) \in Nat
      /\ table_index \in -1..(Len(module_table) - 1)
      /\ given \in [Insmod -> Int] /\ misreturned \in Nat
      /\ \A k \in 1..Len(module_table) : module_table[k] \in Insmod
  BY DEF TypeInv, TypeOK
<1>a. ASSUME misreturned = 0, NEW k \in 1..Len(module_table)
      PROVE  given[module_table[k]] = Popped(k)
  BY <1>a DEF LogInv, GivenInv
<1>1. ASSUME NEW i \in Insmod, PutModule(i) PROVE D!Next
  <2>1. D!Offer(i)
    BY <1>1 DEF PutModule, table_put, popVars, D!Offer, LogInv, PutInv
  <2> QED
    BY <2>1 DEF D!Next
<1>2. ASSUME NEW s \in Server, NEW none, NEW copy,
             get_pending_module(s, none, copy),
             UNCHANGED <<module_table, misreturned>>
      PROVE  [D!Next]_<<module_table, given>>
  <2>1. CASE ~HasPending
    BY <1>2, <2>1 DEF get_pending_module, table_pop
  <2>2. CASE HasPending
    <3> DEFINE q == table_index + 2
    <3>1. /\ q \in 1..Len(module_table)
          /\ given' = [given EXCEPT ![module_table[q]] = @ + 1]
      BY <1>0, <1>2, <2>2 DEF get_pending_module, HasPending, table_peek,
                              table_num_entries
    <3>2. given[module_table[q]] = 0
      BY <1>0, <1>2, <1>a, <3>1 DEF Popped
    <3>3. \A j \in 1..(q - 1) : given[module_table[j]] = 1
      <4> SUFFICES ASSUME NEW j \in 1..(q - 1) PROVE given[module_table[j]] = 1
        OBVIOUS
      <4>1. j \in 1..Len(module_table) /\ j <= table_index + 1
        BY <1>0, <3>1
      <4> QED
        BY <1>2, <1>a, <4>1 DEF Popped
    <3>4. given' = [given EXCEPT ![module_table[q]] = 1]
      BY <1>0, <3>1, <3>2
    <3>5. D!Take(q)
      BY <1>2, <3>2, <3>3, <3>4 DEF D!Take
    <3> QED
      BY <3>1, <3>5 DEF D!Next
  <2> QED
    BY <2>1, <2>2
<1>3. ASSUME NEW s \in Server, DrainEntry(s) \/ TakeEntry(s)
      PROVE  [D!Next]_<<module_table, given>>
  BY <1>2, <1>3 DEF DrainEntry, TakeEntry
<1>4. ASSUME NEW s \in Server, CopyEntry(s)
      PROVE  [D!Next]_<<module_table, given>>
  <2>1. CASE UNCHANGED given
    BY <1>4, <2>1 DEF CopyEntry
  <2>2. CASE table_index > 0 /\ CopyFails(s)
    <3> DEFINE q == table_index + 1
    <3>1. mt[s] = table_index /\ misreturned = 0
      BY <1>0, <2>2 DEF CopyFails
    <3>2. /\ q \in 1..Len(module_table)
          /\ given' = [given EXCEPT ![module_table[q]] = @ - 1]
      BY <1>0, <2>2, <3>1 DEF CopyFails, uuid
    <3>3. given[module_table[q]] = 1
      BY <1>0, <1>a, <3>1, <3>2 DEF Popped
    <3>4. \A j \in (q + 1)..Len(module_table) : given[module_table[j]] = 0
      <4> SUFFICES ASSUME NEW j \in (q + 1)..Len(module_table)
                   PROVE  given[module_table[j]] = 0
        OBVIOUS
      <4>1. j \in 1..Len(module_table) /\ ~(j <= table_index + 1)
        BY <1>0, <3>2
      <4> QED
        BY <1>a, <3>1, <4>1 DEF Popped
    <3>5. given' = [given EXCEPT ![module_table[q]] = 0]
      BY <1>0, <3>2, <3>3
    <3>6. D!Return(q)
      BY <1>4, <3>3, <3>4, <3>5 DEF D!Return, CopyEntry
    <3> QED
      BY <3>2, <3>6 DEF D!Next
  <2> QED
    BY <1>0, <1>4, <2>1, <2>2 DEF CopyEntry, get_new_entry, CopyFails
<1>5. ASSUME NEW i \in Insmod, InsmodRun(i)
      PROVE  UNCHANGED <<module_table, given>>
  BY <1>5 DEF InsmodRun, send_event, eventfd_signal, SignalDangling, popVars
<1>6. ASSUME NEW s \in Server,
             \/ ServerOpen(s) \/ Register(s) \/ SelectReturns(s) \/ SelectFails(s)
             \/ ReadEventfd(s) \/ Deregister(s) \/ Close(s) \/ SigInt(s)
             \/ Kill(s) \/ ProcessAll(s) \/ ProcessOne(s)
      PROVE  UNCHANGED <<module_table, given>>
  BY <1>6 DEF ServerOpen, Register, SelectReturns, SelectFails, ReadEventfd,
     Deregister, Close, SigInt, Kill, ProcessAll, ProcessOne, proxyVars, popVars
<1>7. CASE UNCHANGED vars
  BY <1>7 DEF vars
<1> QED
  BY <1>1, <1>3, <1>4, <1>5, <1>6, <1>7 DEF Next, ServerRun

(* Up to the first un-pop that gives back another request's entry,         *)
(* get_pending_module is a correct Delivery: every module goes to one      *)
(* request at most and in the order of the insmods, through failed copies, *)
(* whatever the servers do.                                                *)
THEOREM ImplementsDelivery == Spec => DeliveryUnlessMisreturned
<1>1. Init => D!Init
  BY DEF Init, D!Init
<1>2. TypeInv /\ LogInv /\ [Next]_vars =>
         [misreturned' = 0 => [D!Next]_<<module_table, given>>]_vars
  BY DeliveryStep
<1> QED
  BY <1>1, <1>2, TypeInit, TypeStep, LogInit, LogStep, PTL
  DEF Spec, DeliveryUnlessMisreturned, D!dvars

(* Past it, a module is with at most one request more for each such        *)
(* un-pop, for any number of insmods and servers.                          *)
THEOREM GivenOncePlusMisreturned == Spec => []GivenBound
<1>1. TypeInv /\ LogInv /\ InTableInv => GivenBound
  <2> SUFFICES ASSUME TypeInv, LogInv, InTableInv, NEW i \in Insmod
               PROVE  given[i] <= 1 + misreturned
    BY DEF GivenBound
  <2>0. misreturned \in Nat
    BY DEF TypeInv, TypeOK
  <2>1. CASE ipc[i] = "idle"
    BY <2>0, <2>1 DEF LogInv, GivenInv
  <2>2. CASE ipc[i] # "idle"
    <3>1. PICK k \in 1..Len(module_table) : module_table[k] = i
      BY <2>2 DEF InTableInv
    <3>2. given[i] <= misreturned + Popped(k) /\ Popped(k) \in {0, 1}
      BY <3>1 DEF LogInv, GivenInv, Popped
    <3>3. given[i] \in Int
      BY DEF TypeInv, TypeOK
    <3> QED
      BY <2>0, <3>2, <3>3
  <2> QED
    BY <2>1, <2>2
<1>2. Init => InTableInv
  BY DEF Init, InTableInv
<1> QED
  BY <1>1, <1>2, TypeInit, TypeStep, LogInit, LogStep, InTableStep, PTL DEF Spec

-----------------------------------------------------------------------------
(* How far behind a sleeping server can be.                                *)

(* The insmods under way can be counted.                                   *)
LEMMA InFlightFinite ==
  ASSUME TypeOK
  PROVE  IsFiniteSet(InFlight) /\ Cardinality(InFlight) \in Nat
<1>1. InFlight \subseteq Insmod /\ IsFiniteSet(Insmod)
  BY EventChannelAssumption DEF InFlight
<1>2. IsFiniteSet(InFlight)
  BY <1>1, FS_Subset
<1> QED
  BY <1>2, FS_CardinalityType

(* An insmod that puts its module counts once more.                        *)
LEMMA InFlightEnter ==
  ASSUME TypeOK, NEW i \in Insmod, ipc[i] = "idle",
         ipc' = [ipc EXCEPT ![i] = "event"]
  PROVE  Cardinality(InFlight') = Cardinality(InFlight) + 1
<1>1. InFlight' = InFlight \cup {i} /\ i \notin InFlight
  BY DEF InFlight, TypeOK
<1> QED
  BY <1>1, InFlightFinite, FS_AddElement

(* An insmod that leaves send_event() counts once less.                    *)
LEMMA InFlightLeave ==
  ASSUME TypeOK, NEW i \in Insmod, ipc[i] \in {"event", "signal"},
         NEW st \in {"silent", "notified", "oops"},
         ipc' = [ipc EXCEPT ![i] = st]
  PROVE  /\ Cardinality(InFlight') = Cardinality(InFlight) - 1
         /\ Cardinality(InFlight') \in Nat
<1>1. InFlight' = InFlight \ {i} /\ i \in InFlight
  BY DEF InFlight, TypeOK
<1>2. Cardinality(InFlight') = Cardinality(InFlight) - 1
  BY <1>1, InFlightFinite, FS_RemoveElement
<1>3. IsFiniteSet(InFlight')
  BY <1>1, InFlightFinite, FS_RemoveElement
<1> QED
  BY <1>2, <1>3, FS_CardinalityType

(* Every step preserves StrandInv: each pending entry stays paid for.      *)
LEMMA StrandStep == TypeInv /\ LockInv /\ StrandInv /\ [Next]_vars => StrandInv'
<1> SUFFICES ASSUME TypeInv, LockInv, StrandInv, [Next]_vars,
                    NEW t \in Server, ks' = t, spc'[t] \in Serving
             PROVE  Owed(t)' <= Paid(t)'
  BY DEF StrandInv
<1> DEFINE C == Cardinality(InFlight)
<1>0. C \in Nat
  BY InFlightFinite DEF TypeInv
<1>a. ks = t /\ spc[t] \in Serving => Owed(t) <= Paid(t)
  BY DEF StrandInv
<1>b. ASSUME UNCHANGED ipc PROVE C' = C
  BY <1>b DEF InFlight
<1>c. /\ efd[t] \in Nat /\ swallowed[t] \in Nat /\ returned \in Nat
      /\ Len(module_table) \in Nat /\ table_index \in Int
  BY DEF TypeInv, TypeOK
<1>d. Owed(t) \in Int /\ Paid(t) \in Int
  BY <1>0, <1>c DEF Owed, Paid, NumPending, table_num_entries
<1>e. Paid(t) = efd[t] + swallowed[t] + returned + C
  BY DEF Paid
<1>f. Paid(t)' = efd'[t] + swallowed'[t] + returned' + C'
  BY DEF Paid
<1> HIDE DEF C
<1> USE DEF TypeInv, TypeOK, Serving, Owed, Paid, NumPending, table_num_entries,
        proxyVars, popVars
<1>1. ASSUME NEW i \in Insmod, PutModule(i) PROVE Owed(t)' <= Paid(t)'
  <2>1. C' = C + 1
    BY <1>1, InFlightEnter DEF PutModule, table_put, C
  <2>2. Len(module_table') = Len(module_table) + 1
    BY <1>1 DEF PutModule, table_put
  <2>3. UNCHANGED <<ks, spc, table_index, efd, swallowed, returned>>
    BY <1>1 DEF PutModule, table_put
  <2>4. Owed(t)' = Owed(t) + 1
    BY <2>2, <2>3
  <2>5. Owed(t) <= Paid(t)
    BY <1>a, <2>3
  <2> HIDE DEF Owed, Paid, TypeInv, TypeOK
  <2>6. Paid(t)' = Paid(t) + 1
    <3>1. efd'[t] = efd[t] /\ swallowed'[t] = swallowed[t] /\ returned' = returned
      BY <2>3
    <3> QED
      BY <1>0, <1>c, <1>e, <1>f, <2>1, <3>1
  <2> QED
    BY <1>d, <2>4, <2>5, <2>6
<1>2. ASSUME NEW i \in Insmod, send_event(i) PROVE Owed(t)' <= Paid(t)'
  <2>1. CASE ipc' = [ipc EXCEPT ![i] = "silent"] /\ ~HasPending
    <3>1. C' \in Nat
      BY <1>2, <2>1, InFlightLeave DEF send_event, C
    <3>2. NumPending' = 0 /\ spc'[t] = spc[t]
      BY <1>2, <2>1 DEF send_event, HasPending
    <3>3. spc[t] \in {"wake_copy", "read"} => efd[t] > 0
      BY DEF WakeInv
    <3> QED
      BY <1>2, <2>1, <3>1, <3>2, <3>3 DEF send_event, C
  <2>2. CASE ipc' = [ipc EXCEPT ![i] = "signal"]
    <3>1. InFlight' = InFlight
      BY <1>2, <2>2 DEF send_event, InFlight, InsmodState
    <3> QED
      BY <1>0, <1>2, <1>a, <3>1 DEF send_event, C
  <2> QED
    BY <1>2, <2>1, <2>2, EventChannelAssumption DEF send_event
<1>3. ASSUME NEW i \in Insmod, eventfd_signal(i) PROVE Owed(t)' <= Paid(t)'
  <2>1. C' = C - 1
    BY <1>3, InFlightLeave DEF eventfd_signal, C
  <2>2. efd'[t] = efd[t] + 1
    BY <1>3 DEF eventfd_signal
  <2>3. /\ UNCHANGED <<ks, spc, module_table, table_index, swallowed, returned>>
    BY <1>3 DEF eventfd_signal
  <2>4. Owed(t)' = Owed(t) /\ Owed(t) <= Paid(t)
    BY <1>a, <2>3
  <2> HIDE DEF Owed, Paid, TypeInv, TypeOK
  <2>5. Paid(t)' = Paid(t)
    <3>1. swallowed'[t] = swallowed[t] /\ returned' = returned
      BY <2>3
    <3>2. efd'[t] \in Int /\ C' \in Int /\ efd'[t] + C' = efd[t] + C
      BY <1>0, <1>c, <2>1, <2>2
    <3>3. Paid(t) = (efd[t] + C) + (swallowed[t] + returned)
      BY <1>0, <1>c, <1>e
    <3>4. Paid(t)' = (efd'[t] + C') + (swallowed'[t] + returned')
      BY <1>c, <1>f, <3>1, <3>2
    <3> QED
      BY <3>1, <3>2, <3>3, <3>4
  <2> QED
    BY <2>4, <2>5
<1>4. ASSUME NEW i \in Insmod, SignalDangling(i) PROVE FALSE
  BY <1>4 DEF SignalDangling, EfdOpen
<1>5. ASSUME NEW s \in Server,
             \/ ServerOpen(s) \/ Register(s) \/ Close(s) \/ SigInt(s) \/ Kill(s)
             \/ ProcessAll(s) \/ SelectReturns(s) \/ SelectFails(s) \/ ProcessOne(s)
      PROVE  Owed(t)' <= Paid(t)'
  <2>1. UNCHANGED <<ipc, module_table, table_index, efd, swallowed, returned>>
    BY <1>5 DEF ServerOpen, Register, Close, SigInt, Kill, ProcessAll,
                SelectReturns, SelectFails, ProcessOne
  <2>2. ks = t
    BY <1>5, EventChannelAssumption DEF ServerOpen, Register, Close, SigInt,
          Kill, ProcessAll, SelectReturns, SelectFails, ProcessOne
  <2>3. /\ spc[t] \in Serving
        /\ spc'[t] \in {"wake_copy", "read"} <=> spc[t] \in {"wake_copy", "read"}
    BY <1>5 DEF ServerOpen, Register, Close, SigInt, Kill, ProcessAll,
                SelectReturns, SelectFails, ProcessOne, process_entry
  <2> QED
    BY <1>0, <1>a, <1>b, <2>1, <2>2, <2>3 DEF C
<1>6. ASSUME NEW s \in Server, DrainEntry(s) \/ TakeEntry(s)
      PROVE  Owed(t)' <= Paid(t)'
  <2>1. UNCHANGED <<ipc, module_table, ks, efd, swallowed, returned>>
    BY <1>6 DEF DrainEntry, TakeEntry
  <2>2. CASE DrainEntry(s) /\ s = t
    <3>1. ~HasPending /\ UNCHANGED table_index /\ spc'[t] = "process_all"
      BY <2>2 DEF DrainEntry, get_pending_module
    <3> QED
      BY <1>0, <1>b, <2>1, <3>1 DEF HasPending, C
  <2>3. CASE TakeEntry(s) /\ s = t
    <3>1. /\ table_index' = table_index + 1
          /\ spc[t] = "wake" /\ spc'[t] = "wake_copy"
      BY <2>3 DEF TakeEntry, get_pending_module, table_pop
    <3> QED
      BY <1>0, <1>a, <1>b, <2>1, <3>1 DEF C
  <2>4. CASE s # t
    <3>1. spc'[t] = spc[t]
      BY <1>6, <2>4 DEF DrainEntry, TakeEntry, get_pending_module
    <3>2. table_index' = table_index \/ table_index' = table_index + 1
      BY <1>6 DEF DrainEntry, TakeEntry, get_pending_module, table_pop
    <3>3. Owed(t)' <= Owed(t)
      BY <2>1, <3>1, <3>2, SMTT(20)
    <3>4. Owed(t)' \in Int
      BY <1>c, <2>1, <3>1, <3>2
    <3>6. Owed(t) <= Paid(t)
      BY <1>a, <2>1, <3>1
    <3> HIDE DEF Owed, Paid, TypeInv, TypeOK
    <3>5. Paid(t)' = Paid(t)
      BY <1>b, <1>e, <1>f, <2>1
    <3> QED
      BY <1>d, <3>3, <3>4, <3>5, <3>6
  <2> QED
    BY <1>6, <2>2, <2>3, <2>4
<1>10. ASSUME NEW s \in Server, CopyEntry(s) PROVE Owed(t)' <= Paid(t)'
  <2>1. UNCHANGED <<ipc, module_table, ks, efd, swallowed>>
    BY <1>10 DEF CopyEntry
  <2>2. /\ spc[t] \in Serving
        /\ spc'[t] \in {"wake_copy", "read"} <=> spc[t] \in {"wake_copy", "read"}
    BY <1>10 DEF CopyEntry, get_new_entry, CopyFails
  <2>3. \/ table_index' = table_index /\ returned' = returned
        \/ table_index' = table_index - 1 /\ returned' = returned + 1
    BY <1>10 DEF CopyEntry, get_new_entry, CopyFails, table_pop_reverse
  <2>4. Owed(t) <= Paid(t)
    BY <1>a, <2>1, <2>2
  <2>5. CASE table_index' = table_index /\ returned' = returned
    <3>1. Owed(t)' = Owed(t)
      BY <2>1, <2>2, <2>5
    <3> HIDE DEF Owed, Paid, TypeInv, TypeOK
    <3>2. Paid(t)' = Paid(t)
      BY <1>b, <1>e, <1>f, <2>1, <2>5
    <3> QED
      BY <2>4, <3>1, <3>2
  <2>6. CASE table_index' = table_index - 1 /\ returned' = returned + 1
    <3>1. Owed(t)' = Owed(t) + 1
      BY <2>1, <2>2, <2>6
    <3> HIDE DEF Owed, Paid, TypeInv, TypeOK
    <3>2. Paid(t)' = Paid(t) + 1
      <4>1. C' = C
        BY <1>b, <2>1
      <4>2. efd'[t] = efd[t] /\ swallowed'[t] = swallowed[t]
        BY <2>1
      <4>3. Paid(t)' = efd[t] + swallowed[t] + (returned + 1) + C
        BY <1>f, <2>6, <4>1, <4>2
      <4>4. efd[t] \in Int /\ swallowed[t] \in Int /\ returned \in Int /\ C \in Int
        BY <1>0, <1>c
      <4> QED
        BY <1>e, <4>3, <4>4
    <3> QED
      BY <1>d, <2>4, <3>1, <3>2
  <2> QED
    BY <2>3, <2>5, <2>6
<1>7. ASSUME NEW s \in Server, ReadEventfd(s) PROVE Owed(t)' <= Paid(t)'
  <2>1. C' = C /\ UNCHANGED <<module_table, table_index, ks, returned>>
    BY <1>7, <1>b DEF ReadEventfd
  <2>2. CASE s = t
    <3>1. /\ spc[t] = "read" /\ spc'[t] = "process_one"
          /\ efd'[t] = 0 /\ swallowed'[t] = swallowed[t] + efd[t] - 1
      BY <1>7, <2>2 DEF ReadEventfd
    <3>2. NumPending' = NumPending /\ NumPending \in Int
      BY <2>1
    <3>3. Owed(t)' = Owed(t) - 1
      BY <3>1, <3>2
    <3>4. Owed(t) <= Paid(t)
      BY <1>a, <2>1, <3>1
    <3> HIDE DEF Owed, Paid, TypeInv, TypeOK
    <3>5. Paid(t)' = Paid(t) - 1
      <4>1. returned' = returned /\ C' = C
        BY <2>1
      <4>2. swallowed'[t] \in Int /\ efd'[t] = 0
               /\ swallowed'[t] + 1 = efd[t] + swallowed[t]
        BY <1>c, <3>1
      <4> QED
        BY <1>0, <1>c, <1>e, <1>f, <4>1, <4>2
    <3> QED
      BY <1>d, <3>3, <3>4, <3>5
  <2>3. CASE s # t
    <3>1. spc'[t] = spc[t] /\ efd'[t] = efd[t] /\ swallowed'[t] = swallowed[t]
      BY <1>7, <2>3 DEF ReadEventfd
    <3> QED
      BY <1>0, <1>a, <2>1, <3>1 DEF C
  <2> QED
    BY <2>2, <2>3
<1>8. ASSUME NEW s \in Server, Deregister(s) PROVE FALSE
  BY <1>8, EventChannelAssumption DEF Deregister
<1>9. CASE UNCHANGED vars
  BY <1>0, <1>9, <1>a, <1>b DEF vars, C
<1> QED
  BY <1>1, <1>2, <1>3, <1>4, <1>5, <1>6, <1>7, <1>8, <1>9, <1>10
  DEF Next, InsmodRun, ServerRun

(* A registered server that sleeps with no insmod under way is behind by   *)
(* at most the signals its read() calls swallowed and the entries that     *)
(* failed copies put back, for any number of insmods and servers.          *)
THEOREM SleeperBound == Spec => []StrandedBound
<1>1. Init => LockInv /\ StrandInv
  BY EventChannelAssumption
  DEF Init, LockInv, MutexInv, KsInv, StrandInv
<1>2. TypeInv /\ StrandInv => StrandedBound
  BY FS_EmptySet DEF TypeInv, TypeOK, StrandInv, StrandedBound, Serving, Owed,
     Paid, NumPending, table_num_entries
<1> QED
  BY <1>1, <1>2, TypeInit, TypeStep, LockStep, StrandStep, PTL DEF Spec

-----------------------------------------------------------------------------
(* The rows of a server's uuid_table.                                      *)

(* A request that comes back without ending the server adds one row, at    *)
(* the end, and it is new.                                                 *)
LEMMA GetNewEntryRows ==
  ASSUME TypeOK, NEW s \in Server, CopyEntry(s), spc'[s] # "out"
  PROVE  /\ spc'[s] = IF spc[s] = "drain_copy" THEN "drain" ELSE "read"
         /\ Len(uuid_table'[s]) = Len(uuid_table[s]) + 1
         /\ uuid_table'[s][Len(uuid_table[s]) + 1].st = "new"
         /\ \A k \in 1..Len(uuid_table[s]) :
               uuid_table'[s][k] = uuid_table[s][k]
<1> DEFINE row == [uuid |-> uuid(s), st |-> "new"]
<1>1. /\ uuid_table' = [uuid_table EXCEPT ![s] = Append(@, row)]
      /\ spc' = [spc EXCEPT ![s] = IF @ = "drain_copy" THEN "drain" ELSE "read"]
  BY DEF CopyEntry, get_new_entry, CopyFails, TypeOK
<1>2. uuid_table'[s] = Append(uuid_table[s], row)
  BY <1>1 DEF TypeOK
<1>3. uuid_table[s] \in Seq(Entry)
  BY DEF TypeOK
<1>4. row.st = "new"
  OBVIOUS
<1>5. spc'[s] = IF spc[s] = "drain_copy" THEN "drain" ELSE "read"
  BY <1>1 DEF TypeOK
<1> HIDE DEF row
<1> QED
  BY <1>2, <1>3, <1>4, <1>5

(* process_entry() that does not end the server has either found no new    *)
(* row or marked the first new one, and only that one, as processed.       *)
LEMMA ProcessEntryRows ==
  ASSUME TypeOK, NEW s \in Server, NEW none, NEW one,
         process_entry(s, none, one), spc'[s] # "out"
  PROVE  \/ UNCHANGED uuid_table /\ spc'[s] = none /\ NoneNew(s)
         \/ \E k \in 1..Len(uuid_table[s]) :
               /\ spc'[s] = one
               /\ FirstNew(s, k)
               /\ Len(uuid_table'[s]) = Len(uuid_table[s])
               /\ uuid_table'[s][k].st = "processed"
               /\ \A j \in 1..Len(uuid_table[s]) \ {k} :
                     uuid_table'[s][j] = uuid_table[s][j]
<1>1. CASE UNCHANGED uuid_table /\ NoneNew(s) /\ spc' = [spc EXCEPT ![s] = none]
  BY <1>1 DEF TypeOK
<1>2. ASSUME NEW k \in 1..Len(uuid_table[s]),
             NEW st \in {"processed", "could_not_process"},
             FirstNew(s, k),
             uuid_table' =
                [uuid_table EXCEPT ![s][k] = [uuid |-> @.uuid, st |-> st]],
             spc' = [spc EXCEPT ![s] = IF st = "processed" THEN one ELSE "out"]
      PROVE  /\ spc'[s] = one
             /\ Len(uuid_table'[s]) = Len(uuid_table[s])
             /\ uuid_table'[s][k].st = "processed"
             /\ \A j \in 1..Len(uuid_table[s]) \ {k} :
                   uuid_table'[s][j] = uuid_table[s][j]
  <2> DEFINE row == [uuid |-> uuid_table[s][k].uuid, st |-> st]
  <2>1. st = "processed" /\ spc'[s] = one
    BY <1>2 DEF TypeOK
  <2>2. uuid_table'[s] = [uuid_table[s] EXCEPT ![k] = row]
    BY <1>2 DEF TypeOK
  <2>3. uuid_table[s] \in Seq(Entry)
    BY DEF TypeOK
  <2>4. row.st = "processed"
    BY <2>1
  <2> HIDE DEF row
  <2> QED
    BY <2>1, <2>2, <2>3, <2>4
<1>3. spc' # [spc EXCEPT ![s] = "out"]
  BY DEF TypeOK
<1> QED
  BY <1>1, <1>2, <1>3 DEF process_entry

(* Every step preserves RowInv; a server touches its own rows only.        *)
LEMMA RowStep == TypeInv /\ RowInv /\ [Next]_vars => RowInv'
<1> SUFFICES ASSUME TypeInv, RowInv, [Next]_vars PROVE RowInv'
  OBVIOUS
<1> DEFINE P(t) ==
      /\ spc[t] \in {"start", "opened"} => uuid_table[t] = <<>>
      /\ spc[t] \in {"drain", "drain_copy", "process_all"} =>
            \A k \in 1..Len(uuid_table[t]) :
                uuid_table[t][k].st \in {"new", "processed"}
      /\ spc[t] \in {"select", "wake", "wake_copy"} =>
            \A k \in 1..Len(uuid_table[t]) : uuid_table[t][k].st = "processed"
      /\ spc[t] \in {"read", "process_one"} => LastNew(t)
<1>0. \A t \in Server : P(t)
  BY DEF RowInv
<1> SUFFICES ASSUME NEW t \in Server PROVE P(t)'
  BY DEF RowInv
<1> USE DEF TypeInv, TypeOK, popVars
<1>1. CASE UNCHANGED <<spc, uuid_table>>
  BY <1>0, <1>1 DEF LastNew
<1>2. ASSUME NEW s \in Server, s # t, spc'[t] = spc[t],
             uuid_table'[t] = uuid_table[t]
      PROVE  P(t)'
  BY <1>0, <1>2 DEF LastNew
<1>3. ASSUME \/ ServerOpen(t) \/ Register(t) \/ SelectReturns(t) \/ SelectFails(t)
             \/ ReadEventfd(t) \/ Deregister(t) \/ Close(t) \/ SigInt(t) \/ Kill(t)
             \/ DrainEntry(t) \/ TakeEntry(t)
      PROVE  P(t)'
  <2>1. CASE ServerOpen(t) \/ Register(t)
    BY <1>0, <2>1 DEF ServerOpen, Register
  <2>2. CASE SelectReturns(t) \/ SelectFails(t)
    <3>1. /\ spc[t] = "select" /\ spc'[t] \in {"wake", "out"}
          /\ UNCHANGED uuid_table
      BY <2>2 DEF SelectReturns, SelectFails
    <3> QED
      BY <1>0, <3>1
  <2>3. CASE ReadEventfd(t)
    <3>1. /\ spc[t] = "read" /\ spc'[t] \in {"process_one", "out"}
          /\ UNCHANGED uuid_table
      BY <2>3 DEF ReadEventfd
    <3> QED
      BY <1>0, <3>1 DEF LastNew
  <2>4. CASE Deregister(t) \/ Close(t) \/ SigInt(t) \/ Kill(t)
    BY <2>4 DEF Deregister, Close, SigInt, Kill
  <2>5. CASE DrainEntry(t)
    BY <1>0, <2>5 DEF DrainEntry, get_pending_module
  <2>6. CASE TakeEntry(t)
    BY <1>0, <2>6 DEF TakeEntry, get_pending_module
  <2> QED
    BY <1>3, <2>1, <2>2, <2>3, <2>4, <2>5, <2>6
<1>4. ASSUME CopyEntry(t) PROVE P(t)'
  <2>1. CASE spc'[t] = "out"
    BY <2>1
  <2>2. CASE spc'[t] # "out"
    <3>1. Len(uuid_table[t]) \in Nat
      OBVIOUS
    <3>2. /\ spc'[t] = IF spc[t] = "drain_copy" THEN "drain" ELSE "read"
          /\ Len(uuid_table'[t]) = Len(uuid_table[t]) + 1
          /\ uuid_table'[t][Len(uuid_table[t]) + 1].st = "new"
          /\ \A k \in 1..Len(uuid_table[t]) :
                uuid_table'[t][k] = uuid_table[t][k]
      BY <1>4, <2>2, GetNewEntryRows
    <3>3. \A k \in 1..Len(uuid_table'[t]) :
             k \in 1..Len(uuid_table[t]) \/ k = Len(uuid_table[t]) + 1
      BY <3>1, <3>2
    <3>4. CASE spc[t] = "drain_copy"
      <4>1. \A k \in 1..Len(uuid_table[t]) :
               uuid_table[t][k].st \in {"new", "processed"}
        BY <1>0, <3>4
      <4>2. \A k \in 1..Len(uuid_table'[t]) :
               uuid_table'[t][k].st \in {"new", "processed"}
        <5> HIDE DEF TypeInv, TypeOK
        <5> QED
          BY <3>2, <3>3, <4>1
      <4> QED
        BY <3>2, <3>4, <4>2
    <3>5. CASE spc[t] = "wake_copy"
      <4>1. \A k \in 1..Len(uuid_table[t]) : uuid_table[t][k].st = "processed"
        BY <1>0, <3>5
      <4>2. uuid_table'[t] # <<>>
        BY <3>1, <3>2
      <4>3. ASSUME NEW k \in 1..Len(uuid_table'[t])
            PROVE  uuid_table'[t][k].st =
                      IF k = Len(uuid_table'[t]) THEN "new" ELSE "processed"
        <5>1. CASE k = Len(uuid_table[t]) + 1
          BY <3>2, <5>1
        <5>2. CASE k # Len(uuid_table[t]) + 1
          <6>1. k \in 1..Len(uuid_table[t]) /\ k # Len(uuid_table'[t])
            BY <3>1, <3>2, <5>2
          <6> HIDE DEF TypeInv, TypeOK
          <6> QED
            BY <3>2, <4>1, <6>1
        <5> QED
          BY <5>1, <5>2
      <4>4. spc'[t] = "read"
        BY <3>2, <3>5
      <4> QED
        BY <4>2, <4>3, <4>4 DEF LastNew
    <3> QED
      BY <1>4, <3>4, <3>5 DEF CopyEntry
  <2> QED
    BY <2>1, <2>2
<1>5. ASSUME ProcessAll(t) \/ ProcessOne(t) PROVE P(t)'
  <2>1. CASE spc'[t] = "out"
    BY <2>1
  <2>2. CASE ProcessAll(t) /\ spc'[t] # "out"
    <3>1. \A k \in 1..Len(uuid_table[t]) :
             uuid_table[t][k].st \in {"new", "processed"}
      BY <1>0, <2>2 DEF ProcessAll
    <3>2. process_entry(t, "select", "process_all")
      BY <2>2 DEF ProcessAll
    <3>3. CASE UNCHANGED uuid_table /\ spc'[t] = "select" /\ NoneNew(t)
      BY <3>1, <3>3 DEF NoneNew
    <3>4. CASE spc'[t] = "process_all" /\ \E k \in 1..Len(uuid_table[t]) :
                  /\ Len(uuid_table'[t]) = Len(uuid_table[t])
                  /\ uuid_table'[t][k].st = "processed"
                  /\ \A j \in 1..Len(uuid_table[t]) \ {k} :
                        uuid_table'[t][j] = uuid_table[t][j]
      BY <3>1, <3>4
    <3> QED
      BY <2>2, <3>2, <3>3, <3>4, ProcessEntryRows, SMTT(20)
  <2>3. CASE ProcessOne(t) /\ spc'[t] # "out"
    <3>1. LastNew(t)
      BY <1>0, <2>3 DEF ProcessOne
    <3>2. process_entry(t, "out", "select")
      BY <2>3 DEF ProcessOne
    <3>3. PICK k \in 1..Len(uuid_table[t]) :
              /\ spc'[t] = "select"
              /\ FirstNew(t, k)
              /\ Len(uuid_table'[t]) = Len(uuid_table[t])
              /\ uuid_table'[t][k].st = "processed"
              /\ \A j \in 1..Len(uuid_table[t]) \ {k} :
                    uuid_table'[t][j] = uuid_table[t][j]
      BY <2>3, <3>2, ProcessEntryRows
    <3>4. k = Len(uuid_table[t])
      BY <3>1, <3>3 DEF LastNew, FirstNew
    <3>5. \A j \in 1..Len(uuid_table'[t]) : uuid_table'[t][j].st = "processed"
      BY <3>1, <3>3, <3>4 DEF LastNew
    <3> QED
      BY <3>3, <3>5
  <2> QED
    BY <1>5, <2>1, <2>2, <2>3
<1>6. ASSUME NEW s \in Server, s # t,
             \/ ServerOpen(s) \/ ServerRun(s) \/ ProcessAll(s) \/ ProcessOne(s)
             \/ SelectFails(s) \/ SigInt(s) \/ Kill(s)
      PROVE  spc'[t] = spc[t] /\ uuid_table'[t] = uuid_table[t]
  BY <1>6 DEF ServerOpen, ServerRun, Register, SelectReturns, SelectFails,
     ReadEventfd, Deregister, Close, SigInt, Kill, DrainEntry, TakeEntry,
     get_pending_module, CopyEntry, get_new_entry, CopyFails, ProcessAll,
     ProcessOne, process_entry
<1>7. ASSUME NEW i \in Insmod, PutModule(i) \/ InsmodRun(i)
      PROVE  UNCHANGED <<spc, uuid_table>>
  BY <1>7 DEF PutModule, InsmodRun, send_event, eventfd_signal, SignalDangling
<1>8. UNCHANGED vars => UNCHANGED <<spc, uuid_table>>
  BY DEF vars
<1> HIDE DEF P, TypeInv, TypeOK
<1> QED
  BY <1>1, <1>2, <1>3, <1>4, <1>5, <1>6, <1>7, <1>8 DEF Next, ServerRun

(* A wakeup processes the entry it received: when process_entry() is       *)
(* called from the event loop, that entry is the table's only new one.     *)
THEOREM EventProcessesItsEntry == Spec => []OneUnprocessed
<1>1. Init => RowInv
  BY DEF Init, RowInv
<1>2. RowInv => OneUnprocessed
  BY DEF RowInv, OneUnprocessed, LastNew
<1> QED
  BY <1>1, <1>2, TypeInit, TypeStep, RowStep, PTL DEF Spec

(* The rows of t that are processed.                                       *)
Done(t) == {k \in 1..Len(uuid_table[t]) : uuid_table[t][k].st = "processed"}

(* A row received at the end of the table is not done.                     *)
LEMMA ReceiveRow ==
  ASSUME NEW t \in Server, ~GoingDown(t), ~GoingDown(t)',
         Len(uuid_table[t]) \in Nat,
         Len(uuid_table'[t]) = Len(uuid_table[t]) + 1,
         uuid_table'[t][Len(uuid_table[t]) + 1].st = "new",
         \A k \in 1..Len(uuid_table[t]) : uuid_table'[t][k] = uuid_table[t][k]
  PROVE  R(t)!Receive
<1>1. \A k \in 1..(Len(uuid_table[t]) + 1) :
         k \in 1..Len(uuid_table[t]) \/ k = Len(uuid_table[t]) + 1
  OBVIOUS
<1>2. 1..Len(uuid_table[t]) \subseteq 1..(Len(uuid_table[t]) + 1)
  OBVIOUS
<1>3. Done(t)' = Done(t)
  BY <1>1, <1>2 DEF Done
<1> QED
  BY <1>3 DEF R!Receive, Done

(* The first new row, marked as processed, is served in its turn.          *)
LEMMA ServeRow ==
  ASSUME NEW t \in Server, ~GoingDown(t), ~GoingDown(t)',
         \A k \in 1..Len(uuid_table[t]) :
             uuid_table[t][k].st \in {"new", "processed"},
         Len(uuid_table[t]) \in Nat,
         NEW k \in 1..Len(uuid_table[t]), FirstNew(t, k),
         Len(uuid_table'[t]) = Len(uuid_table[t]),
         uuid_table'[t][k].st = "processed",
         \A j \in 1..Len(uuid_table[t]) \ {k} :
             uuid_table'[t][j] = uuid_table[t][j]
  PROVE  R(t)!Serve
<1>1. k \notin Done(t)
  BY DEF FirstNew, Done
<1>2. \A j \in 1..(k - 1) : j \in 1..Len(uuid_table[t])
  OBVIOUS
<1>3. 1..(k - 1) \subseteq Done(t)
  BY <1>2 DEF FirstNew, Done
<1>4. Done(t)' = Done(t) \cup {k}
  BY DEF Done
<1> QED
  BY <1>1, <1>3, <1>4 DEF R!Serve, Done

(* Every step of main(), of the handler and of the environment is a step   *)
(* of RowService for server t, or none.                                    *)
LEMMA RowServiceStep ==
  ASSUME TypeInv, RowInv, [Next]_vars, NEW t \in Server
  PROVE  [R(t)!Next]_(R(t)!rvars)
<1>a. ASSUME GoingDown(t)', ~GoingDown(t) PROVE R(t)!Next
  BY <1>a DEF R!Next, R!Stop
<1>b. ASSUME uuid_table'[t] = uuid_table[t], GoingDown(t)' <=> GoingDown(t)
      PROVE  UNCHANGED R(t)!rvars
  BY <1>b DEF R!rvars
<1>c. ASSUME GoingDown(t), GoingDown(t)' PROVE UNCHANGED R(t)!rvars
  BY <1>c DEF R!rvars
<1>d. Len(uuid_table[t]) \in Nat
  <2>1. uuid_table[t] \in Seq(Entry)
    BY DEF TypeInv, TypeOK
  <2> QED
    BY <2>1
<1>e. spc \in [Server -> ServerState]
  BY DEF TypeInv, TypeOK
<1>1. ASSUME \/ spc'[t] = spc[t] /\ uuid_table'[t] = uuid_table[t]
             \/ UNCHANGED <<spc, uuid_table>>
      PROVE  UNCHANGED R(t)!rvars
  BY <1>1, <1>b DEF GoingDown
<1>2. CASE \/ ServerOpen(t) \/ Register(t) \/ SelectReturns(t) \/ SelectFails(t)
           \/ ReadEventfd(t) \/ Deregister(t) \/ Close(t) \/ SigInt(t) \/ Kill(t)
           \/ DrainEntry(t) \/ TakeEntry(t)
  <2>1. CASE \/ ServerOpen(t) \/ Register(t) \/ SelectReturns(t) \/ SelectFails(t)
             \/ ReadEventfd(t) \/ DrainEntry(t) \/ TakeEntry(t)
    <3>1. uuid_table' = uuid_table /\ ~GoingDown(t)
      BY <2>1 DEF ServerOpen, Register, SelectReturns, SelectFails, ReadEventfd,
         DrainEntry, TakeEntry, GoingDown
    <3> QED
      BY <1>a, <1>b, <3>1
  <2>2. CASE Deregister(t) \/ Close(t) \/ SigInt(t) \/ Kill(t)
    <3>1. GoingDown(t)'
      BY <1>e, <2>2 DEF Deregister, Close, SigInt, Kill, GoingDown
    <3> QED
      BY <1>a, <1>c, <3>1
  <2> QED
    BY <1>2, <2>1, <2>2
<1>3. CASE CopyEntry(t)
  <2>1. ~GoingDown(t)
    BY <1>3 DEF CopyEntry, GoingDown
  <2>2. CASE GoingDown(t)'
    BY <1>a, <2>1, <2>2
  <2>3. CASE ~GoingDown(t)'
    <3>1. spc'[t] # "out"
      BY <2>3 DEF GoingDown
    <3>2. /\ Len(uuid_table'[t]) = Len(uuid_table[t]) + 1
          /\ uuid_table'[t][Len(uuid_table[t]) + 1].st = "new"
          /\ \A k \in 1..Len(uuid_table[t]) :
                uuid_table'[t][k] = uuid_table[t][k]
      BY <1>3, <3>1, GetNewEntryRows DEF TypeInv
    <3>3. R(t)!Receive
      BY <1>d, <2>1, <2>3, <3>2, ReceiveRow
    <3> QED
      BY <3>3 DEF R!Next
  <2> QED
    BY <2>2, <2>3
<1>4. CASE ProcessAll(t) \/ ProcessOne(t)
  <2>1. PICK none \in {"select", "out"}, one \in {"process_all", "select"} :
           process_entry(t, none, one)
    BY <1>4 DEF ProcessAll, ProcessOne
  <2>2. ~GoingDown(t)
    BY <1>4 DEF ProcessAll, ProcessOne, GoingDown
  <2>3. CASE GoingDown(t)'
    BY <1>a, <2>2, <2>3
  <2>4. CASE ~GoingDown(t)'
    <3>1. spc'[t] # "out"
      BY <2>4 DEF GoingDown
    <3>2. CASE UNCHANGED uuid_table
      BY <1>b, <2>2, <2>4, <3>2
    <3>3. CASE ~UNCHANGED uuid_table
      <4>1. \A k \in 1..Len(uuid_table[t]) :
               uuid_table[t][k].st \in {"new", "processed"}
        BY <1>4 DEF ProcessAll, ProcessOne, RowInv, LastNew
      <4>2. PICK k \in 1..Len(uuid_table[t]) :
               /\ FirstNew(t, k)
               /\ Len(uuid_table'[t]) = Len(uuid_table[t])
               /\ uuid_table'[t][k].st = "processed"
               /\ \A j \in 1..Len(uuid_table[t]) \ {k} :
                     uuid_table'[t][j] = uuid_table[t][j]
        BY <2>1, <3>1, <3>3, ProcessEntryRows DEF TypeInv
      <4>3. R(t)!Serve
        BY <1>d, <2>2, <2>4, <4>1, <4>2, ServeRow
      <4> QED
        BY <4>3 DEF R!Next
    <3> QED
      BY <3>2, <3>3
  <2> QED
    BY <2>3, <2>4
<1>5. ASSUME NEW s \in Server, s # t,
             \/ ServerOpen(s) \/ ServerRun(s) \/ ProcessAll(s) \/ ProcessOne(s)
             \/ SelectFails(s) \/ SigInt(s) \/ Kill(s)
      PROVE  spc'[t] = spc[t] /\ uuid_table'[t] = uuid_table[t]
  BY <1>5 DEF ServerOpen, ServerRun, Register, SelectReturns, SelectFails,
     ReadEventfd, Deregister, Close, SigInt, Kill, DrainEntry, TakeEntry,
     get_pending_module, CopyEntry, get_new_entry, CopyFails, ProcessAll,
     ProcessOne, process_entry, TypeInv, TypeOK
<1>6. ASSUME NEW i \in Insmod, PutModule(i) \/ InsmodRun(i)
      PROVE  UNCHANGED <<spc, uuid_table>>
  BY <1>6 DEF PutModule, InsmodRun, send_event, eventfd_signal, SignalDangling
<1>7. UNCHANGED vars => UNCHANGED <<spc, uuid_table>>
  BY DEF vars
<1> QED
  BY <1>1, <1>2, <1>3, <1>4, <1>5, <1>6, <1>7 DEF Next, ServerRun

(* Every server implements RowService, for any number of insmods and       *)
(* servers, whatever the order of events, signals and failures.            *)
THEOREM ServersImplementRowService == Spec => RowServices
<1>1. Init => RowInv
  BY DEF Init, RowInv
<1>2. Init => \A s \in Server : R(s)!Init
  <2> SUFFICES ASSUME Init, NEW s \in Server PROVE R(s)!Init
    OBVIOUS
  <2>1. ~GoingDown(s) /\ uuid_table[s] = <<>>
    BY DEF Init, GoingDown
  <2>2. Len(uuid_table[s]) = 0 /\ 1..Len(uuid_table[s]) = {}
    BY <2>1
  <2> QED
    BY <2>1, <2>2 DEF R!Init
<1>3. TypeInv /\ RowInv /\ [Next]_vars =>
         [\A s \in Server : [R(s)!Next]_(R(s)!rvars)]_vars
  BY RowServiceStep
<1> QED
  BY <1>1, <1>2, <1>3, TypeInit, TypeStep, RowStep, PTL DEF Spec, RowServices
=============================================================================
