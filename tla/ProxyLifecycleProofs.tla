------------------------ MODULE ProxyLifecycleProofs ------------------------
(***************************************************************************)
(* Proofs about ProxyLifecycle, for any insmods, servers and number of     *)
(* loads.                                                                  *)
(***************************************************************************)
EXTENDS ProxyLifecycle, TLAPS

(* The table exists from table_init() to its kfree(), and the function     *)
(* pointer is set within that time.                                        *)
TapInv ==
    /\ pc # "absent" => load # 0
    /\ table = IF pc \in {"absent", "free_module"} THEN None ELSE load
    /\ tap = IF pc \in {"chardev", "proc", "init_done", "live",
                        "remove_chardev", "clear_tap"}
             THEN load ELSE None

(* Until an rmmod comes, an insmod that found the proxy live has it live.  *)
CallInv ==
    \A i \in Insmod : i \notin raced =>
        /\ ipc[i] # "broken"
        /\ i \in UnderWay => pc = "live"
        /\ ipc[i] \in {"inside", "returning"} => code[i] = load

Survivors == {"cdev_struct", "cdev_map", "ks"}

(* What the proxy can still hold at each point of its unloading.           *)
HaveInv ==
    /\ left \subseteq Survivors
    /\ pc \in {"absent", "set_tap"} => have = {}
    /\ pc \in {"clear_tap", "free_table"} => have \subseteq Survivors \cup {"proc"}
    /\ pc = "free_module" => have \subseteq Survivors

(* What insmod i holds of a namespace copy at each point of load_module(): *)
(* while copying, the results of the calls before some call; and code[i]   *)
(* tells whether it has called into the proxy.                             *)
CopyState(i) ==
    /\ ipc[i] \in {"idle", "found"} => ns[i] = {}
    /\ ipc[i] = "copying" => \E o \in NsObject : ns[i] = NsBefore(o)
    /\ ipc[i] \in {"tested", "inside", "returning", "done", "broken"} =>
          ns[i] = NsObject
    /\ ipc[i] \in {"idle", "found", "copying", "tested"} => code[i] = 0
    /\ ipc[i] \in {"inside", "returning", "done"} => code[i] # 0
    /\ ipc[i] = "refused" => ns[i] = IF code[i] = 0 THEN {} ELSE NsObject

CopyInv == \A i \in Insmod : CopyState(i)

LifeInv == TypeOK /\ TapInv /\ CallInv /\ HaveInv /\ CopyInv /\ OrphanOnlyByAbort

(* The invariant holds before the first load.                              *)
LEMMA LifeInit == Init => LifeInv
<1> SUFFICES ASSUME Init PROVE LifeInv
  OBVIOUS
<1>1. TypeOK
  BY ProxyLifecycleAssumption DEF Init, TypeOK, States, InsmodState
<1>2. TapInv /\ HaveInv /\ OrphanOnlyByAbort
  BY DEF Init, TapInv, HaveInv, OrphanOnlyByAbort
<1>3. CallInv /\ CopyInv
  BY DEF Init, CallInv, UnderWay, CopyInv, CopyState
<1> QED
  BY <1>1, <1>2, <1>3 DEF LifeInv

(* A step of an insmod changes its own control state only.                 *)
LEMMA AtType ==
  ASSUME TypeOK, NEW i \in Insmod, NEW from, NEW to \in InsmodState,
         At(i, from, to)
  PROVE  ipc' \in [Insmod -> InsmodState]
BY DEF At, TypeOK

(* Every step of start(), end(), a server or an insmod preserves TypeOK.   *)
LEMMA TypeStep == TypeOK /\ TapInv /\ [Next]_vars => TypeOK'
<1> SUFFICES ASSUME TypeOK, TapInv, [Next]_vars PROVE TypeOK'
  OBVIOUS
<1> USE ProxyLifecycleAssumption DEF TypeOK, States, Object, insmodVars, serverVars
<1>1. CASE Load
  BY <1>1 DEF Load
<1>2. CASE SetTap
  BY <1>2 DEF SetTap, TapInv
<1>3. CASE create_chardev
  BY <1>3 DEF create_chardev
<1>4. CASE ProcCreate
  <2>1. load \in 1..MaxLoads
    BY <1>4 DEF ProcCreate, TapInv
  <2>2. aborted' \in SUBSET (1..MaxLoads) /\ have' \in SUBSET Object
    BY <1>4, <2>1 DEF ProcCreate
  <2>3. pc' \in States
    BY <1>4 DEF ProcCreate
  <2> QED
    BY <1>4, <2>2, <2>3 DEF ProcCreate
<1>5. CASE GoLive
  BY <1>5 DEF GoLive
<1>6. CASE Rmmod
  BY <1>6 DEF Rmmod, UnderWay
<1>7. CASE remove_chardev
  BY <1>7 DEF remove_chardev
<1>8. CASE ClearTap
  BY <1>8 DEF ClearTap
<1>9. CASE FreeTable
  BY <1>9 DEF FreeTable
<1>10. CASE FreeModule
  BY <1>10 DEF FreeModule
<1>11. ASSUME NEW s \in Server, get_major_number(s) \/ ServerUp(s) \/ ServerDown(s)
       PROVE  TypeOK'
  <2>1. load \in 0..MaxLoads /\ 0 \in 0..MaxLoads
    OBVIOUS
  <2>2. file' \in [Server -> 0..MaxLoads]
    BY <1>11, <2>1 DEF get_major_number, ServerUp, ServerDown
  <2>3. seen' \in SUBSET Server /\ have' \in SUBSET Object
    BY <1>11 DEF get_major_number, ServerUp, ServerDown
  <2> QED
    BY <1>11, <2>2, <2>3 DEF get_major_number, ServerUp, ServerDown
<1>12. ASSUME NEW i \in Insmod, finished_loading(i) \/ TestTap(i) \/ PutModule(i)
                                  \/ ReturnFromTap(i)
       PROVE  TypeOK'
  <2>1. ipc' \in [Insmod -> InsmodState]
    BY <1>12, AtType
       DEF finished_loading, TestTap, PutModule, ReturnFromTap, InsmodState
  <2> QED
    BY <1>12, <2>1 DEF finished_loading, TestTap, PutModule, ReturnFromTap,
                       proxyUnchanged
<1>13. ASSUME NEW i \in Insmod, CallTap(i) PROVE TypeOK'
  <2>1. ipc' \in [Insmod -> InsmodState]
    BY <1>13, AtType DEF CallTap, InsmodState
  <2> QED
    BY <1>13, <2>1 DEF CallTap, proxyUnchanged
<1>14. ASSUME NEW i \in Insmod, CopyNs(i) PROVE TypeOK'
  <2>1. ipc' \in [Insmod -> InsmodState]
    BY <1>14, AtType DEF CopyNs, InsmodState
  <2>2. ns' \in [Insmod -> SUBSET NsObject]
    BY <1>14 DEF CopyNs
  <2> QED
    BY <1>14, <2>1, <2>2 DEF CopyNs, proxyUnchanged
<1>15. CASE UNCHANGED vars
  BY <1>15 DEF vars
<1> QED
  BY <1>1, <1>2, <1>3, <1>4, <1>5, <1>6, <1>7, <1>8, <1>9, <1>10, <1>11, <1>12,
     <1>13, <1>14, <1>15 DEF Next

(* The pointer and the table follow the control state.                     *)
LEMMA TapStep == TypeOK /\ TapInv /\ [Next]_vars => TapInv'
<1> SUFFICES ASSUME TypeOK, TapInv, [Next]_vars PROVE TapInv'
  OBVIOUS
<1> USE DEF TapInv, TypeOK, insmodVars, serverVars
<1>1. CASE Load \/ SetTap \/ create_chardev \/ ProcCreate \/ GoLive
  BY <1>1 DEF Load, SetTap, create_chardev, ProcCreate, GoLive
<1>2. CASE Rmmod \/ remove_chardev \/ ClearTap \/ FreeTable \/ FreeModule
  BY <1>2 DEF Rmmod, remove_chardev, ClearTap, FreeTable, FreeModule
<1>3. ASSUME NEW s \in Server, get_major_number(s) \/ ServerUp(s) \/ ServerDown(s)
      PROVE  TapInv'
  BY <1>3 DEF get_major_number, ServerUp, ServerDown
<1>4. ASSUME NEW i \in Insmod,
             \/ finished_loading(i) \/ TestTap(i) \/ CopyNs(i) \/ CallTap(i)
             \/ PutModule(i) \/ ReturnFromTap(i)
      PROVE  TapInv'
  BY <1>4 DEF finished_loading, TestTap, CopyNs, CallTap, PutModule, ReturnFromTap,
              proxyUnchanged
<1>5. CASE UNCHANGED vars
  BY <1>5 DEF vars
<1> QED
  BY <1>1, <1>2, <1>3, <1>4, <1>5 DEF Next

(* Only Rmmod takes the proxy away from an insmod that found it live.      *)
LEMMA CallStep == TypeOK /\ TapInv /\ CallInv /\ [Next]_vars => CallInv'
<1> SUFFICES ASSUME TypeOK, TapInv, CallInv, [Next]_vars PROVE CallInv'
  OBVIOUS
<1> USE DEF TypeOK, CallInv, UnderWay, insmodVars, serverVars
<1>1. CASE Load \/ SetTap \/ create_chardev \/ ProcCreate \/ GoLive
  BY <1>1 DEF Load, SetTap, create_chardev, ProcCreate, GoLive
<1>2. CASE Rmmod \/ remove_chardev \/ ClearTap \/ FreeTable \/ FreeModule
  BY <1>2 DEF Rmmod, remove_chardev, ClearTap, FreeTable, FreeModule
<1>3. ASSUME NEW s \in Server, get_major_number(s) \/ ServerUp(s) \/ ServerDown(s)
      PROVE  CallInv'
  BY <1>3 DEF get_major_number, ServerUp, ServerDown
<1>4. ASSUME NEW i \in Insmod,
             finished_loading(i) \/ TestTap(i) \/ CopyNs(i)
      PROVE  CallInv'
  BY <1>4 DEF finished_loading, TestTap, CopyNs, At, proxyUnchanged
<1>5. ASSUME NEW i \in Insmod, CallTap(i) PROVE CallInv'
  BY <1>5, ProxyLifecycleAssumption DEF CallTap, At, proxyUnchanged, TapInv
<1>6. ASSUME NEW i \in Insmod, PutModule(i) \/ ReturnFromTap(i) PROVE CallInv'
  BY <1>6 DEF PutModule, ReturnFromTap, CodeLoaded, At, proxyUnchanged, TapInv
<1>7. CASE UNCHANGED vars
  BY <1>7 DEF vars
<1> QED
  BY <1>1, <1>2, <1>3, <1>4, <1>5, <1>6, <1>7 DEF Next

(* The unwinding gives back all but the survivors.                         *)
LEMMA HaveStep == TypeOK /\ HaveInv /\ [Next]_vars => HaveInv'
<1> SUFFICES ASSUME TypeOK, HaveInv, [Next]_vars PROVE HaveInv'
  OBVIOUS
<1> USE DEF TypeOK, HaveInv, Survivors, insmodVars, serverVars
<1>1. CASE Load \/ SetTap \/ ProcCreate \/ GoLive \/ Rmmod
  BY <1>1 DEF Load, SetTap, ProcCreate, GoLive, Rmmod
<1>2. CASE create_chardev \/ remove_chardev
  BY <1>2 DEF create_chardev, remove_chardev, ChardevReleased, Object, Before
<1>3. CASE ClearTap \/ FreeTable \/ FreeModule
  BY <1>3 DEF ClearTap, FreeTable, FreeModule
<1>4. ASSUME NEW s \in Server, get_major_number(s) \/ ServerUp(s) \/ ServerDown(s)
      PROVE  HaveInv'
  BY <1>4 DEF get_major_number, ServerUp, ServerDown
<1>5. ASSUME NEW i \in Insmod,
             \/ finished_loading(i) \/ TestTap(i) \/ CopyNs(i) \/ CallTap(i)
             \/ PutModule(i) \/ ReturnFromTap(i)
      PROVE  HaveInv'
  BY <1>5 DEF finished_loading, TestTap, CopyNs, CallTap, PutModule, ReturnFromTap,
              proxyUnchanged
<1>6. CASE UNCHANGED vars
  BY <1>6 DEF vars
<1> QED
  BY <1>1, <1>2, <1>3, <1>4, <1>5, <1>6 DEF Next

(* A file outlives the code it belongs to only through a failed start().   *)
LEMMA OrphanStep == TypeOK /\ OrphanOnlyByAbort /\ [Next]_vars => OrphanOnlyByAbort'
<1> SUFFICES ASSUME TypeOK, OrphanOnlyByAbort, [Next]_vars PROVE OrphanOnlyByAbort'
  OBVIOUS
<1> USE DEF TypeOK, OrphanOnlyByAbort, insmodVars, serverVars
<1>1. CASE Load \/ SetTap \/ create_chardev \/ ProcCreate \/ GoLive
  BY <1>1 DEF Load, SetTap, create_chardev, ProcCreate, GoLive
<1>2. CASE Rmmod \/ remove_chardev \/ ClearTap \/ FreeTable \/ FreeModule
  BY <1>2 DEF Rmmod, remove_chardev, ClearTap, FreeTable, FreeModule
<1>3. ASSUME NEW s \in Server, get_major_number(s) \/ ServerUp(s) \/ ServerDown(s)
      PROVE  OrphanOnlyByAbort'
  BY <1>3 DEF get_major_number, ServerUp, ServerDown
<1>4. ASSUME NEW i \in Insmod,
             \/ finished_loading(i) \/ TestTap(i) \/ CopyNs(i) \/ CallTap(i)
             \/ PutModule(i) \/ ReturnFromTap(i)
      PROVE  OrphanOnlyByAbort'
  BY <1>4 DEF finished_loading, TestTap, CopyNs, CallTap, PutModule,
              ReturnFromTap, proxyUnchanged
<1>5. CASE UNCHANGED vars
  BY <1>5 DEF vars
<1> QED
  BY <1>1, <1>2, <1>3, <1>4, <1>5 DEF Next

(* A successful call leads to the next one, the last to the whole copy.    *)
LEMMA NsOrder ==
  /\ \A o \in NsObject \ {"net"} : \E q \in NsObject :
        NsBefore(o) \cup {o} = NsBefore(q)
  /\ NsBefore("net") \cup {"net"} = NsObject
  /\ NsBefore("nsproxy") = {}
<1>1. /\ NsBefore("nsproxy") = {}
      /\ NsBefore("nsproxy") \cup {"nsproxy"} = NsBefore("mnt")
      /\ NsBefore("mnt") \cup {"mnt"} = NsBefore("uts")
      /\ NsBefore("uts") \cup {"uts"} = NsBefore("ipc")
      /\ NsBefore("ipc") \cup {"ipc"} = NsBefore("pid")
      /\ NsBefore("pid") \cup {"pid"} = NsBefore("cgroup")
      /\ NsBefore("cgroup") \cup {"cgroup"} = NsBefore("net")
      /\ NsBefore("net") \cup {"net"} = NsObject
  BY DEF NsBefore, NsObject
<1> QED
  BY <1>1 DEF NsObject

(* The label a failing call goes to gives back all that the calls before   *)
(* it had allocated.                                                       *)
LEMMA NsUnwound == \A o \in NsObject : NsReleased(o) = NsBefore(o)
<1>1. /\ NsReleased("nsproxy") = NsBefore("nsproxy")
      /\ NsReleased("mnt") = NsBefore("mnt")
      /\ NsReleased("uts") = NsBefore("uts")
      /\ NsReleased("ipc") = NsBefore("ipc")
      /\ NsReleased("pid") = NsBefore("pid")
      /\ NsReleased("cgroup") = NsBefore("cgroup")
      /\ NsReleased("net") = NsBefore("net")
  BY DEF NsBefore, NsReleased
<1> QED
  BY <1>1 DEF NsObject

(* The copy is built in order, released in full, and kept from then on.    *)
LEMMA CopyStep == TypeOK /\ CopyInv /\ [Next]_vars => CopyInv'
<1> SUFFICES ASSUME TypeOK, CopyInv, [Next]_vars, NEW j \in Insmod
             PROVE  CopyState(j)'
  BY DEF CopyInv
<1>0. CopyState(j)
  BY DEF CopyInv
<1> USE DEF TypeOK, insmodVars, serverVars
<1>1. ASSUME ipc'[j] = ipc[j], code'[j] = code[j], ns'[j] = ns[j]
      PROVE  CopyState(j)'
  BY <1>0, <1>1 DEF CopyState
<1>2. CASE UNCHANGED <<ipc, code, ns>>
  BY <1>1, <1>2
<1>3. ASSUME NEW i \in Insmod, i # j,
             \/ finished_loading(i) \/ TestTap(i) \/ CopyNs(i) \/ CallTap(i)
             \/ PutModule(i) \/ ReturnFromTap(i)
      PROVE  CopyState(j)'
  BY <1>1, <1>3 DEF finished_loading, TestTap, CopyNs, CallTap, PutModule,
                    ReturnFromTap, At
<1>4. CASE finished_loading(j)
  BY <1>0, <1>4 DEF finished_loading, At, CopyState
<1>5. CASE TestTap(j)
  BY <1>0, <1>5, NsOrder DEF TestTap, At, CopyState, NsObject
<1>6. CASE CopyNs(j)
  <2>1. PICK o \in NsObject :
           /\ ns[j] = NsBefore(o)
           /\ \/ /\ ns' = [ns EXCEPT ![j] = @ \cup {o}]
                 /\ At(j, "copying", IF o = "net" THEN "tested" ELSE "copying")
              \/ /\ ns' = [ns EXCEPT ![j] = @ \ NsReleased(o)]
                 /\ At(j, "copying", "refused")
    BY <1>6 DEF CopyNs
  <2>2. code'[j] = 0
    BY <1>0, <1>6 DEF CopyNs, At, CopyState
  <2>3. CASE ns'[j] = ns[j] \cup {o}
             /\ ipc'[j] = (IF o = "net" THEN "tested" ELSE "copying")
    BY <2>1, <2>2, <2>3, NsOrder DEF CopyState
  <2>4. CASE ns'[j] = ns[j] \ NsReleased(o) /\ ipc'[j] = "refused"
    <3>1. ns'[j] = {}
      BY <2>1, <2>4, NsUnwound
    <3> QED
      BY <2>2, <2>4, <3>1 DEF CopyState
  <2> QED
    BY <2>1, <2>3, <2>4 DEF At
<1>7. CASE CallTap(j)
  <2>1. ns'[j] = ns[j] /\ ns[j] = NsObject
    BY <1>0, <1>7 DEF CallTap, At, CopyState
  <2>2. \/ ipc'[j] = "inside" /\ code'[j] # 0
        \/ ipc'[j] = "broken"
    BY <1>7, ProxyLifecycleAssumption DEF CallTap, At
  <2> QED
    BY <2>1, <2>2 DEF CopyState
<1>8. CASE PutModule(j) \/ ReturnFromTap(j)
  BY <1>0, <1>8 DEF PutModule, ReturnFromTap, At, CopyState
<1>9. CASE \/ Load \/ SetTap \/ create_chardev \/ ProcCreate \/ GoLive
           \/ Rmmod \/ remove_chardev \/ ClearTap \/ FreeTable \/ FreeModule
           \/ UNCHANGED vars
  BY <1>2, <1>9 DEF Load, SetTap, create_chardev, ProcCreate, GoLive, Rmmod,
     remove_chardev, ClearTap, FreeTable, FreeModule, vars
<1>10. ASSUME NEW s \in Server, get_major_number(s) \/ ServerUp(s) \/ ServerDown(s)
       PROVE  CopyState(j)'
  BY <1>2, <1>10 DEF get_major_number, ServerUp, ServerDown
<1> QED
  BY <1>3, <1>4, <1>5, <1>6, <1>7, <1>8, <1>9, <1>10 DEF Next

(* LifeInv is an invariant of loading, unloading and calling the proxy.    *)
LEMMA LifeInvariant == Spec => []LifeInv
<1>1. LifeInv /\ [Next]_vars => LifeInv'
  BY TypeStep, TapStep, CallStep, HaveStep, CopyStep, OrphanStep DEF LifeInv
<1> QED
  BY LifeInit, <1>1, PTL DEF Spec

(* The function pointer always leads to the loaded proxy and its table     *)
(* (start() and end() set and clear the two in the right order).           *)
THEOREM TapSafe == Spec => []TapHasTable
<1>1. LifeInv => TapHasTable
  BY ProxyLifecycleAssumption DEF LifeInv, TypeOK, TapInv, TapHasTable
<1> QED
  BY LifeInvariant, <1>1, PTL

(* start() never meets a pointer that an earlier load left set.            *)
THEOREM TapFreeAtStart == Spec => []NeverSetTwice
<1>1. LifeInv => NeverSetTwice
  BY DEF LifeInv, TapInv, NeverSetTwice
<1> QED
  BY LifeInvariant, <1>1, PTL

(* Only an rmmod after its first test can break an insmod inside the call  *)
(* through the function pointer.                                           *)
THEOREM OnlyRmmodBreaks == Spec => []BrokenOnlyByRmmod
<1>1. LifeInv => BrokenOnlyByRmmod
  BY DEF LifeInv, CallInv, BrokenOnlyByRmmod
<1> QED
  BY LifeInvariant, <1>1, PTL

(* Only the cdev and a registration survive the proxy, whichever call of   *)
(* start() or create_chardev() failed.                                     *)
THEOREM FewLeftovers == Spec => []LeftoverBound
<1>1. LifeInv => LeftoverBound
  BY DEF LifeInv, HaveInv, Survivors, LeftoverBound
<1> QED
  BY LifeInvariant, <1>1, PTL

(* Only a start() that fails after cdev_add() leaves a server with a file  *)
(* of freed code, for any number of loads and servers.                     *)
THEOREM NoOrphanByRmmod == Spec => []OrphanOnlyByAbort
<1>1. LifeInv => OrphanOnlyByAbort
  BY DEF LifeInv
<1> QED
  BY LifeInvariant, <1>1, PTL

(* lxc_uio_create_new_namespaces() gives a whole copy or nothing, and only *)
(* a failing put leaves a refused insmod with one.                         *)
THEOREM CopyComplete == Spec => []CopyAllOrNothing
<1>1. LifeInv => CopyAllOrNothing
  <2> SUFFICES ASSUME LifeInv, NEW i \in Insmod, ipc[i] # "copying"
               PROVE  /\ ns[i] \in {{}, NsObject}
                      /\ ns[i] = NsObject <=>
                            \/ ipc[i] \in {"tested", "inside", "returning",
                                           "done", "broken"}
                            \/ ipc[i] = "refused" /\ code[i] # 0
    BY DEF CopyAllOrNothing
  <2>1. CopyState(i) /\ ipc[i] \in InsmodState
    BY DEF LifeInv, CopyInv, TypeOK
  <2>2. NsObject # {}
    BY DEF NsObject
  <2> QED
    BY <2>1, <2>2 DEF CopyState, InsmodState
<1> QED
  BY LifeInvariant, <1>1, PTL
=============================================================================
