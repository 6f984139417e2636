--------------------------- MODULE ProxyLifecycle ---------------------------
(***************************************************************************)
(* Loading and unloading the proxy module while containers' insmods are    *)
(* under way: start() and create_chardev() with their unwinding, end() and *)
(* remove_chardev(), and the part of load_module() that tests whether the  *)
(* proxy is live, tests the function pointer, copies the container's       *)
(* namespaces and then calls through the pointer.  The proxy may be loaded *)
(* again after an unload or a failed start; host servers have its chardev  *)
(* open or not.                                                            *)
(***************************************************************************)
EXTENDS Naturals

CONSTANTS Insmod,     \* container insmods, each runs once
          Server,     \* host server processes
          MaxLoads,   \* bound: how often the proxy is loaded
          None        \* the NULL pointer

ASSUME ProxyLifecycleAssumption ==
    /\ MaxLoads \in Nat
    /\ None \notin Nat

VARIABLES
    load,   \* number of the current (or latest) load of the proxy, 0 at first
    pc,     \* where loading or unloading stands, see States
    tap,    \* lxc_uio_proxy_put_module: the load whose function it points to
    table,  \* module_table: the load whose table is allocated, or None
    have,   \* kernel objects that this load of the proxy holds
    left,   \* history: objects still held when a load's code was freed
    aborted,\* history: loads whose start() failed after its chardev appeared
    seen,   \* servers that have read the major number from the /proc entry
    file,   \* by server, the load whose chardev it has open, 0 if none
    ipc,    \* control state of each insmod
    code,   \* the load whose function each insmod runs, 0 if none
    ns,     \* by insmod, the parts of its copied nsproxy that are allocated
    raced   \* history: insmods that an rmmod found between their first test
            \* and their return

serverVars == <<seen, file>>
insmodVars == <<ipc, code, ns, raced>>
vars == <<load, pc, tap, table, have, left, aborted, serverVars, insmodVars>>

States ==
    {"absent",
     "set_tap", "chardev", "proc", "init_done",      \* in start()
     "live",
     "remove_chardev", "clear_tap", "free_table",    \* in end(), or unwinding
     "free_module"}                                  \* the kernel frees the code

Object == {"region", "class", "device", "cdev_struct", "cdev_map", "proc", "ks"}

InsmodState ==
    {"idle", "found", "copying", "tested", "inside", "returning", "done",
     "refused", "broken"}

(* struct nsproxy and the namespaces it points to.                         *)
NsObject == {"nsproxy", "mnt", "uts", "ipc", "pid", "cgroup", "net"}

TypeOK ==
    /\ load \in 0..MaxLoads
    /\ pc \in States
    /\ tap \in 1..MaxLoads \cup {None}
    /\ table \in 1..MaxLoads \cup {None}
    /\ have \in SUBSET Object
    /\ left \in SUBSET Object
    /\ aborted \in SUBSET (1..MaxLoads)
    /\ seen \in SUBSET Server
    /\ file \in [Server -> 0..MaxLoads]
    /\ ipc \in [Insmod -> InsmodState]
    /\ code \in [Insmod -> 0..MaxLoads]
    /\ ns \in [Insmod -> SUBSET NsObject]
    /\ raced \in SUBSET Insmod

Init ==
    /\ load = 0
    /\ pc = "absent"
    /\ tap = None
    /\ table = None
    /\ have = {}
    /\ left = {}
    /\ aborted = {}
    /\ seen = {}
    /\ file = [s \in Server |-> 0]
    /\ ipc = [i \in Insmod |-> "idle"]
    /\ code = [i \in Insmod |-> 0]
    /\ ns = [i \in Insmod |-> {}]
    /\ raced = {}

-----------------------------------------------------------------------------
(* start().  Each step is one call that may fail; a failure goes to the    *)
(* label that undoes the calls before it.                                  *)

(* Fresh module data, then table_init().                                   *)
Load ==
    /\ pc = "absent"
    /\ load < MaxLoads
    /\ load' = load + 1
    /\ \/ table' = load' /\ pc' = "set_tap"
       \/ table' = None /\ pc' = "free_module"
    /\ UNCHANGED <<tap, have, left, aborted, serverVars, insmodVars>>

(* find_symbol() and the function pointer.                                 *)
SetTap ==
    /\ pc = "set_tap"
    /\ \/ tap = None /\ tap' = load /\ pc' = "chardev"
       \/ UNCHANGED tap /\ pc' = "free_table"
    /\ UNCHANGED <<load, table, have, left, aborted, serverVars, insmodVars>>

(* What remove_chardev() and the error exits of create_chardev() give      *)
(* back; nothing gives back the cdev itself.                               *)
ChardevReleased == {"region", "class", "device"}

(* The calls of create_chardev() in order, each needing the ones before.   *)
Before(o) ==
    CASE o = "region"      -> {}
      [] o = "class"       -> {"region"}
      [] o = "device"      -> {"region", "class"}
      [] o = "cdev_struct" -> {"region", "class", "device"}
      [] o = "cdev_map"    -> {"region", "class", "device", "cdev_struct"}

(* Fault: the exit after a failing device_create() keeps the class.        *)
create_chardev_keeps_class ==
    /\ pc = "chardev"
    /\ \E o \in {"region", "class", "device", "cdev_struct", "cdev_map"} :
         /\ have = Before(o)
         /\ \/ /\ have' = have \cup {o}
               /\ pc' = IF o = "cdev_map" THEN "proc" ELSE pc
            \/ /\ have' = have \ (IF o = "device" THEN {"region"}
                                  ELSE ChardevReleased)
               /\ pc' = "clear_tap"
    /\ UNCHANGED <<load, tap, table, left, aborted, serverVars, insmodVars>>

create_chardev ==
    /\ pc = "chardev"
    /\ \E o \in {"region", "class", "device", "cdev_struct", "cdev_map"} :
         /\ have = Before(o)
         /\ \/ /\ have' = have \cup {o}
               /\ pc' = IF o = "cdev_map" THEN "proc" ELSE pc
            \/ /\ have' = have \ ChardevReleased
               /\ pc' = "clear_tap"
    /\ UNCHANGED <<load, tap, table, left, aborted, serverVars, insmodVars>>

ProcCreate ==
    /\ pc = "proc"
    /\ \/ have' = have \cup {"proc"} /\ pc' = "init_done" /\ UNCHANGED aborted
       \/ UNCHANGED have /\ pc' = "remove_chardev" /\ aborted' = aborted \cup {load}
    /\ UNCHANGED <<load, tap, table, left, serverVars, insmodVars>>

(* start() has returned 0 and the kernel marks the module live.            *)
GoLive ==
    /\ pc = "init_done"
    /\ pc' = "live"
    /\ UNCHANGED <<load, tap, table, have, left, aborted, serverVars, insmodVars>>

-----------------------------------------------------------------------------
(* end(), and the same steps as the tail of a failed start().              *)

UnderWay == {i \in Insmod : ipc[i] \in {"found", "copying", "tested", "inside",
                                        "returning"}}

(* Fault: cdev_fops.owner is not set, so open files do not hold the module. *)
Rmmod_unpinned ==
    /\ pc = "live"
    /\ pc' = "remove_chardev"
    /\ raced' = raced \cup UnderWay
    /\ UNCHANGED <<load, tap, table, have, left, aborted, serverVars, ipc, code, ns>>

(* rmmod: refused while its chardev is open (cdev_fops.owner), whatever    *)
(* insmods are doing.                                                      *)
Rmmod ==
    /\ pc = "live"
    /\ \A s \in Server : file[s] # load
    /\ pc' = "remove_chardev"
    /\ raced' = raced \cup UnderWay
    /\ UNCHANGED <<load, tap, table, have, left, aborted, serverVars, ipc, code, ns>>

remove_chardev ==
    /\ pc = "remove_chardev"
    /\ have' = have \ ChardevReleased
    /\ pc' = "clear_tap"
    /\ UNCHANGED <<load, tap, table, left, aborted, serverVars, insmodVars>>

(* Fault: the function pointer is left set.                                *)
ClearTap_not ==
    /\ pc = "clear_tap"
    /\ pc' = "free_table"
    /\ UNCHANGED <<load, tap, table, have, left, aborted, serverVars, insmodVars>>

ClearTap ==
    /\ pc = "clear_tap"
    /\ tap' = None
    /\ pc' = "free_table"
    /\ UNCHANGED <<load, table, have, left, aborted, serverVars, insmodVars>>

(* kfree(module_table) without table_mutex and, in end(), the /proc entry. *)
FreeTable ==
    /\ pc = "free_table"
    /\ table' = None
    /\ have' = have \ {"proc"}
    /\ pc' = "free_module"
    /\ UNCHANGED <<load, tap, left, aborted, serverVars, insmodVars>>

(* The kernel frees the module's memory; ks and the cdev are not undone,   *)
(* and after a failed start() open files are not waited for.               *)
FreeModule ==
    /\ pc = "free_module"
    /\ left' = left \cup have
    /\ have' = {}
    /\ pc' = "absent"
    /\ UNCHANGED <<load, tap, table, aborted, serverVars, insmodVars>>

-----------------------------------------------------------------------------
(* Servers and insmods.                                                    *)

(* A server starts: get_major_number() reads the /proc entry.              *)
get_major_number(s) ==
    /\ "proc" \in have
    /\ s \notin seen
    /\ seen' = seen \cup {s}
    /\ UNCHANGED <<load, pc, tap, table, have, left, aborted, file, insmodVars>>

(* Later it opens the chardev, perhaps of another load than the one whose  *)
(* /proc entry it read; the chardev exists from cdev_add() on.  Then it    *)
(* registers.                                                              *)
ServerUp(s) ==
    /\ pc \in {"proc", "init_done", "live"}
    /\ s \in seen
    /\ file[s] = 0
    /\ file' = [file EXCEPT ![s] = load]
    /\ have' = have \cup {"ks"}
    /\ UNCHANGED <<load, pc, tap, table, left, aborted, seen, insmodVars>>

(* It goes down, deregistering or (killed) not.  Its ioctl through a file  *)
(* of freed code is undefined; where the next load took the same addresses *)
(* it acts on that one's registration.                                     *)
ServerDown(s) ==
    /\ file[s] # 0
    /\ file' = [file EXCEPT ![s] = 0]
    /\ seen' = seen \ {s}
    /\ have' \in {have, have \ {"ks"}}
    /\ UNCHANGED <<load, pc, tap, table, left, aborted, insmodVars>>

At(i, from, to) == ipc[i] = from /\ ipc' = [ipc EXCEPT ![i] = to]

proxyUnchanged ==
    UNCHANGED <<load, pc, tap, table, have, left, aborted, serverVars, raced>>

(* Fault: any state of the module passes for live.                         *)
finished_loading_any(i) ==
    /\ \/ pc # "absent" /\ At(i, "idle", "found")
       \/ pc = "absent" /\ At(i, "idle", "refused")
    /\ proxyUnchanged /\ UNCHANGED <<code, ns>>

(* lxc_uio_finished_loading(): is the proxy live?                          *)
finished_loading(i) ==
    /\ \/ pc = "live" /\ At(i, "idle", "found")
       \/ pc # "live" /\ At(i, "idle", "refused")
    /\ proxyUnchanged /\ UNCHANGED <<code, ns>>

(* The test of the pointer.                                                *)
TestTap(i) ==
    /\ \/ tap # None /\ At(i, "found", "copying")
       \/ tap = None /\ At(i, "found", "refused")
    /\ proxyUnchanged /\ UNCHANGED <<code, ns>>

(* The calls of lxc_uio_create_new_namespaces() in order, and for each what *)
(* the label it goes to on failure, with those after it, gives back.       *)
NsBefore(o) ==
    CASE o = "nsproxy" -> {}
      [] o = "mnt"     -> {"nsproxy"}
      [] o = "uts"     -> {"nsproxy", "mnt"}
      [] o = "ipc"     -> {"nsproxy", "mnt", "uts"}
      [] o = "pid"     -> {"nsproxy", "mnt", "uts", "ipc"}
      [] o = "cgroup"  -> {"nsproxy", "mnt", "uts", "ipc", "pid"}
      [] o = "net"     -> {"nsproxy", "mnt", "uts", "ipc", "pid", "cgroup"}

(* Fault: a failing copy_net_ns() goes to out_cgroup.                      *)
NsReleased_short(o) == NsBefore(o) \ {"cgroup"}

NsReleased(o) ==
    LET out_ns     == {"nsproxy"}
        out_uts    == {"mnt"} \cup out_ns
        out_ipc    == {"uts"} \cup out_uts
        out_pid    == {"ipc"} \cup out_ipc
        out_cgroup == {"pid"} \cup out_pid
        out_net    == {"cgroup"} \cup out_cgroup
    IN  CASE o = "nsproxy" -> {}
          [] o = "mnt"     -> out_ns
          [] o = "uts"     -> out_uts
          [] o = "ipc"     -> out_ipc
          [] o = "pid"     -> out_pid
          [] o = "cgroup"  -> out_cgroup
          [] o = "net"     -> out_net

(* One call of lxc_uio_create_new_namespaces(); its last one ends          *)
(* lxc_uio_nsproxy_deep_copy(), and a failing one the insmod.              *)
CopyNs(i) ==
    /\ \E o \in NsObject :
         /\ ns[i] = NsBefore(o)
         /\ \/ /\ ns' = [ns EXCEPT ![i] = @ \cup {o}]
               /\ At(i, "copying", IF o = "net" THEN "tested" ELSE "copying")
            \/ /\ ns' = [ns EXCEPT ![i] = @ \ NsReleased(o)]
               /\ At(i, "copying", "refused")
    /\ proxyUnchanged /\ UNCHANGED code

(* The call reads the pointer again; calling NULL kills the insmod.        *)
CallTap(i) ==
    /\ \/ /\ tap # None
          /\ At(i, "tested", "inside")
          /\ code' = [code EXCEPT ![i] = tap]
       \/ /\ tap = None
          /\ At(i, "tested", "broken")
          /\ UNCHANGED code
    /\ proxyUnchanged /\ UNCHANGED ns

(* The code that insmod i is executing is still there.                     *)
CodeLoaded(i) == code[i] = load /\ pc # "absent"

(* lxc_uio_proxy_put_module_1(): the put, then its return to load_module() *)
(* with success or an error.  Without its code or its table its behaviour  *)
(* is undefined, "broken".                                                 *)
PutModule(i) ==
    /\ \/ CodeLoaded(i) /\ table = code[i] /\ At(i, "inside", "returning")
       \/ ~(CodeLoaded(i) /\ table = code[i]) /\ At(i, "inside", "broken")
    /\ proxyUnchanged /\ UNCHANGED <<code, ns>>

ReturnFromTap(i) ==
    /\ \/ CodeLoaded(i) /\ \E to \in {"done", "refused"} : At(i, "returning", to)
       \/ ~CodeLoaded(i) /\ At(i, "returning", "broken")
    /\ proxyUnchanged /\ UNCHANGED <<code, ns>>

-----------------------------------------------------------------------------

Next ==
    \/ Load \/ SetTap \/ create_chardev \/ ProcCreate \/ GoLive
    \/ Rmmod \/ remove_chardev \/ ClearTap \/ FreeTable \/ FreeModule
    \/ \E s \in Server : get_major_number(s) \/ ServerUp(s) \/ ServerDown(s)
    \/ \E i \in Insmod : \/ finished_loading(i) \/ TestTap(i) \/ CopyNs(i)
                         \/ CallTap(i) \/ PutModule(i) \/ ReturnFromTap(i)

Spec == Init /\ [][Next]_vars

-----------------------------------------------------------------------------
(* The function pointer leads to the loaded proxy, and the table it puts   *)
(* modules in exists, through every failure of start() and through end().  *)
TapHasTable == tap # None => table = tap /\ tap = load /\ pc # "absent"

(* start() never finds the pointer set by an earlier load ("already set to *)
(* a non null value. Wasn't expecting this.").                             *)
NeverSetTwice == pc = "set_tap" => tap = None

(* An insmod runs into a NULL pointer, freed code or a freed table only if *)
(* an rmmod came between its test for a live proxy and its return; failed  *)
(* starts alone never hurt it.                                             *)
BrokenOnlyByRmmod == \A i \in Insmod : ipc[i] = "broken" => i \in raced

(* Nothing but the cdev and the registration of a server that died         *)
(* survives the proxy, whichever call of start() failed.                   *)
LeftoverBound == left \subseteq {"cdev_struct", "cdev_map", "ks"}

(* A server holds a file of freed code only if it opened the chardev while *)
(* start() was still under way and start() then failed; no rmmod does this *)
(* to it, over any number of loads.                                        *)
OrphanOnlyByAbort ==
    \A s \in Server : \/ file[s] = 0
                      \/ file[s] = load /\ pc \in {"proc", "init_done", "live"}
                      \/ file[s] \in aborted

(* An insmod holds all of a namespace copy or nothing of one, whichever    *)
(* call failed; when it is refused, it keeps the copy only if the put in   *)
(* the proxy failed (load_module() does not release it then).              *)
CopyAllOrNothing ==
    \A i \in Insmod : ipc[i] # "copying" =>
        /\ ns[i] \in {{}, NsObject}
        /\ ns[i] = NsObject <=>
              \/ ipc[i] \in {"tested", "inside", "returning", "done", "broken"}
              \/ ipc[i] = "refused" /\ code[i] # 0
=============================================================================
