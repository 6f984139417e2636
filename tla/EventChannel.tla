---------------------------- MODULE EventChannel ----------------------------
(***************************************************************************)
(* The path of a module's uuid from a container's insmod to the host       *)
(* server: load_module() puts the module in the proxy's module_table and   *)
(* signals the registered server's eventfd; the server registers, drains   *)
(* the table, processes what it drained and then waits in select(), taking *)
(* one entry per wakeup.  Any number of insmods run concurrently with any  *)
(* number of server processes, each of which may fail, be interrupted or   *)
(* be killed at any point.                                                 *)
(*                                                                         *)
(* A critical section is one atomic step, except that send_event() keeps   *)
(* ks_mutex while it looks at the table (under table_mutex) and then       *)
(* signals, and that a request's pop and the un-pop after a failed copy to *)
(* user space are two critical sections: another server may take an entry  *)
(* between the two.  Both tables stay below their initial 256 entries.     *)
(***************************************************************************)
EXTENDS Integers, Sequences, FiniteSets

CONSTANTS Insmod,       \* container insmods; each stands for its module's uuid
          Server,       \* kvm-host-server processes, each runs once
          None,         \* the NULL pointer, the free mutex
          KillAllowed,  \* may a server die without running its exit code?
          Paced         \* are insmods and server starts done one at a time?

ASSUME EventChannelAssumption ==
    /\ IsFiniteSet(Insmod)
    /\ Insmod \cap Server = {}
    /\ None \notin Insmod \cup Server
    /\ KillAllowed \in BOOLEAN
    /\ Paced \in BOOLEAN

VARIABLES
    module_table,  \* proxy: the entries put, in order (0-based in the code)
    table_index,   \* proxy: index of the last entry popped, -1 at first
    ks,            \* proxy: the registered server, or None (NULL)
    ks_mutex,      \* proxy: the insmod that holds it between two steps, or None
    ipc,           \* control state of each insmod
    spc,           \* control state of each server process
    efd,           \* counter of each server's eventfd
    uuid_table,    \* each server's own table of received entries
    mt,            \* each request's entry between table_pop() and its end,
                   \* as an index of module_table (0 outside a request)
    popped,        \* history: what table_pop() gave out, and to whom
    given,         \* history: requests that took each module and did not
                   \* give it back
    returned,      \* history: number of un-pops that lowered table_index
    misreturned,   \* history: those that gave back another request's entry
    drained,       \* history: uuids taken by a server's start-up loop
    swallowed      \* history: per server, signals beyond the first that a
                   \* single read() of its eventfd consumed

proxyVars == <<module_table, table_index, ks, ks_mutex>>
popVars == <<mt, popped, given, returned, misreturned, drained>>
vars == <<module_table, table_index, ks, ks_mutex, ipc, spc, efd, uuid_table,
          mt, popped, given, returned, misreturned, drained, swallowed>>

InsmodState == {"idle", "event", "signal", "silent", "notified", "oops"}

ServerState ==
    {"start",        \* not launched yet
     "opened",       \* eventfd created, chardev open
     "drain",        \* first loop: get_new_entry() until there is none
     "drain_copy",   \* in its ioctl, after table_pop()
     "process_all",  \* second loop: process_entry() until there is none
     "select",       \* waiting in select()
     "wake",         \* select() returned with the eventfd readable
     "wake_copy",    \* in its ioctl, after table_pop()
     "read",         \* got one entry, about to read() the eventfd
     "process_one",  \* about to process the entry just received
     "out",          \* at out_table / out_deregister
     "close",        \* at the close() calls of main()
     "sigint",       \* in the SIGINT handler, before the deregistration
     "sig_close",    \* in the SIGINT handler, after it
     "exited",
     "killed"}

(* A row of a server's uuid_table: "new" when neither flag is set.         *)
Entry == [uuid : Insmod, st : {"new", "processed", "could_not_process"}]

HandOut == [to : Server, uuid : Insmod]

TypeOK ==
    /\ module_table \in Seq(Insmod)
    /\ table_index \in -1..(Len(module_table) - 1)
    /\ ks \in Server \cup {None}
    /\ ks_mutex \in Insmod \cup {None}
    /\ ipc \in [Insmod -> InsmodState]
    /\ spc \in [Server -> ServerState]
    /\ efd \in [Server -> Nat]
    /\ uuid_table \in [Server -> Seq(Entry)]
    /\ mt \in [Server -> Nat]
    /\ popped \in SUBSET HandOut
    /\ given \in [Insmod -> Int]
    /\ returned \in Nat
    /\ misreturned \in Nat
    /\ drained \in SUBSET Insmod
    /\ swallowed \in [Server -> Nat]

Init ==
    /\ module_table = <<>>
    /\ table_index = -1
    /\ ks = None
    /\ ks_mutex = None
    /\ ipc = [i \in Insmod |-> "idle"]
    /\ spc = [s \in Server |-> "start"]
    /\ efd = [s \in Server |-> 0]
    /\ uuid_table = [s \in Server |-> <<>>]
    /\ mt = [s \in Server |-> 0]
    /\ popped = {}
    /\ given = [i \in Insmod |-> 0]
    /\ returned = 0
    /\ misreturned = 0
    /\ drained = {}
    /\ swallowed = [s \in Server |-> 0]

-----------------------------------------------------------------------------
(* The module table, as the steps below use it.                            *)

table_num_entries == Len(module_table)

(* The test of table_pop() and of table_peek(): is there an unpopped entry? *)
HasPending == table_index + 1 <= table_num_entries - 1

NumPending == table_num_entries - 1 - table_index

(* The entry at [table_index + 1]; module_table counts from 1 here.        *)
table_peek == module_table[table_index + 2]

PendingUuids ==
    {module_table[k] : k \in (table_index + 2)..table_num_entries}

(* A server's eventfd exists from eventfd() to the end of the process.     *)
EfdOpen(s) == spc[s] \notin {"start", "exited", "killed"}

GoingDown(s) ==
    spc[s] \in {"out", "close", "sigint", "sig_close", "exited", "killed"}

(* Insmods that have put their module and not yet returned from send_event() *)
InFlight == {i \in Insmod : ipc[i] \in {"event", "signal"}}

(* Nothing is going on: no insmod under way, every server is waiting in    *)
(* select() with nothing to read, or is not running.                       *)
Quiet ==
    /\ InFlight = {}
    /\ \A s \in Server : \/ spc[s] \in {"start", "exited", "killed"}
                         \/ spc[s] = "select" /\ efd[s] = 0

-----------------------------------------------------------------------------
(* The insmod side: lxc_uio_proxy_put_module_1() and send_event().         *)

(* table_put(): the new module goes to the end of the table.               *)
table_put(i) == module_table' = Append(module_table, i)

(* lxc_uio_proxy_put_module_1() up to its call of send_event().            *)
PutModule(i) ==
    /\ ipc[i] = "idle"
    /\ Paced => Quiet
    /\ table_put(i)
    /\ ipc' = [ipc EXCEPT ![i] = "event"]
    /\ UNCHANGED <<table_index, ks, ks_mutex, spc, efd, uuid_table, popVars, swallowed>>

(* Fault: the early returns leave ks_mutex locked.                         *)
send_event_no_unlock(i) ==
    /\ ipc[i] = "event"
    /\ ks_mutex = None
    /\ ks_mutex' = i
    /\ ipc' = [ipc EXCEPT ![i] = IF ks = None \/ ~HasPending
                                 THEN "silent" ELSE "signal"]
    /\ UNCHANGED <<module_table, table_index, ks, spc, efd, uuid_table, popVars, swallowed>>

(* send_event() up to the signal: take ks_mutex; leave quietly when no     *)
(* server is registered or when the entry has been taken already.          *)
send_event(i) ==
    /\ ipc[i] = "event"
    /\ ks_mutex = None
    /\ \/ /\ ks = None \/ ~HasPending
          /\ ipc' = [ipc EXCEPT ![i] = "silent"]
          /\ UNCHANGED ks_mutex
       \/ /\ ks # None /\ HasPending
          /\ ipc' = [ipc EXCEPT ![i] = "signal"]
          /\ ks_mutex' = i
    /\ UNCHANGED <<module_table, table_index, ks, spc, efd, uuid_table, popVars, swallowed>>

(* Fault: the counter is not incremented (eventfd_signal(efd_ctx, 0)).     *)
eventfd_signal_zero(i) ==
    /\ ipc[i] = "signal"
    /\ EfdOpen(ks)
    /\ ks_mutex' = None
    /\ ipc' = [ipc EXCEPT ![i] = "notified"]
    /\ UNCHANGED <<module_table, table_index, ks, efd, spc, uuid_table, popVars, swallowed>>

(* eventfd_signal() on ks->fp while that file is open, then the unlock.    *)
eventfd_signal(i) ==
    /\ ipc[i] = "signal"
    /\ EfdOpen(ks)
    /\ efd' = [efd EXCEPT ![ks] = @ + 1]
    /\ ks_mutex' = None
    /\ ipc' = [ipc EXCEPT ![i] = "notified"]
    /\ UNCHANGED <<module_table, table_index, ks, spc, uuid_table, popVars, swallowed>>

(* ks->fp holds no reference to the file: once the server's process is gone *)
(* the pointer dangles, and signalling it is undefined.  The memory may be  *)
(* intact (no visible effect), belong to another server's eventfd by now,   *)
(* or make the kernel kill the insmod with ks_mutex held.                   *)
SignalDangling(i) ==
    /\ ipc[i] = "signal"
    /\ ~EfdOpen(ks)
    /\ \/ /\ \/ UNCHANGED efd
             \/ \E s \in Server : /\ EfdOpen(s)
                                  /\ efd' = [efd EXCEPT ![s] = @ + 1]
          /\ ks_mutex' = None
          /\ ipc' = [ipc EXCEPT ![i] = "notified"]
       \/ /\ ipc' = [ipc EXCEPT ![i] = "oops"]
          /\ UNCHANGED <<efd, ks_mutex>>
    /\ UNCHANGED <<module_table, table_index, ks, spc, uuid_table, popVars, swallowed>>

-----------------------------------------------------------------------------
(* The server side: main(), get_new_entry() and the proxy's ioctls.        *)

(* main() up to open(): the major number, /dev/kvm, the eventfd and the    *)
(* chardev; any of them may be missing, which ends the process.            *)
ServerOpen(s) ==
    /\ spc[s] = "start"
    /\ Paced => Quiet
    /\ \E to \in {"opened", "exited"} : spc' = [spc EXCEPT ![s] = to]
    /\ UNCHANGED <<proxyVars, ipc, efd, uuid_table, popVars, swallowed>>

(* register_server() and the ioctl: the previous server is forgotten.  When *)
(* kmalloc() fails ks stays NULL and the server leaves; when the server's   *)
(* table_init() fails it deregisters first.                                 *)
Register(s) ==
    /\ spc[s] = "opened"
    /\ ks_mutex = None
    /\ \/ /\ ks' = s
          /\ \E to \in {"drain", "out"} : spc' = [spc EXCEPT ![s] = to]
       \/ /\ ks' = None
          /\ spc' = [spc EXCEPT ![s] = "close"]
    /\ UNCHANGED <<module_table, table_index, ks_mutex, ipc, efd, uuid_table,
                   popVars, swallowed>>

(* Fault: the entry is returned but table_index is not advanced.           *)
table_pop_no_advance == HasPending /\ UNCHANGED table_index

table_pop == HasPending /\ table_index' = table_index + 1

(* Fault: everything that was popped is pending again.                     *)
table_pop_reverse_all ==
    table_index' = IF table_index <= 0 THEN table_index ELSE -1

(* Un-pop: the last entry popped, whoever popped it, is pending again; the *)
(* test refuses this for entry 0.                                          *)
table_pop_reverse ==
    table_index' = IF table_index <= 0 THEN table_index ELSE table_index - 1

(* The get_pending_module ioctl up to its copy to user space: pop an entry *)
(* for s, which goes on to copy, or to none when nothing is pending.       *)
get_pending_module(s, none, copy) ==
    \/ /\ ~HasPending
       /\ spc' = [spc EXCEPT ![s] = none]
       /\ UNCHANGED <<table_index, mt, popped, given>>
    \/ /\ table_pop
       /\ mt' = [mt EXCEPT ![s] = table_index + 1]
       /\ popped' = popped \cup {[to |-> s, uuid |-> table_peek]}
       /\ given' = [given EXCEPT ![table_peek] = @ + 1]
       /\ spc' = [spc EXCEPT ![s] = copy]

(* The uuid of the entry that s's request has popped.                      *)
uuid(s) == module_table[mt[s] + 1]

(* A failed copy to user space gives the entry back, and main() leaves.    *)
CopyFails(s) ==
    /\ table_pop_reverse
    /\ IF table_index <= 0
       THEN UNCHANGED <<given, returned, misreturned>>
       ELSE /\ given' = [given EXCEPT ![uuid(s)] = @ - 1]
            /\ returned' = returned + 1
            /\ misreturned' = misreturned + (IF mt[s] = table_index THEN 0 ELSE 1)
    /\ spc' = [spc EXCEPT ![s] = "out"]
    /\ UNCHANGED uuid_table

(* The rest of get_new_entry(): the ioctl copies the uuid and the server   *)
(* puts it in its table; an entry copied when new_memory() fails is taken  *)
(* for good.                                                               *)
get_new_entry(s) ==
    \/ /\ uuid_table' =
            [uuid_table EXCEPT ![s] =
                Append(@, [uuid |-> uuid(s), st |-> "new"])]
       /\ spc' = [spc EXCEPT ![s] = IF @ = "drain_copy" THEN "drain" ELSE "read"]
       /\ UNCHANGED <<table_index, given, returned, misreturned>>
    \/ /\ spc' = [spc EXCEPT ![s] = "out"]
       /\ UNCHANGED <<uuid_table, table_index, given, returned, misreturned>>
    \/ CopyFails(s)

(* Fault: the start-up loop ends without asking for what is pending.       *)
DrainEntry_never(s) ==
    /\ spc[s] = "drain"
    /\ spc' = [spc EXCEPT ![s] = "process_all"]
    /\ UNCHANGED <<proxyVars, ipc, efd, uuid_table, popVars, swallowed>>

(* The first loop of main(): everything that is pending at start-up.       *)
DrainEntry(s) ==
    /\ spc[s] = "drain"
    /\ get_pending_module(s, "process_all", "drain_copy")
    /\ drained' = drained \cup (IF HasPending THEN {table_peek} ELSE {})
    /\ UNCHANGED <<module_table, ks, ks_mutex, ipc, efd, uuid_table, returned,
                   misreturned, swallowed>>

(* The request of either loop comes back.  No signal is handled before.    *)
CopyEntry(s) ==
    /\ spc[s] \in {"drain_copy", "wake_copy"}
    /\ get_new_entry(s)
    /\ mt' = [mt EXCEPT ![s] = 0]
    /\ UNCHANGED <<module_table, ks, ks_mutex, ipc, efd, popped, drained,
                   swallowed>>

(* k is the first entry of s's table that process_entry() would work on.   *)
FirstNew(s, k) ==
    /\ k \in 1..Len(uuid_table[s])
    /\ uuid_table[s][k].st = "new"
    /\ \A j \in 1..(k - 1) : uuid_table[s][j].st # "new"

NoneNew(s) == \A k \in 1..Len(uuid_table[s]) : uuid_table[s][k].st # "new"

(* Fault: the entry is never marked as processed.                          *)
process_entry_unmarked(s, none, one) ==
    \/ NoneNew(s) /\ spc' = [spc EXCEPT ![s] = none] /\ UNCHANGED uuid_table
    \/ ~NoneNew(s) /\ spc' = [spc EXCEPT ![s] = one] /\ UNCHANGED uuid_table

(* Fault: the scan does not stop at the first new entry.                   *)
process_entry_any(s, none, one) ==
    \/ NoneNew(s) /\ spc' = [spc EXCEPT ![s] = none] /\ UNCHANGED uuid_table
    \/ \E k \in 1..Len(uuid_table[s]) :
         /\ uuid_table[s][k].st = "new"
         /\ uuid_table' = [uuid_table EXCEPT ![s][k].st = "processed"]
         /\ spc' = [spc EXCEPT ![s] = one]

(* process_entry(): the virtual machine of the first new entry runs to its *)
(* halt, or something fails and ends the server; an early failure is noted *)
(* in the entry, a late one (or a failing malloc() of the copy) is not.    *)
process_entry(s, none, one) ==
    \/ /\ NoneNew(s)
       /\ spc' = [spc EXCEPT ![s] = none]
       /\ UNCHANGED uuid_table
    \/ \E k \in 1..Len(uuid_table[s]),
          st \in {"processed", "could_not_process"} :
         /\ FirstNew(s, k)
         /\ uuid_table' = [uuid_table EXCEPT ![s][k] = [uuid |-> @.uuid, st |-> st]]
         /\ spc' = [spc EXCEPT ![s] = IF st = "processed" THEN one ELSE "out"]
    \/ /\ uuid_table[s] # <<>>
       /\ spc' = [spc EXCEPT ![s] = "out"]
       /\ UNCHANGED uuid_table

(* The second loop of main().                                              *)
ProcessAll(s) ==
    /\ spc[s] = "process_all"
    /\ process_entry(s, "select", "process_all")
    /\ UNCHANGED <<proxyVars, ipc, efd, popVars, swallowed>>

(* Fault: the readiness of the eventfd is not tested after select().       *)
SelectReturns_unset(s) ==
    /\ spc[s] = "select"
    /\ spc' = [spc EXCEPT ![s] = "wake"]
    /\ UNCHANGED <<proxyVars, ipc, efd, uuid_table, popVars, swallowed>>

(* select() returns once the counter is positive.                          *)
SelectReturns(s) ==
    /\ spc[s] = "select"
    /\ efd[s] > 0
    /\ spc' = [spc EXCEPT ![s] = "wake"]
    /\ UNCHANGED <<proxyVars, ipc, efd, uuid_table, popVars, swallowed>>

(* select() fails, which ends the server.                                  *)
SelectFails(s) ==
    /\ spc[s] = "select"
    /\ spc' = [spc EXCEPT ![s] = "out"]
    /\ UNCHANGED <<proxyVars, ipc, efd, uuid_table, popVars, swallowed>>

(* One entry per wakeup; a wakeup without an entry ends the server.        *)
TakeEntry(s) ==
    /\ spc[s] = "wake"
    /\ get_pending_module(s, "out", "wake_copy")
    /\ UNCHANGED <<module_table, ks, ks_mutex, ipc, efd, uuid_table, returned,
                   misreturned, drained, swallowed>>

(* Fault: the eventfd is not read, so it keeps firing.                     *)
ReadEventfd_unread(s) ==
    /\ spc[s] = "read"
    /\ spc' = [spc EXCEPT ![s] = "process_one"]
    /\ UNCHANGED <<proxyVars, ipc, efd, uuid_table, popVars, swallowed>>

(* read() of a plain eventfd returns the whole counter and resets it; a    *)
(* failing read() ends the server.                                         *)
ReadEventfd(s) ==
    /\ spc[s] = "read"
    /\ \/ /\ efd' = [efd EXCEPT ![s] = 0]
          /\ swallowed' = [swallowed EXCEPT ![s] = @ + efd[s] - 1]
          /\ spc' = [spc EXCEPT ![s] = "process_one"]
       \/ /\ spc' = [spc EXCEPT ![s] = "out"]
          /\ UNCHANGED <<efd, swallowed>>
    /\ UNCHANGED <<proxyVars, ipc, uuid_table, popVars>>

(* Process the entry just received; having none to process ends the server *)
ProcessOne(s) ==
    /\ spc[s] = "process_one"
    /\ process_entry(s, "out", "select")
    /\ UNCHANGED <<proxyVars, ipc, efd, popVars, swallowed>>

(* Fault: de_register without ks_mutex, as in the disused switch statement *)
(* at the end of cdev_ioctl().                                             *)
Deregister_unlocked(s) ==
    /\ spc[s] \in {"out", "sigint"}
    /\ ks' = None
    /\ spc' = [spc EXCEPT ![s] = IF @ = "out" THEN "close" ELSE "sig_close"]
    /\ UNCHANGED <<module_table, table_index, ks_mutex, ipc, efd, uuid_table,
                   popVars, swallowed>>

(* deregister_server(), from main() or from the signal handler: the ioctl  *)
(* frees whatever registration there is.                                   *)
Deregister(s) ==
    /\ spc[s] \in {"out", "sigint"}
    /\ ks_mutex = None
    /\ ks' = None
    /\ spc' = [spc EXCEPT ![s] = IF @ = "out" THEN "close" ELSE "sig_close"]
    /\ UNCHANGED <<module_table, table_index, ks_mutex, ipc, efd, uuid_table,
                   popVars, swallowed>>

(* close() of the chardev and of the eventfd, and the end of the process.  *)
Close(s) ==
    /\ spc[s] \in {"close", "sig_close"}
    /\ spc' = [spc EXCEPT ![s] = "exited"]
    /\ uuid_table' = [uuid_table EXCEPT ![s] = <<>>]
    /\ UNCHANGED <<proxyVars, ipc, efd, popVars, swallowed>>

(* Inside the get_pending_module ioctl: signals wait for its end.          *)
InIoctl(s) == spc[s] \in {"drain_copy", "wake_copy"}

(* SIGINT may arrive anywhere outside the handler itself.                  *)
SigInt(s) ==
    /\ spc[s] \notin {"start", "sigint", "sig_close", "exited", "killed"}
    /\ ~InIoctl(s)
    /\ spc' = [spc EXCEPT ![s] = "sigint"]
    /\ UNCHANGED <<proxyVars, ipc, efd, uuid_table, popVars, swallowed>>

(* The process dies without its exit code: another signal, a crash.  The   *)
(* kernel closes its files; cdev_release() leaves the registration alone.  *)
Kill(s) ==
    /\ KillAllowed
    /\ spc[s] \notin {"start", "exited", "killed"}
    /\ ~InIoctl(s)
    /\ spc' = [spc EXCEPT ![s] = "killed"]
    /\ uuid_table' = [uuid_table EXCEPT ![s] = <<>>]
    /\ UNCHANGED <<proxyVars, ipc, efd, popVars, swallowed>>

-----------------------------------------------------------------------------

InsmodRun(i) == send_event(i) \/ eventfd_signal(i) \/ SignalDangling(i)

(* The steps a running server takes by itself; running a guest is not among *)
(* them, because nothing makes a guest halt.                                *)
ServerRun(s) ==
    \/ Register(s) \/ DrainEntry(s) \/ CopyEntry(s) \/ SelectReturns(s)
    \/ TakeEntry(s) \/ ReadEventfd(s) \/ Deregister(s) \/ Close(s)

Next ==
    \/ \E i \in Insmod : PutModule(i) \/ InsmodRun(i)
    \/ \E s \in Server : \/ ServerOpen(s) \/ ServerRun(s)
                         \/ ProcessAll(s) \/ ProcessOne(s) \/ SelectFails(s)
                         \/ SigInt(s) \/ Kill(s)

Spec == Init /\ [][Next]_vars

Fairness ==
    /\ \A i \in Insmod : WF_vars(InsmodRun(i))
    /\ \A s \in Server : WF_vars(ServerRun(s))

FairSpec == Spec /\ Fairness

-----------------------------------------------------------------------------
(* Properties that hold however insmods and servers interleave.            *)

D == INSTANCE Delivery
        WITH Module <- Insmod, log <- module_table

(* As long as no un-pop gave back another request's entry, the proxy       *)
(* implements Delivery: get_pending_module gives out the table's entries   *)
(* in insertion order, each to one request, across registrations, failed   *)
(* copies, signals and deaths of the servers (table_pop(), table_pop_      *)
(* reverse()).                                                             *)
DeliveryUnlessMisreturned ==
    D!Init /\ [][misreturned' = 0 => [D!Next]_(D!dvars)]_vars

(* A module is with more than one request only if that many un-pops gave   *)
(* back an entry that another request had popped: two overlapping requests *)
(* and a failed copy are the only way to deliver twice.                    *)
GivenBound == \A i \in Insmod : given[i] <= 1 + misreturned

R(s) ==
    INSTANCE RowService
        WITH phase <- IF GoingDown(s) THEN "down" ELSE "up",
             received <- IF GoingDown(s) THEN 0 ELSE Len(uuid_table[s]),
             served <- IF GoingDown(s) THEN {}
                       ELSE {k \in 1..Len(uuid_table[s]) :
                                uuid_table[s][k].st = "processed"}

(* Every server implements RowService: whether the entries came from the   *)
(* start-up loop or one per wakeup, main() gets them processed in the      *)
(* order received, each once, and stops at the first that fails.  (R(s)!Spec *)
(* for all s, in the form TLC accepts.)                                    *)
RowServices ==
    /\ \A s \in Server : R(s)!Init
    /\ [][\A s \in Server : [R(s)!Next]_(R(s)!rvars)]_vars

(* A registered server that sleeps in select() with no insmod under way    *)
(* has left at most as many entries waiting as its read() calls swallowed  *)
(* signals and failed copies, of any server, put entries back: an un-pop   *)
(* signals nobody.  There is no other way for the server to fall behind.   *)
StrandedBound ==
    \A s \in Server :
        /\ ks = s
        /\ spc[s] = "select"
        /\ efd[s] = 0
        /\ InFlight = {}
        => NumPending <= swallowed[s] + returned

(* select() fires with nothing to take (the error of kvm-host-server.c:207) *)
(* only when some insmod signalled for an entry that a start-up loop or     *)
(* another server had taken.                                                *)
SpuriousExplained ==
    \A s \in Server :
        spc[s] = "wake" /\ ~HasPending =>
            \E h \in popped :
                /\ ipc[h.uuid] = "notified"
                /\ h.to # s \/ h.uuid \in drained

(* When process_entry() is called for an event, the entry just received is *)
(* the only one of the table that it can pick.                             *)
OneUnprocessed ==
    \A s \in Server : spc[s] = "process_one" =>
        /\ uuid_table[s] # <<>>
        /\ \A k \in 1..Len(uuid_table[s]) :
              uuid_table[s][k].st =
                 IF k = Len(uuid_table[s]) THEN "new" ELSE "processed"

(* send_event() never signals through a freed ks, and the eventfd it       *)
(* signals is open unless the server died without its exit code: ks_mutex  *)
(* makes the orderly exits wait for the signal.                            *)
DanglingOnlyByKill ==
    \A i \in Insmod : ipc[i] = "signal" =>
        /\ ks \in Server
        /\ EfdOpen(ks) \/ spc[ks] = "killed"

(* An insmod that put its module gets through send_event(), unless an      *)
(* insmod was killed inside it while it held ks_mutex.                     *)
HangOnlyByOops ==
    \A i \in Insmod :
        ipc[i] = "event" ~> \/ ipc[i] \in {"silent", "notified"}
                            \/ \E j \in Insmod : ipc[j] = "oops"

-----------------------------------------------------------------------------
(* Properties that need insmods and server starts to be spaced out.        *)

(* No entry is left in the table while the registered server sleeps with   *)
(* nothing to wake it ("no more events to process - wait for notification  *)
(* from proxy module via eventfd").                                        *)
NoLostWakeup ==
    \A s \in Server :
        /\ ks = s
        /\ spc[s] = "select"
        /\ efd[s] = 0
        /\ InFlight = {}
        => ~HasPending

(* Whenever select() fires there is an entry to take ("no new entry, but   *)
(* then why was select triggered?").                                       *)
NoSpurious == \A s \in Server : spc[s] = "wake" => HasPending

(* A module put while s is registered, or found by s when it registers, is *)
(* handed out, unless s goes down or is replaced first.                    *)
EventuallyHanded ==
    \A i \in Insmod, s \in Server :
        i \in PendingUuids /\ ks = s ~>
            i \notin PendingUuids \/ GoingDown(s) \/ ks # s

-----------------------------------------------------------------------------
(* What comments of the code take for granted and the code does not do.    *)

(* "server tells that it is going down": a deregistration ends the          *)
(* caller's registration and no other server's.                            *)
DeregisterOwn ==
    [][\A s, t \in Server :
          s # t /\ ks = s /\ spc[t] \in {"out", "sigint"} /\ spc'[t] # spc[t]
             => ks' = s]_vars

(* The registered server's eventfd is open whenever send_event() is about  *)
(* to signal it.                                                           *)
SignalTargetOpen ==
    \A i \in Insmod : ipc[i] = "signal" => ks \in Server /\ EfdOpen(ks)
=============================================================================
