----------------------------- MODULE HostServer -----------------------------
(***************************************************************************)
(* One kvm-host-server process from its first call to its end: main() with *)
(* every error exit, the lookup of the major number that its ioctl numbers *)
(* are made of, the growth of its uuid_table, and SIGINT at any point.     *)
(* EventChannel has many servers and the proxy's side of the conversation, *)
(* VmSetup the inside of process_entry(); here both are what main() sees   *)
(* of them.  Entries are numbered in the order in which they are fetched.  *)
(***************************************************************************)
EXTENDS Integers

CONSTANTS Major,        \* numbers that alloc_chrdev_region() may give the proxy
          InitSize,     \* uuid_table_size at start, 256 in global-config.h
          RowSize,      \* sizeof(struct UUID_table)
          IntMax,       \* the largest int
          MaxEntries    \* bound: entries that the proxy has for this server

ASSUME HostServerAssumption ==
    /\ Major \subseteq Nat /\ Major # {}
    /\ InitSize \in Nat \ {0}
    /\ RowSize \in Nat \ {0}
    /\ IntMax \in Nat
    /\ InitSize * RowSize <= IntMax
    /\ MaxEntries \in Nat

VARIABLES
    pc,                 \* control state, see States
    interrupted,        \* what SIGINT interrupted: "allocator" or "elsewhere"
    held,               \* what the process holds of Resource
    proxy_major,        \* the loaded proxy's major number
    major,              \* lxc_uio_cdev_major_number of the server, -1 at first
    block,              \* the table's memory: see Blocks
    block_bytes,        \* how many bytes were allocated for it
    uuid_table_size,
    table_num_entries,
    fetched,            \* entries 1..fetched have been fetched
    boot,               \* history: how many of them by the start-up loop
    rows,               \* the entries that have a row in the table
    processed           \* the rows that have this flag set

tableVars == <<block, block_bytes, uuid_table_size, table_num_entries, rows>>
vars == <<pc, interrupted, held, proxy_major, major, tableVars, fetched, boot,
          processed>>

Startup == {"major", "kvm", "eventfd", "open", "register", "table_init"}
Serving == {"drain", "process_all", "select", "take", "read", "process_one"}
Leaving == {"table_delete", "deregister", "close", "close_efd"}
Handler == {"sig_deregister", "sig_close"}

States == Startup \cup Serving \cup Leaving \cup Handler
            \cup {"exit",      \* the process has ended, through main() or exit()
                  "hung",      \* waiting for a lock that it holds itself
                  "crashed"}   \* killed for what it did to the heap

Resource == {"eventfd", "cdev", "registration"}

Blocks == {"none",    \* not allocated, or freed in table_delete()
           "here",    \* where uuid_table points
           "moved"}   \* elsewhere: uuid_table points to freed memory

TypeOK ==
    /\ pc \in States
    /\ interrupted \in {"allocator", "elsewhere"}
    /\ held \in SUBSET Resource
    /\ proxy_major \in Major
    /\ major \in Major \cup {-1}
    /\ block \in Blocks
    /\ block_bytes \in Nat
    /\ uuid_table_size \in Nat
    /\ table_num_entries \in Nat
    /\ fetched \in 0..MaxEntries
    /\ boot \in 0..fetched
    /\ rows \in SUBSET (1..fetched)
    /\ processed \in SUBSET rows

Init ==
    /\ pc = "major"
    /\ interrupted = "elsewhere"
    /\ held = {}
    /\ proxy_major \in Major
    /\ major = -1
    /\ block = "none"
    /\ block_bytes = 0
    /\ uuid_table_size = InitSize
    /\ table_num_entries = 0
    /\ fetched = 0
    /\ boot = 0
    /\ rows = {}
    /\ processed = {}

-----------------------------------------------------------------------------
(* Start-up.                                                               *)

startupUnchanged == UNCHANGED <<interrupted, proxy_major, fetched, boot, processed>>

(* Reading the number from the second line of the /proc entry; everything  *)
(* from a missing file to a malformed line ends the server.                *)
get_major_number ==
    /\ pc = "major"
    /\ \/ major' = proxy_major /\ pc' = "kvm"
       \/ UNCHANGED major /\ pc' = "exit"
    /\ startupUnchanged /\ UNCHANGED <<held, tableVars>>

(* open() of /dev/kvm and KVM_CHECK_EXTENSION.                             *)
OpenKvm ==
    /\ pc = "kvm"
    /\ pc' \in {"eventfd", "exit"}
    /\ startupUnchanged /\ UNCHANGED <<held, major, tableVars>>

CreateEventfd ==
    /\ pc = "eventfd"
    /\ \/ held' = held \cup {"eventfd"} /\ pc' = "open"
       \/ UNCHANGED held /\ pc' = "exit"
    /\ startupUnchanged /\ UNCHANGED <<major, tableVars>>

OpenCdev ==
    /\ pc = "open"
    /\ \/ held' = held \cup {"cdev"} /\ pc' = "register"
       \/ UNCHANGED held /\ pc' = "close_efd"
    /\ startupUnchanged /\ UNCHANGED <<major, tableVars>>

(* The ioctl numbers are made of the major number: the proxy understands   *)
(* the server only if both have the same, and lxc_uio_cdev_fd is open.     *)
IoctlUnderstood == "cdev" \in held /\ major = proxy_major

(* A registration that fails leaves through out_efd, past the close() of   *)
(* the chardev.                                                            *)
register_server ==
    /\ pc = "register"
    /\ \/ IoctlUnderstood /\ held' = held \cup {"registration"} /\ pc' = "table_init"
       \/ UNCHANGED held /\ pc' = "close_efd"
    /\ startupUnchanged /\ UNCHANGED <<major, tableVars>>

(* Fault: the failure leaves through out_efd.                              *)
table_init_out_efd ==
    /\ pc = "table_init"
    /\ \/ /\ block' = "here" /\ block_bytes' = uuid_table_size * RowSize
          /\ pc' = "drain"
       \/ UNCHANGED <<block, block_bytes>> /\ pc' = "close_efd"
    /\ table_num_entries' = 0
    /\ startupUnchanged /\ UNCHANGED <<held, major, uuid_table_size, rows>>

table_init ==
    /\ pc = "table_init"
    /\ \/ /\ block' = "here" /\ block_bytes' = uuid_table_size * RowSize
          /\ pc' = "drain"
       \/ UNCHANGED <<block, block_bytes>> /\ pc' = "deregister"
    /\ table_num_entries' = 0
    /\ startupUnchanged /\ UNCHANGED <<held, major, uuid_table_size, rows>>

-----------------------------------------------------------------------------
(* The table.                                                              *)

(* Conversion to int.                                                      *)
ToInt(x) == ((x + IntMax + 1) % (2 * (IntMax + 1))) - (IntMax + 1)

newsize == ToInt(2 * uuid_table_size)
new_size_bytes == ToInt(newsize * RowSize)

(* The row of entry e is written through uuid_table and counted.           *)
WriteRow(e) ==
    /\ rows' = IF block' = "here" THEN rows \cup {e} ELSE rows
    /\ table_num_entries' = table_num_entries + 1

(* realloc() of a full table, in place or elsewhere; its result is tested  *)
(* but not stored.                                                         *)
Grow(e) ==
    /\ new_size_bytes > 0
    /\ block_bytes' = new_size_bytes
    /\ block' \in {"moved", block}
    /\ uuid_table_size' = newsize
    /\ WriteRow(e)

(* Fault: uuid_table_size is doubled although realloc() failed.            *)
Drop_doubled ==
    /\ uuid_table_size' = newsize
    /\ UNCHANGED <<block, block_bytes, table_num_entries, rows>>

(* No row is added: realloc() fails, as it always does for a negative size, *)
(* which is a huge one to it, or the table is overfull.  A size of 0 would  *)
(* free the table.                                                          *)
Drop ==
    LET freed == table_num_entries = uuid_table_size /\ new_size_bytes = 0
    IN /\ block' = IF freed THEN "moved" ELSE block
       /\ block_bytes' = IF freed THEN 0 ELSE block_bytes
       /\ UNCHANGED <<uuid_table_size, table_num_entries, rows>>

(* Fault: the table counts as full one row too early.                      *)
table_put_early(e) ==
    \/ /\ table_num_entries + 1 < uuid_table_size
       /\ UNCHANGED <<block, block_bytes, uuid_table_size>>
       /\ WriteRow(e)
    \/ table_num_entries + 1 = uuid_table_size /\ Grow(e)
    \/ table_num_entries + 1 >= uuid_table_size /\ Drop

(* table_put(): a row, a larger table and a row, or no row; the caller does *)
(* not look at the result.                                                  *)
table_put(e) ==
    \/ /\ table_num_entries < uuid_table_size
       /\ UNCHANGED <<block, block_bytes, uuid_table_size>>
       /\ WriteRow(e)
    \/ table_num_entries = uuid_table_size /\ Grow(e)
    \/ table_num_entries >= uuid_table_size /\ Drop

(* get_new_entry(): no entry, one, or an error, which may come after the   *)
(* entry was taken (new_memory()).                                         *)
get_new_entry(none, one) ==
    \/ pc' = none /\ UNCHANGED <<tableVars, fetched>>
    \/ /\ fetched < MaxEntries
       /\ fetched' = fetched + 1
       /\ table_put(fetched + 1)
       /\ pc' = one
    \/ /\ pc' = "table_delete"
       /\ fetched' \in {fetched, fetched + 1} \cap 0..MaxEntries
       /\ UNCHANGED tableVars

-----------------------------------------------------------------------------
(* Service.                                                                *)

serviceUnchanged == UNCHANGED <<interrupted, held, proxy_major, major>>

(* The first loop of main().                                               *)
Drain ==
    /\ pc = "drain"
    /\ get_new_entry("process_all", "drain")
    /\ boot' = fetched'
    /\ serviceUnchanged /\ UNCHANGED processed

(* Fault: the row to process is taken to be the one received last.         *)
process_entry_last(none, one) ==
    \/ rows = processed /\ pc' = none /\ UNCHANGED processed
    \/ pc' = one /\ processed' = processed \cup {fetched}

(* process_entry() as VmSetup has it, on the first row that is not         *)
(* processed; on freed memory it may find anything.                        *)
process_entry(none, one) ==
    \/ block = "here" /\ rows = processed /\ pc' = none /\ UNCHANGED processed
    \/ \E e \in rows \ processed :
         /\ block = "here"
         /\ \A d \in rows \ processed : e <= d
         /\ pc' = one
         /\ processed' = processed \cup {e}
    \/ table_num_entries > 0 /\ pc' = "table_delete" /\ UNCHANGED processed
    \/ block = "moved" /\ pc' \in {none, one} /\ UNCHANGED processed

(* The second loop of main().                                              *)
ProcessAll ==
    /\ pc = "process_all"
    /\ process_entry("select", "process_all")
    /\ serviceUnchanged /\ UNCHANGED <<tableVars, fetched, boot>>

Select ==
    /\ pc = "select"
    /\ pc' \in {"take", "table_delete"}
    /\ serviceUnchanged /\ UNCHANGED <<tableVars, fetched, boot, processed>>

TakeEntry ==
    /\ pc = "take"
    /\ get_new_entry("table_delete", "read")
    /\ serviceUnchanged /\ UNCHANGED <<boot, processed>>

ReadEventfd ==
    /\ pc = "read"
    /\ pc' \in {"process_one", "table_delete"}
    /\ serviceUnchanged /\ UNCHANGED <<tableVars, fetched, boot, processed>>

(* Fault: having nothing to process is no error.                           *)
ProcessOne_none_ok ==
    /\ pc = "process_one"
    /\ process_entry("select", "select")
    /\ serviceUnchanged /\ UNCHANGED <<tableVars, fetched, boot>>

(* "we just received a new entry, how can there be no new entry to         *)
(* process?"                                                               *)
ProcessOne ==
    /\ pc = "process_one"
    /\ process_entry("table_delete", "select")
    /\ serviceUnchanged /\ UNCHANGED <<tableVars, fetched, boot>>

-----------------------------------------------------------------------------
(* The ways out.                                                           *)

leavingUnchanged ==
    UNCHANGED <<interrupted, proxy_major, major, block_bytes, uuid_table_size,
                table_num_entries, rows, fetched, boot, processed>>

table_delete ==
    /\ pc = "table_delete"
    /\ block' = IF block = "here" THEN "none" ELSE block
    /\ pc' = "deregister"
    /\ leavingUnchanged /\ UNCHANGED held

(* The ioctl of deregister_server().                                       *)
Deregistered == IF IoctlUnderstood THEN held \ {"registration"} ELSE held

Deregister ==
    /\ pc = "deregister"
    /\ held' = Deregistered
    /\ pc' = "close"
    /\ leavingUnchanged /\ UNCHANGED block

Close ==
    /\ \/ pc = "close" /\ held' = held \ {"cdev"} /\ pc' = "close_efd"
       \/ pc = "close_efd" /\ held' = held \ {"eventfd"} /\ pc' = "exit"
    /\ leavingUnchanged /\ UNCHANGED block

(* Where main() may be inside malloc(), realloc() or free(), its own or     *)
(* those of fopen() and of the backtrace that print_error() makes.          *)
Allocating == (Startup \cup Serving \cup {"table_delete"}) \ {"select"}

(* SIGINT anywhere in main().                                              *)
SigInt ==
    /\ pc \in Startup \cup Serving \cup Leaving
    /\ interrupted' \in {"elsewhere"} \cup
                          (IF pc \in Allocating THEN {"allocator"} ELSE {})
    /\ pc' = "sig_deregister"
    /\ UNCHANGED <<held, proxy_major, major, tableVars, fetched, boot, processed>>

(* signal_callback_handler(): a deregistration that fails makes print_error *)
(* allocate, for which the handler may have interrupted the holder of the   *)
(* lock.                                                                    *)
SigDeregister ==
    /\ pc = "sig_deregister"
    /\ held' = Deregistered
    /\ pc' = IF ~IoctlUnderstood /\ interrupted = "allocator"
             THEN "hung" ELSE "sig_close"
    /\ leavingUnchanged /\ UNCHANGED block

(* Fault: the handler returns instead of calling exit().                   *)
SigClose_returns ==
    /\ pc = "sig_close"
    /\ held' = held \ {"cdev", "eventfd"}
    /\ pc' = "select"
    /\ leavingUnchanged /\ UNCHANGED block

SigClose ==
    /\ pc = "sig_close"
    /\ held' = held \ {"cdev", "eventfd"}
    /\ pc' = "exit"
    /\ leavingUnchanged /\ UNCHANGED block

(* What was done to freed memory may kill the process at any later time.   *)
Corrupted ==
    /\ block = "moved"
    /\ pc \notin {"exit", "hung", "crashed"}
    /\ pc' = "crashed"
    /\ leavingUnchanged /\ UNCHANGED <<held, block>>

(* Fault: without cdev_fops.owner the chardev does not keep the proxy.     *)
Reload_unpinned ==
    /\ proxy_major' \in Major
    /\ UNCHANGED <<pc, interrupted, held, major, tableVars, fetched, boot,
                   processed>>

(* The proxy is unloaded and loaded again, which an open chardev prevents  *)
(* (cdev_fops.owner); its major number is the one that is free then.       *)
Reload ==
    /\ "cdev" \notin held
    /\ proxy_major' \in Major
    /\ UNCHANGED <<pc, interrupted, held, major, tableVars, fetched, boot,
                   processed>>

-----------------------------------------------------------------------------

Next ==
    \/ get_major_number \/ OpenKvm \/ CreateEventfd \/ OpenCdev
    \/ register_server \/ table_init
    \/ Drain \/ ProcessAll \/ Select \/ TakeEntry \/ ReadEventfd \/ ProcessOne
    \/ table_delete \/ Deregister \/ Close
    \/ SigInt \/ SigDeregister \/ SigClose
    \/ Corrupted \/ Reload

Spec == Init /\ [][Next]_vars

(* The handler's calls return.                                             *)
FairSpec == Spec /\ WF_vars(SigDeregister) /\ WF_vars(SigClose)

-----------------------------------------------------------------------------
(* The memory that uuid_table points to has room for uuid_table_size rows,  *)
(* and the rows in use fit ("should never happen" otherwise), through every *)
(* growth, every failure to grow and the overflow of int.                   *)
NoOverrun ==
    block = "here" => /\ table_num_entries <= uuid_table_size
                      /\ uuid_table_size * RowSize <= block_bytes

(* Up to InitSize entries the table loses nothing and the process does not *)
(* touch freed memory: what EventChannel and VmSetup take for granted.     *)
ExactBelowLimit ==
    fetched <= InitSize =>
        /\ block # "moved"
        /\ pc # "crashed"
        /\ pc \in Serving => rows = 1..fetched

Up == pc \in Startup \cup Serving

R == INSTANCE RowService
        WITH phase <- IF Up THEN "up" ELSE "down",
             received <- IF Up THEN fetched ELSE 0,
             served <- IF Up THEN processed ELSE {}

(* Up to InitSize entries main() with all its error exits implements       *)
(* RowService: every entry that get_new_entry() fetched is processed in    *)
(* the order fetched, each once, or the server goes down.                  *)
RowServiceBelowLimit ==
    R!Init /\ [][fetched' <= InitSize => [R!Next]_(R!rvars)]_vars

(* Between two wakeups nothing is put off: a server that waits in select() *)
(* has processed all its rows, and has a processed row for every entry     *)
(* that a wakeup brought it, also where table_put() had no room for one    *)
(* (process_entry() finding nothing new then ends the server).             *)
WakeupLosesNothing ==
    pc = "select" /\ block = "here" =>
        /\ processed = rows
        /\ \A e \in 1..fetched : e > boot => e \in processed

(* "either keep working with existing table without adding new entry, or   *)
(* quit program, latter is simpler, and is used here": a server that is    *)
(* still waiting for events never failed to add an entry it had fetched.   *)
QuitsWhenFull == pc = "select" /\ block = "here" => rows = 1..fetched

(* The proxy understands a registered server's ioctls, however often it    *)
(* was reloaded between the lookup of the number and the registration.     *)
NumbersAgree == "registration" \in held => IoctlUnderstood

(* However main() and the SIGINT handler end, the proxy does not go on     *)
(* thinking that the server is there.                                      *)
RegistrationEnds == pc \in {"exit", "hung"} => "registration" \notin held

(* A SIGINT that finds the server registered ends the process; it cannot   *)
(* hang in its handler.                                                    *)
SigintEnds ==
    pc = "sig_deregister" /\ "registration" \in held /\ block # "moved"
        ~> pc = "exit"
=============================================================================
