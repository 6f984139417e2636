------------------------------ MODULE VmSetup -------------------------------
(***************************************************************************)
(* What the server does with one row of its uuid_table: process_entry()    *)
(* creates a virtual machine, initialize_memory_uuid() gives it three      *)
(* memory regions, send_packet() has the proxy copy the module's core area *)
(* into the third one, and the vcpu runs until the guest halts.  Every     *)
(* call may fail.  Rows are numbered from 1 and stand for their uuids,     *)
(* which are random and taken as distinct; each column of the table is a   *)
(* variable.  File descriptors are left out: each is used only by the call *)
(* of process_entry() that created it.                                     *)
(***************************************************************************)
EXTENDS Naturals

CONSTANT MaxRows   \* how many entries get_new_entry() brings in

ASSUME MaxRowsAssumption == MaxRows \in Nat \ {0}

VARIABLES
    table_num_entries,  \* the rows put so far are 1..table_num_entries
    processed,          \* column: the rows with this flag set
    could_not_process,  \* column: the rows with this flag set
    num_regions,        \* column: memory.num_regions of each row
    pc,                 \* control state, see States
    i,                  \* the row process_entry() works on, 0 outside of it
    core,               \* by row, whose core area its third region holds, 0 if none
    run_mapped,         \* did the mmap() of the vcpu's kvm_run succeed?
    halting,            \* the rows whose guest reaches its hlt; never changes
    no_layout           \* history: rows for which get_uuid_layout() gave NULL

flags == <<processed, could_not_process>>
vars == <<table_num_entries, flags, num_regions, pc, i, core, run_mapped,
          halting, no_layout>>

Rows == 1..table_num_entries

Up == pc \notin {"exit", "killed"}

States ==
    {"idle",         \* in main(), outside process_entry()
     "create_vm", "idt", "init_layout", "init_region", "core_layout",
     "core_region", "send", "vcpu", "map_run", "run",
     "exit",         \* main() leaves through out_table
     "killed"}       \* the process died

TypeOK ==
    /\ table_num_entries \in 0..MaxRows
    /\ processed \in SUBSET Rows
    /\ could_not_process \in SUBSET Rows
    /\ num_regions \in [1..MaxRows -> 0..3]
    /\ pc \in States
    /\ i \in 0..table_num_entries
    /\ core \in [1..MaxRows -> 0..MaxRows]
    /\ run_mapped \in BOOLEAN
    /\ halting \in SUBSET (1..MaxRows)
    /\ no_layout \in SUBSET Rows

Init ==
    /\ table_num_entries = 0
    /\ processed = {}
    /\ could_not_process = {}
    /\ num_regions = [k \in 1..MaxRows |-> 0]
    /\ pc = "idle"
    /\ i = 0
    /\ core = [k \in 1..MaxRows |-> 0]
    /\ run_mapped = FALSE
    /\ halting \in SUBSET (1..MaxRows)
    /\ no_layout = {}

-----------------------------------------------------------------------------
(* table_put() as called by get_new_entry(), below the initial 256 rows:   *)
(* no flag set and, from new_memory(), no region.                          *)
table_put ==
    /\ pc = "idle"
    /\ table_num_entries < MaxRows
    /\ table_num_entries' = table_num_entries + 1
    /\ UNCHANGED <<flags, num_regions, pc, i, core, run_mapped,
                   halting, no_layout>>

(* The row needs processing.                                               *)
IsNew(k) == k \notin processed /\ k \notin could_not_process

(* Both flags at once: "contradictory conditions - should never occur".    *)
Contradiction(k) == k \in processed /\ k \in could_not_process

(* Fault: the scan works on the last row that is new.                      *)
PickEntry_last ==
    /\ pc = "idle"
    /\ \E k \in Rows :
         /\ IsNew(k)
         /\ \A j \in (k + 1)..table_num_entries : ~IsNew(j)
         /\ i' = k
    /\ pc' = "create_vm"
    /\ UNCHANGED <<table_num_entries, flags, num_regions, core, run_mapped,
                   halting, no_layout>>

(* The scan of process_entry(): the first row that is new is worked on; a  *)
(* contradictory row before it ends the server.                            *)
PickEntry ==
    /\ pc = "idle"
    /\ \E k \in Rows :
         /\ IsNew(k) \/ Contradiction(k)
         /\ \A j \in 1..(k - 1) : ~IsNew(j) /\ ~Contradiction(j)
         /\ pc' = IF IsNew(k) THEN "create_vm" ELSE "exit"
         /\ i' = IF IsNew(k) THEN k ELSE 0
    /\ UNCHANGED <<table_num_entries, flags, num_regions, core, run_mapped,
                   halting, no_layout>>

(* Fault: the row after the one at work is marked.                         *)
FailNoted_next ==
    /\ could_not_process' = could_not_process \cup {i + 1}
    /\ pc' = "exit"
    /\ UNCHANGED <<table_num_entries, processed, num_regions, i, core, run_mapped,
                   halting, no_layout>>

(* A failure that is noted in the row, and one that is not; both end the   *)
(* server.                                                                 *)
FailNoted ==
    /\ could_not_process' = could_not_process \cup {i}
    /\ pc' = "exit"
    /\ UNCHANGED <<table_num_entries, processed, num_regions, i, core,
                   run_mapped, halting, no_layout>>

Goto(next) ==
    /\ pc' = next
    /\ UNCHANGED <<table_num_entries, flags, num_regions, i, core, run_mapped,
                   halting, no_layout>>

FailUnnoted == Goto("exit")

(* The scan gives up when the malloc() of a row's copy fails.              *)
ScanFails ==
    /\ pc = "idle"
    /\ table_num_entries > 0
    /\ FailUnnoted

(* Fault: after a failing KVM_CREATE_VM the server goes on to other rows.  *)
CreateVm_goes_on ==
    /\ pc = "create_vm"
    /\ \/ Goto("idt")
       \/ /\ could_not_process' = could_not_process \cup {i}
          /\ pc' = "idle" /\ i' = 0
          /\ UNCHANGED <<table_num_entries, processed, num_regions, core,
                         run_mapped, halting, no_layout>>

(* KVM_CREATE_VM and the storing of vmfd.                                  *)
CreateVm ==
    /\ pc = "create_vm"
    /\ \/ Goto("idt")
       \/ FailNoted

(* Fault: a region is counted twice.                                       *)
AddRegion_twice(next) ==
    /\ num_regions' = [num_regions EXCEPT ![i] = @ + 2]
    /\ pc' = next
    /\ UNCHANGED <<table_num_entries, flags, i, core, run_mapped,
                   halting, no_layout>>

(* A region of initialize_memory_uuid(): mmap() and                        *)
(* KVM_SET_USER_MEMORY_REGION.                                             *)
AddRegion(next) ==
    /\ num_regions' = [num_regions EXCEPT ![i] = @ + 1]
    /\ pc' = next
    /\ UNCHANGED <<table_num_entries, flags, i, core, run_mapped,
                   halting, no_layout>>

(* initialize_memory_uuid() refuses a row that has regions already.        *)
InitIdt ==
    /\ pc = "idt"
    /\ \/ num_regions[i] = 0 /\ AddRegion("init_layout")
       \/ FailNoted

(* get_uuid_layout(): malloc() and the layout ioctl.  On failure           *)
(* initialize_memory_uuid() leaves with ret_val still 0.                   *)
GetLayout(at, next) ==
    /\ pc = at
    /\ \/ Goto(next)
       \/ /\ pc' = "send"
          /\ no_layout' = no_layout \cup {i}
          /\ UNCHANGED <<table_num_entries, flags, num_regions, i, core, run_mapped,
                         halting>>

InitLayout == GetLayout("init_layout", "init_region")

InitRegion ==
    /\ pc = "init_region"
    /\ AddRegion("core_layout") \/ FailNoted

CoreLayout == GetLayout("core_layout", "core_region")

(* Fault: the core area that could not be mapped is not noticed.           *)
CoreRegion_goes_on ==
    /\ pc = "core_region"
    /\ AddRegion("send") \/ Goto("send")

CoreRegion ==
    /\ pc = "core_region"
    /\ AddRegion("send") \/ FailNoted

(* region_core.userspace_addr has been set; new_memory() leaves it         *)
(* uninitialised.                                                          *)
CoreAddrKnown == num_regions[i] = 3

(* Fault: the packet carries the uuid of the table's first row.            *)
process_packet_first ==
    \/ CoreAddrKnown /\ core' = [core EXCEPT ![i] = 1]
    \/ ~CoreAddrKnown /\ UNCHANGED core

(* process_packet() in the proxy: copy the core area of the packet's uuid  *)
(* to the address in the packet.  An uninitialised address that happens to *)
(* be writable may lie in a row's third region or anywhere else.           *)
process_packet ==
    \/ CoreAddrKnown /\ core' = [core EXCEPT ![i] = i]
    \/ /\ ~CoreAddrKnown
       /\ \/ UNCHANGED core
          \/ \E k \in Rows :
                /\ num_regions[k] = 3
                /\ core' = [core EXCEPT ![k] = i]

(* cdev_write() of the packet: it is processed; or copying the packet or   *)
(* the core area fails, which send_packet() reports; or the proxy, which   *)
(* does not check table_get_copy() for NULL, kills the caller.             *)
cdev_write(next) ==
    \/ /\ process_packet
       /\ pc' = next
       /\ UNCHANGED <<table_num_entries, flags, num_regions, i, run_mapped,
                      halting, no_layout>>
    \/ FailNoted
    \/ Goto("killed")

(* send_packet(); the malloc() of the row's copy may fail before or after  *)
(* it.                                                                     *)
SendPacket ==
    /\ pc = "send"
    /\ \/ \E next \in {"vcpu", "exit"} : cdev_write(next)
       \/ FailUnnoted

(* KVM_CREATE_VCPU, the storing of vcpufd and KVM_GET_VCPU_MMAP_SIZE.      *)
CreateVcpu ==
    /\ pc = "vcpu"
    /\ Goto("map_run") \/ FailNoted

(* The mmap() of kvm_run, whose failure the test for NULL does not see,    *)
(* the registers and the last copy of the row.                             *)
MapRun ==
    /\ pc = "map_run"
    /\ \/ /\ run_mapped' \in BOOLEAN
          /\ \E next \in {"run", "exit"} : pc' = next
          /\ UNCHANGED <<table_num_entries, flags, num_regions, i, core,
                         halting, no_layout>>
       \/ FailUnnoted

(* Fault: the row is not marked when its guest halts.                      *)
Halt_unmarked ==
    /\ pc = "run"
    /\ pc' = "idle" /\ i' = 0
    /\ UNCHANGED <<table_num_entries, flags, num_regions, core, run_mapped,
                   halting, no_layout>>

(* Fault: the row is marked at any exit of the guest, and a later failure  *)
(* to enter it is noted as well.                                           *)
RunAgain_marks ==
    /\ pc = "run"
    /\ \/ /\ run_mapped
          /\ processed' = processed \cup {i}
          /\ \/ pc' = "idle" /\ i' = 0
             \/ UNCHANGED <<pc, i>>
          /\ UNCHANGED <<table_num_entries, could_not_process, num_regions,
                         core, run_mapped, halting, no_layout>>
       \/ FailNoted

(* Fault: the loop is not left when the guest halts.                       *)
Halt_loops ==
    /\ pc = "run"
    /\ run_mapped
    /\ i \in halting
    /\ processed' = processed \cup {i}
    /\ UNCHANGED <<table_num_entries, could_not_process, num_regions, pc, i, core,
                   run_mapped, halting, no_layout>>

(* The KVM_RUN loop: a halt completes the row;                             *)
Halt ==
    /\ pc = "run"
    /\ run_mapped
    /\ i \in halting
    /\ processed' = processed \cup {i}
    /\ pc' = "idle" /\ i' = 0
    /\ UNCHANGED <<table_num_entries, could_not_process, num_regions, core,
                   run_mapped, halting, no_layout>>

(* looking at the exit reason in an unmapped kvm_run kills the process;    *)
LookUnmapped ==
    /\ pc = "run"
    /\ ~run_mapped
    /\ Goto("killed")

(* a failing entry or an internal error ends the server, and any other     *)
(* exit, handled or not, runs the guest again.                             *)
RunAgain ==
    /\ pc = "run"
    /\ \/ FailUnnoted
       \/ run_mapped /\ UNCHANGED vars

(* SIGINT, or an error elsewhere in main(), ends the server.               *)
Leave ==
    /\ Up
    /\ FailUnnoted

-----------------------------------------------------------------------------

(* What the server does by itself once it has rows.                        *)
Work ==
    \/ PickEntry \/ CreateVm \/ InitIdt \/ InitLayout \/ InitRegion
    \/ CoreLayout \/ CoreRegion \/ SendPacket \/ CreateVcpu \/ MapRun
    \/ Halt \/ LookUnmapped

Next == table_put \/ ScanFails \/ Work \/ RunAgain \/ Leave

Spec == Init /\ [][Next]_vars

(* The server's thread keeps running: each system call returns and a guest *)
(* that reaches its hlt does so in finitely many exits.  Nothing is        *)
(* assumed of arriving entries, of the calls' success or of other guests.  *)
FairSpec == Spec /\ WF_vars(Work)

-----------------------------------------------------------------------------
(* No row is ever both processed and given up, over any sequence of        *)
(* entries and failures (the BUG_CHECK of process_entry()).                *)
FlagsExclusive == processed \cap could_not_process = {}

(* While the server runs, the rows are a processed prefix followed by new  *)
(* ones: rows are processed in the order received, and no given-up row is  *)
(* ever passed over, so the "cannot be processed" branch is never taken.   *)
ProcessedPrefix ==
    Up =>
        /\ could_not_process = {}
        /\ \A k \in processed : 1..k \subseteq processed

(* initialize_memory_uuid() never meets a row that has regions: an         *)
(* attempt that failed half-way is not repeated.                           *)
InitOnce == pc = "idt" => num_regions[i] = 0

(* A guest with all of its regions starts from the core area of its own    *)
(* module, even when an earlier row's copy went to an uninitialised address *)
RunsOwnImage ==
    pc \in {"vcpu", "map_run", "run"} /\ CoreAddrKnown => core[i] = i

(* What comes of get_uuid_layout() returning NULL, for which               *)
(* initialize_memory_uuid() reports success, is all that can go wrong with *)
(* the memory of a guest: only a row that met it reaches its guest without *)
(* its three regions, and only such a row's image can end up in the core   *)
(* area of another, whose guest may have run already.                      *)
ShortOnlyWithoutLayout ==
    /\ pc \in {"send", "vcpu", "map_run", "run"} /\ ~CoreAddrKnown =>
          i \in no_layout
    /\ \A k \in 1..MaxRows : core[k] \in {0, k} \cup no_layout

(* However the server ends - a noted failure, an unnoted one, an unmapped  *)
(* kvm_run that the test for NULL let through, a NULL copy in the proxy's  *)
(* process_packet() - at most one row is given up, it is the one that was  *)
(* at work, and all rows before it are processed.                          *)
OneRowLost ==
    ~Up => \E n \in 0..table_num_entries :
             processed = 1..n /\ could_not_process \subseteq {n + 1}

(* Every row received is processed, unless the server ends or a guest that *)
(* never halts is in its KVM_RUN loop: nothing else holds up a row, and    *)
(* such a guest holds up its own row and all later ones.                   *)
Served ==
    \A k \in 1..MaxRows :
        k \in Rows ~> \/ k \in processed
                      \/ ~Up
                      \/ pc = "run" /\ i <= k /\ i \notin halting

R == INSTANCE RowService
       WITH phase <- IF Up THEN "up" ELSE "down",
            received <- IF Up THEN table_num_entries ELSE 0,
            served <- IF Up THEN processed ELSE {}

(* process_entry() in all its steps and failures implements RowService: an *)
(* entry counts as served only by a completed run of its guest, in order,  *)
(* and a failure is never followed by more service.                        *)
RowServiceSpec == R!Spec
=============================================================================
