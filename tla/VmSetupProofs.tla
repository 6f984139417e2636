--------------------------- MODULE VmSetupProofs ----------------------------
(***************************************************************************)
(* Machine-checked proofs about VmSetup, for any number of rows.           *)
(***************************************************************************)
EXTENDS VmSetup, TLAPS

Working == Up /\ pc # "idle"

(* The processed rows are a prefix of the table, and row n + 1 is the only *)
(* one that process_entry() works on or gives up.                          *)
Prefix(n) ==
    /\ processed = 1..n
    /\ could_not_process \subseteq {n + 1}
    /\ Working => i = n + 1 /\ n + 1 \in Rows

(* A row that process_entry() has not started on has no region yet.        *)
WorkInv ==
    /\ \E n \in 0..table_num_entries : Prefix(n)
    /\ Up => could_not_process = {}
    /\ pc = "idle" => i = 0
    /\ Up => \A k \in 1..MaxRows : k # i /\ k \notin processed =>
                                       num_regions[k] = 0

(* How many regions row i has at each point of initialize_memory_uuid().   *)
RegionInv ==
    /\ pc \in {"create_vm", "idt"} => num_regions[i] = 0
    /\ pc \in {"init_layout", "init_region"} => num_regions[i] = 1
    /\ pc \in {"core_layout", "core_region"} => num_regions[i] = 2

VmInv ==
    TypeOK /\ WorkInv /\ RegionInv /\ RunsOwnImage /\ ShortOnlyWithoutLayout

(* The invariant holds before any row is put.                              *)
LEMMA VmInit == Init => VmInv
<1> SUFFICES ASSUME Init PROVE VmInv
  OBVIOUS
<1>1. TypeOK
  <2>1. 0 \in 0..MaxRows /\ 0 \in 0..3
    BY MaxRowsAssumption
  <2>2. /\ num_regions \in [1..MaxRows -> 0..3]
        /\ core \in [1..MaxRows -> 0..MaxRows]
    BY <2>1 DEF Init
  <2>3. table_num_entries \in 0..MaxRows /\ i \in 0..table_num_entries
    BY <2>1 DEF Init
  <2> QED
    BY <2>2, <2>3 DEF Init, TypeOK, States
<1>2. WorkInv
  <2>1. Prefix(0) /\ 0 \in 0..table_num_entries
    BY DEF Init, Prefix, Working
  <2> QED
    BY <2>1 DEF Init, WorkInv
<1>3. RegionInv /\ RunsOwnImage /\ ShortOnlyWithoutLayout
  BY DEF Init, RegionInv, RunsOwnImage, ShortOnlyWithoutLayout
<1> QED
  BY <1>1, <1>2, <1>3 DEF VmInv

(* Adding a region counts it for row i and for no other.                   *)
LEMMA AddRegionEffect ==
  ASSUME TypeOK, NEW next, i \in Rows, num_regions[i] \in 0..2, AddRegion(next)
  PROVE  /\ num_regions' \in [1..MaxRows -> 0..3]
         /\ num_regions'[i] = num_regions[i] + 1
         /\ \A k \in 1..MaxRows : k # i => num_regions'[k] = num_regions[k]
BY MaxRowsAssumption DEF TypeOK, Rows, AddRegion

(* The proxy's copy stays within the rows' memory and, when the address is *)
(* known, puts row i's core area in row i's region.                        *)
LEMMA process_packetEffect ==
  ASSUME TypeOK, i \in Rows, process_packet
  PROVE  /\ core' \in [1..MaxRows -> 0..MaxRows]
         /\ CoreAddrKnown => core'[i] = i
         /\ \A k \in 1..MaxRows :
               \/ core'[k] = core[k]
               \/ core'[k] = i /\ (k = i \/ ~CoreAddrKnown)
<1>1. i \in 1..MaxRows /\ i \in 0..MaxRows /\ Rows \subseteq 1..MaxRows
  BY MaxRowsAssumption DEF TypeOK, Rows
<1>2. \A k \in 1..MaxRows :
         [core EXCEPT ![k] = i] \in [1..MaxRows -> 0..MaxRows]
  BY <1>1 DEF TypeOK
<1>3. core' \in [1..MaxRows -> 0..MaxRows] /\ (CoreAddrKnown => core'[i] = i)
  BY <1>1, <1>2 DEF TypeOK, process_packet
<1>4. ASSUME NEW k \in 1..MaxRows
      PROVE  \/ core'[k] = core[k]
             \/ core'[k] = i /\ (k = i \/ ~CoreAddrKnown)
  <2>1. core \in [1..MaxRows -> 0..MaxRows]
    BY DEF TypeOK
  <2> QED
    BY <1>1, <2>1 DEF process_packet
<1> QED
  BY <1>3, <1>4

(* What the invariant says of the row at work.                             *)
LEMMA RowAtWork ==
  ASSUME TypeOK, WorkInv, Working
  PROVE  /\ i \in Rows /\ i \notin processed
         /\ i - 1 \in 0..table_num_entries
         /\ processed = 1..(i - 1) /\ could_not_process = {}
BY MaxRowsAssumption DEF TypeOK, WorkInv, Prefix, Working, Rows

(* The first new row is the one after the processed prefix.                *)
LEMMA FirstNew ==
  ASSUME TypeOK, WorkInv, PickEntry
  PROVE  /\ pc' = "create_vm" /\ i' \in Rows /\ i' \notin processed
         /\ processed = 1..(i' - 1)
<1>1. PICK n \in 0..table_num_entries : Prefix(n)
  BY DEF WorkInv
<1>2. could_not_process = {} /\ processed = 1..n
  BY <1>1 DEF WorkInv, Prefix, PickEntry, Up
<1>3. PICK k \in Rows : /\ IsNew(k) \/ Contradiction(k)
                        /\ \A j \in 1..(k - 1) : ~IsNew(j) /\ ~Contradiction(j)
                        /\ pc' = IF IsNew(k) THEN "create_vm" ELSE "exit"
                        /\ i' = IF IsNew(k) THEN k ELSE 0
  BY DEF PickEntry
<1>4. k \notin processed /\ pc' = "create_vm" /\ i' = k
  BY <1>2, <1>3 DEF IsNew, Contradiction
<1>5. \A j \in 1..(k - 1) : j \in processed
  BY <1>2, <1>3 DEF IsNew
<1>6. k = n + 1
  BY <1>2, <1>3, <1>4, <1>5, MaxRowsAssumption DEF Rows, TypeOK
<1> QED
  BY <1>2, <1>4, <1>6, MaxRowsAssumption DEF Rows, TypeOK

(* A step that leaves the flags, the rows and the row at work alone keeps  *)
(* the part of the invariant about them.                                   *)
LEMMA SameRows ==
  ASSUME TypeOK, WorkInv, Working, pc' # "idle",
         UNCHANGED <<table_num_entries, flags, i>>,
         Up' => \A k \in 1..MaxRows : k # i => num_regions'[k] = num_regions[k]
  PROVE  WorkInv'
<1>1. PICK n \in 0..table_num_entries : Prefix(n)
  BY DEF WorkInv
<1>2. Prefix(n)' /\ n \in 0..table_num_entries'
  BY <1>1 DEF Prefix, Working, flags, Rows
<1> QED
  BY <1>2 DEF WorkInv, Working, flags

(* A server that ends keeps its flags, or gives up the row at work.        *)
LEMMA EndRows ==
  ASSUME TypeOK, WorkInv, Up, ~Up', UNCHANGED <<table_num_entries, processed>>,
         \/ UNCHANGED could_not_process
         \/ Working /\ could_not_process' = could_not_process \cup {i}
  PROVE  /\ WorkInv'
         /\ could_not_process' \in SUBSET Rows
<1>1. PICK n \in 0..table_num_entries : Prefix(n)
  BY DEF WorkInv
<1>2. could_not_process = {} /\ pc' # "idle"
  BY DEF WorkInv, Up
<1>3. Working => i = n + 1 /\ i \in Rows
  BY <1>1 DEF Prefix
<1>4. Prefix(n)' /\ n \in 0..table_num_entries'
  BY <1>1, <1>2, <1>3 DEF Prefix, Working
<1>5. could_not_process' \in SUBSET Rows
  BY <1>2, <1>3
<1> QED
  BY <1>2, <1>4, <1>5 DEF WorkInv

(* Every call of process_entry(), failing or not, preserves the invariant. *)
LEMMA VmStep == VmInv /\ [Next]_vars => VmInv'
<1> SUFFICES ASSUME VmInv, [Next]_vars PROVE VmInv'
  OBVIOUS
<1> USE MaxRowsAssumption
<1>t. TypeOK /\ WorkInv /\ RegionInv /\ RunsOwnImage /\ ShortOnlyWithoutLayout
  BY DEF VmInv
<1>1. CASE table_put
  <2>1. PICK n \in 0..table_num_entries : Prefix(n)
    BY <1>t DEF WorkInv
  <2>2. Prefix(n)' /\ n \in 0..table_num_entries'
    BY <1>1, <1>t, <2>1 DEF table_put, Prefix, Working, flags, TypeOK
  <2>3. WorkInv'
    BY <1>1, <1>t, <2>2 DEF table_put, WorkInv, Up, flags
  <2> QED
    BY <1>1, <1>t, <2>3 DEF table_put, VmInv, TypeOK, RegionInv, RunsOwnImage,
       ShortOnlyWithoutLayout, CoreAddrKnown, Rows, flags
<1>2. CASE PickEntry
  <2>1. /\ pc' = "create_vm" /\ i' \in Rows /\ i' \notin processed
        /\ processed = 1..(i' - 1)
    BY <1>2, <1>t, FirstNew
  <2>2. /\ pc = "idle" /\ i = 0 /\ could_not_process = {}
        /\ table_num_entries' = table_num_entries /\ num_regions' = num_regions
        /\ processed' = processed /\ could_not_process' = could_not_process
        /\ core' = core /\ run_mapped' = run_mapped /\ halting' = halting
        /\ no_layout' = no_layout
    BY <1>2, <1>t DEF PickEntry, WorkInv, Up, flags
  <2>a. PICK n \in 0..table_num_entries : i' = n + 1
    BY <1>t, <2>1 DEF Rows, TypeOK
  <2>b. i' - 1 = n
    BY <1>t, <2>a DEF TypeOK
  <2>3. Prefix(n)' /\ n \in 0..table_num_entries'
    BY <1>t, <2>1, <2>2, <2>a, <2>b DEF Prefix, Working, Rows, flags, TypeOK
  <2>c. \A k \in 1..MaxRows : k \notin processed => num_regions[k] = 0
    BY <1>t, <2>2 DEF WorkInv, Up
  <2>d. i' \in 1..table_num_entries /\ i' \notin processed
    BY <2>1 DEF Rows
  <2>e. table_num_entries \in 0..MaxRows
    BY <1>t DEF TypeOK
  <2>f. i' \in 1..MaxRows /\ i' \in 0..table_num_entries
    BY <2>d, <2>e
  <2>4. i' \in 0..table_num_entries /\ num_regions[i'] = 0
    BY <2>c, <2>d, <2>f
  <2>5. WorkInv'
    BY <2>1, <2>2, <2>3, <2>c DEF WorkInv
  <2> QED
    BY <1>t, <2>1, <2>2, <2>4, <2>5 DEF VmInv, TypeOK, RegionInv, RunsOwnImage,
       ShortOnlyWithoutLayout, CoreAddrKnown, States, Rows
<1>3. ASSUME Working, FailNoted PROVE VmInv'
  <2>1. WorkInv' /\ could_not_process' \in SUBSET Rows
    BY <1>3, <1>t, EndRows DEF FailNoted, Up, Working
  <2> QED
    BY <1>3, <1>t, <2>1 DEF FailNoted, VmInv, TypeOK, RegionInv, RunsOwnImage,
       ShortOnlyWithoutLayout, CoreAddrKnown, States, Rows
<1>4. ASSUME Up, Goto("exit") \/ Goto("killed") PROVE VmInv'
  <2>1. WorkInv'
    BY <1>4, <1>t, EndRows DEF Goto, Up, flags
  <2> QED
    BY <1>4, <1>t, <2>1 DEF Goto, VmInv, TypeOK, RegionInv, RunsOwnImage,
       ShortOnlyWithoutLayout, CoreAddrKnown, States, Rows, flags
<1>5. ASSUME NEW next \in States \ {"idle"}, Working, Goto(next),
             /\ next = "idt" => pc = "create_vm"
             /\ next = "init_region" => pc = "init_layout"
             /\ next = "core_region" => pc = "core_layout"
             /\ next \notin {"create_vm", "init_layout", "core_layout", "send", "vcpu",
                             "run"}
             /\ next = "map_run" => pc = "vcpu"
      PROVE VmInv'
  <2>1. WorkInv'
    BY <1>5, <1>t, SameRows DEF Goto, flags
  <2> QED
    BY <1>5, <1>t, <2>1 DEF Goto, VmInv, TypeOK, RegionInv, RunsOwnImage,
       ShortOnlyWithoutLayout, CoreAddrKnown, Rows, flags
<1>6. CASE CreateVm
  BY <1>3, <1>5, <1>6 DEF CreateVm, Working, Up, States
<1>a. ASSUME NEW next \in {"init_layout", "core_layout", "send"}, Working,
             AddRegion(next), num_regions[i] \in 0..2,
             next = "init_layout" => num_regions[i] = 0,
             next = "core_layout" => num_regions[i] = 1,
             next = "send" => num_regions[i] = 2
      PROVE VmInv'
  <2>1. i \in Rows
    BY <1>a, <1>t, RowAtWork
  <2>2. /\ num_regions' \in [1..MaxRows -> 0..3]
        /\ num_regions'[i] = num_regions[i] + 1
        /\ \A k \in 1..MaxRows : k # i => num_regions'[k] = num_regions[k]
    BY <1>a, <1>t, <2>1, AddRegionEffect
  <2>3. WorkInv'
    BY <1>a, <1>t, <2>2, SameRows DEF AddRegion
  <2> QED
    BY <1>a, <1>t, <2>2, <2>3 DEF AddRegion, VmInv, TypeOK, RegionInv,
       RunsOwnImage, ShortOnlyWithoutLayout, CoreAddrKnown, States, Rows, flags
<1>7. CASE InitIdt
  BY <1>3, <1>7, <1>a, <1>t DEF InitIdt, RegionInv, Working, Up
<1>8. CASE InitLayout \/ CoreLayout
  <2>1. Working
    BY <1>8 DEF InitLayout, CoreLayout, GetLayout, Working, Up
  <2>2. CASE /\ pc' = "send" /\ no_layout' = no_layout \cup {i}
             /\ UNCHANGED <<table_num_entries, flags, num_regions, i, core,
                            run_mapped, halting>>
    <3>1. i \in Rows
      BY <1>t, <2>1, RowAtWork
    <3>2. WorkInv'
      BY <1>t, <2>1, <2>2, SameRows
    <3> QED
      BY <1>t, <2>2, <3>1, <3>2 DEF VmInv, TypeOK, RegionInv, RunsOwnImage,
         ShortOnlyWithoutLayout, CoreAddrKnown, States, Rows, flags
  <2> QED
    BY <1>5, <1>8, <2>1, <2>2 DEF InitLayout, CoreLayout, GetLayout, States
<1>9. CASE InitRegion
  BY <1>3, <1>9, <1>a, <1>t DEF InitRegion, RegionInv, Working, Up
<1>10. CASE CoreRegion
  BY <1>3, <1>10, <1>a, <1>t DEF CoreRegion, RegionInv, Working, Up
<1>11. CASE SendPacket
  <2>1. CASE process_packet /\ pc' \in {"vcpu", "exit"}
             /\ UNCHANGED <<table_num_entries, flags, num_regions, i, run_mapped, halting,
                          no_layout>>
    <3>1. Working /\ i \in Rows
      BY <1>11, <1>t, RowAtWork DEF SendPacket, cdev_write, Working, Up
    <3>2. /\ core' \in [1..MaxRows -> 0..MaxRows]
          /\ num_regions[i] = 3 => core'[i] = i
          /\ \A k \in 1..MaxRows :
                \/ core'[k] = core[k]
                \/ core'[k] = i /\ (k = i \/ num_regions[i] # 3)
      BY <1>t, <2>1, <3>1, process_packetEffect DEF CoreAddrKnown
    <3>3. WorkInv'
      BY <1>t, <2>1, <3>1, SameRows
    <3>4. num_regions[i] # 3 => i \in no_layout
      BY <1>11, <1>t DEF SendPacket, ShortOnlyWithoutLayout, CoreAddrKnown
    <3>5. ShortOnlyWithoutLayout'
      BY <1>t, <2>1, <3>2, <3>4 DEF ShortOnlyWithoutLayout, CoreAddrKnown
    <3> QED
      BY <1>t, <2>1, <3>2, <3>3, <3>5 DEF VmInv, TypeOK, RegionInv, RunsOwnImage,
         CoreAddrKnown, States, Rows, flags
  <2> QED
    BY <1>3, <1>4, <1>11, <2>1 DEF SendPacket, cdev_write, FailUnnoted, Working, Up
<1>12. CASE CreateVcpu
  BY <1>3, <1>5, <1>12 DEF CreateVcpu, Working, Up, States
<1>13. CASE MapRun
  <2>1. CASE /\ run_mapped' \in BOOLEAN
             /\ pc' \in {"run", "exit"}
             /\ UNCHANGED <<table_num_entries, flags, num_regions, i, core, halting, no_layout>>
    <3>1. Working
      BY <1>13 DEF MapRun, Working, Up
    <3>2. WorkInv'
      BY <1>t, <2>1, <3>1, SameRows
    <3> QED
      BY <1>13, <1>t, <2>1, <3>2 DEF MapRun, VmInv, TypeOK, RegionInv,
         RunsOwnImage, ShortOnlyWithoutLayout, CoreAddrKnown, States, Rows, flags
  <2> QED
    BY <1>4, <1>13, <2>1 DEF MapRun, FailUnnoted, Up
<1>14. CASE Halt
  <2>1. /\ i \in Rows /\ processed = 1..(i - 1) /\ could_not_process = {}
        /\ i \in 1..table_num_entries /\ i \in 1..MaxRows
    BY <1>14, <1>t, RowAtWork DEF Halt, Working, Up, Rows, TypeOK
  <2>a. PICK n \in 1..table_num_entries : n = i
    BY <2>1
  <2>2. processed' = 1..n
    BY <1>14, <1>t, <2>1, <2>a DEF Halt, TypeOK
  <2>3. Prefix(n)' /\ n \in 0..table_num_entries'
    BY <1>14, <1>t, <2>1, <2>2, <2>a DEF Halt, Prefix, Working, TypeOK
  <2>4. WorkInv'
    BY <1>14, <1>t, <2>1, <2>2, <2>3, <2>a DEF Halt, WorkInv, Up
  <2>5. processed' \in SUBSET Rows
    BY <1>t, <2>2, <2>a DEF Rows, TypeOK
  <2> QED
    BY <1>14, <1>t, <2>4, <2>5 DEF Halt, VmInv, TypeOK, RegionInv, RunsOwnImage,
       ShortOnlyWithoutLayout, CoreAddrKnown, States, Rows
<1>15. CASE ScanFails \/ Leave \/ LookUnmapped
  BY <1>4, <1>15 DEF ScanFails, Leave, LookUnmapped, FailUnnoted, Up
<1>16. CASE UNCHANGED vars
  <2>1. TypeOK' /\ RegionInv'
    BY <1>16, <1>t DEF vars, TypeOK, RegionInv, Rows, flags
  <2>2. WorkInv'
    BY <1>16, <1>t DEF vars, WorkInv, Prefix, Working, Up, Rows, flags
  <2>3. RunsOwnImage' /\ ShortOnlyWithoutLayout'
    BY <1>16, <1>t DEF vars, RunsOwnImage, ShortOnlyWithoutLayout, CoreAddrKnown
  <2> QED
    BY <2>1, <2>2, <2>3 DEF VmInv
<1>17. CASE RunAgain
  BY <1>4, <1>16, <1>17 DEF RunAgain, FailUnnoted, Up
<1> QED
  BY <1>1, <1>2, <1>6, <1>7, <1>8, <1>9, <1>10, <1>11, <1>12, <1>13, <1>14,
     <1>15, <1>16, <1>17 DEF Next, Work

(* The invariant holds throughout.                                         *)
LEMMA VmInvariant == Spec => []VmInv
BY VmInit, VmStep, PTL DEF Spec

(* The table's columns keep their types: no flag outside the rows, never   *)
(* more than the three regions that struct Memory holds.                   *)
THEOREM TypeCorrect == Spec => []TypeOK
<1>1. VmInv => TypeOK
  BY DEF VmInv
<1> QED
  BY <1>1, VmInvariant, PTL

(* The BUG_CHECK of process_entry() never fires: no row is both processed  *)
(* and given up.                                                           *)
THEOREM FlagsNeverContradict == Spec => []FlagsExclusive
<1>1. VmInv => FlagsExclusive
  BY DEF VmInv, WorkInv, Prefix, FlagsExclusive, TypeOK
<1> QED
  BY <1>1, VmInvariant, PTL

(* Rows are processed in the order received, and a row that was given up   *)
(* is never passed over by a running server.                               *)
THEOREM RowsInOrder == Spec => []ProcessedPrefix
<1>1. VmInv => ProcessedPrefix
  BY DEF VmInv, WorkInv, Prefix, ProcessedPrefix, TypeOK
<1> QED
  BY <1>1, VmInvariant, PTL

(* However the server ends, the processed rows are a prefix and at most    *)
(* the row after it was given up.                                          *)
THEOREM EndLosesOneRow == Spec => []OneRowLost
<1>1. VmInv => OneRowLost
  BY DEF VmInv, WorkInv, Prefix, OneRowLost
<1> QED
  BY <1>1, VmInvariant, PTL

(* initialize_memory_uuid() never meets a row with regions.                *)
THEOREM MemoryInitOnce == Spec => []InitOnce
<1>1. VmInv => InitOnce
  BY DEF VmInv, RegionInv, InitOnce
<1> QED
  BY <1>1, VmInvariant, PTL

(* A guest with three regions runs the core area of its own module.        *)
THEOREM GuestRunsOwnImage == Spec => []RunsOwnImage
<1>1. VmInv => RunsOwnImage
  BY DEF VmInv
<1> QED
  BY <1>1, VmInvariant, PTL

(* A row that reaches its guest short of a region, or whose image is found *)
(* in another row's core area, is one for which get_uuid_layout() gave     *)
(* NULL.                                                                   *)
THEOREM HarmTracedToLayout == Spec => []ShortOnlyWithoutLayout
<1>1. VmInv => ShortOnlyWithoutLayout
  BY DEF VmInv
<1> QED
  BY <1>1, VmInvariant, PTL

(* process_entry() implements RowService: a step is an entry received, a   *)
(* row served in turn, the server's end, or nothing to its clients.        *)
THEOREM ImplementsRowService == Spec => RowServiceSpec
<1>1. Init => R!Init
  BY DEF Init, R!Init, Up
<1>2. VmInv /\ [Next]_vars => [R!Next]_(R!rvars)
  <2> SUFFICES ASSUME VmInv, [Next]_vars PROVE [R!Next]_(R!rvars)
    OBVIOUS
  <2>t. TypeOK /\ WorkInv
    BY DEF VmInv
  <2>1. ASSUME Up, ~Up' PROVE R!Stop
    BY <2>1 DEF R!Stop
  <2>2. ASSUME UNCHANGED <<table_num_entries, processed>>, Up' = Up
        PROVE UNCHANGED R!rvars
    BY <2>2 DEF R!rvars
  <2>3. ASSUME UNCHANGED <<table_num_entries, processed>>, Up
        PROVE [R!Next]_(R!rvars)
    BY <2>1, <2>2, <2>3 DEF R!Next, Up
  <2>4. CASE table_put
    BY <2>4 DEF table_put, R!Next, R!Receive, Up, flags
  <2>5. CASE Halt
    <3>1. Working
      BY <2>5 DEF Halt, Working, Up
    <3>2. i \in 1..table_num_entries /\ i \notin processed /\ processed = 1..(i - 1)
      BY <2>t, <3>1, RowAtWork DEF Rows
    <3>3. Up /\ Up' /\ processed' = processed \cup {i} /\ UNCHANGED table_num_entries
      BY <2>5 DEF Halt, Up
    <3>4. R!Serve
      BY <3>2, <3>3 DEF R!Serve
    <3> QED
      BY <3>4 DEF R!Next
  <2>6. CASE UNCHANGED vars
    BY <2>2, <2>6 DEF vars, flags, Up
  <2>7. CASE ScanFails \/ Leave \/ LookUnmapped
    BY <2>3, <2>7 DEF ScanFails, Leave, LookUnmapped, FailUnnoted, Goto, flags, Up
  <2>8. CASE RunAgain
    BY <2>3, <2>6, <2>8 DEF RunAgain, FailUnnoted, Goto, flags, Up
  <2>9. CASE PickEntry
    BY <2>3, <2>9 DEF PickEntry, flags, Up
  <2>10. CASE CreateVm \/ CreateVcpu \/ MapRun
    BY <2>3, <2>10 DEF CreateVm, CreateVcpu, MapRun, FailNoted, FailUnnoted, Goto,
       flags, Up
  <2>11. CASE InitIdt \/ InitRegion \/ CoreRegion
    BY <2>3, <2>11 DEF InitIdt, InitRegion, CoreRegion, AddRegion, FailNoted,
       flags, Up
  <2>12. CASE InitLayout \/ CoreLayout
    BY <2>3, <2>12 DEF InitLayout, CoreLayout, GetLayout, Goto, flags, Up
  <2>13. CASE SendPacket
    BY <2>3, <2>13 DEF SendPacket, cdev_write, FailNoted, FailUnnoted, Goto, flags, Up
  <2> QED
    BY <2>4, <2>5, <2>6, <2>7, <2>8, <2>9, <2>10, <2>11, <2>12, <2>13
       DEF Next, Work
<1> QED
  BY <1>1, <1>2, VmInvariant, PTL DEF Spec, RowServiceSpec, R!Spec
=============================================================================
