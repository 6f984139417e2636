----------------------------- MODULE ModuleTable -----------------------------
(***************************************************************************)
(* The proxy's module_table at and beyond its first limit: table_put()     *)
(* doubles the array with krealloc(), which may move it or fail; a request *)
(* for the pending module pops an index under table_mutex and reads the    *)
(* entry after the unlock; a request whose copy_to_user() fails un-pops;   *)
(* and a request that got its uuid asks for the module's layout or has its *)
(* core area copied, through table_get_copy().                             *)
(*                                                                         *)
(* Insmods and requests each run once.  The steps of EventChannel that do  *)
(* not touch the table are left out: any request may come at any time.     *)
(***************************************************************************)
EXTENDS Integers, Sequences

CONSTANTS Insmod,     \* container insmods; each stands for its module's uuid
          Request,    \* get_pending_module ioctls, by whichever server
          InitSize,   \* table_size at load time, 256 in global-config.h
          Garbage,    \* a uuid that was never put
          None        \* NULL, the free mutex

ASSUME ModuleTableAssumption ==
    /\ InitSize \in Nat \ {0}
    /\ None \notin Nat \cup Insmod \cup Request
    /\ Garbage \notin Insmod \cup {None}

VARIABLES
    module_table,  \* number of the block the pointer is set to, or None (NULL)
    last_block,    \* number of the block allocated last; older ones are freed
    table_size,
    entries,       \* what was put; table_num_entries is its length
    table_index,
    table_mutex,   \* a request that died holding it, or None
    status,        \* of each insmod: what table_put() returned
    pc,            \* control state of each request
    p,             \* each request's pointer: block and index, before the read
    uuid,          \* each request's copy of the entry's uuid, once read
    handed,        \* history: indexes whose uuid reached user space, in order
    overlap        \* history: requests that popped between another request's
                   \* pop and its return

blockVars == <<module_table, last_block, table_size, entries>>
vars == <<module_table, last_block, table_size, entries, table_index,
          table_mutex, status, pc, p, uuid, handed, overlap>>

table_num_entries == Len(entries)

Pointer == [block : Nat \cup {None}, idx : Nat]

TypeOK ==
    /\ module_table \in {last_block, None}
    /\ last_block \in Nat
    /\ table_size \in Nat
    /\ entries \in Seq(Insmod)
    /\ table_index \in -1..(table_num_entries - 1)
    /\ table_mutex \in Request \cup {None}
    /\ status \in [Insmod -> {"idle", "put", "error"}]
    /\ pc \in [Request -> {"start", "popped", "failed", "none", "error",
                           "copied", "served", "oops"}]
    /\ p \in [Request -> Pointer]
    /\ uuid \in [Request -> Insmod \cup {Garbage, None}]
    /\ handed \in Seq(Nat)
    /\ overlap \in SUBSET Request

(* After a successful table_init().                                        *)
Init ==
    /\ module_table = 0
    /\ last_block = 0
    /\ table_size = InitSize
    /\ entries = <<>>
    /\ table_index = -1
    /\ table_mutex = None
    /\ status = [m \in Insmod |-> "idle"]
    /\ pc = [r \in Request |-> "start"]
    /\ p = [r \in Request |-> [block |-> None, idx |-> 0]]
    /\ uuid = [r \in Request |-> None]
    /\ handed = <<>>
    /\ overlap = {}

-----------------------------------------------------------------------------

Put(m, result) == status' = [status EXCEPT ![m] = result]

(* krealloc() to twice the size: in place, elsewhere (the old block is     *)
(* freed), or not at all; its result is stored even when it is NULL.       *)
krealloc(m) ==
    \/ /\ \E b \in {last_block, last_block + 1} :
             module_table' = b /\ last_block' = b
       /\ table_size' = 2 * table_size
       /\ entries' = Append(entries, m)
       /\ Put(m, "put")
    \/ /\ module_table' = None
       /\ UNCHANGED <<last_block, table_size, entries>>
       /\ Put(m, "error")

(* Fault: the table counts as full one entry too late.                     *)
table_put_late(m) ==
    /\ status[m] = "idle"
    /\ table_mutex = None
    /\ \/ /\ module_table # None /\ table_num_entries <= table_size
          /\ entries' = Append(entries, m)
          /\ Put(m, "put")
          /\ UNCHANGED <<module_table, last_block, table_size>>
       \/ module_table # None /\ table_num_entries > table_size /\ krealloc(m)
    /\ UNCHANGED <<table_index, table_mutex, pc, p, uuid, handed, overlap>>

(* table_put(): an error without a table, or when it is overfull; a full   *)
(* table grows first.                                                      *)
table_put(m) ==
    /\ status[m] = "idle"
    /\ table_mutex = None
    /\ \/ /\ module_table = None \/ table_num_entries > table_size
          /\ Put(m, "error")
          /\ UNCHANGED blockVars
       \/ /\ module_table # None /\ table_num_entries < table_size
          /\ entries' = Append(entries, m)
          /\ Put(m, "put")
          /\ UNCHANGED <<module_table, last_block, table_size>>
       \/ module_table # None /\ table_num_entries = table_size /\ krealloc(m)
    /\ UNCHANGED <<table_index, table_mutex, pc, p, uuid, handed, overlap>>

-----------------------------------------------------------------------------
(* A request for the pending module.                                       *)

Goto(r, next) == pc' = [pc EXCEPT ![r] = next]

(* Between its pop and its return.                                         *)
Inside(r) == pc[r] \in {"popped", "failed"}

(* Fault: an off-by-one in the test, the slot after the last one is given  *)
(* out.                                                                    *)
HasPending_beyond == table_index + 1 <= table_num_entries

HasPending == table_index + 1 <= table_num_entries - 1

(* table_pop().  With the table gone, index 0 makes the NULL pointer, which *)
(* the ioctl takes for "no new entry", and any other index a wild one.      *)
table_pop(r) ==
    /\ pc[r] = "start"
    /\ table_mutex = None
    /\ \/ /\ ~HasPending
          /\ Goto(r, "none")
          /\ UNCHANGED <<table_index, p, overlap>>
       \/ /\ HasPending
          /\ table_index' = table_index + 1
          /\ p' = [p EXCEPT ![r] = [block |-> module_table,
                                    idx |-> table_index + 1]]
          /\ Goto(r, IF module_table = None /\ table_index + 1 = 0
                     THEN "none" ELSE "popped")
          /\ overlap' = overlap \cup {q \in {r} : \E o \in Request : Inside(o)}
    /\ UNCHANGED <<blockVars, table_mutex, status, uuid, handed>>

(* What reading an entry's uuid through pointer q may give: an entry of    *)
(* the block allocated last is as it was put; a freed block, or a slot not *)
(* yet written, has any bytes, those of some module's uuid among them.     *)
Content(q) ==
    IF q.block = last_block /\ q.idx < table_num_entries
    THEN {entries[q.idx + 1]} ELSE Insmod \cup {Garbage}

(* The ioctl after the pop, without the mutex: read the uuid and copy it   *)
(* to user space.  A wild pointer kills the caller.                        *)
ReadEntry(r) ==
    /\ pc[r] = "popped"
    /\ \/ /\ p[r].block = None
          /\ Goto(r, "oops")
          /\ UNCHANGED <<uuid, handed>>
       \/ /\ p[r].block # None
          /\ \E u \in Content(p[r]) : uuid' = [uuid EXCEPT ![r] = u]
          /\ \/ Goto(r, "copied") /\ handed' = Append(handed, p[r].idx)
             \/ Goto(r, "failed") /\ UNCHANGED handed
    /\ UNCHANGED <<blockVars, table_index, table_mutex, status, p, overlap>>

(* Fault: the failed copy is reported but not undone.                      *)
table_pop_reverse_none(r) ==
    /\ pc[r] = "failed"
    /\ table_mutex = None
    /\ Goto(r, "error")
    /\ UNCHANGED <<blockVars, table_index, table_mutex, status, p, uuid, handed,
                   overlap>>

(* table_pop_reverse() lowers the index, unless that is 0 already.         *)
table_pop_reverse(r) ==
    /\ pc[r] = "failed"
    /\ table_mutex = None
    /\ table_index' = IF table_index <= 0 THEN table_index ELSE table_index - 1
    /\ Goto(r, "error")
    /\ UNCHANGED <<blockVars, table_mutex, status, p, uuid, handed, overlap>>

(* Without memory for the copy the size and layout ioctls return an error, *)
(* process_packet() follows the NULL pointer and dies.                     *)
NoCopy(r) ==
    /\ \E to \in {"served", "oops"} : Goto(r, to)
    /\ UNCHANGED table_mutex

(* The search for the uuid, under table_mutex.  Without a table it dies    *)
(* there and then; for a uuid that is not in the table the copy stays      *)
(* uninitialised and the caller follows its module pointer.                *)
Search(r) ==
    /\ table_mutex = None
    /\ \/ /\ module_table = None
          /\ Goto(r, "oops")
          /\ table_mutex' = r
       \/ /\ module_table # None
          /\ \/ Goto(r, "served")
             \/ /\ \A k \in 1..table_num_entries : entries[k] # uuid[r]
                /\ Goto(r, "oops")
          /\ UNCHANGED table_mutex

(* A size or layout ioctl, or the packet, for the uuid that was received.  *)
table_get_copy(r) ==
    /\ pc[r] = "copied"
    /\ NoCopy(r) \/ Search(r)
    /\ UNCHANGED <<blockVars, table_index, status, p, uuid, handed, overlap>>

-----------------------------------------------------------------------------

Next ==
    \/ \E m \in Insmod : table_put(m)
    \/ \E r \in Request : \/ table_pop(r) \/ ReadEntry(r)
                          \/ table_pop_reverse(r) \/ table_get_copy(r)

Spec == Init /\ [][Next]_vars

-----------------------------------------------------------------------------
(* The branch of table_put() marked "should never happen": the table never *)
(* holds more entries than it has slots, across growth and its failures.   *)
NeverOverfull == table_num_entries <= table_size

(* As long as requests do not overlap, none is handed out twice and only   *)
(* the first entry (which table_pop_reverse() cannot give back) or that of *)
(* a request that died can be passed over; what is handed out goes in      *)
(* order.                                                                  *)
OnlyFirstSkipped ==
    overlap = {} =>
        /\ \A j, k \in 1..Len(handed) : j < k => handed[j] < handed[k]
        /\ \A k \in 1..table_index :
              \/ \E j \in 1..Len(handed) : handed[j] = k
              \/ \E r \in Request : p[r].idx = k /\ (Inside(r) \/ pc[r] = "oops")

(* All that can go wrong with what a request reads comes from growth: a    *)
(* wrong uuid means that the table moved after the pop, and table_mutex is *)
(* held by the dead, or a read met a wild pointer, only once krealloc()    *)
(* has failed.  Below InitSize entries the table is exact.                 *)
WrongOnlyByGrowth ==
    /\ \A r \in Request : uuid[r] # None =>
          \/ p[r].idx < table_num_entries /\ uuid[r] = entries[p[r].idx + 1]
          \/ p[r].block < last_block
    /\ table_mutex # None \/ (\E r \in Request : Inside(r) /\ p[r].block = None)
          => module_table = None /\ table_num_entries >= InitSize

(* "we dont want access to table without lock": the entry that a request   *)
(* is about to read is in a block that has not been freed.                 *)
EntryLive == \A r \in Request : pc[r] = "popped" => p[r].block \in {last_block, None}
=============================================================================
