-------------------------- MODULE HostServerProofs --------------------------
(***************************************************************************)
(* Machine-checked proofs about HostServer, for every size of the table,   *)
(* of a row and of int, and any number of entries.                         *)
(***************************************************************************)
EXTENDS HostServer, TLAPS

-----------------------------------------------------------------------------
(* Conversion to int and the new size of a table.                          *)

(* A number below the modulus is its own remainder.                        *)
LEMMA SmallMod ==
  ASSUME NEW a \in Nat, NEW m \in Nat, a < m
  PROVE  a % m = a
BY Z3

(* Conversion keeps what fits and turns what is up to 2 * IntMax negative. *)
LEMMA ToIntValue ==
  ASSUME NEW x \in Int
  PROVE  /\ x \in (-IntMax - 1)..IntMax => ToInt(x) = x
         /\ x \in (IntMax + 1)..(2 * IntMax) => ToInt(x) = x - 2 * (IntMax + 1)
<1> DEFINE m == 2 * (IntMax + 1)
<1>0. IntMax \in Nat /\ m \in Nat /\ m > 0
  BY HostServerAssumption
<1>1. CASE x \in (-IntMax - 1)..IntMax
  <2>1. x + IntMax + 1 \in Nat /\ x + IntMax + 1 < m
    BY <1>0, <1>1
  <2>2. (x + IntMax + 1) % m = x + IntMax + 1
    BY <1>0, <2>1, SmallMod
  <2> QED
    BY <1>0, <1>1, <2>2 DEF ToInt
<1>2. CASE x \in (IntMax + 1)..(2 * IntMax)
  <2> DEFINE a == x + IntMax + 1 - m
  <2>1. a \in Nat /\ a < m /\ x + IntMax + 1 = a + m
    BY <1>0, <1>2
  <2>2. (a + m) % m = a % m
    BY <1>0, <2>1, Z3
  <2>3. a % m = a
    BY <1>0, <2>1, SmallMod
  <2> QED
    BY <1>0, <1>2, <2>1, <2>2, <2>3 DEF ToInt
<1> QED
  BY <1>0, <1>1, <1>2

(* A positive size in bytes has not overflowed: it is the size of twice as *)
(* many rows.                                                              *)
LEMMA GrownSize ==
  ASSUME uuid_table_size \in Nat, uuid_table_size * RowSize <= IntMax,
         new_size_bytes > 0
  PROVE  /\ newsize \in Nat /\ newsize = 2 * uuid_table_size
         /\ new_size_bytes \in Nat
         /\ new_size_bytes = newsize * RowSize
         /\ newsize * RowSize <= IntMax
<1> DEFINE u == uuid_table_size
           b == u * RowSize
<1>0. RowSize \in Nat \ {0} /\ IntMax \in Nat /\ u \in Nat
  BY HostServerAssumption
<1>1. b \in Nat /\ b >= u /\ b <= IntMax /\ (2 * u) * RowSize = 2 * b
  BY <1>0
<1>2. CASE 2 * b <= IntMax
  <2>1. 2 * u <= IntMax
    BY <1>0, <1>1, <1>2
  <2>2. newsize = 2 * u
    BY <1>0, <2>1, ToIntValue DEF newsize
  <2>3. new_size_bytes = 2 * b
    BY <1>0, <1>1, <1>2, <2>2, ToIntValue DEF new_size_bytes
  <2> QED
    BY <1>0, <1>1, <1>2, <2>2, <2>3
<1>3. CASE 2 * b > IntMax /\ 2 * u <= IntMax
  <2>1. newsize = 2 * u
    BY <1>0, <1>3, ToIntValue DEF newsize
  <2>2. new_size_bytes = 2 * b - 2 * (IntMax + 1)
    BY <1>0, <1>1, <1>3, <2>1, ToIntValue DEF new_size_bytes
  <2> QED
    BY <1>0, <1>1, <2>2
<1>4. CASE 2 * u > IntMax
  <2>1. RowSize = 1
    <3>1. RowSize >= 2 => u * RowSize >= u * 2
      BY <1>0
    <3> QED
      BY <1>0, <1>1, <1>4, <3>1
  <2>2. newsize = 2 * u - 2 * (IntMax + 1)
    BY <1>0, <1>1, <1>4, ToIntValue DEF newsize
  <2>3. newsize * RowSize = newsize /\ newsize \in (-IntMax - 1)..(-1)
    BY <1>0, <1>1, <1>4, <2>1, <2>2
  <2>4. new_size_bytes = newsize
    BY <1>0, <2>3, ToIntValue DEF new_size_bytes
  <2> QED
    BY <1>0, <2>3, <2>4
<1> QED
  BY <1>0, <1>1, <1>2, <1>3, <1>4

-----------------------------------------------------------------------------
(* The inductive invariant, part by part.                                  *)

(* uuid_table_size rows never need more bytes than an int can say, and as  *)
(* long as uuid_table is valid that many are allocated.                    *)
SizeInv == uuid_table_size * RowSize <= IntMax /\ NoOverrun

(* Nothing is fetched before the table is there.                           *)
StartInv ==
    pc \in Startup => /\ fetched = 0 /\ boot = 0
                      /\ rows = {} /\ processed = {}
                      /\ block = "none" /\ table_num_entries = 0

(* Below InitSize entries the table has its first size and all entries.    *)
FewInv ==
    fetched <= InitSize =>
        /\ block # "moved" /\ pc # "crashed"
        /\ uuid_table_size = InitSize
        /\ pc \in Serving => /\ block = "here"
                             /\ table_num_entries = fetched
                             /\ rows = 1..fetched

(* Where each fetched entry is, at the points of the two loops.            *)
KeptUpTo(n) == \A e \in 1..n : e \in rows \/ e <= boot

LoopInv ==
    block = "here" =>
        /\ pc = "drain" => boot = fetched
        /\ pc \in {"process_all", "select", "take"} => KeptUpTo(fetched)
        /\ pc \in {"select", "take"} => processed = rows
        /\ pc \in {"read", "process_one"} =>
              KeptUpTo(fetched - 1) /\ rows \ processed \subseteq {fetched}

(* Where in main() and the handler there is no registration.               *)
RegInv ==
    /\ NumbersAgree
    /\ pc \in {"major", "kvm", "eventfd", "open", "register", "close",
               "close_efd", "sig_close", "exit", "hung"} =>
          "registration" \notin held

ServerInv ==
    TypeOK /\ SizeInv /\ StartInv /\ FewInv /\ LoopInv /\ RegInv

(* The invariant holds when main() begins.                                 *)
LEMMA ServerInit == Init => ServerInv
<1> SUFFICES ASSUME Init PROVE ServerInv
  OBVIOUS
<1>1. TypeOK
  BY HostServerAssumption DEF Init, TypeOK, States, Startup, Blocks
<1>2. SizeInv /\ StartInv /\ FewInv /\ LoopInv
  BY HostServerAssumption DEF Init, SizeInv, NoOverrun, StartInv, FewInv, LoopInv,
     Serving
<1>3. RegInv
  BY DEF Init, RegInv, NumbersAgree
<1> QED
  BY <1>1, <1>2, <1>3 DEF ServerInv

-----------------------------------------------------------------------------
(* table_put().                                                            *)

(* The table grows, or stays as it is, or is lost; it never has too little *)
(* room for its rows.                                                      *)
LEMMA TablePut ==
  ASSUME TypeOK, SizeInv, fetched < MaxEntries, table_put(fetched + 1)
  PROVE  /\ block' \in Blocks /\ block_bytes' \in Nat
         /\ uuid_table_size' \in Nat /\ table_num_entries' \in Nat
         /\ rows' \in {rows, rows \cup {fetched + 1}}
         /\ block' = "here" => block = "here"
         /\ SizeInv'
<1> USE HostServerAssumption
<1>t. /\ block \in Blocks /\ block_bytes \in Nat /\ uuid_table_size \in Nat
      /\ table_num_entries \in Nat
  BY DEF TypeOK
<1>1. CASE /\ table_num_entries < uuid_table_size
           /\ UNCHANGED <<block, block_bytes, uuid_table_size>>
           /\ WriteRow(fetched + 1)
  BY <1>1, <1>t DEF WriteRow, SizeInv, NoOverrun
<1>2. CASE table_num_entries = uuid_table_size /\ Grow(fetched + 1)
  <2>1. /\ newsize \in Nat /\ newsize = 2 * uuid_table_size
        /\ new_size_bytes \in Nat
        /\ new_size_bytes = newsize * RowSize
        /\ newsize * RowSize <= IntMax
    BY <1>2, <1>t, GrownSize DEF Grow, SizeInv
  <2>2. /\ block_bytes' = newsize * RowSize /\ uuid_table_size' = newsize
        /\ block' \in {"moved", block}
        /\ table_num_entries' = table_num_entries + 1
        /\ rows' \in {rows, rows \cup {fetched + 1}}
    BY <1>2, <2>1 DEF Grow, WriteRow
  <2>3. newsize >= table_num_entries + 1
    <3>1. new_size_bytes > 0
      BY <1>2 DEF Grow
    <3>2. uuid_table_size # 0
      BY <2>1, <3>1
    <3> QED
      BY <1>2, <1>t, <2>1, <3>2
  <2>4. NoOverrun'
    BY <1>t, <2>1, <2>2, <2>3 DEF NoOverrun
  <2> QED
    BY <1>t, <2>1, <2>2, <2>4 DEF SizeInv, Blocks
<1>3. CASE table_num_entries >= uuid_table_size /\ Drop
  BY <1>3, <1>t DEF Drop, SizeInv, NoOverrun, Blocks
<1> QED
  BY <1>1, <1>2, <1>3 DEF table_put

(* With room in the table the entry gets its row and nothing else changes. *)
LEMMA TablePutRoom ==
  ASSUME TypeOK, table_num_entries < uuid_table_size, table_put(fetched + 1)
  PROVE  /\ UNCHANGED <<block, uuid_table_size>>
         /\ table_num_entries' = table_num_entries + 1
         /\ block = "here" => rows' = rows \cup {fetched + 1}
<1>1. table_num_entries \in Nat /\ uuid_table_size \in Nat
  BY DEF TypeOK
<1> QED
  BY <1>1 DEF table_put, WriteRow

(* What get_new_entry() leaves of the types, the sizes and the few rows.   *)
LEMMA GetNewEntry ==
  ASSUME TypeOK, SizeInv, FewInv, pc \in Serving,
         NEW none \in States \ {"crashed"}, NEW one \in Serving,
         get_new_entry(none, one)
  PROVE  /\ block' \in Blocks /\ block_bytes' \in Nat
         /\ uuid_table_size' \in Nat /\ table_num_entries' \in Nat
         /\ fetched' \in 0..MaxEntries
         /\ rows' \in SUBSET (1..fetched') /\ rows \subseteq rows'
         /\ block' = "here" => block = "here"
         /\ pc' \in {none, one, "table_delete"}
         /\ SizeInv' /\ FewInv'
<1> USE HostServerAssumption
<1>t. /\ block \in Blocks /\ block_bytes \in Nat /\ uuid_table_size \in Nat
      /\ table_num_entries \in Nat /\ fetched \in 0..MaxEntries
      /\ rows \in SUBSET (1..fetched)
  BY DEF TypeOK
<1>1. CASE pc' = none /\ UNCHANGED <<tableVars, fetched>>
  BY <1>1, <1>t DEF tableVars, SizeInv, NoOverrun, FewInv
<1>2. CASE /\ pc' = "table_delete"
           /\ fetched' \in {fetched, fetched + 1} \cap 0..MaxEntries
           /\ UNCHANGED tableVars
  <2>1. fetched <= fetched' /\ fetched' \in 0..MaxEntries
    BY <1>2, <1>t
  <2>2. rows' \in SUBSET (1..fetched')
    BY <1>2, <1>t, <2>1 DEF tableVars
  <2>3. FewInv'
    BY <1>2, <1>t, <2>1 DEF tableVars, FewInv, Serving
  <2> QED
    BY <1>2, <1>t, <2>1, <2>2, <2>3 DEF tableVars, SizeInv, NoOverrun
<1>3. CASE /\ fetched < MaxEntries
           /\ fetched' = fetched + 1
           /\ table_put(fetched + 1)
           /\ pc' = one
  <2>1. /\ block' \in Blocks /\ block_bytes' \in Nat
        /\ uuid_table_size' \in Nat /\ table_num_entries' \in Nat
        /\ rows' \in {rows, rows \cup {fetched + 1}}
        /\ block' = "here" => block = "here"
        /\ SizeInv'
    BY <1>3, TablePut
  <2>2. rows' \in SUBSET (1..fetched')
    <3>1. \A e \in 1..fetched : e \in 1..(fetched + 1)
      BY <1>t
    <3>2. fetched + 1 \in 1..(fetched + 1)
      BY <1>t
    <3> QED
      BY <1>3, <1>t, <2>1, <3>1, <3>2
  <2>3. FewInv'
    <3> SUFFICES ASSUME fetched + 1 <= InitSize
                 PROVE  /\ block' # "moved" /\ pc' # "crashed"
                        /\ uuid_table_size' = InitSize
                        /\ block' = "here"
                        /\ table_num_entries' = fetched + 1
                        /\ rows' = 1..(fetched + 1)
      BY <1>3 DEF FewInv
    <3>1. fetched <= InitSize
      BY <1>t
    <3>2. /\ uuid_table_size = InitSize /\ block = "here"
          /\ table_num_entries = fetched /\ rows = 1..fetched
      BY <3>1 DEF FewInv
    <3>3. /\ UNCHANGED <<block, uuid_table_size>>
          /\ table_num_entries' = table_num_entries + 1
          /\ rows' = rows \cup {fetched + 1}
      BY <1>3, <1>t, <3>2, TablePutRoom
    <3>4. rows' = 1..(fetched + 1)
      BY <1>t, <3>2, <3>3
    <3> QED
      BY <1>3, <3>2, <3>3, <3>4 DEF Serving
  <2>4. rows \subseteq rows'
    BY <2>1
  <2>5. fetched' \in 0..MaxEntries
    BY <1>3, <1>t
  <2> QED
    BY <1>3, <2>1, <2>2, <2>3, <2>4, <2>5
<1> QED
  BY <1>1, <1>2, <1>3 DEF get_new_entry

(* process_entry() marks a row or none.                                    *)
LEMMA ProcessEntry ==
  ASSUME TypeOK, NEW none, NEW one, process_entry(none, one)
  PROVE  /\ processed' \in SUBSET rows
         /\ pc' \in {none, one, "table_delete"}
BY DEF TypeOK, process_entry

-----------------------------------------------------------------------------
(* Every step preserves each part.  Steps that have the same effect on a   *)
(* part are taken together.                                                *)

StartStep == get_major_number \/ OpenKvm \/ CreateEventfd \/ OpenCdev \/ register_server
LeaveStep == Deregister \/ Close \/ SigInt \/ SigDeregister \/ SigClose \/ Corrupted
WaitStep == Select \/ ReadEventfd

(* The steps of Next, grouped.                                             *)
LEMMA NextGroups ==
  [Next]_vars => \/ StartStep \/ LeaveStep \/ WaitStep \/ table_init
                 \/ Drain \/ TakeEntry \/ ProcessAll \/ ProcessOne
                 \/ table_delete \/ Reload \/ UNCHANGED vars
BY DEF Next, StartStep, LeaveStep, WaitStep

(* What the first groups leave alone.                                      *)
LEMMA GroupFrame ==
  /\ StartStep \/ WaitStep \/ LeaveStep \/ Reload \/ UNCHANGED vars =>
        UNCHANGED <<block, block_bytes, uuid_table_size, table_num_entries, rows,
                    fetched, boot, processed>>
  /\ StartStep => pc \in Startup /\ pc' \in States
                    /\ pc' \in (Startup \ {"major"}) \cup {"exit", "close_efd"}
  /\ WaitStep => pc \in {"select", "read"}
                    /\ pc' \in {"take", "process_one", "table_delete"}
                    /\ (pc' = "take" => pc = "select")
                    /\ (pc' = "process_one" => pc = "read")
  /\ LeaveStep => pc' \in {"close", "close_efd", "exit", "sig_deregister",
                           "sig_close", "hung", "crashed"}
  /\ LeaveStep /\ pc' = "crashed" => block = "moved"
  /\ Reload \/ UNCHANGED vars => pc' = pc
<1>1. StartStep => /\ UNCHANGED <<block, block_bytes, uuid_table_size,
                        table_num_entries, rows, fetched, boot, processed>>
                   /\ pc \in Startup /\ pc' \in States
                   /\ pc' \in (Startup \ {"major"}) \cup {"exit", "close_efd"}
  BY DEF StartStep, get_major_number, OpenKvm, CreateEventfd, OpenCdev,
     register_server, startupUnchanged, tableVars, Startup, States, Leaving
<1>2. WaitStep => /\ UNCHANGED <<block, block_bytes, uuid_table_size,
                        table_num_entries, rows, fetched, boot, processed>>
                  /\ pc \in {"select", "read"}
                  /\ pc' \in {"take", "process_one", "table_delete"}
                  /\ (pc' = "take" => pc = "select")
                  /\ (pc' = "process_one" => pc = "read")
  BY DEF WaitStep, Select, ReadEventfd, tableVars
<1>3. LeaveStep => /\ UNCHANGED <<block, block_bytes, uuid_table_size,
                        table_num_entries, rows, fetched, boot, processed>>
                   /\ pc' \in {"close", "close_efd", "exit", "sig_deregister",
                               "sig_close", "hung", "crashed"}
                   /\ pc' = "crashed" => block = "moved"
  BY DEF LeaveStep, Deregister, Close, SigInt, SigDeregister, SigClose, Corrupted,
     leavingUnchanged, tableVars
<1>4. Reload \/ UNCHANGED vars =>
         /\ UNCHANGED <<block, block_bytes, uuid_table_size, table_num_entries,
                        rows, fetched, boot, processed>>
         /\ pc' = pc
  BY DEF Reload, tableVars, vars
<1> QED
  BY <1>1, <1>2, <1>3, <1>4

(* The table's memory and its rows.                                        *)
LEMMA TableStep ==
  TypeOK /\ SizeInv /\ StartInv /\ FewInv /\ [Next]_vars =>
      SizeInv' /\ StartInv' /\ FewInv'
<1> SUFFICES ASSUME TypeOK, SizeInv, StartInv, FewInv, [Next]_vars
             PROVE  SizeInv' /\ StartInv' /\ FewInv'
  OBVIOUS
<1> USE HostServerAssumption
<1>1. CASE StartStep
  <2>1. UNCHANGED <<block, block_bytes, uuid_table_size, table_num_entries, rows,
                    fetched, boot, processed>>
    BY <1>1, GroupFrame
  <2>2. pc \in Startup /\ pc' \in (Startup \ {"major"}) \cup {"exit", "close_efd"}
    BY <1>1, GroupFrame
  <2>3. pc' \notin Serving /\ pc' # "crashed"
    BY <2>2 DEF Startup, Serving
  <2> QED
    BY <2>1, <2>2, <2>3 DEF SizeInv, NoOverrun, StartInv, FewInv
<1>2. CASE WaitStep
  <2>1. UNCHANGED <<block, block_bytes, uuid_table_size, table_num_entries, rows,
                    fetched, boot, processed>>
    BY <1>2, GroupFrame
  <2>2. pc \in Serving /\ pc' \in {"take", "process_one", "table_delete"}
    BY <1>2, GroupFrame DEF Serving
  <2>3. pc' \notin Startup /\ pc' # "crashed"
    BY <2>2 DEF Startup
  <2> QED
    BY <2>1, <2>2, <2>3 DEF SizeInv, NoOverrun, StartInv, FewInv
<1>3. CASE LeaveStep
  <2>1. UNCHANGED <<block, block_bytes, uuid_table_size, table_num_entries, rows,
                    fetched, boot, processed>>
    BY <1>3, GroupFrame
  <2>2. pc' \notin Startup /\ pc' \notin Serving /\ (pc' = "crashed" => block = "moved")
    BY <1>3, GroupFrame DEF Startup, Serving
  <2> QED
    BY <2>1, <2>2 DEF SizeInv, NoOverrun, StartInv, FewInv
<1>4. CASE Reload \/ UNCHANGED vars
  <2>1. UNCHANGED <<block, block_bytes, uuid_table_size, table_num_entries, rows,
                    fetched, boot, processed, pc>>
    BY <1>4, GroupFrame
  <2> QED
    BY <2>1 DEF SizeInv, NoOverrun, StartInv, FewInv
<1>5. CASE table_init
  <2>1. /\ pc = "table_init" /\ pc' \in {"drain", "deregister"}
        /\ UNCHANGED <<uuid_table_size, rows, fetched>>
        /\ table_num_entries' = 0
        /\ \/ block' = "here" /\ block_bytes' = uuid_table_size * RowSize
           \/ UNCHANGED <<block, block_bytes>> /\ pc' = "deregister"
    BY <1>5 DEF table_init, startupUnchanged
  <2>2. fetched = 0 /\ rows = {} /\ block = "none"
    BY <2>1 DEF StartInv, Startup
  <2>3. uuid_table_size \in Nat /\ uuid_table_size * RowSize \in Nat
    BY DEF TypeOK
  <2>4. SizeInv'
    BY <2>1, <2>2, <2>3 DEF SizeInv, NoOverrun
  <2>5. StartInv'
    BY <2>1 DEF StartInv, Startup
  <2>6. rows = 1..fetched
    BY <2>2
  <2>7. FewInv'
    BY <2>1, <2>2, <2>6 DEF FewInv, Serving
  <2> QED
    BY <2>4, <2>5, <2>7
<1>6. CASE Drain \/ TakeEntry
  <2>1. PICK none \in {"process_all", "table_delete"}, one \in {"drain", "read"} :
           get_new_entry(none, one)
    BY <1>6 DEF Drain, TakeEntry
  <2>2. pc \in Serving /\ none \in States \ {"crashed"} /\ one \in Serving
    BY <1>6 DEF Drain, TakeEntry, Serving, States, Leaving
  <2>3. SizeInv' /\ FewInv' /\ pc' \in {none, one, "table_delete"}
    BY <2>1, <2>2, GetNewEntry
  <2>4. StartInv'
    BY <2>3 DEF StartInv, Startup
  <2> QED
    BY <2>3, <2>4
<1>7. CASE ProcessAll \/ ProcessOne
  <2>1. PICK none \in {"select", "table_delete"}, one \in {"process_all", "select"} :
           process_entry(none, one)
    BY <1>7 DEF ProcessAll, ProcessOne
  <2>2. pc \in Serving /\ UNCHANGED <<block, block_bytes, uuid_table_size,
                                      table_num_entries, rows, fetched, boot>>
    BY <1>7 DEF ProcessAll, ProcessOne, Serving, tableVars
  <2>3. pc' \in {none, one, "table_delete"}
    BY <2>1, ProcessEntry
  <2>4. pc' \notin Startup /\ pc' # "crashed"
    BY <2>3 DEF Startup
  <2> QED
    BY <2>2, <2>4 DEF SizeInv, NoOverrun, StartInv, FewInv
<1>8. CASE table_delete
  <2>1. /\ pc' = "deregister" /\ block' = (IF block = "here" THEN "none" ELSE block)
        /\ UNCHANGED <<block_bytes, uuid_table_size, table_num_entries, rows, fetched>>
    BY <1>8 DEF table_delete, leavingUnchanged
  <2>2. StartInv'
    BY <2>1 DEF StartInv, Startup
  <2>3. SizeInv'
    BY <2>1 DEF SizeInv, NoOverrun
  <2>4. FewInv'
    BY <2>1 DEF FewInv, Serving
  <2> QED
    BY <2>2, <2>3, <2>4
<1> QED
  BY <1>1, <1>2, <1>3, <1>4, <1>5, <1>6, <1>7, <1>8, NextGroups

(* The types.                                                              *)
LEMMA TypeStep ==
  TypeOK /\ SizeInv /\ StartInv /\ FewInv /\ [Next]_vars => TypeOK'
<1> SUFFICES ASSUME TypeOK, SizeInv, StartInv, FewInv, [Next]_vars PROVE TypeOK'
  OBVIOUS
<1> DEFINE Control ==
      /\ pc' \in States /\ interrupted' \in {"allocator", "elsewhere"}
      /\ held' \in SUBSET Resource /\ proxy_major' \in Major
      /\ major' \in Major \cup {-1}
<1>0. Control
  <2> USE DEF TypeOK, States, Startup, Serving, Leaving, Handler, Resource,
              startupUnchanged, serviceUnchanged, leavingUnchanged
  <2>1. CASE get_major_number \/ OpenKvm \/ CreateEventfd \/ OpenCdev
    BY <2>1 DEF get_major_number, OpenKvm, CreateEventfd, OpenCdev
  <2>2. CASE register_server \/ table_init
    BY <2>2 DEF register_server, table_init
  <2>3. CASE Drain \/ TakeEntry
    BY <2>3 DEF Drain, TakeEntry, get_new_entry
  <2>4. CASE ProcessAll \/ ProcessOne
    BY <2>4 DEF ProcessAll, ProcessOne, process_entry
  <2>5. CASE Select \/ ReadEventfd \/ table_delete \/ Deregister \/ Close
    BY <2>5 DEF Select, ReadEventfd, table_delete, Deregister, Deregistered, Close
  <2>6. CASE SigInt \/ SigDeregister \/ SigClose \/ Corrupted
    BY <2>6 DEF SigInt, SigDeregister, Deregistered, SigClose, Corrupted
  <2>7. CASE Reload \/ UNCHANGED vars
    BY <2>7 DEF Reload, vars
  <2> QED
    BY <2>1, <2>2, <2>3, <2>4, <2>5, <2>6, <2>7 DEF Next
<1>1. ASSUME UNCHANGED <<block, block_bytes, uuid_table_size, table_num_entries,
                         rows, fetched, boot, processed>>
      PROVE  TypeOK'
  BY <1>0, <1>1 DEF TypeOK
<1>2. CASE StartStep \/ WaitStep \/ LeaveStep \/ Reload \/ UNCHANGED vars
  BY <1>1, <1>2, GroupFrame
<1>3. CASE table_init
  <2>1. uuid_table_size * RowSize \in Nat
    BY HostServerAssumption DEF TypeOK
  <2> QED
    BY <1>0, <1>3, <2>1 DEF table_init, startupUnchanged, TypeOK, Blocks
<1>4. CASE Drain \/ TakeEntry
  <2>1. PICK none \in {"process_all", "table_delete"}, one \in {"drain", "read"} :
           get_new_entry(none, one)
    BY <1>4 DEF Drain, TakeEntry
  <2>2. pc \in Serving /\ none \in States \ {"crashed"} /\ one \in Serving
    BY <1>4 DEF Drain, TakeEntry, Serving, States, Leaving
  <2>3. /\ block' \in Blocks /\ block_bytes' \in Nat
        /\ uuid_table_size' \in Nat /\ table_num_entries' \in Nat
        /\ fetched' \in 0..MaxEntries
        /\ rows' \in SUBSET (1..fetched') /\ rows \subseteq rows'
    BY <2>1, <2>2, GetNewEntry
  <2>4. processed' \in SUBSET rows'
    BY <1>4, <2>3 DEF Drain, TakeEntry, TypeOK
  <2>5. fetched <= fetched'
    BY <2>1 DEF get_new_entry, TypeOK
  <2>6. boot' \in 0..fetched'
    BY <1>4, <2>3, <2>5, HostServerAssumption DEF Drain, TakeEntry, TypeOK
  <2> QED
    BY <1>0, <2>3, <2>4, <2>6 DEF TypeOK
<1>5. CASE ProcessAll \/ ProcessOne
  <2>1. PICK none \in {"select", "table_delete"}, one \in {"process_all", "select"} :
           process_entry(none, one)
    BY <1>5 DEF ProcessAll, ProcessOne
  <2>2. UNCHANGED <<block, block_bytes, uuid_table_size, table_num_entries, rows,
                    fetched, boot>>
    BY <1>5 DEF ProcessAll, ProcessOne, tableVars
  <2>3. processed' \in SUBSET rows'
    BY <2>1, <2>2, ProcessEntry
  <2> QED
    BY <1>0, <2>2, <2>3 DEF TypeOK
<1>6. CASE table_delete
  BY <1>0, <1>6 DEF table_delete, leavingUnchanged, TypeOK, Blocks
<1> QED
  BY <1>2, <1>3, <1>4, <1>5, <1>6, NextGroups

(* Which entries have a row, and which rows are processed, in the loops.   *)
LEMMA LoopStep ==
  TypeOK /\ SizeInv /\ StartInv /\ FewInv /\ LoopInv /\ [Next]_vars => LoopInv'
<1> SUFFICES ASSUME TypeOK, SizeInv, StartInv, FewInv, LoopInv, [Next]_vars,
                    block' = "here"
             PROVE  /\ pc' = "drain" => boot' = fetched'
                    /\ pc' \in {"process_all", "select", "take"} => KeptUpTo(fetched)'
                    /\ pc' \in {"select", "take"} => processed' = rows'
                    /\ pc' \in {"read", "process_one"} =>
                          /\ KeptUpTo(fetched - 1)'
                          /\ rows' \ processed' \subseteq {fetched'}
  BY DEF LoopInv
<1>t. /\ fetched \in 0..MaxEntries /\ boot \in 0..fetched
      /\ rows \in SUBSET (1..fetched) /\ processed \in SUBSET rows /\ MaxEntries \in Nat
  BY HostServerAssumption DEF TypeOK
<1>1. CASE StartStep \/ LeaveStep
  BY <1>1, GroupFrame DEF Startup
<1>2. CASE table_delete
  BY <1>2 DEF table_delete
<1>3. CASE Reload \/ UNCHANGED vars
  <2>1. UNCHANGED <<pc, block, rows, fetched, boot, processed>>
    BY <1>3, GroupFrame
  <2> QED
    BY <2>1 DEF LoopInv, KeptUpTo
<1>4. CASE WaitStep
  <2>1. UNCHANGED <<block, rows, fetched, boot, processed>>
    BY <1>4, GroupFrame
  <2>2. \/ pc = "select" /\ pc' = "take"
        \/ pc = "read" /\ pc' = "process_one"
        \/ pc' = "table_delete"
    BY <1>4, GroupFrame
  <2> QED
    BY <2>1, <2>2 DEF LoopInv, KeptUpTo
<1>5. CASE table_init
  <2>1. fetched = 0 /\ boot = 0 /\ pc' \in {"drain", "deregister"}
        /\ UNCHANGED <<fetched, boot>>
    BY <1>5 DEF table_init, startupUnchanged, StartInv, Startup
  <2> QED
    BY <2>1
<1>6. CASE Drain \/ TakeEntry
  <2>1. PICK none \in {"process_all", "table_delete"}, one \in {"drain", "read"} :
           get_new_entry(none, one)
    BY <1>6 DEF Drain, TakeEntry
  <2>2. pc \in Serving /\ none \in States \ {"crashed"} /\ one \in Serving
    BY <1>6 DEF Drain, TakeEntry, Serving, States, Leaving
  <2>3. /\ fetched' \in 0..MaxEntries /\ block = "here" /\ rows \subseteq rows'
        /\ rows' \in SUBSET (1..fetched')
    BY <2>1, <2>2, GetNewEntry
  <2>4. CASE Drain
    <3>1. boot' = fetched' /\ pc' \in {"process_all", "drain", "table_delete"}
      BY <2>4 DEF Drain, get_new_entry
    <3>2. KeptUpTo(fetched)'
      BY <2>3, <3>1, <1>t DEF KeptUpTo
    <3> QED
      BY <3>1, <3>2
  <2>5. CASE TakeEntry
    <3>1. /\ boot' = boot /\ processed' = processed
          /\ pc = "take" /\ pc' \in {"table_delete", "read"}
          /\ pc' = "read" => fetched' = fetched + 1 /\ table_put(fetched + 1)
                               /\ fetched < MaxEntries
      BY <2>5 DEF TakeEntry, get_new_entry
    <3>2. CASE pc' = "read"
      <4>1. rows' \in {rows, rows \cup {fetched + 1}}
        BY <3>1, <3>2, TablePut
      <4>2. processed = rows /\ KeptUpTo(fetched)
        BY <2>3, <3>1 DEF LoopInv
      <4>3. rows' \ processed' \subseteq {fetched'}
        BY <3>1, <3>2, <4>1, <4>2
      <4>4. fetched' - 1 = fetched
        BY <1>t, <3>1, <3>2
      <4>5. KeptUpTo(fetched - 1)'
        BY <2>3, <3>1, <4>2, <4>4 DEF KeptUpTo
      <4> QED
        BY <3>2, <4>3, <4>5
    <3>3. CASE pc' = "table_delete"
      BY <3>3
    <3> QED
      BY <3>1, <3>2, <3>3
  <2> QED
    BY <1>6, <2>4, <2>5
<1>7. CASE ProcessAll
  <2>1. /\ pc = "process_all" /\ process_entry("select", "process_all")
        /\ UNCHANGED <<block, rows, fetched, boot>>
    BY <1>7 DEF ProcessAll, tableVars
  <2>2. KeptUpTo(fetched)'
    BY <2>1 DEF LoopInv, KeptUpTo
  <2>3. /\ pc' \in {"select", "process_all", "table_delete"}
        /\ pc' = "select" => processed' = rows'
    BY <2>1 DEF process_entry
  <2> QED
    BY <2>2, <2>3
<1>8. CASE ProcessOne
  <2>1. /\ pc = "process_one" /\ process_entry("table_delete", "select")
        /\ UNCHANGED <<block, rows, fetched, boot>>
    BY <1>8 DEF ProcessOne, tableVars
  <2>2. pc' \in {"select", "table_delete"}
    BY <2>1, ProcessEntry
  <2>3. KeptUpTo(fetched - 1) /\ rows \ processed \subseteq {fetched}
    BY <2>1 DEF LoopInv
  <2>4. CASE pc' = "select"
    <3>1. PICK e \in rows \ processed : processed' = processed \cup {e}
      BY <2>1, <2>4 DEF process_entry
    <3>2. e = fetched /\ fetched \in rows
      BY <2>3, <3>1
    <3>3. processed' = rows'
      BY <1>t, <2>1, <2>3, <3>1, <3>2
    <3>4. \A d \in 1..fetched : d \in 1..(fetched - 1) \/ d = fetched
      BY <1>t
    <3>5. KeptUpTo(fetched)'
      BY <2>1, <2>3, <3>2, <3>4 DEF KeptUpTo
    <3> QED
      BY <2>4, <3>3, <3>5
  <2>5. CASE pc' = "table_delete"
    BY <2>5
  <2> QED
    BY <2>2, <2>4, <2>5
<1> QED
  BY <1>1, <1>2, <1>3, <1>4, <1>5, <1>6, <1>7, <1>8, NextGroups

(* The registration: made and ended while the ioctls are understood.       *)
LEMMA RegStep == TypeOK /\ RegInv /\ [Next]_vars => RegInv'
<1> SUFFICES ASSUME TypeOK, RegInv, [Next]_vars PROVE RegInv'
  OBVIOUS
<1> USE DEF RegInv, NumbersAgree, IoctlUnderstood
<1>1. CASE get_major_number \/ OpenKvm \/ CreateEventfd \/ OpenCdev
  BY <1>1 DEF get_major_number, OpenKvm, CreateEventfd, OpenCdev, startupUnchanged
<1>2. CASE register_server \/ table_init
  BY <1>2 DEF register_server, table_init, startupUnchanged
<1>3. CASE Drain \/ TakeEntry
  BY <1>3 DEF Drain, TakeEntry, get_new_entry, serviceUnchanged
<1>4. CASE ProcessAll \/ ProcessOne
  BY <1>4 DEF ProcessAll, ProcessOne, process_entry, serviceUnchanged
<1>5. CASE Select \/ ReadEventfd
  BY <1>5 DEF Select, ReadEventfd, serviceUnchanged
<1>6. CASE table_delete
  BY <1>6 DEF table_delete, leavingUnchanged
<1>7. CASE Deregister \/ SigDeregister
  BY <1>7 DEF Deregister, SigDeregister, Deregistered, leavingUnchanged
<1>8. CASE Close \/ SigClose
  BY <1>8 DEF Close, SigClose, leavingUnchanged
<1>9. CASE SigInt
  BY <1>9 DEF SigInt
<1>10. CASE Corrupted
  BY <1>10 DEF Corrupted, leavingUnchanged
<1>11. CASE Reload
  BY <1>11 DEF Reload
<1>12. CASE UNCHANGED vars
  BY <1>12 DEF vars
<1> QED
  BY <1>1, <1>2, <1>3, <1>4, <1>5, <1>6, <1>7, <1>8, <1>9, <1>10, <1>11, <1>12
  DEF Next

(* ServerInv is an invariant of the process.                               *)
LEMMA ServerInvariant == Spec => []ServerInv
<1>1. ServerInv /\ [Next]_vars => ServerInv'
  BY TableStep, TypeStep, LoopStep, RegStep DEF ServerInv
<1> QED
  BY <1>1, ServerInit, PTL DEF Spec

-----------------------------------------------------------------------------

(* The process keeps its types: in particular uuid_table_size never turns  *)
(* negative, and only rows that exist are processed.                       *)
THEOREM TypeCorrect == Spec => []TypeOK
<1>1. ServerInv => TypeOK
  BY DEF ServerInv
<1> QED
  BY <1>1, ServerInvariant, PTL

(* While uuid_table points to its memory, the rows fit in it: the overflow *)
(* of int in table_put() yields a size that realloc() refuses, never a     *)
(* smaller table, whatever the sizes of a row and of int.                  *)
THEOREM RowsFit == Spec => []NoOverrun
<1>1. ServerInv => NoOverrun
  BY DEF ServerInv, SizeInv
<1> QED
  BY <1>1, ServerInvariant, PTL

(* With up to InitSize entries the table has each of them and no freed     *)
(* memory is used.                                                         *)
THEOREM TableExact == Spec => []ExactBelowLimit
<1>1. ServerInv => ExactBelowLimit
  BY DEF ServerInv, FewInv, ExactBelowLimit
<1> QED
  BY <1>1, ServerInvariant, PTL

(* A waiting server has processed its rows and every entry that a wakeup   *)
(* brought, whatever table_put() made of it.                               *)
THEOREM NothingPutOff == Spec => []WakeupLosesNothing
<1>1. ASSUME ServerInv, pc = "select", block = "here"
      PROVE  /\ processed = rows
             /\ \A e \in 1..fetched : e > boot => e \in processed
  <2>1. processed = rows /\ KeptUpTo(fetched)
    BY <1>1 DEF ServerInv, LoopInv
  <2>2. fetched \in Nat /\ boot \in Nat
    BY <1>1, HostServerAssumption DEF ServerInv, TypeOK
  <2> QED
    BY <2>1, <2>2 DEF KeptUpTo
<1>2. ServerInv => WakeupLosesNothing
  BY <1>1 DEF WakeupLosesNothing
<1> QED
  BY <1>2, ServerInvariant, PTL

(* The proxy understands the ioctls of a registered server.                *)
THEOREM RegisteredIsUnderstood == Spec => []NumbersAgree
<1>1. ServerInv => NumbersAgree
  BY DEF ServerInv, RegInv
<1> QED
  BY <1>1, ServerInvariant, PTL

(* No exit of main() and no end of the SIGINT handler, a hang included,    *)
(* leaves the registration behind.                                         *)
THEOREM ExitDeregisters == Spec => []RegistrationEnds
<1>1. ServerInv => RegistrationEnds
  BY DEF ServerInv, RegInv, RegistrationEnds
<1> QED
  BY <1>1, ServerInvariant, PTL

-----------------------------------------------------------------------------
(* The process as an implementation of RowService.                         *)

(* A server that left service does not come back to it.                    *)
LEMMA DownForGood == TypeOK /\ [Next]_vars /\ Up' => Up
<1> SUFFICES ASSUME TypeOK, [Next]_vars, Up' PROVE Up
  OBVIOUS
<1> USE DEF Up, Startup, Serving
<1>1. CASE StartStep \/ WaitStep \/ Reload \/ UNCHANGED vars
  BY <1>1, GroupFrame
<1>2. CASE LeaveStep
  BY <1>2, GroupFrame
<1>3. CASE table_init \/ Drain \/ TakeEntry \/ ProcessAll \/ ProcessOne
  BY <1>3 DEF table_init, Drain, TakeEntry, ProcessAll, ProcessOne
<1>4. CASE table_delete
  BY <1>4 DEF table_delete
<1> QED
  BY <1>1, <1>2, <1>3, <1>4, NextGroups

(* get_new_entry() that keeps the server up fetches one entry or none.     *)
LEMMA FetchStep ==
  ASSUME Drain \/ TakeEntry, Up'
  PROVE  UNCHANGED processed /\ fetched' \in {fetched, fetched + 1}
BY DEF Drain, TakeEntry, get_new_entry

(* process_entry() that keeps the server up processes the first entry that *)
(* is not processed, or nothing.                                           *)
LEMMA ProcessStep ==
  ASSUME ServerInv, fetched <= InitSize, ProcessAll \/ ProcessOne
  PROVE  /\ UNCHANGED fetched
         /\ \/ UNCHANGED processed
            \/ \E e \in 1..fetched : /\ e \notin processed
                                     /\ 1..(e - 1) \subseteq processed
                                     /\ processed' = processed \cup {e}
<1>1. block = "here" /\ rows = 1..fetched /\ fetched \in Nat
  BY DEF ServerInv, FewInv, TypeOK, ProcessAll, ProcessOne, Serving
<1>2. UNCHANGED fetched /\ \E none, one \in States : process_entry(none, one)
  BY DEF ProcessAll, ProcessOne, States, Serving, Leaving
<1>3. PICK none \in States, one \in States : process_entry(none, one)
  BY <1>2
<1>4. CASE UNCHANGED processed
  BY <1>2, <1>4
<1>5. ASSUME NEW e \in rows \ processed, \A d \in rows \ processed : e <= d,
             processed' = processed \cup {e}
      PROVE  /\ e \in 1..fetched /\ e \notin processed
             /\ 1..(e - 1) \subseteq processed
  <2>1. e \in 1..fetched /\ e \notin processed
    BY <1>1
  <2>2. ASSUME NEW d \in 1..(e - 1) PROVE d \in processed
    BY <1>1, <1>5, <2>1
  <2> QED
    BY <2>1, <2>2
<1> QED
  BY <1>2, <1>3, <1>4, <1>5 DEF process_entry

(* Below the limit each step of the process is a step of RowService or     *)
(* leaves it alone.                                                        *)
LEMMA RowServiceStep ==
  ServerInv /\ [Next]_vars => [fetched' <= InitSize => [R!Next]_(R!rvars)]_vars
<1> SUFFICES ASSUME ServerInv, [Next]_vars, fetched' <= InitSize
             PROVE  [R!Next]_(R!rvars)
  OBVIOUS
<1>t. TypeOK /\ fetched \in Nat
  BY DEF ServerInv, TypeOK
<1>1. CASE ~Up'
  <2>1. CASE ~Up
    BY <1>1, <2>1 DEF R!rvars
  <2>2. CASE Up
    <3>1. R!Stop
      BY <1>1, <2>2 DEF R!Stop
    <3> QED
      BY <3>1 DEF R!Next
  <2> QED
    BY <2>1, <2>2
<1>2. CASE Up'
  <2>1. Up
    BY <1>2, <1>t, DownForGood
  <2>2. CASE UNCHANGED <<fetched, processed>>
    BY <1>2, <2>1, <2>2 DEF R!rvars
  <2>3. CASE fetched' = fetched + 1 /\ UNCHANGED processed
    <3>1. R!Receive
      BY <1>2, <2>1, <2>3 DEF R!Receive
    <3> QED
      BY <3>1 DEF R!Next
  <2>4. CASE Drain \/ TakeEntry
    BY <1>2, <2>2, <2>3, <2>4, FetchStep
  <2>5. CASE ProcessAll \/ ProcessOne
    <3>1. UNCHANGED fetched
      BY <2>5 DEF ProcessAll, ProcessOne
    <3>2. \/ UNCHANGED processed
          \/ \E e \in 1..fetched : /\ e \notin processed
                                   /\ 1..(e - 1) \subseteq processed
                                   /\ processed' = processed \cup {e}
      BY <2>5, <3>1, ProcessStep
    <3>3. CASE \E e \in 1..fetched : /\ e \notin processed
                                     /\ 1..(e - 1) \subseteq processed
                                     /\ processed' = processed \cup {e}
      <4>1. R!Serve
        BY <1>2, <2>1, <3>1, <3>3 DEF R!Serve
      <4> QED
        BY <4>1 DEF R!Next
    <3> QED
      BY <2>2, <3>1, <3>2, <3>3
  <2>6. CASE \/ StartStep \/ WaitStep \/ LeaveStep \/ Reload \/ UNCHANGED vars
             \/ table_init \/ table_delete
    <3>1. UNCHANGED <<fetched, processed>>
      BY <2>6, GroupFrame
      DEF table_init, table_delete, startupUnchanged, leavingUnchanged
    <3> QED
      BY <2>2, <3>1
  <2> QED
    BY <2>4, <2>5, <2>6, NextGroups
<1> QED
  BY <1>1, <1>2

(* main(), with every error exit and a SIGINT at any point, processes the  *)
(* entries it fetched in order, each once, or goes down, as long as the    *)
(* table need not grow.                                                    *)
THEOREM ImplementsRowService == Spec => RowServiceBelowLimit
<1>1. Init => R!Init
  BY DEF Init, R!Init, Up, Startup
<1> QED
  BY <1>1, ServerInvariant, RowServiceStep, PTL DEF Spec, RowServiceBelowLimit
=============================================================================
