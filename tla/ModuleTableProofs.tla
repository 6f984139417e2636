------------------------- MODULE ModuleTableProofs --------------------------
(***************************************************************************)
(* Proofs about ModuleTable, for any insmods, requests and initial size.   *)
(***************************************************************************)
EXTENDS ModuleTable, TLAPS

(* table_put() leaves the entries alone or appends its own.                *)
LEMMA PutEntries ==
  ASSUME TypeOK, NEW m \in Insmod, table_put(m)
  PROVE  /\ entries' \in Seq(Insmod)
         /\ Len(entries') >= Len(entries)
         /\ \A k \in 1..Len(entries) : entries'[k] = entries[k]
<1>1. entries' = entries \/ entries' = Append(entries, m)
  BY DEF table_put, krealloc, blockVars
<1>2. CASE entries' = entries
  BY <1>2 DEF TypeOK
<1>3. CASE entries' = Append(entries, m)
  BY <1>3 DEF TypeOK
<1> QED
  BY <1>1, <1>2, <1>3

(* Reading an entry gives one of the uuids put, or bytes of no meaning.    *)
LEMMA ContentType ==
  ASSUME TypeOK, NEW q \in Pointer
  PROVE  Content(q) \subseteq Insmod \cup {Garbage}
<1>1. q.idx \in Nat
  BY DEF Pointer
<1>2. ASSUME q.idx < Len(entries) PROVE entries[q.idx + 1] \in Insmod
  BY <1>1, <1>2 DEF TypeOK
<1> QED
  BY <1>2 DEF Content, table_num_entries

(* Appending a number to a sequence of numbers.                            *)
LEMMA AppendNat ==
  ASSUME NEW h \in Seq(Nat), NEW k \in Nat
  PROVE  Append(h, k) \in Seq(Nat)
OBVIOUS

(* Every step preserves the type invariant.                                *)
LEMMA TypeStep == TypeOK /\ [Next]_vars => TypeOK'
<1> SUFFICES ASSUME TypeOK, [Next]_vars PROVE TypeOK'
  OBVIOUS
<1> USE ModuleTableAssumption DEF TypeOK, table_num_entries, blockVars
<1>1. ASSUME NEW m \in Insmod, table_put(m) PROVE TypeOK'
  <2>1. status' \in [Insmod -> {"idle", "put", "error"}]
    BY <1>1 DEF table_put, krealloc, Put
  <2>2. /\ module_table' \in {last_block', None}
        /\ last_block' \in Nat
        /\ table_size' \in Nat
    BY <1>1 DEF table_put, krealloc
  <2>3. entries' \in Seq(Insmod) /\ Len(entries') >= Len(entries)
    BY <1>1, PutEntries
  <2>4. table_index' \in -1..(Len(entries') - 1)
    BY <1>1, <2>3 DEF table_put
  <2> QED
    BY <1>1, <2>1, <2>2, <2>3, <2>4 DEF table_put
<1>2. ASSUME NEW r \in Request, table_pop(r) PROVE TypeOK'
  <2>1. CASE HasPending
    <3>1. table_index + 1 \in Nat /\ table_index' \in -1..(Len(entries') - 1)
      BY <1>2, <2>1 DEF table_pop, HasPending
    <3>2. [block |-> module_table, idx |-> table_index + 1] \in Pointer
      BY <3>1 DEF Pointer
    <3>3. p' \in [Request -> Pointer]
      BY <1>2, <2>1, <3>2 DEF table_pop
    <3> QED
      BY <1>2, <2>1, <3>1, <3>3 DEF table_pop, Goto
  <2>2. CASE ~HasPending
    BY <1>2, <2>2 DEF table_pop, Goto
  <2> QED
    BY <2>1, <2>2
<1>3. ASSUME NEW r \in Request, ReadEntry(r) PROVE TypeOK'
  <2>1. Content(p[r]) \subseteq Insmod \cup {Garbage}
    BY ContentType
  <2>2. uuid' \in [Request -> Insmod \cup {Garbage, None}]
    BY <1>3, <2>1 DEF ReadEntry
  <2>3. handed' \in Seq(Nat)
    <3>1. p[r].idx \in Nat
      BY DEF Pointer
    <3>2. handed' = handed \/ handed' = Append(handed, p[r].idx)
      BY <1>3 DEF ReadEntry
    <3>3. Append(handed, p[r].idx) \in Seq(Nat) /\ handed \in Seq(Nat)
      BY <3>1, AppendNat
    <3> QED
      BY <3>2, <3>3, Zenon
  <2> QED
    BY <1>3, <2>2, <2>3 DEF ReadEntry, Goto
<1>4. ASSUME NEW r \in Request, table_pop_reverse(r) PROVE TypeOK'
  BY <1>4 DEF table_pop_reverse, Goto
<1>5. ASSUME NEW r \in Request, table_get_copy(r) PROVE TypeOK'
  BY <1>5 DEF table_get_copy, NoCopy, Search, Goto
<1>6. CASE UNCHANGED vars
  BY <1>6 DEF vars
<1> QED
  BY <1>1, <1>2, <1>3, <1>4, <1>5, <1>6 DEF Next

(* The table starts well typed.                                            *)
LEMMA TypeInit == Init => TypeOK
<1> SUFFICES ASSUME Init PROVE TypeOK
  OBVIOUS
<1>1. p \in [Request -> Pointer]
  BY DEF Init, Pointer
<1> QED
  BY <1>1, ModuleTableAssumption DEF Init, TypeOK, table_num_entries

-----------------------------------------------------------------------------
(* The size only grows, and the table pointer is lost only at a full table *)
SizeInv ==
    /\ NeverOverfull
    /\ InitSize <= table_size
    /\ module_table = None => InitSize <= table_num_entries

(* What a request's pointer and its copy of a uuid can be.                 *)
PtrInv ==
    /\ \A r \in Request : Inside(r) => p[r].idx < table_num_entries
    /\ \A r \in Request : p[r].block # None => p[r].block <= last_block
    /\ \A r \in Request : Inside(r) /\ p[r].block = None => module_table = None
    /\ \A r \in Request : pc[r] = "start" => uuid[r] = None
    /\ \A r \in Request : uuid[r] # None =>
          /\ p[r].block # None
          /\ p[r].idx < table_num_entries
          /\ p[r].block = last_block => uuid[r] = entries[p[r].idx + 1]
    /\ table_mutex # None => module_table = None

(* Putting and growing keep the bounds.                                    *)
LEMMA SizeStep == TypeOK /\ SizeInv /\ [Next]_vars => SizeInv'
<1> SUFFICES ASSUME TypeOK, SizeInv, [Next]_vars PROVE SizeInv'
  OBVIOUS
<1> USE ModuleTableAssumption DEF TypeOK, SizeInv, NeverOverfull,
        table_num_entries, blockVars
<1>1. ASSUME NEW m \in Insmod, table_put(m) PROVE SizeInv'
  BY <1>1 DEF table_put, krealloc
<1>2. ASSUME NEW r \in Request,
             \/ table_pop(r) \/ ReadEntry(r) \/ table_pop_reverse(r)
             \/ table_get_copy(r)
      PROVE  SizeInv'
  BY <1>2 DEF table_pop, ReadEntry, table_pop_reverse, table_get_copy
<1>3. CASE UNCHANGED vars
  BY <1>3 DEF vars
<1> QED
  BY <1>1, <1>2, <1>3 DEF Next

(* Pointers stay within what was put, and a uuid is wrong only after a     *)
(* move.                                                                   *)
LEMMA PtrStep == TypeOK /\ PtrInv /\ [Next]_vars => PtrInv'
<1> SUFFICES ASSUME TypeOK, PtrInv, [Next]_vars PROVE PtrInv'
  OBVIOUS
<1> USE ModuleTableAssumption DEF TypeOK, table_num_entries, blockVars, Inside
<1>0. \A r \in Request : p[r].idx \in Nat /\ p[r].block \in Nat \cup {None}
  BY DEF Pointer
<1>1. ASSUME NEW m \in Insmod, table_put(m) PROVE PtrInv'
  <2>1. /\ Len(entries') >= Len(entries)
        /\ \A k \in 1..Len(entries) : entries'[k] = entries[k]
    BY <1>1, PutEntries
  <2>2. /\ last_block' \in Nat /\ last_block' >= last_block
        /\ module_table = None => module_table' = None /\ last_block' = last_block
        /\ UNCHANGED <<pc, p, uuid, table_mutex>>
    BY <1>1 DEF table_put, krealloc
  <2> QED
    <3>1. ASSUME NEW r \in Request, uuid'[r] # None
          PROVE  /\ p'[r].block # None
                 /\ p'[r].idx < Len(entries')
                 /\ p'[r].block = last_block' => uuid'[r] = entries'[p'[r].idx + 1]
      <4>1. /\ p[r].block \in Nat /\ p[r].block <= last_block
            /\ p[r].idx \in Nat /\ p[r].idx < Len(entries)
            /\ p[r].block = last_block => uuid[r] = entries[p[r].idx + 1]
        BY <1>0, <2>2, <3>1 DEF PtrInv
      <4>2. entries'[p[r].idx + 1] = entries[p[r].idx + 1]
        <5>1. p[r].idx + 1 \in 1..Len(entries)
          BY <4>1
        <5> QED
          BY <2>1, <5>1
      <4>3. Len(entries') \in Nat
        BY <1>1, PutEntries
      <4> QED
        BY <2>1, <2>2, <4>1, <4>2, <4>3
    <3>2. ASSUME NEW r \in Request, Inside(r)' PROVE p'[r].idx < Len(entries')
      BY <1>0, <2>1, <2>2, <3>2 DEF PtrInv
    <3>3. ASSUME NEW r \in Request, p'[r].block # None
          PROVE  p'[r].block <= last_block'
      BY <1>0, <2>2, <3>3 DEF PtrInv
    <3> QED
      BY <2>2, <3>1, <3>2, <3>3 DEF PtrInv
<1>2. ASSUME NEW r \in Request, table_pop(r) PROVE PtrInv'
  <2>1. CASE HasPending
    <3>1. /\ p'[r] = [block |-> module_table, idx |-> table_index + 1]
          /\ \A q \in Request \ {r} : p'[q] = p[q] /\ pc'[q] = pc[q]
          /\ pc'[r] # "start"
          /\ uuid[r] = None
      BY <1>2, <2>1 DEF table_pop, Goto, PtrInv
    <3> QED
      <4>1. UNCHANGED <<blockVars, uuid, table_mutex>> /\ table_mutex = None
        BY <1>2 DEF table_pop
      <4>2. /\ table_index + 1 < Len(entries)
            /\ module_table # None => module_table <= last_block
        BY <2>1 DEF HasPending
      <4>3. ASSUME NEW q \in Request
            PROVE  /\ Inside(q)' => p'[q].idx < Len(entries)
                   /\ p'[q].block # None => p'[q].block <= last_block
                   /\ Inside(q)' /\ p'[q].block = None => module_table = None
                   /\ pc'[q] = "start" => uuid[q] = None
                   /\ uuid[q] # None =>
                         /\ p'[q].block # None
                         /\ p'[q].idx < Len(entries)
                         /\ p'[q].block = last_block =>
                               uuid[q] = entries[p'[q].idx + 1]
        <5>1. CASE q = r
          BY <3>1, <4>2, <5>1
        <5>2. CASE q # r
          BY <3>1, <5>2 DEF PtrInv
        <5> QED
          BY <5>1, <5>2
      <4> QED
        BY <4>1, <4>3 DEF PtrInv
  <2>2. CASE ~HasPending
    BY <1>2, <2>2 DEF table_pop, Goto, PtrInv
  <2> QED
    BY <2>1, <2>2
<1>3. ASSUME NEW r \in Request, ReadEntry(r) PROVE PtrInv'
  <2>1. CASE p[r].block = None
    BY <1>3, <2>1 DEF ReadEntry, Goto, PtrInv
  <2>2. CASE p[r].block # None
    <3>1. PICK u \in Content(p[r]) : uuid' = [uuid EXCEPT ![r] = u]
      BY <1>3, <2>2 DEF ReadEntry
    <3>2. p[r].idx < Len(entries)
      BY <1>3 DEF ReadEntry, PtrInv
    <3>3. p[r].block = last_block => u = entries[p[r].idx + 1]
      BY <3>1, <3>2 DEF Content
    <3> QED
      BY <1>0, <1>3, <2>2, <3>1, <3>2, <3>3 DEF ReadEntry, Goto, PtrInv
  <2> QED
    BY <2>1, <2>2
<1>4. ASSUME NEW r \in Request, table_pop_reverse(r) PROVE PtrInv'
  BY <1>4 DEF table_pop_reverse, Goto, PtrInv
<1>5. ASSUME NEW r \in Request, table_get_copy(r) PROVE PtrInv'
  BY <1>5 DEF table_get_copy, NoCopy, Search, Goto, PtrInv
<1>6. CASE UNCHANGED vars
  BY <1>6 DEF vars, PtrInv
<1> QED
  BY <1>1, <1>2, <1>3, <1>4, <1>5, <1>6 DEF Next

TableInv == TypeOK /\ SizeInv /\ PtrInv

(* The bounds of the table and of the pointers into it always hold.        *)
LEMMA TableInvariant == Spec => []TableInv
<1>1. Init => TableInv
  <2> SUFFICES ASSUME Init PROVE TableInv
    OBVIOUS
  <2>1. SizeInv
    BY ModuleTableAssumption DEF Init, SizeInv, NeverOverfull, table_num_entries
  <2>2. PtrInv
    BY DEF Init, PtrInv, Inside
  <2> QED
    BY TypeInit, <2>1, <2>2 DEF TableInv
<1>2. TableInv /\ [Next]_vars => TableInv'
  BY TypeStep, SizeStep, PtrStep DEF TableInv
<1> QED
  BY <1>1, <1>2, PTL DEF Spec

(* The table, its index and what requests got keep their types through     *)
(* every growth, move and failure.                                         *)
THEOREM TypeCorrect == Spec => []TypeOK
BY TypeInit, TypeStep, PTL DEF Spec

(* table_put() never reaches its "should never happen" branch.             *)
THEOREM TableNeverOverfull == Spec => []NeverOverfull
<1>1. TableInv => NeverOverfull
  BY DEF TableInv, SizeInv
<1> QED
  BY TableInvariant, <1>1, PTL

(* A request reads a wrong uuid only after the table moved, and table_mutex *)
(* is stuck, or a pointer wild, only after a failed krealloc().             *)
THEOREM ExactUntilGrowth == Spec => []WrongOnlyByGrowth
<1>1. TableInv => WrongOnlyByGrowth
  <2> SUFFICES ASSUME TableInv PROVE WrongOnlyByGrowth
    OBVIOUS
  <2> USE DEF TableInv, TypeOK, PtrInv, SizeInv, table_num_entries
  <2>1. ASSUME NEW r \in Request, uuid[r] # None
        PROVE  \/ p[r].idx < Len(entries) /\ uuid[r] = entries[p[r].idx + 1]
               \/ p[r].block < last_block
    <3>1. p[r].block \in Nat /\ p[r].block <= last_block
      BY <2>1 DEF Pointer
    <3> QED
      BY <2>1, <3>1
  <2>2. table_mutex # None \/ (\E r \in Request : Inside(r) /\ p[r].block = None)
          => module_table = None /\ Len(entries) >= InitSize
    BY ModuleTableAssumption
  <2> QED
    BY <2>1, <2>2 DEF WrongOnlyByGrowth
<1> QED
  BY TableInvariant, <1>1, PTL

-----------------------------------------------------------------------------
(* While requests do not overlap: the one request inside holds the entry   *)
(* at table_index, and all that was handed out lies before it.             *)
SkipInv ==
    overlap = {} =>
        /\ \A q, r \in Request : Inside(q) /\ Inside(r) => q = r
        /\ \A r \in Request : Inside(r) => p[r].idx = table_index
        /\ \A j \in 1..Len(handed) :
              /\ handed[j] <= table_index
              /\ \A r \in Request : Inside(r) => handed[j] < table_index
        /\ OnlyFirstSkipped

(* k was handed out, or belongs to a request that is inside or dead.       *)
Covered(k) ==
    \/ \E j \in 1..Len(handed) : handed[j] = k
    \/ \E r \in Request : p[r].idx = k /\ (Inside(r) \/ pc[r] = "oops")

Increasing == \A j, k \in 1..Len(handed) : j < k => handed[j] < handed[k]

(* Every step keeps the requests' order as long as they do not overlap.    *)
LEMMA SkipStep == TypeOK /\ SkipInv /\ [Next]_vars => SkipInv'
<1> SUFFICES ASSUME TypeOK, SkipInv, [Next]_vars, overlap' = {}
             PROVE  SkipInv'
  BY DEF SkipInv
<1>a. overlap = {}
  BY DEF Next, table_put, table_pop, ReadEntry, table_pop_reverse,
         table_get_copy, vars
<1>b. /\ \A q, r \in Request : Inside(q) /\ Inside(r) => q = r
      /\ \A r \in Request : Inside(r) => p[r].idx = table_index
      /\ \A j \in 1..Len(handed) :
            /\ handed[j] <= table_index
            /\ \A r \in Request : Inside(r) => handed[j] < table_index
      /\ Increasing
      /\ \A k \in 1..table_index : Covered(k)
  BY <1>a DEF SkipInv, OnlyFirstSkipped, Increasing, Covered
<1>c. ASSUME /\ \A q, r \in Request : Inside(q)' /\ Inside(r)' => q = r
             /\ \A r \in Request : Inside(r)' => p'[r].idx = table_index'
             /\ \A j \in 1..Len(handed') :
                   /\ handed'[j] <= table_index'
                   /\ \A r \in Request : Inside(r)' => handed'[j] < table_index'
             /\ Increasing'
             /\ \A k \in 1..table_index' : Covered(k)'
      PROVE  SkipInv'
  BY <1>c DEF SkipInv, OnlyFirstSkipped, Increasing, Covered
<1>t. /\ table_index \in Int /\ handed \in Seq(Nat)
      /\ \A r \in Request : p[r].idx \in Nat
      /\ pc = [r \in Request |-> pc[r]] /\ p = [r \in Request |-> p[r]]
  BY DEF TypeOK, Pointer, table_num_entries
<1>1. ASSUME NEW m \in Insmod, table_put(m) PROVE SkipInv'
  <2>1. UNCHANGED <<table_index, pc, p, handed>>
    BY <1>1 DEF table_put
  <2> QED
    BY <1>b, <1>c, <2>1 DEF Inside, Increasing, Covered
<1>2. ASSUME NEW r \in Request, table_pop(r) PROVE SkipInv'
  <2>1. CASE ~HasPending
    <3>1. UNCHANGED <<table_index, p, handed>> /\ pc[r] = "start"
          /\ pc' = [pc EXCEPT ![r] = "none"]
      BY <1>2, <2>1 DEF table_pop, Goto
    <3>2. pc'[r] = "none" /\ \A q \in Request : q # r => pc'[q] = pc[q]
      BY <1>t, <3>1
    <3>3. \A q \in Request : Inside(q)' <=> Inside(q)
      BY <3>1, <3>2 DEF Inside
    <3>4. \A q \in Request : pc[q] = "oops" => pc'[q] = "oops"
      BY <3>1, <3>2
    <3>5. \A k \in 1..table_index' : Covered(k)'
      BY <1>b, <3>1, <3>3, <3>4 DEF Covered
    <3> QED
      BY <1>b, <1>c, <3>1, <3>3, <3>5 DEF Increasing
  <2>2. CASE HasPending
    <3>1. /\ table_index' = table_index + 1
          /\ p' = [p EXCEPT ![r] = [block |-> module_table,
                                    idx |-> table_index + 1]]
          /\ UNCHANGED handed
          /\ pc[r] = "start"
          /\ pc' = [pc EXCEPT ![r] = IF module_table = None /\ table_index + 1 = 0
                                     THEN "none" ELSE "popped"]
      BY <1>2, <2>2 DEF table_pop, Goto
    <3>2. \A q \in Request : ~Inside(q)
      BY <1>2, <2>2 DEF table_pop
    <3>3. \A q \in Request : Inside(q)' => q = r
      BY <1>t, <3>1, <3>2 DEF Inside
    <3>4. p'[r].idx = table_index'
      BY <1>t, <3>1
    <3>5. \A j \in 1..Len(handed') : handed'[j] < table_index'
      BY <1>b, <1>t, <3>1
    <3>6. ASSUME NEW k \in 1..table_index' PROVE Covered(k)'
      <4>1. CASE k = table_index'
        <5>1. pc'[r] = "popped"
          BY <1>t, <3>1, <4>1
        <5> QED
          BY <3>4, <4>1, <5>1 DEF Covered, Inside
      <4>2. CASE k # table_index'
        <5>1. Covered(k)
          BY <1>b, <1>t, <3>1, <4>2
        <5>2. \A q \in Request : pc[q] = "oops" => pc'[q] = "oops" /\ p'[q] = p[q]
          BY <1>t, <3>1
        <5> QED
          BY <3>1, <3>2, <5>1, <5>2 DEF Covered
      <4> QED
        BY <4>1, <4>2
    <3>7. Increasing'
      BY <1>b, <3>1 DEF Increasing
    <3>8. \A j \in 1..Len(handed') : handed'[j] <= table_index'
      BY <1>t, <3>1, <3>5
    <3> QED
      BY <1>c, <3>3, <3>4, <3>5, <3>6, <3>7, <3>8
  <2> QED
    BY <2>1, <2>2
<1>3. ASSUME NEW r \in Request, ReadEntry(r) PROVE SkipInv'
  <2>1. Inside(r) /\ p[r].idx = table_index /\ UNCHANGED <<table_index, p>>
    BY <1>3, <1>b DEF ReadEntry, Inside
  <2>2. \A q \in Request : q # r => ~Inside(q) /\ pc'[q] = pc[q]
    BY <1>3, <1>b, <1>t, <2>1 DEF ReadEntry, Goto
  <2>3. \A q \in Request : Inside(q)' => q = r
    BY <2>2 DEF Inside
  <2>4. CASE UNCHANGED handed /\ pc'[r] \in {"oops", "failed"}
    <3>1. \A k \in 1..table_index' : Covered(k)'
      BY <1>b, <2>1, <2>2, <2>4 DEF Covered, Inside
    <3> QED
      BY <1>b, <1>c, <2>1, <2>3, <2>4, <3>1 DEF Increasing
  <2>5. CASE handed' = Append(handed, p[r].idx) /\ pc'[r] = "copied"
    <3>1. /\ Len(handed') = Len(handed) + 1
          /\ \A j \in 1..Len(handed) : handed'[j] = handed[j]
          /\ handed'[Len(handed) + 1] = table_index
      BY <1>t, <2>1, <2>5
    <3>2. \A q \in Request : ~Inside(q)'
      BY <2>3, <2>5 DEF Inside
    <3>3. \A j \in 1..Len(handed) : handed[j] < table_index
      BY <1>b, <2>1
    <3>4. Increasing'
      BY <1>b, <1>t, <3>1, <3>3 DEF Increasing
    <3>5. ASSUME NEW k \in 1..table_index' PROVE Covered(k)'
      <4>1. CASE k = table_index
        BY <1>t, <3>1, <4>1 DEF Covered
      <4>2. CASE k # table_index
        <5>1. Covered(k)
          BY <1>b, <2>1
        <5>2. CASE \E j \in 1..Len(handed) : handed[j] = k
          BY <1>t, <3>1, <5>2 DEF Covered
        <5>3. CASE \E q \in Request : p[q].idx = k /\ (Inside(q) \/ pc[q] = "oops")
          <6>1. PICK q \in Request : p[q].idx = k /\ (Inside(q) \/ pc[q] = "oops")
            BY <5>3
          <6>2. q # r
            BY <2>1, <4>2, <6>1
          <6> QED
            BY <2>1, <2>2, <6>1, <6>2 DEF Covered
        <5> QED
          BY <5>1, <5>2, <5>3 DEF Covered
      <4> QED
        BY <4>1, <4>2
    <3>6. \A j \in 1..Len(handed') : handed'[j] <= table_index'
      BY <1>b, <1>t, <2>1, <3>1
    <3> QED
      BY <1>c, <3>2, <3>4, <3>5, <3>6
  <2>6. \/ UNCHANGED handed /\ pc'[r] \in {"oops", "failed"}
        \/ handed' = Append(handed, p[r].idx) /\ pc'[r] = "copied"
    BY <1>3, <1>t DEF ReadEntry, Goto
  <2> QED
    BY <2>4, <2>5, <2>6
<1>4. ASSUME NEW r \in Request, table_pop_reverse(r) PROVE SkipInv'
  <2>1. /\ Inside(r) /\ p[r].idx = table_index
        /\ UNCHANGED <<p, handed>>
        /\ table_index' = IF table_index <= 0 THEN table_index ELSE table_index - 1
    BY <1>4, <1>b DEF table_pop_reverse, Inside
  <2>2. /\ pc'[r] = "error"
        /\ \A q \in Request : q # r => ~Inside(q) /\ pc'[q] = pc[q]
    BY <1>4, <1>b, <1>t, <2>1 DEF table_pop_reverse, Goto
  <2>3. \A q \in Request : ~Inside(q)'
    BY <2>2 DEF Inside
  <2>4. \A j \in 1..Len(handed') : handed'[j] <= table_index'
    BY <1>b, <1>t, <2>1
  <2>5. ASSUME NEW k \in 1..table_index' PROVE Covered(k)'
    <3>1. k \in 1..table_index /\ k # table_index
      BY <1>t, <2>1
    <3>2. Covered(k)
      BY <1>b, <3>1
    <3> QED
      BY <2>1, <2>2, <3>1, <3>2 DEF Covered
  <2> QED
    BY <1>b, <1>c, <2>1, <2>3, <2>4, <2>5 DEF Increasing
<1>5. ASSUME NEW r \in Request, table_get_copy(r) PROVE SkipInv'
  <2>1. UNCHANGED <<table_index, p, handed>> /\ pc[r] = "copied"
    BY <1>5 DEF table_get_copy
  <2>2. /\ pc'[r] \in {"served", "oops"}
        /\ \A q \in Request : q # r => pc'[q] = pc[q]
    BY <1>5, <1>t DEF table_get_copy, NoCopy, Search, Goto
  <2>3. \A q \in Request : Inside(q)' <=> Inside(q)
    BY <2>1, <2>2 DEF Inside
  <2>4. \A q \in Request : pc[q] = "oops" => pc'[q] = "oops"
    BY <2>1, <2>2
  <2>5. \A k \in 1..table_index' : Covered(k)'
    BY <1>b, <2>1, <2>3, <2>4 DEF Covered
  <2> QED
    BY <1>b, <1>c, <2>1, <2>3, <2>5 DEF Increasing
<1>6. CASE UNCHANGED vars
  BY <1>b, <1>c, <1>6 DEF vars, Inside, Increasing, Covered
<1> QED
  BY <1>1, <1>2, <1>3, <1>4, <1>5, <1>6 DEF Next

(* Without overlapping requests the table delivers in order and once, and  *)
(* skips nothing but its first entry or that of a request that died        *)
(* (table_pop(), table_pop_reverse() and the ioctl between them).          *)
THEOREM SkipsOnlyFirst == Spec => []OnlyFirstSkipped
<1>1. Init => SkipInv
  BY DEF Init, SkipInv, OnlyFirstSkipped, Inside
<1>2. TypeOK /\ SkipInv /\ [Next]_vars => (TypeOK /\ SkipInv)'
  BY TypeStep, SkipStep
<1>3. SkipInv => OnlyFirstSkipped
  BY DEF SkipInv, OnlyFirstSkipped
<1> QED
  BY TypeInit, <1>1, <1>2, <1>3, PTL DEF Spec
=============================================================================
