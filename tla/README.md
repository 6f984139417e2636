# A TLA+ model of the lxc-uio-proxy / kvm-host-server system

The repository lets a Linux container load a kernel module without putting its code
into the host kernel's hands: `insmod -c` passes a flag to a patched
`finit_module()`, the patched `load_module()` hands the loaded module to a proxy
kernel module, and a user-space server on the host fetches the module's image from
the proxy and runs it in a virtual machine of its own (KVM). This directory models
the hand-over and the processing, checks them with TLC and proves the main results
with TLAPS.

## 1. The system

| Component | Source | State | Operations |
|---|---|---|---|
| proxy module table | `lxc-uio-proxy.c`, `lxc-uio-proxy.h` | `module_table`, `table_num_entries`, `table_index`, `table_size`, `table_mutex` | `table_init`, `table_put`, `table_pop`, `table_pop_reverse`, `table_peek`, `table_get_copy` |
| server registration | `cdev.c`, `lxc-uio-proxy.c` | `ks` (the server's task and eventfd file), `ks_mutex` | register / deregister ioctls, `send_event` |
| proxy's insmod entry point | `lxc-uio-proxy.c`, `patches/patch_module-c.patch` | none of its own | `lxc_uio_proxy_put_module_1` = put, then `send_event` |
| proxy's other calls | `cdev.c`, `lxc-uio-proxy.c` | none | `get_pending_module`, layout and size ioctls, `cdev_write` / `process_packet` |
| proxy life cycle | `lxc-uio-proxy.c`, `cdev.c` | chardev, class, function pointer in the kernel | `start`, `end`, `create_chardev`, `remove_chardev` |
| `load_module()` tap and namespace copy | `patches/patch_module-c.patch`, `patches/patch_nsproxy-c.patch` | the function pointer, a copied `nsproxy` per insmod | `lxc_uio_finished_loading`, `lxc_uio_nsproxy_deep_copy`, `lxc_uio_create_new_namespaces` |
| server main loop | `kvm-host-server.c` | eventfd, chardev, registration, `lxc_uio_cdev_major_number` | `get_major_number`, start-up, drain, process all, `select()` loop, exits, SIGINT handler |
| server's table | `uuid-table.h` | `uuid_table`, `uuid_table_size`, `table_num_entries` | `table_init`, `table_put` and its growth, `table_delete` |
| server's row processing | `kvm-host-server.c`, `uuid-table.h` | the rows: uuid, two flags, regions, fds | `get_new_entry`, `process_entry`, `initialize_memory_uuid`, `send_packet` |
| `insmod -c`, permission checks of `finit_module()`, assembly example | `patches/`, `asm-module/` | | see section 8 |

How they interact. An insmod runs in the kernel on behalf of a container: it appends
to the module table (under `table_mutex`), then, under `ks_mutex`, looks whether a
server is registered and whether an entry is pending and signals the server's eventfd.
A server creates the eventfd, opens the chardev, registers, asks for pending modules
until there are none, processes what it got, and then sleeps in `select()` on the
eventfd; each wakeup takes one entry, `read()`s the eventfd and processes the entry.
Insmods are concurrent with each other and with the server; nothing prevents a second
server from starting, and its registration replaces the first.

What is hard here: the signal and the table are two channels that can disagree (a
signal for an entry already taken, an entry whose signal was consumed with another's);
two mutexes, of which one is released between looking and signalling; a server that
exits, is interrupted or dies at any point while the proxy keeps a pointer to its
file; a pop that a failed copy undoes after others have popped; failures at any of the twenty calls that set up a virtual machine, some of which
are noted in the row and some not; a guest that never halts; a table that outgrows its
memory and then the range of `int`; a proxy that is reloaded, under another major number,
between two calls of a server, or whose start fails when a server has its chardev open.
PROJECT.json lists each hazard at its line.

Correctness, per component: the table gives every module to one request and in
order, whoever asks and whatever fails; a registered server is woken for what is pending and only for
that; a signal goes to an open eventfd; nobody waits for ever on `ks_mutex`; a row is
processed once, in order, never both "processed" and "could not process", and its guest
runs its own module's image in memory that was initialised once; rows are never written
beyond the table's memory; however a server ends, short of being killed, its registration
ends with it; the function pointer in the kernel never outlives the table; a namespace
copy is whole or gone.

## 2. Modules

| Module | Models | Proofs |
|---|---|---|
| `Delivery` | abstract: a log of modules, given out in order, each to one asker, and given back | `DeliveryProofs` |
| `RowService` | abstract: what a server promises for its rows | |
| `EventChannel` | proxy table, registration, `send_event`, the server's main loop, its exits and deaths | `EventChannelProofs`, `WakeupProofs` |
| `VmSetup` | `process_entry`, `initialize_memory_uuid`, `send_packet` / `process_packet`, the row flags | `VmSetupProofs` |
| `ModuleTable` | the proxy table at its limit: growth, the read after the unlock, un-pop, `table_get_copy` | `ModuleTableProofs` |
| `ProxyLifecycle` | `start`, `end`, the chardev, the function pointer, `load_module`'s use of it, the namespace copy | `ProxyLifecycleProofs` |
| `HostServer` | one server process: start-up, major number, growth of `uuid_table`, all exits, SIGINT | `HostServerProofs` |
| `MCEventChannel`, `MCVmSetup`, `MCModuleTable`, `MCProxyLifecycle`, `MCHostServer` | instances for TLC | |

`EventChannel` and `VmSetup` implement `RowService`, and so does `HostServer` while it has
fetched no more entries than its table's first size; `EventChannel` also implements
`Delivery`, until two overlapping requests and a failed copy break it. `HostServer.ExactBelowLimit` and `ModuleTable.WrongOnlyByGrowth` justify that
the other models take the two tables for exact below their initial sizes.

### EventChannel

State: `module_table` is the sequence of entries put (the uuid stands for the entry),
`table_index` the index of the last one popped (-1 at first, as in the code, which
counts from 0); `ks` is the registered server or `None`; `ks_mutex` the insmod holding
that mutex between two steps. `ipc` and `spc` are the control states of insmods and
servers, `efd` the eventfd counters, `uuid_table` each server's rows, `mt` the index of the
entry that a server's request has popped and not yet copied out. `popped`, `given`,
`returned`, `misreturned`, `drained` and `swallowed` are history: no action's guard reads
them. `given[m]` counts the requests that took module `m` and did not give it back;
`returned` the un-pops that lowered the index, `misreturned` those among them that met
another request's entry on top of the table.

| Action | Code |
|---|---|
| `PutModule`, `table_put` | `lxc_uio_proxy_put_module_1()` up to `send_event()` |
| `send_event` | lock `ks_mutex`, return when no server or nothing pending, else go on holding it |
| `eventfd_signal`, `SignalDangling` | the signal and the unlock; on a file that is gone the outcome is undefined and all the outcomes are allowed: no visible effect, a signal to another eventfd, or the insmod's death with the mutex held |
| `ServerOpen`, `Register` | `main()` to `open()`; the register ioctl, `kmalloc` failure and the `table_init` failure after it |
| `DrainEntry`, `TakeEntry` | `get_new_entry()` in the start-up loop and after a wakeup, as far as `table_pop()` inside the `get_pending_module` ioctl |
| `CopyEntry` | the rest of the ioctl and of `get_new_entry()`: the uuid is copied and put in the server's own table; or it is copied and `new_memory()` fails, which loses the entry; or `copy_to_user()` fails (`CopyFails`), `table_pop_reverse` lowers the index, whoever raised it last, unless it is 0, and the server leaves |
| `ProcessAll`, `ProcessOne` | `process_entry()` in its two callers; what happens inside is `VmSetup` |
| `SelectReturns`, `SelectFails`, `ReadEventfd` | `select()`, and `read()`, which returns and resets the whole counter (no `EFD_SEMAPHORE`); a failure of either ends the server |
| `Deregister`, `Close` | `out_deregister` and the handler's part of it: the ioctl frees whatever registration there is; then the closes |
| `SigInt`, `Kill` | SIGINT at any point outside its handler; death without exit code; both wait for the end of an ioctl (`InIoctl`) |

Atomicity: a critical section of `table_mutex` is one step. `send_event()` is two steps,
because a server may pop (it needs `table_mutex` only) between the look at the table and
the signal. `ks_mutex` is held over that gap, so registrations wait. The ioctl is two
steps, because `table_pop()` and `table_pop_reverse()` lock `table_mutex` separately and
the copy lies between them: another server may pop, and an insmod may look at the table
and find nothing, before the entry comes back.

`Paced` restricts the environment, not the code: with it, an insmod or a server start
begins only when no insmod is under way and all servers sleep or are gone. It states
under which use the comments of the code are right.

### VmSetup

One server; each column of `uuid_table` is a variable, `i` the row being worked on, `pc`
the call that comes next. Every call can fail, with the code's own consequence: noted
(`could_not_process` set, server leaves), not noted (server leaves), swallowed
(`get_uuid_layout()` returning NULL makes `initialize_memory_uuid()` return 0), unseen
(`mmap()` tested against NULL) or fatal. `halting` is the set of rows whose guest reaches
its `hlt`: `Halt`, `LookUnmapped` and `RunAgain` are the branches of the `KVM_RUN` loop. `core[k]` says whose core area the third region of row
`k` holds; `process_packet` copies to the address in the packet, which is uninitialised
when the third region was never made: then the copy goes nowhere visible or into any
row's region. `no_layout` is history: the rows that met the swallowed failure.
`EventChannel.process_entry` is what this module does seen from main():
one row processed, or given up, or left new with the server leaving, or the process dead
(there `Kill`).

### ModuleTable

The array is a numbered block: `module_table` is the block the pointer leads to or
`None`, `last_block` the newest one (older ones are freed), `entries` what was put.
`krealloc` grows in place, moves or fails, and stores NULL when it fails, as the code
does. A request is one `get_pending_module` ioctl followed by one use of the uuid it
got: `table_pop` computes the pointer under the mutex, `ReadEntry` follows it after the
unlock and copies the uuid out, `table_pop_reverse` undoes a pop whose copy failed,
`table_get_copy` is a size or layout ioctl or the packet. Reading a freed block, or a slot not
yet written, gives anything: some module's uuid or `Garbage`; an address computed from NULL kills the caller, except for index 0, which the
ioctl takes for "no new entry". `EventChannel` has the un-pop too, but neither growth nor
wrong reads: it stays below the first growth, and `WrongOnlyByGrowth` says that a read is
exact there.

### ProxyLifecycle

One step per call of `start()`, `create_chardev()`, `end()`, with a failure at each and
the unwinding the code has; `have` is the set of kernel objects held, `left` what was
still held when the code was freed. An insmod tests for a live proxy
(`finished_loading`), tests the pointer (`TestTap`), copies its namespaces one call at a
time (`CopyNs`; `NsReleased` follows the labels a failing call jumps to), reads the pointer
again to call (`CallTap`), puts (`PutModule`) and returns (`ReturnFromTap`). No reference keeps the
proxy loaded meanwhile; an open chardev does (`cdev_fops.owner`), but only against rmmod:
when `start()` fails after `cdev_add()` the kernel frees the code under the open file.
`get_major_number` and `ServerUp` are a server's read of the `/proc` entry and its later
`open()`, which may meet another load. `debug_on` is defined in `global-config.h`, so
`end()` removes the `/proc` entry. "broken" stands for
the undefined behaviour after a NULL call, freed code or a freed table.

### HostServer

One process; `pc` names the call of `main()` that comes next, `held` what the process
holds: eventfd, chardev, registration. Entries are numbered as they are fetched; `rows`
are those that have a row, `processed` those with the flag.

| Action | Code |
|---|---|
| `get_major_number`, `OpenKvm`, `CreateEventfd`, `OpenCdev`, `register_server`, `table_init` | `main()` up to its loops, each call with its failure and the label it goes to; a failed registration leaves the chardev open, as the code does |
| `Drain`, `TakeEntry` | `get_new_entry()` with `table_put()` in the two places; `Grow` is the `realloc()` whose result is not stored (`block` is then "moved" or still "here"), `Drop` a put without room, which the caller does not notice |
| `ProcessAll`, `ProcessOne`, `Select`, `ReadEventfd` | the two loops; what `process_entry()` finds in freed memory is anything |
| `table_delete`, `Deregister`, `Close` | `out_table`, `out_deregister` and the closes |
| `SigInt`, `SigDeregister`, `SigClose` | the handler; `print_error()` allocates for its backtrace, so a handler that interrupted the allocator and fails to deregister hangs |
| `Corrupted` | the death of a process that used freed memory |
| `Reload` | the proxy unloaded and loaded under any free major number, unless the chardev is open |

`newsize` and `new_size_bytes` are computed in the width of `int` (`ToInt`). Killing the
process from outside, and deaths inside `process_entry()`, are `EventChannel`'s `Kill`.

### RowService

Three variables; `Receive`, `Serve` (the first entry that is not served) and `Stop`. Once a
server is down nothing more is said of it. `VmSetup.RowServiceSpec` instantiates it with
the columns of the table, `EventChannel.RowServices` with each server's `uuid_table`,
`HostServer.RowServiceBelowLimit` with the number fetched and the rows processed. The last
one binds only the steps that leave `fetched` at most `InitSize`: beyond that the code drops
entries and uses freed memory, and the promise is not kept.

### Delivery

Two variables; `Offer` puts a module in the log, `Take` gives the first one that nobody has
to an asker, `Return` takes the last one given out back. `EventChannel` instantiates it with
`log <- module_table`; `DeliveryUnlessMisreturned` binds the steps up to the first un-pop
that gives back another request's entry. After that the code breaks the promise: with
requests A (entry k) and B (entry k+1), A's failed copy makes k+1 pending again, so k+1 goes
out twice and k not at all. `GivenBound` says how often that can happen to a module.

Operators named `..._no_unlock`, `..._unread`, `..._goes_on` and the like, with a comment that
starts "Fault:", are wrong variants of the definition after them. No specification
uses them; they are substituted to confirm that the properties notice them.

## 3. Runs

| Run | Instance | Question and answer |
|---|---|---|
| `channel` | 2 insmods, 2 servers, kills, fair | Does everything that is to hold under any interleaving hold? Yes: `DeliveryUnlessMisreturned`, `GivenBound`, `StrandedBound`, `RowServices`, `SpuriousExplained`, `OneUnprocessed`, `DanglingOnlyByKill`, `HangOnlyByOops`. 503 thousand states |
| `channel_paced` | 3 insmods, 2 servers, paced, fair | With insmods and server starts spaced out: no lost and no spurious wakeup, everything pending is handed out. 87 thousand states |
| `lost_wakeup` | 3 insmods, 1 server | Violated: two signals before one wakeup, one `read()`, one entry left behind while the server sleeps |
| `spurious_wakeup` | 2 insmods, 1 server | Violated: signalled, then taken by the start-up loop; the server wakes for nothing and exits |
| `foreign_deregister` | 1 insmod, 2 servers | Violated: a replaced server's exit removes its successor's registration |
| `dangling_signal` | 1 insmod, 1 server, kills | Violated: the server dies, `ks->fp` stays |
| `vm_setup` | 3 rows, any of whose guests halts or not, fair | Flags, order, single initialisation, own image; what a layout that cannot be read spoils (`ShortOnlyWithoutLayout`); what the end of the server costs (`OneRowLost`); the refinement `RowServiceSpec`; `Served`: nothing but the server's end or a guest that does not halt holds up a row. 3666 states |
| `module_table` | 4 insmods, 4 requests, 2 slots at first | What does growth break, and what only overlap or the first entry? `NeverOverfull`, `OnlyFirstSkipped`, `WrongOnlyByGrowth`. 582 thousand states |
| `stale_entry` | 2 insmods, 1 request, 1 slot | Violated: the table moves between pop and read |
| `lifecycle` | 3 loads, 2 insmods, 1 server | `TapHasTable`, `NeverSetTwice`, `BrokenOnlyByRmmod`, `LeftoverBound`, `OrphanOnlyByAbort`, `CopyAllOrNothing`. 296 thousand states |
| `host_server` | 6 entries, 2 rows at first, 3 bytes a row, ints up to 15, 2 major numbers, fair handler | Does the table stay within its memory (`NoOverrun`, `ExactBelowLimit`), is anything put off that a wakeup brought (`WakeupLosesNothing`), do server and proxy speak the same numbers (`NumbersAgree`), are rows served as promised below the limit (`RowServiceBelowLimit`), does the registration end with the process (`RegistrationEnds`, `SigintEnds`)? Yes. 8328 states |
| `quits_when_full` | as `host_server`, without fairness | Violated: a `realloc()` that fails in the start-up loop loses an entry, and the server goes on to `select()` |

`QuitsWhenFull` is the comment at `uuid-table.h:95`: the program quits when `realloc()` fails.
`get_new_entry()` ignores the result of `table_put()`. After a wakeup the server does end,
because `process_entry()` finds no new row (`WakeupLosesNothing`); in the start-up loop the
entry is dropped and the server goes on.

One more comment does not hold: `uuid-table.h:151` promises three regions and 0 for success,
but when `get_uuid_layout()` returns NULL, `initialize_memory_uuid()` returns 0 with one region
or two. `ShortOnlyWithoutLayout` says how far the harm goes: such a row runs without its image,
and its image may be copied over that of a row before it, but no other row starts from
anything but its own (`RunsOwnImage`).

The violated properties are what comments of the code say; the findings in PROJECT.json quote
them. `StrandedBound` and `SpuriousExplained` are the positive side: they say exactly how
far the code falls short. A server falls behind only by the signals that its reads
swallowed and by the entries that failed copies put back, which nobody signals; a wakeup is spurious only when somebody signalled for an entry that a start-up
loop or another server took.

Bounds. Two insmods are the least for coalesced signals and for a signal that meets a
deregistration, two servers the least for a takeover, and both for an un-pop of another
request's entry, which the `channel` run reaches; servers run once, so a restart is
a second server. Three insmods are needed for an entry stranded behind a processed one,
which the paced and `lost_wakeup` runs have. The invariants are proved for every number. Three
rows give a processed, a current and a waiting one. Both tables start with 256 slots;
`EventChannel` and `VmSetup` stay below that, `ModuleTable` starts with two slots so that
four insmods grow the table once and a failed copy can meet index 0 as well as a later
one. Three loads allow an insmod that found the first proxy to meet the second while it
starts and the third after that. In `host_server` the table grows once, from two rows to four
(12 bytes), and the next doubling (24 bytes) does not fit an `int` of 15, so that six
entries meet a growth in place, a growth elsewhere, a failed one and the overflow. The symmetry sets of `ModuleTable` and `ProxyLifecycle`
are used with invariants only.

Deadlock is not checked: each insmod and server runs once, and a server asleep with
nobody left to wake it is where the system is meant to stop.

## 4. Fairness

`FairSpec` has weak fairness on `InsmodRun(i)` (an insmod inside `send_event()` is a
kernel thread, which gets scheduled; the mutex it waits for becomes free when the holder
goes on) and on `ServerRun(s)` (system calls of a running process). Weak fairness is enough for a waiter on `ks_mutex`: every other party runs once, so the
mutex is taken away from it only finitely often. There is none on `ProcessAll` / `ProcessOne`: the `KVM_RUN` loop ends only when
the guest halts, and nothing makes it. There is none on the environment: insmods,
server starts, SIGINT, kills.

`VmSetup.FairSpec` has weak fairness on `Work`, the steps of a running server: its system
calls return, and a guest in `halting` reaches its `hlt` in finitely many exits. Nothing
is assumed of other guests, of arriving rows or of the success of any call, hence the
disjuncts of `Served`. `HostServer.FairSpec` is fair to the two steps of the signal
handler only, which are system calls that return (that the deregistration may wait for
`ks_mutex` is `EventChannel`'s subject).

So `EventuallyHanded` says something about a server that is draining or sleeping; it
holds in the paced runs even though a guest may run for ever, because a paced insmod
puts its module only when no guest runs.

## 5. Proofs

Assumptions: `EventChannelAssumption` (the insmods are a finite set, insmods, servers and
`None` are different, the two switches are Boolean), `MaxRowsAssumption`,
`ModuleTableAssumption` (the table starts with at least one slot; NULL and garbage are
no uuids), `ProxyLifecycleAssumption` and `HostServerAssumption` (the initial table fits
an `int`; sizes are positive). Everything below holds for any number of insmods,
servers, rows, requests, entries and loads and any initial size, row size and width of int.

| Theorem | Statement |
|---|---|
| `GivenInOrder` (DeliveryProofs) | `Delivery` implies `[]InOrder`: no module is with two askers, and those given out are a beginning of the log |
| `TypeCorrect` | `Spec => []TypeOK` |
| `SignalSafe` | `Spec => []DanglingOnlyByKill` |
| `ImplementsDelivery` | `Spec => DeliveryUnlessMisreturned`, the refinement |
| `GivenOncePlusMisreturned` | `Spec => []GivenBound` |
| `SleeperBound` | `Spec => []StrandedBound` |
| `EventProcessesItsEntry` | `Spec => []OneUnprocessed` |
| `ServersImplementRowService` | `Spec => RowServices`, the second refinement |
| `OrderlyExitsAreSafe` | without kills, `Spec => []SignalTargetOpen`, and no insmod dies with the mutex held |
| `SpuriousHasCause` (WakeupProofs) | `Spec => []SpuriousExplained` |
| `PacedLosesNoWakeup`, `PacedWakesForEntry` (WakeupProofs) | when `Paced`, `Spec => []NoLostWakeup` and `Spec => []NoSpurious`, kills or not |
| `TypeCorrect`, `FlagsNeverContradict`, `RowsInOrder`, `MemoryInitOnce`, `GuestRunsOwnImage`, `HarmTracedToLayout`, `EndLosesOneRow` (VmSetupProofs) | the invariants of `VmSetup` |
| `ImplementsRowService` (VmSetupProofs) | `Spec => RowServiceSpec` |
| `TypeCorrect`, `TableNeverOverfull`, `ExactUntilGrowth`, `SkipsOnlyFirst` (ModuleTableProofs) | the invariants of `ModuleTable` |
| `TapSafe`, `TapFreeAtStart`, `OnlyRmmodBreaks`, `FewLeftovers`, `NoOrphanByRmmod`, `CopyComplete` (ProxyLifecycleProofs) | the invariants of `ProxyLifecycle` |
| `TypeCorrect`, `RowsFit`, `TableExact`, `NothingPutOff`, `RegisteredIsUnderstood`, `ExitDeregisters` (HostServerProofs) | the invariants of `HostServer` |
| `ImplementsRowService` (HostServerProofs) | `Spec => RowServiceBelowLimit` |

The arguments.

* `TypeOK` is not inductive: `ReadEventfd` subtracts one from the counter. `WakeInv` (a
  server between its wakeup and its `read()` has a positive counter) repairs it, and
  `CopyInv` (a request's popped entry is in the table) gives `CopyEntry` a uuid.
* `MutexInv`: an insmod at "signal" or "oops" is the one that holds `ks_mutex`, so at
  most one is, and `ks` is then a server; `KsInv`: a registered server has not gone through
  its own `Deregister`. Since registration and deregistration need the mutex, the server
  cannot leave in an orderly way between look and signal; only `Kill` can.
* `PutInv`: only insmods that have left "idle" have their module in the table, each once.
  `GivenInv`: an entry is with one request if it lies at or below `table_index` and with none
  beyond, plus at most one for each misreturn, and exactly so while there was none. So a put
  is an `Offer`, a pop a `Take` of the entry after the index and an un-pop of the request's own
  entry a `Return`. At index 0 the un-pop does nothing, and the entry stays given.
* `StrandInv`: from the end of its start-up loop on, the entries pending for the
  registered server (plus one between its pop and its `read()`) are at most the unread
  signals, plus the swallowed ones, plus the un-pops, plus the insmods under way. A put or
  an un-pop raises both sides, a signal moves one unit on the right, a pop and its `read()`
  together lower both. It needs the cardinality of `InFlight`, hence the finiteness of `Insmod`.
* `LedgerInv` (for `SpuriousExplained`): the signals of a server that are unread, those its
  reads swallowed and the entries it took on wakeups are together at most the insmods that
  have signalled; between a wakeup's pop and its `read()` one more, because the entry is
  then counted and its signal not yet consumed. Suppose a server at "wake" finds nothing
  pending. Everything put has been popped by somebody (`PopInv`), so every insmod that signalled has
  its entry popped (`InTableInv`). If all of these had been taken by this server on
  wakeups they would already use up the right-hand side, and the unread signal that woke it
  would be one too many. So one went to another server or to a start-up loop. The ledger
  counts two sets, `Notified` and `TakenAwake`, hence needs that `Insmod` is finite. An un-pop does
  not disturb it: what was popped stays in `popped`, and popping it again adds at most one.
* `PacedInv`: `OneActor`: one insmod is under way or one server is at work, never both and
  never two. `WorkerInv`: a server at work is the registered one, or nobody that will
  wait for an event is registered, so that an entry which its failed copy puts back (and
  which ends it) is not put back beside a sleeper. `SignalInv`: a counter is positive only from a signal to the `read()` it
  causes, and until the pop its entry is pending. `BehindInv`: the registered server has
  at most one entry pending while it sleeps, and none once it is through with its loops.
  Each needs the others: a pop by somebody else would break `SignalInv`, a second put
  `BehindInv`, and `OneActor` excludes both. A kill only takes a server out, so the
  argument does not use `KillAllowed`.
* `OrderlyInv`: without `Kill` no server is "killed", so by `LockInv` the file is open at
  every signal, `SignalDangling` is never enabled and no insmod dies holding the mutex.
* `RowInv`: no row is given up while the server runs on; at "select" all the rows are
  processed, between a wakeup's pop and its `process_entry()` all but the last.
* `VmInv`: flags are disjoint, processed rows form a prefix that ends before the current
  row, rows neither processed nor current have no regions, and during
  `initialize_memory_uuid()` the current row's region count is the one its `pc` implies.
  "Own image" needs the order of things: a stray copy can only hit a row with three
  regions, while the current row gets its own copy after its third region exists.
  `ShortOnlyWithoutLayout` is inductive with these: at "send" a row short of a region has
  met the swallowed failure, so what its packet overwrites is overwritten by such a row.
* `SizeInv` and `PtrInv`: the table pointer is lost only when the table is full, hence
  with at least `InitSize` entries; a request's index lies within what was put, its block
  is not newer than the newest, and its uuid is right while that block is the newest.
* `SkipInv`: as long as requests do not overlap there is one inside at a time, it holds
  the entry at `table_index`, and all that was handed out lies before it. So lowering
  the index by one gives back exactly that request's entry, unless it is entry 0.
* `ServerInv` (HostServer): `SizeInv` adds to `NoOverrun` that `uuid_table_size * RowSize`
  is at most `IntMax`. Then the doubled byte size lies below `2 * IntMax + 1`, so its
  conversion to `int` is exact or negative, never small and positive (lemma `GrownSize`),
  and a negative size is refused by `realloc()`. `FewInv`: with at most `InitSize` entries
  the table has not been grown and each entry has its row. `LoopInv` says at each point
  of the two loops which fetched entries have rows and which rows are processed: an entry
  dropped after a wakeup leaves no new row, so `ProcessOne` ends the server. `RegInv`: the
  points of `main()` and of the handler where no registration is held, and that one is
  held only with the chardev open, which keeps the proxy and its number in place.
* `ImplementsRowService`, `ServersImplementRowService`: while a server is up its rows are
  a processed prefix and then new ones (`VmInv`, `RowInv`), so the first new row is the
  one `Serve` takes; every way out maps to `Stop`. For `HostServer` the step proof uses
  `FewInv` (up to `InitSize` entries the rows are exactly `1..fetched` in the block the
  pointer leads to) and `LoopInv`, and a lemma that a server that is down stays down.
* `OneRowLost` follows from the same prefix, kept over the steps that end the server.
* `CopyInv`: while copying, an insmod holds what the calls before some call returned;
  the label that call jumps to releases exactly that (lemma `NsUnwound`); `code[i]` tells
  whether the proxy was called. `OrphanOnlyByAbort` is inductive with `TypeOK`.
* `LifeInv`: table and pointer are functions of the control state (`TapInv`); an insmod
  that no rmmod met and that is under way has a live proxy (`CallInv`); what is held
  shrinks to the survivors on the way out (`HaveInv`).

Only model-checked: `HangOnlyByOops`, `EventuallyHanded`, `Served` and `SigintEnds`, because
liveness under fairness is out of the prover's reach. Every invariant of a passing run is
proved. The inductive invariants of `EventChannel` were checked with TLC too: all of
them on the instance of `channel`, and `PacedInv`, `StrandInv` and `LedgerInv` on that of
`channel_paced` with kills allowed.

## 6. Abstractions

Uuids are random in the code and distinct here. Module contents are "whose image".
Addresses, page sizes, registers, messages and logging are left out, except that
`print_error()` allocates memory, which the handler's hang depends on. The line of the
`/proc` entry is the number in it. File descriptors
of `VmSetup` are left out: each is used only by the call that made it. `eventfd`, `select`,
mutexes and the KVM calls are modelled from how the code uses them. In `VmSetup` a copy to
an uninitialised address may hit the third region of any row or nothing visible; that it
could as well hit the server's own heap is left out. In `HostServer` an open chardev always
keeps the proxy loaded; the failing `start()` that frees it all the same is
`ProxyLifecycle`'s. Counters do not wrap:
an eventfd counter of 2^64 - 2 signals and a table of 2^64 entries are out of reach.

## 7. Plan

Done so far, in this order: `Delivery` and `EventChannel` (the hand-over is the heart of the
system), `VmSetup`, `ModuleTable`, `ProxyLifecycle`, `HostServer`, `RowService`, the
namespace copy, with the proofs above. Next:

1. Corollaries that combine components: what `Delivery` and `RowService` together say of a
   module from its put to its guest, as theorems of `EventChannel`.
2. The enabling conditions behind the liveness results, as far as they are state
   predicates: which state a waiter on `ks_mutex` can be stuck in.

A refinement of `Delivery` by `ModuleTable` was considered: below the first growth it would
say what `ImplementsDelivery` says of `EventChannel`, and beyond it a read of freed memory
may give any module, so nothing is left to promise.

## 8. Not modelled

* `insmod -c` is option parsing, and the checks at the start of `finit_module()` are a
  decision without state.
* The kernel's own part of `load_module()`: the label `sysfs_cleanup` is not in the
  repository. The patch jumps there with `err` still 0, so a refused insmod reports success.
* Memory that is never given back: the `nsproxy` copies in a table that `end()` frees, the
  entry copy of `process_packet()`, descriptors and mappings of processed rows. Nothing in
  the repository promises otherwise; the failures they lead to can come at any call of the
  models.
* Ioctls through a file of freed code (a server that opened the chardev of a failing
  `start()`): `OrphanOnlyByAbort` says when this can be, `ServerDown` has what may come of it.
* The disused `switch` at the end of `cdev_ioctl()`, the commented-out bodies, and
  `get_uuid_size()`, which nobody calls.
* Copies of kernel headers, the assembly example and the build files hold no logic of the
  system.
