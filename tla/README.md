# TLA+ models of the UNVMe user-space NVMe driver for SX-Aurora

UNVMe drives an NVMe controller from a user process: it maps the controller's
registers, keeps the queues in DMA memory of its own and polls for
completions. There is no kernel and no interrupt; the process' threads, the
controller and, when a process dies, what it left registered with the PCI
firmware are the concurrent parties. This directory holds specifications of the
driver's core, the TLC configurations that check them and TLAPS proofs of their
main invariants. Paths below are relative to the repository.

## Inventory

| Component | State | Operations | Interacts with |
|---|---|---|---|
| NVMe queue pair (`src/unvme_nvme.c`, `nvme_queue_t`) | submission and completion ring, `sq_tail`, `cq_head`, `cq_phase`, two doorbell registers | `nvme_cmd_*`, `nvme_submit_cmd`, `nvme_check_completion` | the controller, through memory and doorbells |
| I/O queue and descriptors (`src/unvme_core.c`, `unvme_queue_t`, `unvme_desc_t`) | id mask and count, next id, free list, use list, pending head; per descriptor an id mask, a count and an error | `unvme_desc_get/put`, `unvme_get_cid`, `unvme_check_completion`, `unvme_submit_io`, `unvme_do_rw`, `unvme_do_cmd`, `unvme_do_poll`, the wrappers of `src/unvme.c` | the queue pair below, the application above |
| Lock (`src/unvme_lock.h`) | one atomic word: write bit and reader count | `unvme_lockr/unlockr/lockw/unlockw` | threads |
| Sessions (`src/unvme_core.c`) | session list, device contexts with reference counts, the log's open count | `unvme_do_open`, `unvme_do_close`, `unvme_cleanup` | the lock, controller bring-up, the log |
| Controller bring-up and admin commands (`src/unvme_nvme.c`) | controller registers, admin queue pair | `nvme_create`, `nvme_ctlr_enable/disable`, `nvme_acmd_*`, `nvme_wait_completion` | the controller; shares the admin queue with `unvme_do_cmd` (qid -1) |
| Buddy allocator (`src/aurora_pci.c`) | global free lists under a spin lock, per-thread free lists | `buddy_init`, `get_freelist`, `buddy_malloc`, `buddy_free` | every allocation of queue and I/O memory |
| DMA registration (`src/aurora_pci.c`, `src/unvme_vfio.c`) | one registered region, a log file that outlives the process | `aurora_init`, `aurora_release`, `vfio_create/delete` | PCI firmware, other processes |
| Geometry and PRP lists (`src/unvme_core.c`) | 16- and 32-bit fields of `unvme_ns_t`, PRP pages | `unvme_ns_init`, `unvme_map_prps`, the loop of `unvme_do_rw` | I/O queue |
| fio engine (`ioengine/unvme_fio.c`) | per-thread table of outstanding I/Os | queue, getevents, init, cleanup | the API |
| Log, register and time stamp access, command line tests | | | |

What is hard here: the controller runs beside the driver and is seen only through
doorbells and a phase bit; a completion that one call reaps may belong to any
other call; a full queue makes a submission process somebody else's completion;
a wait may run out while the command is still executing; several threads open
and close sessions on the same device; some error returns are taken inside a
critical section; a crash leaves a region registered. `PROJECT.json` lists these
as hazards, at the line where each one bites, with the properties that watch
over it.

What makes each part correct:

* queue pair: a command handed over under a free id is executed once and its id
  comes back once, with that command's status; neither ring is overrun; the
  phase test sees exactly the new entries;
* I/O queue: ids are shared out among descriptors without overlap, a completion
  always finds its owner, the two lists and the pending head stay consistent
  through any sequence of calls, failures and timeouts, and calls come back;
* lock: writers are alone and are not overtaken;
* sessions: one context per device while it has sessions, none otherwise; the
  lock is given back; a namespace has one session;
* admin path: a command's answer is its own, whatever came late before it;
  bring-up puts driver and controller in step whatever a dead process left;
  open and close end though the controller is silent. The code keeps the first
  two only while nothing stale gets into a new ring and no id is taken twice;
* geometry: the commands of an I/O move exactly its blocks, whenever the
  controller reads their PRP lists, and none exceeds the controller's limit;
* allocator: blocks handed out are disjoint, and a block freed can be had again;
* registration: who has the device open has its pool registered and logged, and
  what dead processes registered is released.

## Modules

| Module | Models | Built on |
|---|---|---|
| `NvmeCommands` | abstract: what a queue pair promises | |
| `NvmeQueue` | `nvme_submit_cmd`, `nvme_check_completion`, both rings, the controller (external) | implements `NvmeCommands` |
| `UnvmeQueue` | `unvme_queue_t`: descriptors, ids, splitting, polling, timeouts | extends `NvmeQueue`, implements its `QSpec` |
| `UnvmeLock` | every atomic operation of the lock | |
| `UnvmeSession` | open, close, cleanup, reference counts | extends `UnvmeLock` |
| `NvmeAdmin` | controller bring-up, the `nvme_acmd` functions and their waits, the admin commands of an open and a close, processes that die | extends `NvmeQueue` |
| `UnvmeMapping` | transfer limits, splitting, PRP lists, address resolution | |
| `AuroraDma` | registration of the DMA pool, its log file, processes that die | |
| `BuddyAllocator` | `buddy_malloc`, `buddy_free`, the spin lock, threads that come and go | |
| `NvmeQueueProofs` | theorems on the queue pair: its invariant, and that it implements `NvmeCommands` | `NvmeQueue` |
| `UnvmeQueueProofs` | theorems on the I/O queue | `UnvmeQueue`, `NvmeQueueProofs`, `ListLemmas` |
| `UnvmeSessionProofs` | theorems on the lock and on the sessions | `UnvmeSession`, `ListLemmas` |
| `NvmeAdminProofs` | theorems on bring-up and admin commands | `NvmeAdmin`, `NvmeQueueProofs` |
| `UnvmeMappingProofs` | theorems on splitting and PRP lists | `UnvmeMapping`, `ListLemmas` |
| `AuroraDmaProofs` | theorems on the registration | `AuroraDma` |
| `BuddyAllocatorProofs` | theorems on the allocator | `BuddyAllocator`, `ListLemmas` |
| `ListLemmas` | what `LIST_ADD` and `LIST_DEL` do to a list without duplicates, as lemmas about sequences, and facts about quotient and remainder | |
| `MC*` | constants and views for TLC | |

An operator named `X_Variant` that stands just before `X` is a mutated form of
`X`, the way a slip in the code would change it. No specification uses it;
putting it in the place of `X` must make the property named in `PROJECT.json`
fail, which shows that the property depends on that line of the code.

### NvmeQueue

Variables carry the names of `nvme_queue_t`. A submission entry is its command
id, a completion entry is id, phase and status; everything else in them is data.
`nvme_submit_cmd` is one step, because the controller sees nothing of it before
the doorbell. `nvme_check_completion` is two, because the code writes the
completion doorbell and then reads `cqe->cid` from the entry it has just given
back: the controller may run in between. The test for a full submission ring in
`nvme_submit_cmd` is compiled out, and the model has none; what keeps the ring
safe is the caller's count (`Submit` here, `unvme_get_cid` in `UnvmeQueue`).

The controller is not in the repository. It fetches entries in order up to the
doorbell, finishes commands in any order with any status, and posts an entry
when the completion ring has room, flipping its phase on every lap.

### UnvmeQueue

One thread drives a queue (the API asks for this), its steps interleave with
the controller's. A call is a sequence of steps: `unvme_do_rw` takes a
descriptor and knows how many commands it will submit, `unvme_submit_io` submits
one of them, `unvme_do_rw_return` hands the descriptor out or, in a synchronous
call, goes on to poll it. Both waits, `unvme_do_poll`'s loop and `unvme_get_cid`
on a full queue, run `unvme_check_completion`, which searches the owner around
the use list from the pending head. Ends of the process are values of `op`:
`"timeout"` (the FATAL of `unvme_get_cid`), `"notfound"` (the FATAL for an id
without an owner) and `"endless"` (the pending head finds no descriptor to stop
at).

`held` is the set of descriptors an application holds if it believes the
comment on `unvme_do_poll`: it gives one up when a poll returns 0. The sentinel
test cannot recognise a released descriptor; the model polls descriptors in use
only.

Left out: buffers, block addresses and PRP entries (see `UnvmeMapping`); `desccount`,
which debug output alone reads; the error returns of `unvme_do_rw` and
`unvme_do_cmd` after a failed `unvme_submit_io`, which no path of
`unvme_map_prps` or `nvme_cmd_*` can take; the block under `UNVME_MEM`, which
the build does not define.

### UnvmeLock and UnvmeSession

Each atomic operation is an action. A reader that meets the write bit holds its
increment until it takes it back in a second step, which is why the
release must clear the bit and not the word.

`UnvmeSession` runs `unvme_do_open` in steps: call, lock, search, set-up,
attach. The set-up of a controller (registers, admin queue, I/O queues) is one
step that succeeds, is refused for a namespace the controller does not have, or
ends the process (`FATAL`, `exit`). The three error returns leave `unvme_lock`
taken, as in the code. `contexts[p]` counts the device contexts allocated for a
device and not freed, so that setting one up twice would show. A caller closes
a session once; the PCI comparison of `unvme_do_close` never fails for a handle
that `unvme_do_open` returned.

### NvmeAdmin

The variables of `NvmeQueue` are the admin ring. `phase` follows a process
through `unvme_do_open` (zeroed rings, disable, set-up, enable, identify, number of queues, the
loop that creates I/O queues, identify the namespace), the time the device is
open, and `unvme_cleanup` (the loop that deletes them). `cmd` is the `nvme_acmd`
call in progress: it takes `sq_tail` for its id, submits and waits;
`nvme_wait_completion` takes the first completion it finds, accepts it when the
id is the one waited for and fails otherwise, or gives up after its time. A
command given up stays on the ring and is answered late. A failure ends the
process in an open and is ignored in a close, which frees the queue's memory all
the same. `crash` may happen anywhere; the next process finds the controller as
it was left, enabled, with queues and commands executing. The tools of
`test/nvme` use this layer without sessions and may go on after a failure.

The application's admin commands (`unvme_do_cmd` with qid -1) go through an
`unvme_queue_t` of their own on the same ring. What that does to the ring is
`NvmeQueue`'s `Submit`, `Reap` and `ReapReturn` (run `unvme_queue_safe` shows
it), and this is how they appear. `cidmask` holds the ids of both kinds of
command; the code records the application's only.

`unvme_adminq_create` allocates and zeroes the rings (`unvme_queue_init`) and only then
calls `nvme_adminq_setup`, which disables the controller. Until it is disabled the
controller goes on with what a dead or closed process left it. Whether the new rings lie
at the bus addresses it works with is `attached`, either way: the pool may have been
registered where the old one was. If they do, it fetches entries of the new ring and
posts completions to it, and one of these that carries the phase bit of the first lap
stays there to be taken.

`dev_sqs` and `dev_cqs` are the queues the controller has, `mem` those whose
memory the process has. `what`, `late`, `cmd.own` and `disorder` are history. `what` is
the last command with each id and whether the controller has carried it out,
`late` an earlier command with the same id that the controller still has.
`disorder` says what first put the ring out of order, since the rings were zeroed: a
stale completion as above, or the phase in which an `nvme_acmd` function took an id
that was in use or found no room (`Clash`). The code prevents neither. What the
properties promise they promise of a ring in order (`InOrder`); a ring out of order is
still followed, through everything the code does to it.

`Overlap` says whether commands of the application may be on the ring when it opens
another namespace or closes. `nvme_wait_completion` then takes their completions, and
the call fails; `sq_tail` may be one of their ids. `RingBound` is a bound of the model:
neither the application nor a tool leaves more than `MaxOut` commands on the ring or
adds one to a ring out of order.

Read in the code, not modelled: the PRP list memory of the admin queue is sized by
`dev->ns.pageshift` (`src/unvme_core.c:345`), which is still 0 when the admin queue is created;
`unvme_map_prps` indexes it with the page shift of the namespace.

### UnvmeMapping

`unvme_ns_init` derives the limits from what a controller reports, on fields of
`Width` bits (16 in the code). `unvme_do_rw`'s loop submits one chunk per step;
`unvme_map_prps` writes the list page of the command's id; `Execute` is the
controller (external), which looks up the pages of a transfer, list included,
when it executes the command, and in any order. `TransferExact` compares the
block transfers it makes with those the application asked for. Rings, ids and
descriptors are reduced to the ids in use, as `UnvmeQueue` has them.

`maxbpio` may wrap to 0 (`Wraps`). The loop then does not end: every turn takes an id and
submits an empty chunk, which `nvme_cmd_rw` turns into a command for the
most blocks the field can say, with PRP2 0; the controller follows it to addresses that are
not the I/O's. `TransferExact` and `RwEnds` leave these geometries out, `WithinMdts`
does not. `MaxMoved` bounds how much of the endless loop
is followed.

Obligation of the caller: the buffer lies in the pool, and starts a page unless
the I/O lies within one. `unvme_map_prps` counts the pages of the length and not
of the address range, and `aurora_resolve_addr` looks at the first byte only, so
that the code notices neither.

### AuroraDma

A registration outlives its process, so `aurora_init` appends its address to a
log file and `vhsa_release`, at the next open or close, unregisters every address
in it and empties it. Each of these is a step, and a process may die between any
two. `lost` is history: registrations whose process died before it had written
them down, and those the firmware did not unregister. The log file is taken to
exist (`fopen` is not tested), and one process at a time to have the one device:
a second `aurora_init` would release the pool in use.

### BuddyAllocator

A block of level `l` has `2^l` units of 4096 bytes, the smallest size
`aurora_mem_alloc` rounds to; `MaxLevel` stands for `maxbytes`. Free lists are
sequences of addresses, in the order the links give. What a call does to the lists
of its own thread nobody else sees, so the recursion of `buddy_malloc` (up to the
first level that has a block, splitting on the way back) and of `buddy_free`
(merging level by level) is one step; the spin lock and the work on the global
list are steps of their own. `buddy_malloc` returns NULL from an empty global
list with the lock taken; its only caller then aborts the process, so that the
others do not spin for ever. A thread may end, and its lists with it, because the
index of a thread's lists is thread local; a block may be freed by any thread.

## Runs

| Run | Bounds | What it shows |
|---|---|---|
| `nvme_queue` | 3 entries, 2 statuses | over any number of laps: phase test exact, nothing lost or doubled, the id read after the doorbell intact, every id returns, `NvmeCommands` implemented |
| `unvme_queue_safe` | 4 entries, 2 statuses, 2 + 1 descriptors, I/Os of 0 to 2 commands, timeouts | ids and descriptors accounted for through failures, timeouts and retries; every completion owned; no id handed out twice; the contract of `NvmeQueue` kept |
| `unvme_queue_live` | 3 entries, success only, 1 + 1 descriptors, I/Os of 0 to 2 commands | every call returns, no descriptor is lost |
| `unvme_lock` | 4 threads, write bit 8 | exclusion, exact lock word, no overtaking |
| `session` | 3 threads, 2 devices of 2 namespaces, ids to 3, 3 sessions; callers that may ask for absent and busy namespaces, and callers that do not | contexts, reference counts and log count agree with the session list; the lock is given back unless an open was refused |
| `admin` | 3 entries, 2 statuses, 3 I/O queues, 1 command of the application or late command of a tool, `Overlap` | on a ring in order both ends are in step after every bring-up, answers and results are the command's own, queue memory is not freed under the controller unless a deletion failed; open and close end on every ring |
| `mapping` | pages of 4 to 16 bytes, every block size up to the page, PRP entries of 2 bytes, MDTS 0 to 3, fields of 5 bits, 3 entries, I/Os of 0 to 20 blocks, 5 buffers, 96 transfers of an endless loop | exactly the blocks asked for are moved and the call ends, unless the block limit wraps; no command exceeds the controller's limit |
| `dma` | 2 processes, 3 addresses | the pool of an open device is registered and logged, and a registration is lost only between the two or by a failed unregister |
| `buddy` | 2 threads, 2 lists, 3 blocks of 3 sizes, 2 blocks in use | DMA memory partitioned among those who hold it, blocks aligned and merged, no thread waits for ever |
| `poll_status`, `namespace_once`, `lock_leaked` | as above | the findings below |

Bounds and why they suffice. With three entries two commands are in flight, both
rings wrap on every third command, the controller can complete out of order and
the queue is full with a command of another descriptor; `Size` 2 would have no
order to confuse. What the queue pair's runs show for three entries the theorems
show for every size. `MaxDesc` is one above `InitDescs`, so that the free list
runs empty and a descriptor is allocated on demand; `MaxChunks` 2 fills the
queue with one call, and a call of two commands behind another call has to wait
for an id; 0 commands is an I/O of no blocks. On three entries the id that
`q->cid` names is always free, so that `unvme_get_cid` never has to search;
`unvme_queue_safe` has four, where it does. `MaxSes` 3 lets two sessions share a device while a third is opened;
`MaxNsid` is one above `NsCount`, so that an absent namespace is asked for.
`WBit` 8 exceeds the number of threads as 2^31 does. In `buddy`, `Batch` 0 makes a
refill take two of the three blocks, so that a second refill finds one and a third
one none; two levels of merging are reached; `MaxUsed` bounds the blocks in use or
asked for, while the lists may hold any number of pieces. `MaxLists` 2 leaves no
list for a thread that starts after another one has ended. In `admin` an open is
nine commands, three laps of the ring, and a close up to six, so that a close that goes on
after failures comes to ids still in flight and fills the ring; a command beside
the one left there is the least for an answer to be somebody else's. These bounds are outside
`CloseFits` (`2 * QCount - 1 <= Size`) on purpose; `IdsFree`, which is about the rings within it,
is a theorem and not a property of the run. In `mapping` a list page holds 2 to 8 entries, so that one, two and more
than two PRP entries, a full list page, MDTS above and below that limit, and a
`maxbpio` that wraps to 0 all occur; the sizes of the code only scale them (with 512-byte
blocks, 16-bit fields wrap at pages of 16 KiB). A queue with room for two commands
makes the loop reuse ids, and with them list pages, while others are in flight. 96
transfers are three of the commands a wrapped limit submits.
In `dma` two lost registrations leave one address of three.

`unvme_queue_safe` uses the view `LiveView`: driver and controller use a ring from
head to tail only, so that where on the ring they are makes no difference;
`ret` and `desc[d].error` are never read; descriptors matter by their place in
the list, not by their number. States that differ only in these have the same
futures up to renaming. Whether the ring facts proved in `NvmeQueueProofs` hold
is part of the view, so that a state that breaks one is not taken for another.
`admin` uses `AdminView`, which leaves out entries outside the live part of the
rings, what a command without a result says, and a ring that neither side uses; of a ring
out of order it keeps every entry, but not results, of which no property speaks there.

Deadlock checking is off where the system may stop: after a FATAL or exit, with
the lock left taken, or with a bound reached.

### Fairness

`QFairSpec` and `UFairSpec` assume weak fairness of the controller's fetch, of
its completion of each single command, and of the thread that runs the queue: a
controller that drops a command is a hardware failure, which the code meets with
a timeout (checked for safety in `unvme_queue_safe`). An application is never
obliged to start a call. `CallReturns` needs no more than that, although the
completions a call takes may belong to other descriptors. A synchronous call
waits for UNVME_TIMEOUT seconds; in the liveness run this does not run out. An
application's own poll may time out at any moment, as with a timeout of 0.

`AFairSpec` assumes that the process runs, from its zeroed rings on, and nothing of the
controller: every wait of the admin path has a limit. `MFairSpec` assumes the thread and the
controller, as the queue runs do.

`SFairSpec` and `BFairSpec` assume that a thread inside a call keeps running. For
the allocator's spin lock, which hands itself over to anybody, this is enough:
each holder takes blocks off the global list for good or ends the process, so that
the lock is taken a bounded number of times. No liveness is
claimed for a waiting writer against readers: a reader that keeps retrying raises
the count for a moment each time, and weak fairness does not promise the writer
the moment it needs. Nothing in the repository takes the lock for reading.

## Findings

* `poll_status`: `unvme_check_completion` records a failure in `desc->error`,
  and nothing reads it. When another call reaps the failure, the poll of the
  owner returns 0, against "0 if ok else error status" (`src/unvme_core.c:733`).
* `namespace_once`: the search of `unvme_do_open` stops at the first session of
  the device, so that "nsid is in use" is reported for that session's namespace
  only.
* `lock_leaked`: the error returns of `unvme_do_open` keep `unvme_lock`; every
  later open or close waits for ever. `session` shows that these returns are the
  only way to keep it.

The models reach two more failures, which the properties of `admin` and `mapping` therefore
except by name:

* A completion that a controller still enabled by a dead process writes
  into the new ring, after it was zeroed (`src/unvme_core.c:398`) and before the controller is
  disabled (`src/unvme_nvme.c:667`), is taken by `nvme_wait_completion` for the answer to the
  new process' command with that id (`disorder` is "stale"). It needs a pool registered at the
  same bus address. Without `InOrder` TLC finds `AnswerIsOwn` violated on a ring of 3 entries
  with one I/O queue.
* With 16 KiB pages, 512-byte blocks and no MDTS limit `maxbpio` wraps to 0
  (`src/unvme_core.c:468`); an I/O then submits commands for 65536 blocks without end, against
  "Read data from specified logical blocks" (`src/unvme.c:288`). Without `~Wraps` TLC finds
  `TransferExact` violated.

Read in the code, not a run: `unvme_do_poll` releases a descriptor without
pending commands also when it returns an error, against "If there's no error,
the descriptor will be released" (`src/unvme_core.c:729`).

## Proofs

TLAPS checks every step. What is assumed is named: on the constants, `Size >= 2`
and a set of statuses that contains 0 for the queue, `MaxChunks >= 1` and
`MaxDesc >= InitDescs` for the I/O queue, a finite set of threads, fewer than the write
bit, for the lock, at least one I/O queue for the admin path, for the mapping
blocks no larger than a page, a page that fits its field and holds whole PRP
entries, for the allocator finitely many threads and at least one block, and none for the
registration; and, as hypotheses of single theorems, that the controller reports
success only and no wait runs out (`NoDescriptorLeaks`), that callers ask for
namespaces that exist and are free (`PoliteCallersKeepLock`). Two properties have a premise of
their own: `IdsFree` that a close is no longer than a lap of the admin ring and the application
leaves nothing on it, `TransferExact` that the block limit does not wrap.

**Queue pair** (`NvmeQueueProofs`), for every size. `TypeCorrect` stands alone.
The other invariants need each other and are proved together as
`QInv == QTypeOK /\ Doorbells /\ PhaseAgrees /\ Counted /\ InFlightOnce /\ ReapedEntryIntact`,
one lemma per action. Posting keeps `PhaseAgrees` only if the ring has room,
which is `Counted` and the controller's doorbell test, hence `Doorbells`; reaping
keeps `InFlightOnce` only if the entry at the head is really posted, which is
`PhaseAgrees` (lemma `PhaseTest`); returning the id keeps both only if the
entry is still the one whose status was taken, `ReapedEntryIntact`; a submission
does not overrun the ring because `Counted` turns the caller's count into a
distance on the ring. `SegGrow`, `SegShrink` and `DistRange` are the facts about
intervals on a ring, `CidSets` those about cardinalities. `QueueInvariant` gives
`CommandsInFlightOnce`, `RingsNeverOverrun`, `PhaseTestExact` and
`ReadAfterDoorbellSafe`.

**Queue pair implements `NvmeCommands`** (also `NvmeQueueProofs`), for every size,
from `QInv`. `Submit` maps to `Submit`, `DevicePost` to `Complete`, `ReapReturn`
to `Deliver`; `DeviceFetch` and `Reap` are stutters. The facts that carry it are
that a completion entry the driver has not finished with names an outstanding
command no other such entry names (`HeldEntries`, `DoneOnce`), and that the
controller's next entry is never one of them, so that a status once given stays
(`StatusKept`).

**Lock** (`UnvmeSessionProofs`), for every number of threads below the write bit.
The inductive invariant `LInv` is the type invariant, the exact lock word
(`LockWord`) and that a writing thread sees no reader. Exclusion is not
inductive without the exact word: what a writer reads is a sum, and only the
word's accounting says that the sum `WBit` means no reader. `WriterNotOvertaken`
is an action property and follows from the same invariant.

**Registration** (`AuroraDmaProofs`), for any number of processes and addresses.
`DInv` adds to the types, `PoolRegistered` and `NothingElseLost` what log and
firmware agree on at each step of `aurora_init` and `vhsa_release` (`Progress`):
while the log is read back, all that is registered and not lost is still to be
read; when the pool is registered nothing is and the log is empty; until it is
appended the pool is the only registration. The other processes cannot disturb
this because one at a time has the device (`OneAtATime`). One lemma per action,
the crash included.

**I/O queue** (`UnvmeQueueProofs`), for every ring size, number of descriptors and
I/O length, with failing commands and timeouts. The inductive invariant is
`UInv == QInv /\ Types /\ Lists /\ CidAccounting /\ PendingHead /\ Calls`. `Lists` says that use
list and free list hold each descriptor once between them (`DescLists` speaks of
lengths, and says too little of a list to remove from it); `Calls` says what the call in
progress has in hand. The ring's `QInv` is part of it: that a reaped id has an
owner is `CidAccounting` applied to an id that is really outstanding
(`ReapedEntryIntact`), and that the search from the pending head finds the owner is
`PendingHead`: the descriptors it passes by have nothing pending. Releasing or
adding a descriptor moves the others along the list; `ListLemmas` has what that
does to positions. `QueueContractKept` then shows every step of the I/O queue to be a
step of `NvmeQueue` or none, and with the refinement above
`DriverImplementsCommands` takes the promise of `NvmeCommands` up to the API.
`NoDescriptorLeaks` needs its hypothesis: a failed command makes `unvme_do_poll`
release a descriptor or leave it, and a synchronous call drops it.

**Sessions** (`UnvmeSessionProofs`), for any number of threads, devices and
namespaces. `SInv` has who is between `unvme_lockw` and `unvme_unlockw` (`Holding`),
the list of sessions (`SessionList`), and what contexts, reference counts and log have to do
with it (`Devices`): exact when nobody is inside, off by what the call in
progress has done so far when somebody is. The exact lock word of `UnvmeLock` is
not part of it and does not hold here: an open that is refused returns with the
lock, as the finding `lock_leaked` says, and `SInv` holds on. For callers that are
never refused, `PoliteCallersKeepLock` shows that the sessions implement `UnvmeLock`, with all that
is proved there.

**Bring-up and admin commands** (`NvmeAdminProofs`), for every ring size, number of
queues, `MaxOut` and `Overlap`. The inductive invariant `AInd` has a part that holds of every ring
and a part that holds of a ring in order. Of every ring: types, `Registers` (a controller
that is not ready has been reset), `Untouched` (until the first command the
process has only zeroed its end), `Call` (the `nvme_acmd` call in progress) and `Loops` (how far the
two loops over the I/O queues are). Of a ring in order, one
part for each thing that goes wrong without it. `FreshRing`: no completion in a ring not yet
handed over carries a phase bit the process looks for, which is what a stale completion
breaks; with `Registers` and `Untouched` it makes the ring at its hand-over one that
`NvmeQueue` starts from (`HandOver`). `RingSound`: from then on the ring satisfies `QInv`. Every
step on it is a step of `NvmeQueue` and `NvmeQueueProofs` carries it, because an `nvme_acmd`
function that leaves the ring in order took a free id and found room (`IssueSubmits`).
`Answers`: a completion entry still to be read tells the truth about its command, which
with `InFlightOnce` and `Unlate` (no id has two commands) gives `AnswersOwn`. `Lockstep`: the driver's two indices are
as far apart as commands are outstanding, which is why the features functions find their result
at the index of the submission entry (`FeaturesOwn`). `IoQueues`, `AloneInTurn` and `Contents`: which queues the
controller has at each turn of the two loops and what the commands on the ring can still
do to them, hence `QueueMemorySafe`.

`OpenCloseIdsFree` says when an open and a close keep the ring in order by themselves. In an
open nothing else is on the ring (`AloneInTurn`). In a close late commands are at most one for each
queue passed and have ids among the last two for each (`Late`), so that none comes round if
the `2 * QCount - 1` commands after the first are no more than the entries (`CloseFits`): 32 queues on
the 64 entries of the admin ring. The code takes as many queues as the controller offers and
does not test this, which is why none of the other theorems assumes it.

**Splitting and PRP lists** (`UnvmeMappingProofs`), for every geometry, field width,
queue size, buffer and I/O length. `MInv` is one of two things: `Spinning`, if the block limit wrapped
to 0, which says that the loop stays where it began and every command is for `2 ^ Width` blocks, or
`Advancing`. `TransferExact` speaks of what has been moved, and
`Advancing` of what is on its way there: the loop's arguments are the I/O's less what
has been submitted (`Running`), a command in flight is for blocks the loop has
passed and its PRP entries still say what `unvme_map_prps` wrote (`CommandOK`),
two of them have neither id nor block in common (`Apart`), and a block passed is in
flight or moved (`Accounted`). Three facts of arithmetic carry it. `GeometryHolds`: the
block limit is a whole number of pages, and 0 only if the product it comes from does
not fit the field; so the rest of an I/O that started a page starts one again
(`RestOnPages`). `CommandFitsList`: a command within the limit has no more list
entries than a page holds, so that no id writes into the list of another
(`ListsApart`, `ListKept`). `BlockPlace`: the pages the driver counts from the length are those
the controller walks through from the address, because the I/O starts a page or
stays within one; this is where the caller's obligation is used. The provers know nothing
of `2 ^ n`; `PowerAssumption` states the one law used, `2^m = 2^n * 2^(m-n)`, for the
shifts that occur, and TLC evaluates it on the instance. It restricts no constant.

**Allocator** (`BuddyAllocatorProofs`), for any number of threads, free lists, levels and
blocks and any batch. `Partitioned` counts the holders of a unit; the proof takes the
same thing as a set of blocks with their holders (`Held`), each in the pool and aligned
(`Whole`), of which no two have a unit in common and each unit has one (`Tiled`). Every action
then replaces some blocks by others over the same units (`ReplaceTiled`) or moves one
from holder to holder (`MoveTiled`). What remains is that the code does so, and that needs the
lists. Splitting overwrites the lists it fills (`Split`), which loses nothing only because they
were empty: `buddy_malloc` takes the first list that is not, and a thread that waits for
the spin lock found all of them empty and nobody else touches them meanwhile, the last
conjunct of `BInv`. The walk of `buddy_free` stops at the first block behind
the one freed, so that it finds the other half only in a list in address order, and
finds it before it has passed its place (`MergeStep`, `NoneToMerge`): `ListsOK`.
Two halves of a block are never both free in one list, so that what is merged is on
no other list and merging at one level leaves the level sound (`MergeTwo`). `buddy_free`
does this level after level in one step; the recursion is a function on the levels, whose
existence and values are proved by a least counterexample (`MergedIs`, `MergeChain`)
since induction is not at hand, and `MergeLists` puts the levels together. Alignment makes
halves fit: two aligned blocks of the sizes of the pool are apart or one lies in the other.
`PowerAssumption` is the law of powers of the mapping again, for the levels there are.

Only model-checked:

* the liveness properties (`CommandReturns`, `CallReturns`, `LockReleasedUnlessRefused`,
  `OpenCloseEnds`, `RwEnds`, `AllocReturns`): fairness is beyond the prover.

Every invariant and every action property that a passing run checks is a theorem.

## Not modelled

* Log formatting, register access and time stamps (a timeout is a step that may
  happen); the command line tests and benchmarks of `test/unvme`, clients of the API.
* The fio engine: it passes the `vfio_dma_t` pointer that `unvme_alloc` returns as
  the I/O buffer (`fio_unvme_iomem_alloc`), and `aurora_resolve_addr` ends the
  process at its first I/O. The engine was written for the upstream interface,
  where `unvme_alloc` returns the buffer.
* Code that the build leaves out: `UNVME_MEM`, `MEM_SIMPLE`, the VFIO calls that
  are commented out.
* Two devices in one process, or two processes at a time: the registration, the
  register address and the allocator are global and made for one (see `AuroraDma`).
* Buffers longer than `maxbpio` blocks in `unvme_do_cmd`, whose PRP entries would
  run on into the list page of the next id; the call leaves the size to its user.

## Plan

1. A larger instance of the admin ring, if a smaller view can be found.
2. More devices and processes at a time, if the allocator and the registration are
   ever made for them.
