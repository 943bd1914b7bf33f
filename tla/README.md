# Verification of the reL4 root task demo

TLA+ models, TLC runs and TLAPS proofs for `crates/example`: a root task for
seL4/reL4 with a stackless-coroutine runtime, asynchronous IPC and system calls
over shared memory rings with user interrupts, and a TCP server on top of them.

## Inventory

| Component | Source | State | Operations |
|---|---|---|---|
| `SafeRingBuffer`, `ItemsQueue`, `NewBuffer` | `async_runtime/src/utils.rs`, `new_buffer.rs` | `data`, `start`, `end`, atomic `count`; two rings and two status flags per buffer | `push_safe`, `pop_safe` from two threads, no lock |
| `RingBuffer` | `utils.rs` | `data`, `start`, `end` | `push`, `pop`, `size`, `empty`, `full`, one thread |
| Executor | `executor.rs`, `coroutine.rs`, `lib.rs` | eight ready rings, priority bitmap, task array, `delay_wake_cids`, id allocator | `spawn`, `wake`, `delay_wake` (interrupt), `fetch`, `switch_possible`, `remove_task`, `run_until_blocked` |
| Asynchronous IPC | `async_lib.rs`, `ipc_test.rs` | `NewBuffer`, `IMMEDIATE_VALUE`, `WAKE_MAP`, `SENDER_MAP` | `seL4_Call_with_item`, `seL4_Send_with_item`, `recv_reply_coroutine`, `recv_req_coroutine`, `uintr_handler` |
| User interrupts | `uintr/src` | posted bits | `uipi_send`, `__handler_entry` |
| Rendezvous | `AsyncArgs` in `async_lib.rs`, `ipc_test.rs` | the shared `AsyncArgs` under a lock | publish and wait loops of both threads |
| Asynchronous system calls | `async_lib.rs`, `async_syscall.rs`, `syscall_test.rs` | the buffer shared with the kernel | one wrapper per call, `recv_reply_coroutine_async_syscall` |
| Bit maps | `utils.rs` | words | `set`, `clear`, `find_first_one`, ... |
| TCP server, asynchronous | `net/mod.rs`, `net/listen_table.rs`, `net/message.rs`, `async_tcp_test.rs` | socket set, listen table, `SOCKET_2_CID` | `nw_recv_req_coroutine`, `process_req`, `tcp_accept_coroutine`, `tcp_recv_coroutine`, `net_poll` |
| TCP server, synchronous | `sync_tcp_test.rs`, `net/sync_tcp.rs` | `POLL_EPS`, blocked tasks | the two-phase loop, `process_req` |
| Memory allocators | `memory_allocator.rs` | free slots, mapped addresses | `init`, `map_vaddr`, `unmap_vaddr` across awaits |
| Object allocator | `object_allocator.rs` | untyped descriptors, empty slots | `alloc_*`, `create_thread` |
| Drivers | `device/net` | DMA buffers, descriptors | token `consume`, buffer handles |

How they interact.  Each thread owns one executor.  A thread's coroutines talk
to another thread (or the kernel) through a `NewBuffer`: the sender pushes an
item and, if the receiver's status flag is false, sets it and posts a user
interrupt; the receiver's interrupt handler marks the receiving coroutine in
`delay_wake_cids`; the next `fetch` moves it to a ready queue.  A receiver that
finds its ring empty clears its flag and yields.  The TCP server runs on the
same machinery, one coroutine per channel and per socket.

What is hard.  Two threads preempt each other between any two accesses to the
shared rings and flags; interrupts arrive between any two instructions of the
executor; wakes may be early, late, repeated or for a coroutine that is gone;
ids are reused; every queue has a limit behind an `unwrap`.  The list with lines
and the properties that answer it is `hazards` in `PROJECT.json`.

What makes each part correct.

- Ring: a FIFO queue; refusal means full, `None` means empty; no slot is read and
  written at once.
- Executor: no wake is lost; the highest ready priority runs first;
  `run_until_blocked` returns only when nothing can run; ids name one coroutine;
  no `unwrap` fails within the documented limits.
- IPC: each call is answered exactly once, to its caller; a set flag means that the
  receiver will look; nobody sleeps on an item; the test ends.
- Rendezvous: nothing is used before it is published.
- TCP server: each request is answered; each connection is accepted once, by one
  listener, when it is established; no lock is taken twice.  (The code does not
  achieve all of this; what it does achieve, and the exceptions, are the properties.)
- System calls: each is answered once, to the worker that made it, after the kernel
  has executed it; what a call names exists; the test ends.
- Allocators: a slot, frame or object has one owner; the object allocator gives up
  only when memory is short.

## Plan

1. `SafeRingBuffer`, `RingBuffer`, refinement to `BoundedFifo`, proofs. *Done.*
2. `Executor`, `CoroutineRuntime`. *Done, with proofs of all the safety properties.*
3. `AsyncIpc`, composing two executors and two FIFOs, with the set-up of both
   threads. *Done, with proofs of all the safety properties.*
4. `NetServer`, the asynchronous server with its listen table. *Done, with proofs of all
   the safety properties.*
5. `MemoryAllocator` for `AsyncMemoryAllocator`. *Done, with proofs.*
6. `SyncServer`, the synchronous server. *Done, with proofs of all the safety
   properties.*
7. `ObjectAllocator` and `AsyncSyscall`, the system call test over an executor, the
   object allocator and an external kernel. *Done.*
8. Left: proofs about `AsyncSyscall` (see the end of *Proofs*).

## Modules

`BoundedFifo` is the abstract specification of a ring: a sequence, a capacity, and
the results of the last push and pop.

`RingIndex` has the index arithmetic of both rings: `Advance(i)` is
`(i + 1) % SIZE`.

`SafeRingBuffer` models `push_safe` and `pop_safe` one shared access per action:
test `count`, access `data`, move the index, `fetch_add`/`fetch_sub`.  The unused
first load in `push_safe` is left out.  One thread pushes and one pops, which is how
every ring of a `NewBuffer` is used by the code in this repository.  The refinement
mapping `Contents` takes a push to happen at its `fetch_add` and a pop at its
`fetch_sub`; between the move of `start` and the `fetch_sub` the oldest item is still
at the slot before `start` (`head`), and symmetrically for `tail`.

`RingBuffer` models the sequential ring of a ready queue, one method per action.

`Executor` has the methods of `Executor` as operators on a record; each field of the
record is a field of the struct, plus `ids` for the thread's `CID_ALLOCATOR` and
`panic` for a failed `unwrap`, `assert!` or index.  A ready queue is a sequence with
the capacity `RingBuffer` is proved to have; bit maps are sets of positions; a
coroutine is its priority.  `WakeBit` is one turn of the loop of `actual_wake`, with the
bit it clears, and `WakeLoop` the loop, by recursion over the number of turns;
`SpawnMany` is a spawn loop in the same form.  `Fetch` keeps the two paths of `fetch`
that return `None`.  `Exact` says that ready rings, bit map and task array agree.

`CoroutineRuntime` is one thread using an executor: main code spawns and enters
`run_until_blocked`; the running coroutine may spawn, wake any id, offer a switch,
yield or finish; interrupts delay-wake registered ids at any moment.  `owed` is a
history variable: coroutines woken and not run since.  `disciplined`, chosen at the
start from `Disciplines`, restricts wakers to coroutines that are alive and not
already woken.

`AsyncIpc` is `ipc_test.rs`: `COROUTINE_NUM` callers and the reply receiver on the
client's executor, the request receiver on the server's.  Its state is the
`NewBuffer` (two FIFO sequences, two flags), posted interrupts, `IMMEDIATE_VALUE`
and the test's counters; every load or store of shared memory is an action, and the
thread-local work after it belongs to that action.  `cur` is the thread on the core
(both have affinity 0); `preemptive`, chosen at the start from `Schedulers`, says
whether it can lose the core other than by `yield`.  An item is represented by its
caller's id, which determines its message.  The set-up is part of the model: `args` is
the set of fields of `AsyncArgs` that are set, `lock` its spin lock; a thread locks,
then sets or tests fields and unlocks, and what it unwraps without it being set is a
panic.  `create_thread` starts the client before its tcb is published.

`NetServer` is the asynchronous TCP server.  The network thread's coroutines
(`net_poll`, `nw_recv_req_coroutine`, one `tcp_accept_coroutine` per `Listen`, which
goes on as `tcp_recv_coroutine`) run on an `Executor`; one action is what a coroutine
does from a resume to its next yield, except that `net_poll` is cut between the poll
and the acknowledgement, where the device may interfere, and that
`nw_recv_req_coroutine` takes one action per request, one that finds the ring empty
(`ReqEmpty`) and one that clears the flag and yields (`ReqIdle`).  The client's
`recv_reply_coroutine` is cut in the same way (`ClientEmpty`, `ClientIdle`).  The clients are the
`tcp_server` coroutines with the calls of `net/tcp.rs`: listen, then receive a byte
and send one until `.` comes.  The listen table has one port, as in the test.  A push
is one step (item, flag, interrupt).  `AsyncIpc` takes it apart and `FlagIsReliable` is
proved there.  Here that would only add wake-ups that find nothing: the item is in the ring
before the flag is looked at, so whoever clears the flag after the push either sees the item
first or had found the ring empty before the push, which is the window that is
modelled; and a sender that finds the flag clear always sends.  smoltcp is external: a SYN
takes the first listening socket and data is queued.

A frame may arrive at any moment.  `late` is a history variable: the last frame came between
`iface_poll` and `interrupt_handler`, which wipes out its interrupt.  `faults`, chosen from
`FaultSets` at the start, names what a network does beyond the good case: `late_ack` (the
handshake's ACK misses the poll that saw the SYN), `retransmit` (a SYN is sent twice),
`refused` (a peer connects before anyone listens), `reset` (of an accepted connection),
`early_reset` (of one that `accept()` has not taken), `tx_full` (`can_send()` may find the
buffer full), `silent` (a peer stops without a `.`).  None of them restricts when a frame
comes.

`MemoryAllocator` is `AsyncMemoryAllocator`: `map_vaddr` and `unmap_vaddr`, each cut
at its await, with the kernel's action in between.  The loop that would spawn the
calls is commented out in `run_async_memory_alloc_test`; the coroutines here are the
ones of that comment, with a shared raw pointer.  `Exclusive` says that no two calls
under way have the same address and that a mapped address is not mapped again, as
`single_test` does with an address of its own.  Without it two coroutines that unmap one
address recycle its slot twice.

`SyncServer` is `sync_tcp_test.rs`.  The server thread first sweeps over the endpoints
of all client threads until one sweep finds a request on each, then loops over the
notification, the endpoints in `POLL_EPS` and `RECV_BLOCKED_TASKS`.  One action is one
`nb_recv` with its request, one frame taken by `iface_poll`, or one blocked task; the
server takes no other step while a poll is under way (`polling`) or a blocking reply is
being sent (`hand`).  `Held` is the life of the `POLL_EPS` guard, and a second lock of it
by the server itself is the state `spin`.  A client thread is its place in the pair
`ep.send`, `ep.recv` and the call it makes.  Threads start at any time, so a sweep may find any part of them; a SYN may
come at any time after its Listen, also while `POLL_EPS` is held.  A SYN carries a history
field, `timely`: when it came the server had its `ntfn.poll()` still before it, or was in the
poll that follows.  No action looks at it.  `net_interrupt_handler` is cut between its poll
and its acknowledgement (`IrqAck`); a frame in between is not announced.  `faults` names what
a run does beyond the good case: `sweep_syn` (a SYN while the first loop still runs),
`early_syn` (a SYN before its thread receives), `retransmit`, `burst` (a peer does not wait
for the echo), `reset`, `tx_full`.  `Hasty` are the runs in which a SYN can be taken while the
thread whose Listen it answers has not reached `ep.recv`: the `nb_send` of the listen table
then drops the handle.

`ObjectAllocator` has the methods of `object_allocator.rs` as operators on a record: the
untyped list with its used marks and the range of empty slots, and beside them, external,
what the kernel keeps in each slot and whether it ever refused an invocation.  Slots are
numbered from 1, the untypeds first.  `Unwrap` is an invocation whose error ends the task.
Of `create_thread` the scheduling parameters, the affinity and the resume are left out; they
change nothing of the allocator.  The start-up functions that allocate through it are
here as well: `init_net_interrupt_handler`, the badged notification of every receiver and
`init_mmio` of both drivers, which retype the device region until they meet the device, or to
its end if no megapage is the device's (`hit = n`).

`AsyncSyscall` is `async_syscall_test`: an `Executor`, an `ObjectAllocator`, the buffer
shared with the kernel, and one section of the test after up to `MaxSetup` start-up calls.
`NextCall` gives the k-th call of a worker, `Prepare` what it allocates first.  Arguments
are cut to `ArgRange` as the `as u16` of the wrappers does; results are dropped, as there.
The joining of an address and the division of a string into items are modelled with
smaller widths.  `REPLY_NUM` has the constants of the source, section by section (`prepare` and
`address` have none of their own and get `TEST_REPLY_NUM`), and is independent of `Calls`, the
calls a worker makes.  The reply coroutine finds no reply in one step (`ReplyEmpty`) and clears
its flag in the next (`ReplyBlock`).  The sections that touch the page they have mapped or unmapped fault if it
is not mapped.  The kernel takes requests in order and executes them while the thread runs
on.  `MCAsyncSyscall` has the untyped lists for TLC.

External parts, modelled from their use: the kernel's scheduler (`Preempt`, the
fairness) and the interrupt hardware (`uipi` is set by `uipi_send`, consumed by the
handler; interrupts that arrive during a handler stay posted).

## Runs

| Run | Checks | Shows |
|---|---|---|
| `safe_ring` | `RingInv`, `NoSlotRace`, `RefinesFifo` | three slots, three items: all wrap-arounds, empty and full |
| `ready_ring` | `RingInv`, `RefinesFifo` | four slots, capacity three |
| `runtime` | `TasksMatchIds`, `NoLostWake`, `ReadyExact`, `NoPanic`, `ReturnsOnlyBlocked`, `HighestPriorityFirst` | arbitrary wakes, with ring, array and id allocator all running out; and the executor is exact when nobody wakes twice |
| `runtime_lost_wake` | `NoLostWake` violated | ids 1 and 2 pending together: 2 is lost |
| `ipc` | `NoPanic`, `OneTokenPerCall`, `StatusMeansWake`, `NoStrandedItem`, `Completes` | set-up and three callers with five calls on rings of three, preempted anywhere; without preemption nobody sleeps on an item and the test ends |
| `ipc_lost_wakeup` | `PrintsTestPass` violated | preemption in the window before the flag is cleared |
| `net_safe` | `NoPanic`, `OneTokenPerCall`, `OneOwnerPerSocket`, `FlagMeansWake`, `NoStrandedFrame` | two clients, two peers, on three networks: refused, silent and full; full and reset; late ACKs, repeated SYNs and early resets |
| `net_served` | `AllServed` | a good network: every client is served to the end, or the system rests in one of three windows |
| `net_early_accept` | `AcceptsConnected` violated | the listener is woken by the SYN, before the handshake's ACK |
| `mem_exclusive` | `TypeOK`, `OneOwnerPerSlot`, `NoSlotLeak`, `TableMatchesKernel` | three coroutines, three addresses, two frames: the slots run out |
| `sync_server` | `TypeOK`, `OneTokenPerCall`, `NoOrphanSender`, `NoByteLost`, `GivenSocketsConnected`, `SelfDeadlockOnlyLate`, `AllServed` | two threads, two peers, two bytes each: the good case, each of the six faults and one pair |
| `syscalls` | `KernelNeverRefuses`, `PanicOnlyWhenShort`, `OneTokenPerCall`, `PrintedInOrder`, `AddressDecoded`, `PassMeansDone`, `Completes` | every section of the test after each start-up call, on untyped lists sorted, unsorted, with devices and too short |

In `CoroutineRuntime`, `AsyncIpc`, `NetServer` and `AsyncSyscall` the type invariant is
the first conjunct of `TasksMatchIds` or `OneTokenPerCall`, and is checked with it.

Bounds.  The rings wrap after two or three pushes, so three slots show every
relative position of the indices.  Two priorities and three or four coroutines are
the least at which queues of different priorities, reuse of ids and the pair (1, 2)
occur.  Two callers are the least at which one call is pushed while another is being
answered; with three and five calls some callers come round again while others end.
Two clients and two peers are the least at which listeners can be woken in the wrong order; the request ring holds
at most one item per client and two `NetPollReq`, so four slots are enough for two
clients (the code has `MAX_ITEM_NUM` for 32), and `SwitchCnt` is 2 for the code's 20.
A peer sends one byte: `.` takes its client through Recv and the last Send, and a peer that
falls silent after another byte leaves it in the Recv after a Send, so every call of
`tcp_server` is made; more bytes only repeat the pair of calls.
Clients and peers are interchangeable, so the safety runs of `NetServer` use symmetry;
`net_served` does not, because it checks liveness.

`SyncServer` needs two threads and two peers for the same reason, and two bytes so that
a blocked read can find more than it was asked for; faults come one at a time, so that
each exception in a property is tied to the fault that causes it, but for one pair: a
repeated SYN is `Hasty` only if SYNs come while threads start as well.  In `AsyncSyscall` two
pages make two workers and two allocations of frames; a chunk of two characters and
lengths 0 to 3 give an empty string, strings that fill their item or do not, and strings
with the number of items `OUTPUT_REPLY_NUM` counts or one more (the test's five characters
are one item of seven); parts of two bits and the addresses 6 and 17 are below and above the two parts that
are joined correctly; `ArgRange` 18 of 24 slots lets some runs pass it.

Deadlock is checked everywhere except in `runtime` and `net_safe`, where a panicked
thread stops.

Fairness.  `Spec` of `AsyncIpc` assumes that a thread that is on the core again and
again takes its next step, and that a posted interrupt is taken: time slices and
interrupt delivery.  Nothing is assumed about `Preempt`.  `Spec` of `NetServer` assumes
weak fairness of the network thread, of the client thread (both have affinity 0, the
priority 255 and yield in their loops), of the peers together and of the device
interrupt.  A peer whose connections are refused again and again could starve the
coroutines of priority 2, so `AllServed` is checked without `refused`.  `Spec` of `SyncServer` assumes weak
fairness of the server, of the client threads (one priority, one core, round robin) and of
the peers' data; `Spec` of `AsyncSyscall` of the thread and of the kernel's handler, which
runs when it has been woken.

### What the violations mean

*Lost wake-up* (`ipc_lost_wakeup`).  The receiver pops `None`, is preempted, the
sender pushes and sees the flag still true, the receiver clears the flag and yields.
The item stays in the ring and no interrupt will come.  `ipc` shows that
without preemption nothing goes wrong; re-reading the ring
after clearing the flag would close it.

*Lost delayed wake* (`runtime_lost_wake`).  `actual_wake` clears bit `index` of the
shifted word.  `runtime` shows that receivers 0 and 1 are safe.

*Early accept* (`net_early_accept`).  `snoop_tcp_packet` looks at a frame before TCP
does and wakes the listener on a SYN; `accept()` then asserts `State::Established`.
That holds only when the ACK comes back inside the same call of `iface_poll`.
`net_safe` shows that on the other networks the assertion never fails.

### What the exceptions mean

Some properties name cases in which the code does not do what one would wish.  They are
in the model, and each was found to be needed: without it TLC reports a violation.

- `AllServed` of `NetServer` and `Completes` of `AsyncSyscall` allow the system to rest with
  an item left in a ring (`RequestLeft`, `ReplyLeft`): the lost wake-up of `ipc_lost_wakeup`
  exists in `nw_recv_req_coroutine`, in the TCP client and in
  `recv_reply_coroutine_async_syscall`.  Nothing else keeps a client of a good network from
  its end but a frame that came between `iface_poll` and `interrupt_handler` (`FrameLeft`).
- `NoStrandedFrame` exempts the state in which the last frame came in that window; a frame
  that comes later has the earlier one polled as well.
- `NoPanic` of `NetServer` allows the assertion of `accept()` to fail after a late ACK, a
  repeated SYN or a reset before `accept()`; it allows no other.
- `SelfDeadlockOnlyLate`.  The synchronous server does deadlock with itself: a SYN polled
  while it processes requests makes `incoming_tcp_packet` lock `POLL_EPS` again.  No document,
  comment, assertion or test of the repository says that it does not, so this is no finding
  but a property of which SYNs do it: only those that came after `ntfn.poll()`, or between a
  poll and its acknowledgement.
- `AllServed` of `SyncServer` allows that deadlock, a first loop that never ends because a
  sweep met only some of the threads (a Listen that was taken is not there for the next sweep,
  which again counts fewer than `THREAD_NUM`), and a frame that is not announced.
- `Completes` allows `Miscounted`, a `REPLY_NUM` that differs from the calls of the section: a
  string of one item more than `OUTPUT_REPLY_NUM` counts, and `prepare`, which has no
  constant.

## Proofs

The proofs of both rings start from the same index lemmas (one step is `Slot(i, 1)`; no
slot is met twice in one turn), which assume only `Size \in Nat \ {0}`.

`SafeRingBufferProofs`: `RingInvariant` (`Spec => []RingInv`), `SlotRaceFreedom`
(`Spec => []NoSlotRace`), `Refinement` (`Spec => RefinesFifo`).  `NoSlotRace` is not
inductive: it needs that `tail` is `count` slots after `head` (so the two differ when
`0 < count < Size`) and that a push past its test has `count < Size`, a pop past its
test `count > 0`, which stay true because the other side only moves `count` away from
the bound.  `DataInv` adds what the slots hold, for the refinement: the store goes
outside `Contents`, `fetch_add` appends the stored item, `fetch_sub` removes the item
read.

`RingBufferProofs`: `RingInvariant` and `Refinement` for the ready ring, from the
distance from `start` to `end`, which `size()` computes.

Both hold for every size and every set of items.

`MemoryAllocatorProofs`: `SlotOwnership`, `SlotConservation` and `TableAgreement`, each
assuming `Exclusive`, for every number of pages, addresses and coroutines.
`OneOwnerPerSlot` is not inductive: `alloc_slot` hands out a slot that nobody has only
if slots from `current` on are untouched (`TableInv`), and `unmap_vaddr` recycles a slot
once only if the address it read before the await is still in the table and belongs to
no other call (`CallInv`).  `KernelInv` says what the kernel has done for a call at each
of its places; it shows that the kernel never refuses, which is why ignoring the
result of the system call does no harm.

`SyncServerProofs`: all the safety properties, for every number of threads, peers and
bytes, every `LISTEN_QUEUE_SIZE` and every choice of faults.

- `SelfDeadlockIsLate` (`Spec => SelfDeadlockOnlyLate`), an action property.  `LockInv` says
  that a timely SYN is among the frames the device holds only while a poll that will take it
  is due before the lock: the notification is set and `ntfn.poll()` is still to come, or
  the poll is under way.  A poll ends only with no frame left.
- `SendersPolled` (`Spec => []NoOrphanSender`), in every kind of run.  `OrphanInv` has three
  parts: what a thread's state says about its handle (`ClOk`), what the listen table
  and `POLL_EPS` say about each thread (`TablesOk`), and the sweep (`SweepInv`): the count
  reaches `idx - 1` only if every thread before `idx` has its call in the server's hands, so
  a count of `ThreadNum` means that all have; from then on a thread sends again only
  after its Listen was answered, and that answer put its endpoint into `POLL_EPS`.
- `SyncTypeCorrectness`, `CallsKeptOnce` (`OneTokenPerCall`), `ThreadsConnected`
  (`GivenSocketsConnected`) and `BytesKept` (`NoByteLost`), from one invariant, `SyncInv`.
  `StepsTyped` first reduces every action to what it does to the tables (`Steps`); each
  part of `SyncInv` is then shown to be kept by those steps, given the parts before it:
  - `Typed`, `Places`, `Loops`: a thread is in each table at most once, and in which of
    them goes with its call; a task of `RECV_BLOCKED_TASKS` is complete only while the
    loop over them is past it.  So the tables are bounded by the number of threads;
  - `Sockets`: a socket has a peer once it no longer listens, a peer has one socket, and a
    thread whose socket still listens has read nothing;
  - `Syns`: without a repeated or early SYN there are as many threads in `ep.recv` at the
    head of the listen table as there are SYNs in the device (`Heard`); if no SYN comes in the
    first loop, all that wait are in `ep.recv` by then (`Started`).  Either way the answer is not
    dropped, and `Kept` says where each call is;
  - `Handles`: the syn queue is sorted by handle and holds exactly the sockets that listen,
    so its first entry is the one smoltcp takes.  That ends when the queue is full, but
    then no Listen is answered any more;
  - `Bytes`: a peer that waits for each answer is at most one byte ahead of it, and the
    thread has seen as many bytes as it has echoed or one more.  So a blocked
    read finds one byte, and reading the whole buffer loses none.

  The parts were also model-checked with two threads and two peers on the eight kinds of run
  of `sync_server`.  A check over sets of faults found that a SYN sent again while threads
  still start is answered too soon, which the property had put down to early SYNs only
  (`Hasty`).

`ExecutorProofs` has what every method of the executor does to its record, for every
`MAX_TASK_NUM`, number of priorities and width of the wake word.  The two loops are
recursive functions over the number of turns; what they compute is shown by taking the
least turn at which a claim would fail (`Least`), which needs no induction rule.  After
`actual_wake` the word is empty and every id in it that is alive is queued, unless one id
is twice another (`NoClash`): then the loop clears the second bit with the first.

`CoroutineRuntimeProofs`, the thread around an executor, in three layers.

- `TasksAlwaysMatchIds`, for every program: `Base` says that, until something panics, the
  queues hold ids of the task array, the ids handed out are the live ones, and whoever is
  owed a run is alive.
- `DisciplineMeansNoPanic`, `DisciplineMeansExact`: `Calm` says that in a disciplined
  program a coroutine is queued or delayed at most once, in the queue of its priority and
  only while it is owed a run.  So a ready ring is never asked to hold more than the
  coroutines alive, and no `unwrap` fails.
- `NoWakeIsLost`, for every program, and `RunsUntilBlocked` and `HighestPriorityRuns` for
  the disciplined ones.  The first two assume `NoClash(Receivers)`, no receiver with
  twice the id of another; `runtime_lost_wake` shows what happens without.  Each thread
  of the tests registers one receiver and satisfies it.

`AsyncIpcProofs`: `IpcNeverPanics`, `CallsKeepOneToken`, `FlagIsReliable` and
`NothingStranded`, for any number of callers and calls and both schedulers.  They assume
`Sizes`: a slot of either ring for every caller (the code has 4096 slots, and at most
2048 tasks) and ready rings for at least two wakes.  None of the four is inductive; `IInv` adds:

- `SetupInv`: how far each thread is in the rendezvous, what it has published by then, and
  that nothing has been sent before the callers are spawned;
- `RunInv`: the shape of both executors (`Shape`: the receiver in its queue, callers in
  theirs, each caller at most once) and until when each receiver lives;
- `CountInv`: requests sent against requests taken, replies sent against replies taken;
- `WakesInv`: a clear flag allows the receiver one pending run, a set one two.  This is
  what bounds the wakes in the ready ring, because the executor queues a woken
  coroutine again;
- `ValueInv`: a caller that is about to resume finds its reply in `IMMEDIATE_VALUE`;
- `CoreInv`: without preemption, the thread off the core is where it gave it up, and a
  receiver that is about to clear its flag has found its ring empty.  It is the
  only part that tells the schedulers apart, and `NoStrandedItem` rests on it.

`ipc` reaches 44,787 states; `IInv` was model-checked on the same instance before it was
proved.  There is one lemma per action, and under it one step per conjunct.

`NetServerProofs`: all the safety properties, for any number of clients, peers, frames
and bytes, and for every choice of `FaultSets`.

- `TcpCallsKeepOneToken` (`OneTokenPerCall`), `SocketsHaveOneOwner` (`OneOwnerPerSocket`),
  `FlagsMeanWakes` (`FlagMeansWake`) and `FramesAreSeen` (`NoStrandedFrame`) need no assumption
  on the constants beyond those of the modules: a network that makes `accept()` panic stops
  the thread, and what clients have been given by then is right.
- `OnlyAcceptPanics` (`NoPanic`) assumes `Sizes`: a slot of each ring for every client and
  two for the interrupt, a task for every client and the two coroutines of the server, and
  the receiver's id within the wake word.  The code has 4096, 2048 and 64, for 32 clients.

They follow from one inductive invariant, `NetInv`.  Types and the ownership of the
handles clients have, or will find in a reply (`GivenIn`), hold in every state, the others
until the network thread panics:

- `Shape`, `CoInv`, `SchedInv`: the queues of the executor hold live coroutines of their
  priority, a coroutine of a Listen is queued, running or blocked, and blocked in
  `accept()` exactly if it is in `block_cids`; past `accept()` it runs only for a request;
- `OrderInv`, `QueueInv`: waiters, woken listeners and the handles of `syn_queue` are all in
  the order in which the sockets were made.  So the listener that runs takes the first
  handle, and that is its own: the code hands the caller one and registers the
  other in `SOCKET_2_CID`, and nothing in `accept()` says that they are the same;
- `CallInv`, `TokenInv`: what is on its way for a client is what it waits for, once;
- `WakesInv`: at most two polls are due, and the receiver has at most two wakes pending,
  one for its flag and one for its spawn; a set flag has one.  This bounds the request ring and the ready
  queues, because the executor queues a woken coroutine again;
- `StackInv`: a peer has one socket, a socket that listens is still in the queue, and a
  reset is a peer's last frame, and without `early_reset` not one of a connection in the queue;
- `GoodInv`, without late ACKs, repeated SYNs and early resets (`Prompt`): a listener
  that was woken has its connection.  It is what the assertion in `accept()` needs;
- `StrandInv`: a masked interrupt has its request on the way, and frames in the device have
  its interrupt status set unless the last one was `late`.

One poll takes any number of frames; `IfacePoll` is a recursive function over them, and
`PollFacts` shows by the least frame at which it would fail that each part of the invariant
survives all of them, stated for the sockets, peers and waiters so far and the frames still
to come (the parameters of `StackInv`, `GoodInv`, `SchedInv`, `OrderInv`).  `NetInv` was
also model-checked with two clients and two peers, on the networks of `net_safe` and on the
good one.

Model-checked only.  Liveness under fairness (`Completes`, `AllServed`) is out of the
prover's reach.  The invariants of `AsyncSyscall` have no proof.  The backends know nothing of
`2 ^ n`, not even that it is a number, and nothing can be shown by induction over `n`; the
number of workers (`MAX_PAGE_NUM`), of the slots an allocation takes and the parts of an
address are all powers of two.  `KernelNeverRefuses`, `PanicOnlyWhenShort` and
`PassMeansDone` are moreover about sums and folds over sets of untypeds and pages, which is
induction over data.

## Not modelled

- Weak memory: `count` is updated with `Relaxed` ordering; the threads that share a ring
  run on one core, where program order is observed.
- `seL4_Send_with_item` and the `CNode` and `PageTable_Unmap` wrappers: no test calls them.
  (`seL4_CNode_Mint` sends the label of `CNodeCopy`.)
- `SyncMemoryAllocator`: sequential; its `unmap_vaddr` is an `async fn` that is called
  without `await`, so it does nothing, which is plain from the text.
- The registers, descriptors and buffers of the drivers.  A DMA buffer is taken
  and given back within one token, and the network thread is the only user.
- The words of `BitMap64`, which the executor uses as sets, and `BitMap4096`, unused;
  `poll_net_test.rs`, one loop around `iface_poll`; the synchronous IPC test, whose
  behaviour is the kernel's; the heap, the matrix load and the start-up assembly.
- Message contents, timing statistics and logging.
