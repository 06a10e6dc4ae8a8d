# psiserve in TLA+

This directory holds the verification development of psiserve: TLA+ modules
translated from the C++ sources, TLC configurations that check them on small
instances, and proofs for TLAPS.  `PROJECT.json` lists the components, the runs,
the source lines behind every definition, the known hazards and the findings.

## The system

psiserve runs WebAssembly services.  Its parts:

| part | where | what it does |
|---|---|---|
| **psiber** | `libraries/psiber` | fibers: one scheduler per OS thread, cross-thread wakes, fiber-aware mutexes, promises, strands and a reactor that shares strands between threads, work posting, a send queue, epoll/kqueue engines, sockets, TLS, DNS |
| **pfs** | `libraries/pfs` | a content-addressed file store on top of the psitri database: reference-counted blobs, block store, per-tenant files and quotas |
| **psiserve** | `libraries/psiserve` | the server: module store, virtual descriptors, host API for guests, database handles, worker threads |
| **psizam** | `libraries/psizam` | the WebAssembly engine (parser, interpreter, code generators) and the handle table |
| **psio1, wasi, psi-api, psi-sdk, wit-macro** | `libraries/*` | serialization, interface bindings |
| **pcrypt** | `libraries/pcrypt` | cryptographic primitives |
| **programs, services** | `programs`, `services` | command line, tools and guest programs |

Three areas are modelled.  In **psiber** several OS threads share state, mostly
without a lock around it, and everything above relies on its wakes.  **pfs and the
database host** keep references, quotas and handles that long sequences of calls,
other threads or a stop of the process could leave inconsistent.  In **psizam** the
validator promises that neither the interpreter nor compiled code has to check the
height of its stack, and both rely on it through branches, calls and exceptions.

## Modules

```
 FiberMutex  FiberSharedMutex  FiberTxMutex  FiberPromise     Strand     WorkPool
     |  \           |               |             |
     |  FifoLock    |               |             |
     |  (refines)   |               |             |
     +--------------+-------+-------+-------------+
                            | EXTENDS
                       FiberSched <----- refines ----- Scheduler

 PfsStore -- EXTENDS --> Cas              DbHost -- EXTENDS --> HandleTable
 WasmNative -- EXTENDS --> Wasm, WasmNativeOps -- EXTENDS --> WasmOps
```

| module | models | state |
|---|---|---|
| `FiberSched` | what a scheduler promises to fiber code: park, yield, finish, wake, drain, resume, interrupt, shutdown scan (`scheduler.cpp`) | `Fiber::state`, `_wake_list`, `_current`, `_interrupted` |
| `Scheduler` | one thread's run loop in detail: priority queues, the LIFO slot and its cap, wake stack and user event, timers, non-blocking and blocking poll, spin, idle, shutdown scan | the same, with `_ready_queues`, `_lifo_slot`, `_lifo_consecutive` and the loop's position |
| `FiberMutex` | `fiber_mutex`: fast path, slow path, hand-off, try_lock | `_owner`, `_wait_head.._wait_tail`, each fiber's place in the code |
| `FifoLock` | the abstract lock: one inside, first come first served; `FiberMutex` implements it, and the proof about `Strand` compares its steps with it | the fiber inside, the queue |
| `FiberSharedMutex` | `fiber_shared_mutex`, one step per access to `_writer`, `_readers` and the queues | both counters, both queues, `_queue_lock` |
| `FiberTxMutex` | `fiber_tx_mutex` (wound-wait), with transactions that lock several mutexes, abort and retry, or are shut down | owner, owner's timestamp and queue of each mutex, `Fiber::wounded` |
| `FiberPromise` | `fiber_promise`, `fiber_future` and `thread::call`, `invoke`, `async` | the `_waiter` word, the stored outcome, whether the frame that holds the promise is still there |
| `Strand` | `strand` and the reactor's queue of ready strands, with fibers that migrate between threads | `_active` and queue of each strand, ready queues and wake lists of the threads, home thread and strand of each fiber |
| `WorkPool` | `post` and `try_post` with their overflow policies, the fibers of work items, `interrupt` and `quit` | slots, heap budget, work list, the fibers that wait for a slot |
| `Cas` | the content store and its blocks (`cas.cpp`, `block_store.cpp`) | reference counts, chunk lists, blocks of each root, `_next_seq` |
| `PfsStore` | files and quotas (`store.cpp`): every call is a sequence of transactions | entries, `fs_quota`, the call each thread is in |
| `HandleTable` | `psizam::handle_table` as operators on a table value | slots, generations, the free list |
| `DbHost` | the database interface of a guest (`db_host.hpp`); psitri is external | four handle tables, the published trees, the view of the open transaction |
| `WasmOps` | what instructions without control flow do to the operand stack, read once from the validator and once from the interpreter | none: tables |
| `Wasm` | validation of a function body, its bytecode, and the interpreter | `op_stack`, `pc_stack`, the code; operand stack height, activations, exception frames, call budget |
| `WasmNativeOps` | what the x86_64 generator emits for the instructions of `WasmOps` | none: tables |
| `WasmNative` | the x86_64 code generator, the execution of its code, and the exception runtime (`eh_runtime.cpp`) | text, `recent_ops`, pending jumps; rip, rsp, rbp, the call counter, return addresses, `_jit_eh_stack` |
| `FiberSchedProofs`, `FiberMutexProofs`, `FiberSharedMutexProofs`, `FiberTxMutexProofs`, `FiberPromiseProofs`, `StrandProofs`, `SchedulerProofs`, `PfsProofs` | lemmas and theorems | |

An `MC` module and one `.cfg` per run instantiate them.  In psiber an action is a
piece of code between two points where another thread can interfere: an atomic
access, the acquisition or release of a spin lock whose critical section touches
what others read without it, or a switch of fibers.  Where a spin lock's critical
section is seen by others as one access, it is one action.  In pfs an action is
one database transaction or one read session, in the database host one call of the
guest, in psizam one opcode, one bytecode or one machine instruction.

`FiberSched` is the contract: the locks and promises are built from its
operations and rely on its fairness, and `Scheduler` is checked to implement it.
`FiberSched` keeps the Ready fibers as a set, because none of the locks may depend
on the order in which a thread serves them; `Scheduler` has that order.

### How psizam is abstracted

* A value is its presence on the stack.  Value types are not told apart, except
  that a v128 takes two slots of the machine stack; a condition may go either way.
  The payload of an exception tag has a number of values (`TagParams`), which the
  interpreter, `emit_throw` and the handlers count, and a number of slots
  (`TagSlots`), which is what the validator counts for compiled code.
* Instructions that treat the stack alike share a name.  An element of a bulk
  operation is a stutter.
* A host function returns; one that calls `execute()` again is not modelled.
* Native: a machine instruction is the number of slots it moves rsp by, or a
  control transfer.  A name has one set of programs, one for each way its emit
  functions have.  Folded pops of one program all want the register that was
  pushed, or none does.  A trap ends the behaviour.
* Of the two limits on native calls the model has the one counted in calls.

## Runs

Passing runs:

| run | shows |
|---|---|
| `fiber_mutex` | exclusion, no lost hand-off, every waiter gets in, `fiber_mutex` implements `FifoLock` (no newcomer overtakes a queued fiber), and a thread that is shut down at any moment ends all its fibers |
| `shared_mutex_one_thread` | on one thread `fiber_shared_mutex` is a correct reader-writer lock in which neither side starves |
| `shared_mutex_two_threads` | across threads the reader count is exact and no waiter is lost from both the queues and the wake lists |
| `tx_mutex_same_order` | transactions that lock in one order never deadlock and all commit, also when one thread shuts down; owners and timestamps agree |
| `promise_calls` | a `get` that returns sees the stored outcome, a producer never touches a dead promise and every call returns, except where the caller is shut down |
| `strand_reactor` | on one thread a strand, bound to a reactor or standalone, admits its fibers in FIFO order through parks, yields and syncs; its active fiber is scheduled in exactly one place and no other one is ready or running in its code; every callable ends |
| `scheduler` | with priorities, a daemon and a sleeper: `Scheduler` implements `FiberSched`, its steps and its fairness; a fiber is never scheduled twice, no wake is lost, a stop request ends `run()` |
| `work_pool` | with one slot and one heap item: no slot is lost or used twice, a freed slot is offered to a waiter, every post ends, an accepted callable runs, and `interrupt()` or `quit()` ends the loop |
| `pfs` | nothing referred to is freed, quotas never undercount, no block is orphaned or shared, a read that returns is right; with stops of the process between any two transactions |
| `db_host` | in any order of calls: open tables and cursors live no longer than their parents, free lists stay whole, a dropped handle stays dead until its generation wraps; a commit publishes what was written, for tables held through one handle at a time and used in turn |
| `wasm` | for every small body the validator accepts, interpreted or compiled: the stack is as high as validated wherever control arrives, the exception frames are those of the open try_tables; interpreted, the call budget is balanced and an exception reaches its innermost handler |

One run is expected to violate its property, `shared_mutex_exclusion`: across two
threads a reader and a writer of `fiber_shared_mutex` are inside together, because
the writer's test of `_readers` and its store to `_writer` are two steps, while
`fiber_shared_mutex.hpp` says "Multiple concurrent readers, exclusive writers."

### Where the code and its statements part

Besides `shared_mutex_exclusion`.  No run states these.  TLC shows the first five
when an instance is changed as described:

* **`fiber_tx_mutex` can deadlock** (`fiber_mutex.cpp:109`; the header says "No
  deadlock possible").  A wound does not wake a transaction that is parked.  With
  opposite orders in `MCFiberTxMutex`, `EveryTransactionCommits` fails.
* **A shutdown takes the promise away** (`scheduler.cpp:411`; `thread.hpp` says
  "stable because caller parks").  Without the exemption for a caller that is shut
  down, `ProducerTouchesLivePromise` fails.
* **A queued fiber of a strand is resumed on a second thread before it has
  switched out on its own** (`strand.cpp:207`; `strand.hpp:24` says "at most one
  fiber in Ready/Running state at a time across all threads in a reactor pool").
  With two threads in `MCStrand`, `ActiveIsScheduledOnce` fails.  On one thread it
  holds, and is proved.
* **A queued writer of `fiber_shared_mutex` is not woken** by a reader of another
  thread that backs out (`fiber_mutex.cpp:247`).  With two threads,
  `NobodyWaitsForAFreeMutex` fails.
* **A native handler that catches a v128 leaves the stack a slot short**
  (`x86_64.hpp:1391`, `1535`; a comment says "8 bytes per operand on x86_64").
  `emit_throw` and the handler copy one slot for each payload value, while the
  validator counts two for a v128.  With a `catch` of the tag `vector` in
  `NativePayloads`, `NativeStackAsValidated` fails.  The interpreter, and a native
  `catch_all`, take such an exception as they should.

These were met while reading and modelling:

* locking a free `fiber_tx_mutex` resets a wound received through another one
  (`fiber_mutex.cpp:91`);
* expired timers wait for the ready queues to be empty (`scheduler.cpp:138`);
* `is_ready()` stays false when the waiter came first (`fiber_promise.hpp:91`);
* the send queue writes no sentinel for a waste shorter than its header
  (`send_queue.cpp:69`), which `reclaim()` then reads as one;
* `EpollEngine::removeFdEvents` removes a descriptor for all its waiters;
* pfs leaks references, never the opposite: when a call stops between two
  transactions, when a quota is exceeded after the content was stored, when a share
  replaces a file.  Block numbers restart when the store is reopened, so the block
  properties are stated for a store that was not;
* in the database host, of two handles on one table the last one stored wins; a
  table stored into an outer transaction while a frame is open is undone when the
  frame aborts; a table dropped while a handle on it is open comes back; a table
  that was created, still has an open handle and was not written is lost by the
  commit (`db_host.hpp:178`), and so may be the emptying of a table, because a null
  root is not stored (`db_host.hpp:188`).  `CommittedIsWhatWasWritten` says nothing
  of those tables;
* the database host lets a guest drop or end a transaction under its open frames:
  their handles live on, and the host goes on calling psitri through them
  (`db_host.hpp:257`).  The model takes these calls too.  What the trees hold then
  is psitri's and left open, so nothing is expected of the contents until a write
  transaction starts with no such frame left; the handles are checked throughout;
* a mutex handed to a fiber that a shutdown has ended is never free again
  (`scheduler.cpp:411`): `LockIsGranted` is stated for behaviours without one;
* in psizam a legacy `delegate` in a body that also has `try_table` pops a frame of
  the enclosing one, so no profile mixes the two; native exception frames of an
  execution that trapped are not cleared before the next;
* two threads of the module store may compile one module, where a comment says one
  does (`module_store.cpp:85`); the first result is kept;
* a worker that fails before the start barrier leaves the others waiting at it
  (`runtime.cpp:313`).

### Bounds

* Locks: three fibers, one that holds, one that is handed over to, one that
  arrives.  Two on one thread and one on another give both the same-thread and the
  cross-thread wake.  Two threads, because every race in the code is between two
  accesses.  Two transactional mutexes, three ages.
* `lifo_cap` is 2 (3 in the code): the least that tells the cap from a plain
  alternation.
* `strand_reactor`: two strands, so that `sync` can leave one for the other, and
  all fibers on one thread, because with two the disagreement above makes
  everything after it meaningless.  Two fibers are posted to one strand and the
  third may come to it with `sync`, so that three are in line for it.
* One scheduler is interruptible in `fiber_mutex`, in `tx_mutex_same_order` (the
  one with two fibers) and in `promise_calls` (the one of a caller whose promise is
  in its frame).
* `work_pool`: one slot and one heap item (256 each in the code), five callables of
  which one is posted by another: both limits are reached and a nested post waits.
* `pfs`: a content kept inline and one of two chunks, two tenants with one file
  each, two threads, `MaxCalls` 5, `MaxSeq` 6 blocks.  Tenants and threads are
  symmetric.
* `db_host`: `Generations` is 2 instead of 65536, which brings the wrap within
  reach of `MaxCalls` 10; two slots in a table, so a transaction and a frame of it
  are open together.  Larger instances, with two names and with three
  transactions, were checked once.
* `wasm`: every body up to the profile's number of instructions (`code`), open
  scopes (`nested`) and instructions in dead code (`dead`); a profile chooses the
  opcodes that can interact (branches, exceptions, recursion, folding into
  conditions, payloads of several slots, ...).  Depth of calls 3.

About 745,000 states for `wasm`, 840,000 for `pfs`, 147,000 for `db_host`, and
about 115,000 each for `scheduler` and `work_pool`; the others are much smaller.

### Deadlock checking

It is on in `shared_mutex_one_thread`, whose clients never end.  In `pfs` it is on
and says nothing, because the process may restart in any state.  Elsewhere fibers finish or are shut down, a body ends, or the bound on calls is
reached, so it is off, and where there is something that must have happened by
then a liveness property says it.  `shared_mutex_two_threads` has it off because of
the queued writer that is not woken.

### Fairness

* `SchedFairness`: strong fairness of a drain and of each `Resume`, weak fairness
  of the shutdown scan.  The loop drains on every iteration and takes from FIFO
  queues, with at most `lifo_cap` exceptions in a row; `ImplementsKernel` checks
  that `Scheduler`, under weak fairness of the loop's own steps, implements it as
  long as `run()` has not returned.  Priorities are strict: a fiber may be passed
  over for ever only while fibers of a higher priority keep being ready.
* Fiber code: a running fiber takes its next step (weak), and a client that is
  inside, though it may yield there, leaves eventually (strong), gives the thread
  up between two uses of the lock, and, in `Strand`, returns from a `sync`.  A
  transaction that is not wounded goes on to its next lock and commits.  These are
  promises of the clients, not of the locks.
* `WorkPool`: the scheduler's thread and a thread inside `post()` go on, and time
  passes (weak).
* `Cas`, `PfsStore`, `DbHost` and the psizam modules are checked for safety only.

## Proofs

The theorems hold for every number of fibers, threads, mutexes, promises, strands,
tenants, contents and blocks.  The assumptions are the named `ASSUME`s of the
modules and, where a theorem says so, that all the fibers are of one thread.

`FiberSchedProofs` has the lemmas about the kernel: each of its operations
preserves `SchedInv` (a thread's current fiber is its own and is the one that is
Running, a wake list holds fibers of its thread).

**`FiberMutexProofs`**: `TypeOK`, `MutualExclusion`, `HandoffReachesOwner` (with
it that wake lists stay intact), that wakes are not dropped, and `FirstComeFirstServed`, that
`fiber_mutex` implements `FifoLock`.  None of these is inductive alone.  Exclusion
needs to know that a queued fiber that is not the owner stays where it is; that
needs every wake to be addressed to the owner; and that in turn needs the queue to
hold no fiber twice.  `IInv` is

* `PcInv`: where each fiber is in the code agrees with its scheduling state;
* `QueueInv`: the queue holds, once each, fibers that wait (or were shut down
  waiting), none of which is the owner or is being woken;
* `OwnerInv`: the fiber inside is the owner, and an owner that is suspended in
  `lock()` is being woken;
* `PendingInv`: only the owner is being woken, outside a shutdown, and by one fiber.

The refinement uses `IInv`: the initial states map to initial states, and each
action to one action of `FifoLock` or to a stutter.

**`FiberPromiseProofs`**: `GetSeesOutcome` and `ProducerTouchesLivePromise`.
`SlotInv` says that the waiter's word holds the consumer from its registration on
or says that the producer came first, so that either compare-and-swap succeeds
once; `DoneInv` that only the end of the task lets a consumer go on, unless its
thread shuts down.

**`FiberTxMutexProofs`**: `OwnerAndTimestampAgree`.  A transaction comes back from
its park without looking at the mutex again, so `HandoffInv` has to say that it is
woken only as the owner of the mutex it wants, which needs `QueueInv`: it is queued
once, and for that mutex.

**`FiberSharedMutexProofs`**: on any number of threads `ReaderCountExact` and
`WaiterAccountedFor`; when all the fibers are of one thread also
`WritersExclusive` and `NobodyWaitsForAFreeMutex`.  `IInv` says that a waiter is in
one queue, or in the batch of one unlock, or was woken once (`WaitOf`, `QueueInv`),
and that `_readers` is the number of the fibers in `Counted`; every step moves at
most one fiber, or one batch, into that set or out of it.  `OneThreadInv` adds what
only one thread gives: what a running fiber has found is still so at its next
access (`FoundOf`), the flag has one owner (`OwnerInv`), and a queue that is not
empty waits for somebody (`WaitInv`).  The hypothesis `OneThread` is needed: with
two threads `shared_mutex_exclusion` refutes the first of the two and the queued
writer described above the second.  No shutdown (`SharedMutexAssumption`).

**`StrandProofs`**: `ActiveIsScheduledOnce` and `FibersAreFifo`, for a reactor of one
thread (`Threads = {t}`).  The invariant follows a fiber: where it is on its thread
(`PlaceOf`), which strand it is active in or waits for (`StrandOf`), and who is
going to resume it (`CareOf`).  The order follows from a step-by-step comparison
with `FifoLock`: each step arrives at the line of the watched strand, enters from
its head, leaves, or changes nothing in it (`StepRefines`, `StepInOrder`).
The hypothesis excludes what is described above: with two threads a fiber that is
queued and has not yet parked can be promoted by the other thread.

**`SchedulerProofs`**: `ScheduledOnce`, `NoWakeIsLost`, and `LoopRefinesKernel`: every
step of the run loop, of its fibers and of the threads that wake them is a step of
`FiberSched` or leaves its variables alone (`TakesKernelSteps`, the safety half of
`ImplementsKernel`), so that the models of the locks and promises rest on
operations that the loop really has.  `Inv` says that the priority queues and the
LIFO slot hold the Ready fibers, each once (`QueueInv`), that a wake is in one
place, with the waker or on the wake list (`WakeInv`), and that past the second
drain a fiber on the wake list has its event triggered or about to be
(`PhaseInv`).  The scan and the drain make whole sequences of fibers Ready, so the
lemmas about `AddEach` and `Reversed` are by induction on their length.

**`PfsProofs`**: `NoDanglingReference` and `QuotaCoversFiles`, through restarts, and
`BlocksBelongToEntries` and `ReadsAreFaithful`, until the store is opened again.
`StoreInv` is the conjunction of

* `Inv`: the references.  They are a sum of cardinalities (entries, calls under
  way, callers of `put`).  Every transaction changes one entry and one call at most;
  `CountStep` says what that does to each summand;
* `CasInv`: an entry that exists has all of its chunks;
* `BlockInv`: the blocks of an entry were allocated and hold its bytes, no two
  chunks share one, and every block is some entry's.  It needs that numbers are
  used once, which a reopened store does not give;
* `ReadInv`: a read under way has the bytes up to the chunk it is at, and each block
  of its copy of the list is still there or gone, but never another's.  This is
  what makes a read without a reference safe: it throws or it is right;
* `QuotaInv`: what a tenant is charged covers its files.  Their bytes are a
  recursive sum over the places; `OneEntry` says that a change of one entry changes
  the sum by the difference of the sizes, by induction on the number of places.

`root_for_cid()` and `root_for_block()` are arbitrary functions in these theorems:
where they disagree the block is not found, and a read throws.

TLC checked each inductive invariant on the instance of its run before it was
proved.

Only model-checked: liveness and all fairness, the fairness half of
`ImplementsKernel` included, which are out of the prover's reach; and everything
about `WorkPool`, `DbHost` and psizam, for which there are no proofs yet.

## Not modelled

* **Weak memory**: atomic accesses are sequentially consistent here.
* **Strands**: the arena, the shutdown of a reactor, and the sentinel-locked stack
  that implements its queue.
* **psizam**: module sections, value types, memory contents, gas; of the x86_64
  generator values and registers, the checked memory modes and the limit in bytes;
  the aarch64, jit2 and LLVM generators, whose work is about registers and values,
  which these models abstract.
* **Send queue, I/O engines, module store, descriptor table, host API, application
  server**: read, and where something can go wrong listed as a hazard, but without
  a module.  The send queue is used only by its tests; the engines keep their state
  in the operating system; the others hold little state of their own.
* **Sockets, TLS, DNS**: loops around system calls.
* **pfs encodings, psio1, the bindings, pcrypt**: functions of bytes without
  control.  psio1 alone is a large part of the repository's lines, which is why the
  definitions cover under a tenth of them all.
* **Programs and sample services**: clients of the parts above.
