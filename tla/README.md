# Formal models of the v7unix kernel

TLA+ models, TLC configurations and TLAPS proofs for the Version 7 Unix kernel
in `src/v7/usr/sys` and for the locks and mailboxes added to it in
`src/v7/usr/sys/h/spinlock.h` and `src/src/kernel`. Paths below are relative to
`src/v7/usr/sys` unless they start with `src/`.

## 1. The system

The kernel is one program that runs on behalf of one process at a time. Three
facts about it shape every model:

* **No preemption in the kernel.** A process gives up the processor only in
  `sleep()` (`sys/slp.c:32`), which calls `swtch()`. Between two sleeps a
  process runs alone, except for interrupts.
* **Interrupts.** A device or clock interrupt may run between any two
  instructions unless the code is inside `spl5()`/`spl6()`. Its handler never
  sleeps; it changes buffers and queues and calls `wakeup()`.
* **`wakeup()` is a broadcast without memory.** It makes every process asleep on
  a channel runnable and leaves nothing behind for a process that goes to sleep
  later. Whoever sleeps must re-test its condition, and whoever changes a
  condition must know that somebody waits.

The spinlocks and mailboxes are written for processors that really run in
parallel; there every access to a shared word is a step.

### Inventory

| Part | Source | State | Operations | What is hard |
|---|---|---|---|---|
| buffer cache | `dev/bio.c`, `h/buf.h` | buffers (flags, block, data), available list, device chains | `getblk`, `geteblk`, `bread`, `breada`, `bwrite`, `bdwrite`, `bawrite`, `brelse`, `iowait`, `iodone`, `bflush` | sleeping between search and assignment; completion interrupts; delayed writes; errors |
| raw and swap I/O | `dev/bio.c` `swap`, `physio` | one header per device, `swbuf` | `swap`, `physio` | headers shared by processes |
| spinlocks | `h/spinlock.h` | lock word; ticket counters | lock, unlock | true parallelism; wraparound of the tickets |
| mailboxes | `src/src/kernel/exo_mailbox.c`, `exo_ipc_queue.c` | ring of 16 slots, head, tail, count, lock | `mailbox_init`, `mailbox_send`, `mailbox_recv` | full and empty; reuse of a process slot |
| pipes | `sys/pipe.c` | an inode's size and two waiter flags, its lock, the read offset | `readp`, `writep`, `plock`, `prele`, `closef` | three kinds of sleepers on one inode; offset reset; ends closing; signals |
| resource maps | `sys/malloc.c` | sorted list of free extents | `malloc`, `mfree` | coalescing; bounded table |
| free lists of a file system | `sys/alloc.c` | in-core caches of free blocks and inodes, locks, chain of blocks | `alloc`, `free`, `ialloc`, `ifree`, `getfs`, `update` | sleeping with the lock; refill from disk |
| inode table | `sys/iget.c` | reference counts, `ILOCK`/`IWANT`, `IUPD` | `iget`, `iput`, `iupdat`, `itrunc`, `maknode` | sleeping for a locked inode that is reassigned meanwhile |
| name lookup and links | `sys/nami.c`, `sys/sys2.c`, `sys/sys4.c` | directories, link counts | `namei`, `link`, `unlink`, `mknod` | two inodes locked at a time |
| processes | `sys/slp.c`, `sys/sys1.c` | process table, run queue, channels | `sleep`, `wakeup`, `setrun`, `newproc`, `exit`, `wait`, `swtch` | exit racing wait; orphan hand-over |
| signals and tracing | `sys/sig.c`, `sys/sys4.c` | pending bits, actions, the one `ipc` record | `psignal`, `issig`, `psig`, `ssig`, `kill`, `ptrace`, `procxmt`, `stop` | a signal between test and sleep |
| swapping and text | `sys/slp.c` `sched`, `sys/text.c` | what is in core, text reference counts and locks | `sched`, `swapin`, `xswap`, `xalloc`, `xfree`, `xccdec` | text shared by resident and swapped processes |
| clock and callouts | `sys/clock.c` | delta list of timeouts | `clock`, `timeout` | table full; entries due on one tick |
| character lists and terminals | `sys/prim.c`, `dev/tty.c`, `dev/kl.c` | chains of blocks, flow-control bits | `getc`, `putc`, `canon`, `ttyinput`, `ttwrite`, ... | interrupt producers and process consumers |
| packet protocol | `dev/pk0.c` .. `dev/pk3.c` | windows of 8 sequence numbers, timers | `pkcntl`, `pkaccept`, `pkread`, `pkwrite`, `pkoutput`, `pktimeout` | lost, repeated and reordered packets |
| disk drivers | `dev/dsort.c`, `dev/hp.c`, `dev/rk.c`, ... | queue of requests, controller state | `disksort`, strategy, start, interrupt | interrupts and queueing |
| UNIBUS map | `sys/machdep.c` | registers in use | `mapalloc`, `mapfree` | lock released before the sleep |
| multiplexed files | `dev/mx1.c`, `dev/mx2.c` | channel groups | | |
| user programs | `src/v7/usr/src` and the rest of the tree | | | sequential programs |

The table is the plan of the whole system; sections 2 to 6 are about the buffer
cache, the spinlocks and the mailboxes, the parts that are modelled.
`PROJECT.json` lists every part with its status and, under `hazards`, the lines
where it can go wrong in a way a test would hardly reach.

## 2. Modules

### BufferCache (`dev/bio.c`)

| Variable | Code |
|---|---|
| `b_blk`, `b_flags`, `b_data` | `b_dev` with `b_blkno`, `b_flags`, and the block in `b_un`, per `struct buf` |
| `bfreelist`, `flwanted` | the available list in `av_forw` order, and `B_WANTED` of its head |
| `active`, `disk` | buffers handed to `d_strategy` whose `iodone` is to come; the devices |
| `cur`, `chan` | the process that runs in the kernel; what a process sleeps on |
| `pc`, `u` | the place of a process in `bio.c`, its arguments and locals |
| `latest` | ghost: the values a block may contain |

A step is a stretch of code between two points where an interrupt can make a
difference; an `spl6()` section is one step. The search in `getblk` runs at
`spl0`, so the match (`SearchHit`) and its use (`HitBusy`, `HitFree`) are two
steps. `sleep` gives up `cur` and sets `chan`; `Resume` is `swtch`.

Besides the routines of `bio.c` the module has what their callers do with a
buffer they own:

* `Store`, then `bdwrite`, `bwrite` or `bawrite`: `writei`, `exece`, `alloc`,
  `free` and `update`. A caller of `getblk` does not look at the flags first.
* `StoreFails`: `writei` and `exece` when `u_error` is set. The copy from user
  space broke off, and `brelse` gives back what is there. If the block was
  cached, it now differs from the device without being marked for writing;
  `latest` then has both values.
* `UpdateSkips`: `update` (`sys/alloc.c:302-304`) goes on without `brelse` when
  the buffer from `getblk` has `B_ERROR`.
* `Release`: `brelse` with nothing stored, after any of the calls.
* `OwnerSleeps`: the owner sleeps for a reason of its own. `readi`, the caller of
  `breada`, does not.

`breada` takes one `dev` for both blocks, and its read-ahead block may be 0 for
none (`NODEV` in the model). `MCBufferCache` gives TLC the device of each block.

### TestAndSetLock, TicketSpinlock (`h/spinlock.h`)

One step per atomic access. `Mutex` and `FifoMutex` are what the two locks
promise. The counters of the ticket lock are taken modulo `Limit`, the number of
values of an `unsigned int`. (`src/TicketLock.tla`, which came with the code, has
unbounded counters and the invariant `next >= serving`; with counters that wrap,
`next` may be below `owner`, and the proofs here do without that invariant.)

### Mailbox, MailboxReuse, BoundedFifo (`src/src/kernel/exo_mailbox.c`)

`Mailbox` has the lock (an instance of `TestAndSetLock`), `head`, `tail`,
`count` and `buffer`, and for each process its call and the assignment it comes
to next. `count` is a `size_t` with `SIZE_T` values. The module follows a mailbox
from one `mailbox_init` to the next: `Init` is what `mailbox_init` leaves, with
anything in `buffer`, which it does not clear. `BoundedFifo` is what the mailbox
promises in that time: every call takes effect at one moment on a queue of at
most `MAILBOX_SIZE` messages.

`MailboxReuse` adds the next `mailbox_init`. `newproc` (`sys/slp.c:493-494`)
calls it with no lock and without looking for calls under way, so its four
stores may fall anywhere. They free the lock under its holder, two processes may
then be in the body at once, and `tail = (tail + 1) % MAILBOX_SIZE`, `count++`
and their like are no longer atomic: here each is a load (`Fetch`) and a store
(`Put`).

## 3. Runs

| Run | Specification and bounds | Checked |
|---|---|---|
| `buffer_cache` | 2 processes, 2 buffers, a disk and a tape block, 2 values, no errors | `TypeOK`, `AvailableIffNotBusy`, `OneBufferPerBlock`, `ExclusiveOwner`, `NothingLost`, `NoLostWakeup`, `GotWhatWasAsked`, `NoneForgotten` |
| `buffer_errors` | the same with errors, without `geteblk` | `AvailableIffNotBusy`, `NothingLost`, `NoLostWakeup` |
| `buffer_ahead` | `bread` and `breada`, 2 processes, 3 buffers, 3 disk blocks | `ExclusiveOwner`, `NoLostWakeup`, `NotHungUp` |
| `buffer_live` | fair, 2 processes, 2 buffers, 2 blocks, 1 value | `TransfersEnd`, `WaitEnds` |
| `test_and_set` | fair, 4 threads | `ImplementsMutex`, `SomeoneEnters` |
| `ticket_lock` | fair, 4 threads, counters that wrap at 4 | `MutualExclusion`, `ImplementsFifo`, `EveryoneEnters` |
| `mailbox` | 3 processes, 3 slots, 2 values, `SIZE_T` 8 | `TypeOK`, `Linearizable` |
| `mailbox_reuse` | fair, 2 processes and `newproc`, 2 slots, `SIZE_T` 4 | `IndicesInside`, `CallsReturn` |

Four runs end in a violation, each of a sentence in the repository:

* `buffer_hang` (`NotHungUp`, 2 processes in `breada`, 2 buffers, 3 blocks of one
  disk): each process holds the buffer of its first block and sleeps in `getblk`
  for the read-ahead block. No transfer is under way and nobody will release a
  buffer. The comment on `incore` says it is there to avoid this.
* `buffer_error_race` (`GotWhatWasAsked`, with errors): an asynchronous write
  that fails between the match in `getblk` and its `spl6()` takes the block from
  the buffer, and `getblk` returns the buffer all the same.
* `buffer_forgotten` (`NoneForgotten`, with errors): in that same window the
  buffer `getblk` returns has `B_ERROR`. `update` passes over it and never
  releases it, against "Eventually the buffer must be released" in `bio.c`.
* `mailbox_race` (`CountInRange`): a `mailbox_init` between the test of `count`
  in `mailbox_recv` and its `count--` makes the `size_t` wrap to its largest
  value.

One more disagreement needs no run: `src/docs/IPC.md` has a sender wait on a full
mailbox, with a timeout; `mailbox_send` has neither and returns -1 at once.

**Bounds.** Two processes and two buffers are the least with which a process
finds its buffer busy, the free list empty, a delayed write to flush and its
block brought in by the other while it slept. One tape block is there because
`bdwrite` writes to a tape at once. Read-ahead needs three blocks of one disk
for two processes to hold one block each and want a third. The four threads of
the spinlocks use up all four tickets, so that every wraparound with every
number of waiters occurs. The mailbox wraps its indices with every filling of
the ring. In `MailboxReuse` two callers and `newproc` are the least with which
two processes are in the body at once; `IndicesInside` is proved for any number.
Buffers are symmetric (`BufSymmetry`); symmetry is not used with liveness.

**Deadlock** is checked except in `buffer_hang`, where it is the subject and the
property states it, and in `buffer_errors`, where `update` can leave both
buffers busy for good, and then every process sleeps for a buffer.

## 4. Fairness

* `BufferCache`: a device finishes every transfer it is given (weak fairness of
  `DiskDone` or `DiskError`); the running process goes on and `swtch` picks every
  runnable process in the end (strong fairness of `Kernel(p)` and `Resume(p)`,
  since both are disabled whenever another process runs). Nothing makes a process
  in user mode call the kernel. `WaitEnds` is conditional: it asks that a wait
  ends once the others keep out, because with others coming back for the same
  buffer the code promises no more.
* Spinlocks: every processor goes on executing, and nobody stays in the critical
  section (weak fairness per thread). That gives the test-and-set lock progress
  for somebody and the ticket lock entry for everybody.
* Mailboxes: every processor in a call goes on (weak fairness per process);
  `mailbox_init` need not happen.

## 5. Proofs

The theorems hold for any number of processes, buffers, blocks, threads and
slots. The assumptions are those of the modules: `BufferAssumption` (finitely many
buffers, and `Null`, `NODEV` and `FreeChan` are nothing else), `TicketAssumption`
(no more threads than values of the counter) and `MailboxAssumption`
(`MAILBOX_SIZE` fits a `size_t`).

* **Buffer cache** (`BufferCacheInv`, `BufferCacheSteps`, `BufferCacheProofs`).
  None of the invariants is inductive alone. `ExclusiveOwner` needs that a buffer
  under transfer is busy and not done (`ActiveInv`) and that the one `getblk` has
  just returned is not under transfer (`GotInv`); `OneBufferPerBlock` needs that
  nobody brings the block in between miss and reassignment (`MissInv`), which
  holds because only the running process is there (`RunningInv`); `NoLostWakeup`
  needs that the buffer `iowait` is called for is done or under transfer
  (`WaitInv`). Their conjunction `IInv` is kept by every action, with or without
  errors (`Invariance`), and gives `TypeCorrect`, `AvailableList`, `OneBuffer`,
  `Ownership` and `WakeupOwed`.
* Two more hold if no transfer fails, and the runs above show that they fail
  otherwise: `AskedBlock` (`AskedInv`: no buffer is in error, and a match stays a
  match) and `BuffersKept` (`KeptInv`: a busy buffer is held by a process or is
  under an asynchronous transfer, whose end releases it).
* **Ticket lock** (`TicketProofs`). `TicketInv`: the threads that have called hold,
  one each, the tickets from `owner` up to `next`, counted modulo `Limit`. From it
  `TicketExclusion`, and `TicketFifo`, the refinement of `FifoMutex`.
* **Mailbox** (`MailboxProofs`). `MInv`: one process at most is past the lock
  (`LockInv`), it still knows what it tested (`CallInv`), and `tail` is `count`
  slots after `head`, up to the update under way (`RingInv`). From it
  `MailboxType` and `MailboxFifo`, the refinement of `BoundedFifo`. These are
  about the time from one `mailbox_init` to the next. With `mailbox_init` at any
  moment neither holds, as `mailbox_race` shows; what is left then is
  `ReuseIndices`: `head` and `tail` stay inside `buffer` (`ReuseInv`: an index
  loaded for an update is one of the ring).

**Only model-checked**: the liveness properties (`TransfersEnd`, `WaitEnds`,
`SomeoneEnters`, `EveryoneEnters`, `CallsReturn`), which are out of the prover's
reach, and `NothingLost`, `NotHungUp` and `ImplementsMutex`.

## 6. What is not modelled

* In the buffer cache: `swap` and `physio`, which use headers of their own; the
  UNIBUS map registers that `iodone` frees for a buffer with `B_MAP`, which no
  property here depends on; the `DISKMON` counters; the device chains, since
  `incore` and the search only ask whether a block has a buffer. What a write
  through `bdevsw` with the major number of `NODEV` does is left open: the process
  stops there (`WildDevice`).
* In the spinlocks: `SPINLOCK_DEBUG`, and `SPINLOCK_UNIPROCESSOR`, where the
  macros are empty.
* In the mailboxes: the wrappers that choose a mailbox, and that
  `exo_ipc_queue.c` and `conf/c.c` give the array of mailboxes two sizes.
* Memory is sequentially consistent in all models.
* The parts of the table in section 1 other than the three modelled. Where they
  call the buffer cache, the call is an operation of `BufferCache`.
