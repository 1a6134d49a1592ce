# TLA+ models of `co`: POSIX IPC wrappers and thread primitives

This directory holds TLA+ specifications of the IPC wrappers in
`src/src/ipc/posix_ipc.cc` (declared in `src/include/co/posix_ipc.h`) and of
the thread primitives in `src/include/co/unix/thread.h`, plus the TLC
configurations that check them. `PROJECT.json` lists every component, every
run, the mutants that show each checked property can fail, the source lines
each definition translates (`map`), the findings and the hazards.

## The system

The IPC layer wraps kernel objects that processes share by inheritance (a
pipe after `fork()`) or by name (a fifo path, a message queue name, a named
semaphore and a shared memory name). Each process keeps its own C++ object.
All sharing happens in the kernel object, and each process reaches it only
through its own descriptor. Descriptor-based I/O (Pipe, Fifo) goes through
two steps: a `select()` readiness probe (`wait_write`/`wait_read`), then one
`::write`/`::read`. The message queue uses `mq_timedsend` and
`mq_timedreceive` instead. The thread header provides a mutex with a scope
guard, a thread wrapper and `thread_ptr`. `thread_ptr` is a per-thread
pointer that records every thread's object in a map guarded by that mutex.

## Modules

| Module | Models | State | Actions |
|---|---|---|---|
| `Channel` | the read/write/close contract of class `IPC` (abstract) | stream, per-process ends, return values | Write, Read, Release |
| `PipeIO` | `wait_write`, `wait_read`, `ipc::write`, `ipc::read`, `Pipe` | both ends per process, shared `O_NONBLOCK` flags, kernel buffer (numbered bytes) and its page slots, as Linux's `pipe_write`/`pipe_read`/`pipe_poll` use them | Write, WaitWrite (probe), SysWrite (syscall, incl. SIGPIPE Kill), Read, WaitRead, SysRead, CloseR, CloseW, Close, SetBlock, Exit |
| `MsgQueue` | `PosixMsgQueue` | queues by name, message sizes, notification owner, per-process fd/access/mode/maxmsg, clock | Construct, Close, Destroy, Write + SendDone/SendFails/SendTimesOut, Read + RecvDone/RecvFails/RecvTimesOut, SetBlock, Notify, Tick |
| `NameSem` | `NameSem` | semaphores by name and count, handle and holder per process | Construct, SemP, WaitDone, SemV, Close, Unlink, Crash, Restart |
| `FifoIO` | `Fifo` | path, permission bits, bytes, kernel descriptions per process, `fd_` | Construct, Open, OpenDone, Close, SetBlock, Write, Read, Crash, Restart |
| `ShareMem` | `PosixShareMem` | name, instances, descriptors | Construct, Destroy, Drop (destructor) |
| `Mutex` | `Mutex`, `MutexGuard` | pthread's owner of the mutex, thread control points | GuardEnter, LockDone, TryLock, GuardUnlock, GuardRelock, Exit |
| `RwMutex` | `RwMutex`, `RMutexGuard`, `WMutexGuard` | the rwlock's writer and glibc's reader count (which an unlock by a non-writer decrements, wrapping to 2^29-1 below 0), thread control points, the kind (read or write) each thread asks for | RwGuardEnter, RwLockDone, RwTryLock, RwTimedLock, RwTimedDone, RwTimedOut, RwGuardUnlock, RwGuardRelock, RwExit |
| `Sem` | `Sem` (process-private semaphore) | the semaphore's value, thread control points | PSemP (try or blocking), PSemWaitDone, PSemV, PSemClose |
| `ThreadJoin` | `Thread` (constructor, `join`, `detach`, destructor, `_Run`) | `_id`, the thread function's state (never started, running, returned), what pthread did with the handle, per-caller control point and swapped id | Finish, Swap (`atomic_swap`), Release (`pthread_join`/`pthread_detach` or nothing), JoinReturns |
| `ThreadPtr` | `thread_ptr<T>` | per-tid pthread key value, `_objs`, heap, objects handed out | Spawn, Exit, Reset, Release, Free, Destroy |

Each `MC*` module names the model values and small sets for the
configurations. Two of them also compose components:
- `MCMutex` puts `Mutex` and `RwMutex` side by side, with shared `NDEBUG`.
- `MCNameSem` puts `NameSem` and `Sem`, the two `ISem` implementations, side
  by side.
A step of the composition is a step of one component. In each module a "Faults" section defines the mutated forms
of mapped definitions; PROJECT.json's `mutants` substitutes them one at a time.

`PipeIO` splits every call into its two steps, because another process can
act between the probe and the syscall. A bounded timer may expire at any
moment its descriptor is not ready; time is not a variable. `PipeIO`
refines `Channel` through `Abs == INSTANCE Channel WITH stream <- buf, ...`,
and `ChannelSpec` is checked as a temporal property. A process killed by
SIGPIPE maps to a release of its ends. `MsgQueue` models time, because its
finding is about the deadline: `now` starts at `Now0` = 5000 ms and `Tick`
advances it. The blocking, non-blocking and failing outcomes of each kernel
call are separate actions, and `SendResult` is the library's
interpretation of them.

## Runs

Passing runs:

- `pipe_contract` checks `ChannelSpec` for two processes that both read and
  write one pipe, with writes of 1 or 2 bytes and every timeout kind (block,
  poll, 1 ms). Reads race each other and bytes may interleave. Process `p1`
  ignores SIGPIPE (its write to a pipe with no reader returns -1). SIGPIPE
  kills process `p2`, which is the library's default. The test program's
  round trip is one of its behaviours.
- `mq_contract` checks `MessagesAccounted`: every value returned says
  exactly what the queue gained or lost. It uses two processes (symmetric)
  opening read-only or read-write, blocking and timed calls, a read length
  larger than the message size, notify, and close/destroy and re-create.
- `nsem_lock` checks `UnitsConserved` (count plus holders is 1, so at most
  one process holds a semaphore) for three processes using a named semaphore as a lock, with
  crashes and restarts. One process is a server (`O_EXCL`). The same run
  checks `SemExclusion` for two threads using a `Sem` as a lock. Either
  thread may `close()` it at any time: close zeroes the value even under a
  holder or a sleeper, and the sleeper's wake-up may or may not come.
- `fifo_usage` checks `NoDescriptorLeak` with a privileged creator, so the
  permission bug below does not hide every open.
- `mutex_lock` checks `MutualExclusion` for four threads, in a build
  without `NDEBUG`, where every guard scope relocks before it ends. The same
  run covers three threads on an `RwMutex`:
  - they use both guards, `try_rlock`/`try_wlock` and the timed calls;
  - `RwExclusion` says that a thread in a write section is alone;
  - `RwProgress` says that whenever a thread waits in `rlock()` or
    `wlock()`, some thread later is in a section.
- `tptr_unique` checks `NoDoubleDelete` and `NoLeak` for two tids (not
  reused) and three objects.

Violation runs, each a finding (see `findings`):

- `pipe_write_blocks`: two processes write one pipe with a 1 ms timeout.
  Both see its last free page slot in `select()`; the first write takes the
  slot and the second blocks in `write()`. Linux reports a pipe writable
  only while a page slot is free, so a lone writer of at most `PIPE_BUF`
  bytes cannot block after `select()`: the model gives it the same
  guarantee, and the race is needed.
- `mq_timed`: `abs_timeout` is `{wait/1000, wait%1000*1000}`, a moment in
  1970, so a timed receive on an empty queue (the trace) or a timed send on
  a full one fails at once.
- `mq_overrun` (`NoOverrun`): `read()` checks only `len > maxmsg_`, then
  passes `maxmsg_` to `mq_receive`. A 2-byte message is copied into the
  caller's 1-byte buffer.
- `fifo_perm`: `mkfifo(path, trans_mode(mode))` turns open flags into
  permission bits. The unprivileged creator cannot open its own fifo.
- `shm_leak` (`NoDescriptorLeak`): `~PosixShareMem` only calls `unmap()`,
  so the descriptor from `shm_open` stays open after the instance is gone.
  Spec section 3 says close happens implicitly via destruction.
- `thread_join_waits` (`JoinWaits`): two threads call `join()` on one
  `Thread`. The one whose `atomic_swap` reads 0 returns while the thread
  function still runs. The comment on `join()` says it waits until the
  function terminates. `JoinWaits` requires the function to have returned,
  not merely to be not running. Setting `NDEBUG = TRUE` in the cfg therefore
  breaks it too: a single join returns before the function was ever started.

## Bounds

- Lengths are 1 to 4 bytes against capacities of 2 to 4, so full, partial
  and empty buffers all occur. A pipe has 1 page slot of `PipeBuf` = 2
  bytes (Linux: 16 slots of 4096), so 1-byte writes merge into a page and
  2-byte writes fill one.
- There are two or three processes, since each property needs two or more
  actors racing.
- Written bytes are bounded: `MaxBytes` in PipeIO and `MaxSends` in
  MsgQueue.
- Queue depth is 1 (the code's 20 only postpones "full").
- There are at most 2 named objects created per run, so a name can be
  removed and re-created.
- The clock allows 1 ms of progress.

Every passing run fires every action and every disjunct of its module's
next-state relation. `pipe_contract` reaches about 590,000 states and
`mq_contract` about 1.5 million, and `mutex_lock` (four Mutex threads
times three RwMutex threads) about 174,000 with its liveness check. Each
finishes within two minutes.

## Fairness and deadlock

`PipeIO`'s `Spec` carries weak fairness on the kernel steps: probe
completion and syscall completion. The kernel runs a process that is not
blocked, and that is all the fairness asserts.

`RwMutex`'s `RwFairness` carries weak fairness per thread on three steps:
- the kernel handing a grantable lock to a thread blocked in
  `pthread_rwlock_rdlock`/`wrlock`;
- a thread leaving a critical section it entered (a guard's scope ends, or it
  calls `unlock()`);
- a guard relocking.
It is weak, not strong, fairness because pthread promises no order among
waiters. So `RwProgress` claims progress for some thread, not for each
one; a per-thread claim would be false, since glibc's default rwlock
prefers readers and a writer can starve. `Mutex` has no fairness: its
only property is a safety property.

`Sem` has no fairness, and its run checks only safety.

`ThreadJoin` has no fairness: its property is a safety property of each step.
The other modules have no fairness either.

`CHECK_DEADLOCK FALSE` appears where the system can really stop:
- `pipe_contract`: both processes block in reads while each holds a write
  end, or a process is killed.
- the `mq_*` runs: all processes block on a queue nobody serves, once the
  send bound is reached.

## Not modelled

- `SyncEvent`: its constructor and `wait()` are declared but defined nowhere
  in the repository, so only `signal()`/`reset()` exist to model.
- `Pipe::set_size`: a no-op.
- `NameSem::value`: read-only.
- `PosixShareMem::map`: line 538 passes five arguments to the six-parameter
  `mmap` and compares its pointer result with `< 0`, which does not
  compile, and the spec (section 9) already calls it a defect. Nothing else
  sets `addr_`, so `unmap()` and `addr()` act on nullptr and change nothing.
- Message priorities: the code always sends at one priority.
- `current_thread_id`: a thread-local cache of `gettid()`.
- `macros.h`: round-up and bit macros used nowhere in the repository.
  Checking them as pure operators would need a run of its own, and all 12
  runs are spent on the components that are used.

Several hazards found while modelling are described in `PROJECT.json` with
the cfg change that exposes them, for example:
- `NDEBUG` in `mutex_lock` or `thread_join_waits`;
- `EarlyExit` in `mutex_lock`: a guard's scope ending right after its
  `unlock()` breaks `MutualExclusion` for `MutexGuard`, and `RwExclusion` for the
  rwlock guards, whose second unlock takes another reader off glibc's count;
- `TidReuse` in `tptr_unique`;
- the fifo path surviving a crash.

Using a `Sem` after `close()`, and the wake-up a sleeper loses when
`close()` runs under it, break a precondition the spec (section 4.6) puts on
the caller, so they are not findings. Writer starvation on the rwlock breaks
no claim of the spec, which leaves the locks out of its scope.
