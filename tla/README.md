# The synchronisation core of the kernel, in TLA+

This directory models the part of the OpenBSD kernel in `src/` on which every
other part leans: readers/writer locks and the recursive locks made of them, sleep
queues, timeouts, task queues and shared reference pointers, all in `src/kern`; and
two clients of it whose own protocols are intricate, pipes and advisory locks.  They
are small, they are used everywhere, and what can go wrong in them takes two CPUs, a
sleep, a signal or a wrapped counter at the wrong moment, which no test of the
repository reaches.

The repository is a kernel tree with an EFI variables driver added
(`src/arch/amd64/amd64/efivars.c`).  That driver keeps one flag, set when it is
attached and only read afterwards, and its ioctls print; it has no behaviour
for a model checker to explore.

## Inventory

### Modelled parts

| part | source | state | operations | what is hard | what makes it correct |
|---|---|---|---|---|---|
| readers/writer locks | `kern/kern_rwlock.c`, `sys/rwlock.h` | one word: owner or count, three bits | `rw_enter*`, `rw_exit*`, `rw_status` | a CAS against a word loaded earlier; going to sleep while the holder leaves; signals in the middle of it | exclusion; the word matches the holders; nobody sleeps unannounced; sleepers are woken |
| sleep queues | `kern/kern_synch.c`, parts of `kern/kern_sig.c` and `kern/sched_bsd.c` | hash queues, `p_wchan`, `p_stat`, `P_SINTR`, `P_TIMEOUT`, pending signals | `tsleep`, `msleep`, `sleep_setup*`, `sleep_finish*`, `wakeup_n`, `endtsleep`, `ptsignal` | wakeup, timeout and signal all race to end one sleep; stops on the queue | no wakeup and no signal is lost; the return value says what happened; timed sleeps end |
| timeouts | `kern/kern_timeout.c`, `sys/timeout.h` | a wheel of four levels, the work list, `ticks`, flags | `timeout_set`, `_add*`, `_del`, `hardclock`'s turn, `softclock`, `timeout_adjust_ticks` | level boundaries, wrapping `ticks`, lazy re-filing, callbacks that change the queues | called once due, not before; in a bucket that turns in time; nobody starves |
| task queues | `kern/kern_task.c`, `sys/task.h` | state, number of threads, list, `TASK_ONQUEUE` | `taskq_create`, `task_add`, `task_del`, the threads, `taskq_destroy` | unlocked reads of the flag; deferred creation; failing `kthread_create`; destruction at any time | an add leads to a call; the count of threads is right; freed once, after everybody has left |
| recursive locks | `kern/kern_lock.c`, `rrw_*` of `kern_rwlock.c` | a rwlock and a counter | `lockmgr`, `rrw_enter`, `rrw_exit` | the counter is protected by nothing but the lock; readers store to it too | the last release, and only that, gives the lock up |
| pipes | `kern/sys_pipe.c`, `sys/pipe.h` | two rings, pointers to each other, `pipe_busy`, flags for the lock, the waiters and end of file | read, write (and resize), poll, knotes, close | `uiomove()` and `km_alloc()` sleep in the middle; everybody sleeps on one address; closing with threads inside | a stream of bytes, small writes atomic; nothing freed in use; nobody sleeps through an event |
| advisory locks | `kern/vfs_lockf.c`, parts of `kern_descrip.c` and `vfs_vnops.c` | one list of all owners' ranges, each with its waiters | `fcntl`, `flock`, the two closes | six cases of an overlap; waiters moved or woken; a close during a sleep; deadlock | exclusion byte by byte; nobody sleeps for nothing; closing leaves nothing |
| shared reference pointers | `kern/kern_srp.c`, `sys/srp.h`, `refcnt_*` of `kern_synch.c` | the pointers, per-CPU hazard records, contexts waiting for a tick, a reference count | `srp_enter`, `_follow`, `_leave`, `_update`, the collector, `srp_finalize` | lock-free: a record is published and confirmed while another CPU scans; store buffers | nothing held is destroyed; everything replaced is destroyed in the end; `srp_finalize` waits |

How they interact: `rw_enter()` calls `sleep_setup()`, `sleep_setup_signal()` and
`sleep_finish()` and is woken by `wakeup()`; a sleep with a timeout puts
`p_sleep_to` on the wheel and `softclock()` calls `endtsleep()`; task queue threads
sleep in `msleep()`; `srp_v_gc()` is called by a timeout and `srp_finalize()`
sleeps in `refcnt_finalize()`; `lockmgr()` is `rw_enter()` and a counter; pipes and
advisory locks run under the kernel lock and sleep in `tsleep()`.  All but srp readers
also meet the kernel lock, which a thread loses whenever it sleeps.

### Parts that are not modelled

`PROJECT.json` lists them with the reason, one by one.  In short: `__thrsleep()`, soft
interrupts, kqueue, vnodes, pools and timehands are candidates of the plan below;
mutexes and the kernel lock are assembly or spin loops and appear as they are used;
virtual memory, networking, file systems and drivers, which are most of the
repository's lines, are systems of their own, tables, firmware, or hardware.

## Modules

Mutants, named after what they break, stand before the definition they are a
variant of and are used by nothing; they document that the properties notice a
plausible slip.

### `RWLock`, `RWLockSpec`, `RWLockProof`

`rwl_owner` is a record of the owner's address (or the count of readers) and the
three bits.  Addresses are divided by 8, as `RW_PROC()` strips the low bits, and
are greater than any count of readers (`ProcsAssumption`).  Each load, each
compare-and-swap and each `wakeup()` is a step; the locals `o` and `wrlock` keep
what was loaded, as they do in the code.  From `sleep_setup()` to the context
switch a thread holds the scheduler lock and touches the word once, by the CAS
that announces it, so this is one step, `rw_enter_sleep`, unless `CURSIG()` finds
a signal: it then returns (`rw_enter_sleep_signal`) or stops the thread
(`rw_enter_sleep_stop`), which continues with `rw_enter_cursig`.  A DIAGNOSTIC
assertion is merged with the access next to it; failing leads to `"panic"`.
`held` is a history of what the callers were given.  Callers release what they
hold and do not enter twice, which the DIAGNOSTIC code demands.  A request of
single-threading (`ps_single`) acts like a signal; a stop in
`sleep_finish_signal()`, after the wakeup, changes nothing of the lock and is left
out.

`RWLockSpec` is the lock callers want: `Read`, `Write`, `Downgrade`, `Exit` on the
function of what everybody holds.  The refinement maps `holds` to `held`.

### `RRWLock`, `MCRRWLock`

`RRWLock` extends `RWLock`.  A behaviour is that of one lock, a plain rwlock or one in
a `struct lock` (`recursive`), which `RRInit` chooses.  The second is only entered by
`lockmgr()`: the owner counts up at once; anybody else is a caller of
`rw_enter()` (`entering`) whose return is `rrw_enter`, the store of 1 to `rrwl_wcnt` if
it got the lock.  Every step of `RRNext` is a step of `RWLock`'s `Next` or leaves its
variables alone (proved in `RWLockProof`), so the rwlock keeps what it promises; the run
checks all of that on both kinds.  `depth` is a history of the requests granted.  A thread that has the lock
`LK_SHARED` does not ask again: nothing records who the readers are, and it could
wait for itself.  `sys/lock.h` has `LK_CANRECURSE` and calls `LK_DRAIN` a wait for
all activity; the code allows recursion without the one and treats the other as
`LK_EXCLUSIVE`.

### `Queue`, `QueueProof`

`Without` is `TAILQ_REMOVE()` on a sequence, used for the lists of `Taskq`, `KernSynch` and
`Timeout`; `Joined` is what `timeout_adjust_ticks()` makes of the lists of the wheel
when it moves them, one after the other, to the work list, and what the loops of
`Lockf` make of what each lock leaves.  Both number the elements
that stay, instead of going along the list, because the provers do not look into a
recursive definition.  `MCTaskq` and `MCTimeout` let TLC compare them with `SelectSeq` and
`FlattenSeq` on short lists.

### `KernSynch`, `KernSynchProof`, `MCKernSynch`

A thread waits for the event of an ident in the loop that its lock calls for
(`Protect`): `tsleep()` under the kernel lock, `msleep()` under a mutex, or
`sleep_setup()`, a look at the event, `sleep_finish()`, without a lock, as
`refcnt_finalize()` does.  `happen(w, i)` makes the event happen under that lock,
and a later step of the same waker calls `wakeup()` or `wakeup_one()` (`WakeOne`).
`Calls` lists which sleeps occur: with `PCATCH`, with a timeout, with the kernel
lock, with `PNORELOCK`.

`at` is the place in `kern_synch.c`.  The scheduler lock is held from `sleep_setup()`
to `mi_switch()`; while it is held, `wakeup_n()`, `endtsleep()` and `ptsignal()`
wait.  `mi_switch()` drops the kernel lock, and the thread takes it back
(`mi_switch_run`) before it is given the scheduler lock (`mi_switch_resume`).
`softclock(t)` takes the timeout off the wheel under the kernel lock, `endtsleep`
does the rest when it gets the scheduler lock: between the two the thread may be
woken and sleep again.  `ptsignal_post` adds the signal, and `ptsignal_intr`, `_stop`
and `_cont` do the part of `ptsignal()` that depends on `p_stat`.  Signals are one
that interrupts and one that stops; `First` says which has the lower number, as
`issignal()` takes the lowest.  `woken` and `expired` are histories.  Left out:
`SIGKILL`, ptrace, the paths for `cold` and `panicstr`, priorities.

### `Timeout`, `TimeoutSpec`, `TimeoutProof`, `MCTimeout`

`circq` holds the buckets of the wheel and, last, the work list, each as a sequence.
Every entry point runs under `timeout_mutex` and is one action; `softclock()` is
five, because it drops the mutex around the callback, during which anything may be
added or deleted.  The arithmetic is the code's: an `int` wraps and has
`WHEELSIZE` to the power of four values, so that a wheel of four levels covers exactly the
range of `ticks`, as it does with 256 buckets a level and 32-bit ints.  `span(n)` is
`1 << (n*WHEELBITS)`; shifting and masking are division and remainder, for negative ints
too.  `to_time` is set to 0 when a timeout leaves
its queue, since it is not read again before `timeout_add()` sets it.

`TimeoutSpec` is a countdown: a scheduled timeout loses the ticks that pass, is
called at 0 and never before.  The refinement maps the countdown to
`to_time - ticks`, cut off at 0.

### `Taskq`, `TaskqProof`, `MCTaskq`

What happens under `tq_mtx` is one step.  `task_add()` and `task_del()` read
`TASK_ONQUEUE` first, without the mutex, in a step of its own; the `wakeup_one()`
after the mutex is released is a third.  `taskq_create_thread()` runs deferred, may
sleep in `kthread_create()` and lose the kernel lock there, and may fail.  A queue
that is not `TASKQ_MPSAFE` runs its tasks under the kernel lock (`klock`).
`Init` chooses the queue that is created, from `Queues`.
`owed` is a history: tasks with a `task_add()` no call has honoured.  Tasks are not
added once somebody calls `taskq_destroy()` (`InUse`): the queue is freed there, so no
caller may still refer to it.
`TaskqAssumption` says that `TASKQ_MPSAFE` queues have one thread, which is true of
every queue the tree creates.

### `SRP`, `MCSRP`, `SRPProof`

Each load and store of shared memory is a step: in `srp_v()` the store of `sh_p`, the
load of the pointer, the store of `sh_v` and the second load; in the scan the reads
of `sh_p` and of `sh_v`.  With `TSO`, a CPU's stores go to a buffer (`buf`) that drains
at any time (`TSONext` and `TSOSpec` add that step to `Next`); `own` is its own view.  Only readers have buffers, because the updater
exchanges the pointer with a locked instruction.  A buffered store carries the
whole record, of which one word is new.  `Inside` says which pointers are
part of a value: the `se_next` of a list element.  `fin` is `srp_finalize()`.

### `Pipe`, `PipeSpec`, `PipeProof`, `MCPipe`

Everything runs under the kernel lock, so an action is what runs from one sleep to the
next: `pipelock()`, the `tsleep()` of reads, writes and `pipeclose()`, and `uiomove()` and
`km_alloc()`, which are called with `PIPE_LOCK` held.  `pipe[e]` is the `struct pipe` of an
end with its ring, flags, sleepers, pollers (`sel`) and knotes; operators such as
`pipeunlock`, `pipeselwakeup` and `rundown` transform it as the functions, or the
endings of the calls, do.  `th[t]` has the locals of a call: `size` is what it has
computed before it slept.  All threads, and `pipeclose()`, sleep on the address of
the pipe; a `wakeup()` empties `sleepers`.  A signal may end any interruptible sleep
(`_caught`).  `poll(2)` sleeps without a reference to the file, so that the end it polls
may be closed.  Bytes are named by their writer and their place in the write; bytes
nobody may read are junk.  The model assumes of the sizes what the constants of
`sys/pipe.h` satisfy (`PIPE_BUF` is at most `PIPE_SIZE`, and a pipe with less than `PIPE_BUF`
bytes of space has at least `MINPIPESIZE` bytes in it).

`NobodyForgotten` excepts what the code does not promise.  `pipe_poll()` (`sys_pipe.c:694`)
records a poll for no event nowhere, though it reports `POLLHUP` to one: such a poll sleeps
through the close of the other end.  A knote for writes is not told of the end of file
(`EofTold`).  And while `pipeclose()` sleeps, `PIPE_EOF` is set already, but the pollers and the
readers' knotes of the other end are told only when it goes on.

`PipeSpec` is a stream: bytes are given and taken in order, each once, and a write of at
most `PIPE_BUF` bytes gives all of them in one step.

### `Lockf`, `LockfSpec`, `LockfProof`, `MCLockf`

`locks` is the list of a file, in the order of the list; a lock has an owner (a process
for `fcntl()`, a file for `flock()`), a type, a range and the threads that wait for it.
The loops over `lf_findoverlap()` in `lf_clearlock()` and `lf_setlock()` look at the locks of
the owner one after the other, change each by the case of its overlap, and end early, at case 1,
2 or 5 or at a lock beyond the range.  What they do to one lock depends on that lock alone
(`ClearOne`, `SetOne`) and on whether the loop gets there (`seen`) and where the new lock is
linked (`links`); so the new list is what each lock leaves, `Joined`.  That the early end
misses nothing is a theorem, not a definition.  An action is a call up to its sleep or its
return.  `lf_setlock` and `lf_unlock` are what `fcntl()` and `flock()` do alike, and `sys_flock`
what `flock()` does to `FIF_HASLOCK` besides.  `closef` and `vn_closefile` are the closes of a process's descriptor and of the
last reference to a file; an `fcntl()` asleep meanwhile has `lost` the race and clears
everything when it returns.  `IdIsProc` is the program in which `lf_id` would be what
the search for deadlocks takes it for.  `sys/lockf.h` says that locks are sorted
by their starting byte; `ListSound` says so of the locks of one owner, which is what
holds and what the search needs.

`LockfSpec` has the lock of every owner on every byte: a range is granted if nobody
else has a conflicting lock on one of its bytes, and nothing else changes.

## Runs

All bounds are in the cfg files.  TLC explores each instance completely.

| run | instance | shows |
|---|---|---|
| `rwlock` | two threads, plain lock with all combinations of flags or `struct lock` with four kinds of requests nested two deep, signals that interrupt, stop and continue | the word names the writer or counts the readers; no panic; whoever switched away on the queue will be woken, and gets off it; the count of nested requests is right; the code implements `RWLockSpec` |
| `timeout_wheel` | one timeout, four buckets a level (8-bit ints), delays on both sides of every level boundary and beyond `INT_MAX`, a jump of 20 ticks | always filed in a bucket that turns in time; implements the countdown |
| `timeout_two` | two timeouts, two buckets a level | queues and flags agree while callbacks change them; a due timeout runs even if the other re-adds itself with 0 ticks |
| `taskq` | two tasks, two callers, a queue of two threads with the kernel lock or of one without it, three kernel threads that can be made | flags match the list, the count of threads is right, nobody looks into a freed queue, which is empty by then; every add leads to a call; destruction ends |
| `srp` | a list of two, one reader that enters and follows, two updaters, `srp_finalize()`, stores in order | nothing held is destroyed; what is replaced is destroyed once readers stop entering; `srp_finalize()` neither returns early nor sleeps too long |
| `srp_tso` | one reader with a store buffer | *violation*, see below |
| `sleep_tsleep` | two threads, two idents on one hash queue, `tsleep()` in its four variants, `sleep_setup()` with `wakeup_one()`, interrupting and stopping signals | queues agree with `p_wchan`; no panic; no wakeup or signal is lost; the return value is true |
| `sleep_msleep` | two threads in `msleep()`, with `PNORELOCK`, or `PCATCH` and a timeout | timed sleeps end; an event that stays ends the sleep |
| `pipe` | a ring of 3 bytes, 4 when big; a reader that polls, a writer of 2 bytes (atomic), one of 4 (which resizes, waiting for another write if it must), a knote for writes, closes of both ends, a new pipe | the ring and `PIPE_LOCK` are sound; nothing freed in use; nobody sleeps through an event; `pipeclose()` ends; implements `PipeSpec` |
| `pipe_resize` | the same, with large writes next to small ones | *violation*, see below |
| `lockf` | two processes and a file, 4 bytes, ranges that give all cases of an overlap, one request relative to the end, one without `F_WAIT`, two that are `EINVAL`, closes, signals, a limit of 4 locks | locks of an owner are sorted and disjoint; nobody sleeps for a lock that does not block it; closing leaves no lock; implements `LockfSpec` |
| `lockf_deadlock` | two processes and two bytes | *violation*, see below |

Why the bounds are enough to be interesting.  Two threads on a rwlock let one leave
while the other decides to sleep, and RWLockProof covers any number.  With four buckets
a level all four levels are in use within 8-bit ints, so every cascade and the wrap of
`ticks` occur; with two the fourth level is out of reach, but two timeouts fit.
`TimeoutProof` covers any wheel and any number of timeouts.  `MaxLag`
keeps the clock from running more than that many ticks ahead of `softclock()`.  Two
values and two updaters let a value be replaced, scanned for and put back while a
reader confirms it.  `MaxStores` is the room in a store buffer: two stores, `sh_p`
and `sh_v`, are what one entry makes.  One hash queue for two idents makes
`wakeup_n()` pass over others' sleepers.  An ident woken by `wakeup_one()` has no
interruptible sleepers: one that is chosen and returns `EINTR` as well would leave
the event to the others, and no caller is promised otherwise.  A ring of 3 with writes
of 2 wraps, fills, and leaves room that is too small for an atomic write; with 4 it
is both resized and overfull.  Four bytes, the last of which stands for the rest of the
file, have ranges that are equal, contained, containing and overlapping on either side.

`LateResize` keeps the finding of `pipe_resize` out of the run `pipe`: when it is
`FALSE`, `km_alloc()` fails whenever bytes have come into the buffer since the writer
decided to replace it.  The code does not ensure this; the run shows that nothing else
loses bytes.  `SerialBig` is a bound: a write of more than `PIPE_SIZE` bytes overlaps
another write only as far as it waits for the lock to resize (without it the instance
has 916,811 states, whose invariants hold as well, too many for the temporal
properties).  So in the run no two writers contend for space, and that the space a writer
has computed is computed again after `pipelock()` slept (`sys_pipe.c:491`) rests on
the theorems of `PipeProof`.

`CHECK_DEADLOCK FALSE` is said where the system may really stop: a task queue that is
destroyed, and a collector that is finalized.

### Fairness

* `RRWLock`: weak fairness of each running thread's steps and of releasing, and strong
  fairness of the last release: a holder may nest requests, but not for ever.
  Requests and signals are not fair.  A stopped thread need not be continued.
* `KernSynch`: strong fairness for steps that take the kernel or the scheduler lock,
  because `__mp_lock()` (`arch/amd64/amd64/lock_machdep.c`) hands out tickets in
  order; weak fairness for those that only take the mutex, which has no tickets.
  `TimedSleepEnds` and `EventWakes` must hold with that.  Events need not happen.
* `Timeout`: weak fairness of the clock interrupt and of `softclock()`, which
  `softintr_schedule()` has scheduled.
* `Taskq`: strong fairness of the threads, the creator and the destroyer (kernel lock),
  weak fairness of a caller within `task_add()` or `task_del()`.
* `SRP`: weak fairness of readers inside `srp_v()`, of the scans, of the timeout and of
  `srp_finalize()`.  That readers stop entering is a hypothesis of `Reclaimed`.
* `Pipe`: weak fairness of what a thread does inside a call once it can run, page faults
  included, and of `pipeclose()` once woken.  Nobody has to call anything.
* `Lockf`: none; its properties are safety.

## Findings

* **`srp_tso`** (`kern_srp.c:202`).  `membar_consumer()` is a compiler barrier on amd64:
  the confirming load may overtake the store of the hazard record, and the updater
  destroys what the reader is given.

* **`pipe_resize`** (`sys_pipe.c:439`).  A write of more than `PIPE_SIZE` bytes replaces the
  buffer if it is empty, but looks before `pipelock()`, which may sleep until another
  writer has added data; `pipespace()` then throws that data away.
* **`lockf_deadlock`** (`vfs_lockf.c:255`).  The search for deadlocks takes `lf_id` for a
  `struct proc`; `fcntl()` passes a `struct filedesc`.  It never finds anything, and two
  processes sleep for each other's locks.  With `IdIsProc` (`MCLockfProc.cfg`) TLC finds no
  deadlock.

TLC also refutes other statements.  They are not among the regular runs; the
cfg reproduces each (`tlc -config X.cfg M`).

| cfg, module | property | what the code does |
|---|---|---|
| `MCRWLockStop`, `MCRRWLock` | `SleeperAnnounced` | `rw_enter()` with `RW_INTR` calls `sleep_setup_signal()` before the CAS that announces the sleeper (`kern_rwlock.c:205`).  `CURSIG()` may stop the thread there; `SIGCONT` makes it `SSLEEP` without resuming it (`kern_sig.c:1032`), and the next `rw_exit()` does not know about it; `kern_synch.c:318` warns of exactly this |
| `MCKernSynchTimeout`, `MCKernSynch` | `ReturnsTruth` | `sleep_finish_timeout()` does not wait for an `endtsleep()` under way (`kern_synch.c:301`): without the kernel lock, a thread may sleep again and have that sleep ended by the old timeout |
| `MCKernSynchStop`, `MCKernSynch` | `NoMutexAway` | `msleep()` with `PCATCH` calls `CURSIG()` before `mtx_leave()` (`kern_synch.c:201`) and may stop with the mutex held |
| `MCKernSynchSignal`, `MCKernSynch` | `NoSignalSlept` | a stop signal and a higher signal are pending: the thread stops on the queue, and `SIGCONT` makes it sleep with the other one undelivered (`kern_sig.c:1032`) |
| `MCTimeoutJump`, `MCTimeout` | `DueStaysDue` | `timeout_adjust_ticks(INT_MAX)` leaves the work list alone (`kern_timeout.c:387`): a timeout there that is late enough turns into one for the far future |
| `MCSRPFollow`, `MCSRP` | `FollowedAlive` | `srp_follow()` gives up the record that protects an element before it reads the element's `se_next` (`kern_srp.c:236`) |
| `MCPipeKnote`, `MCPipe` | `EofTold` | `pipeclose()` runs the knotes before it sets `PIPE_EOF` (`sys_pipe.c:766`, `783`): a knote for writes on a full pipe is not told that the reader has gone |
| `MCLockfLimit`, `MCLockf` | `ClosedHoldsNothing` | `lf_alloc()` fails for unlocks beyond twice the limit, which splits may reach, and `closef()` ignores it (`kern_descrip.c:1124`): the locks stay |
| `MCLockfUnlock`, `MCLockf` | `ClosedHoldsNothing` | `flock(LOCK_UN)` clears `FIF_HASLOCK` (`kern_descrip.c:1187`) while another thread of the file sleeps in `flock(LOCK_EX)`; the lock that one gets is not cleared by `vn_closefile()` |
| `MCRWLockYield`, `MCRRWLock` | `ReadersYieldToWriters` | the comment at `kern_rwlock.c:53` says a reader may not pass `RWLOCK_WRWANT`; `rw_ops[]` checks `RWLOCK_WRLOCK` only |

One more cfg holds: `MCKernSynchContinue` (`MCKernSynch`) checks `TimedSleepEnds` and
`EventWakes` for two threads in `tsleep()` with `PCATCH` and a timeout that are stopped and continued.
The run `sleep_msleep` has no stop signals, because a thread that stops with the mutex held
(`MCKernSynchStop`) stops all others.

Of the passing runs this means: `ReturnsTruth` is checked for sleeps with the kernel
lock, `NoSignalSlept` for signals whose lower number is the interrupting one,
`HeldAlive` with stores in order, `ImplementsStream` for large writes that are alone,
`ClosedHoldsNothing` below the limit and for files that one thread uses.

## Proofs

### `RWLockProof`

For any finite set of threads whose addresses exceed their number, any flags and any
signals: `TypeCorrect`, `WordCorrect`, `MarksCorrect`, `NeverPanics`, `NoLostWakeup`
(`QueuedAnnounced`), `NoLostWakeupUnlessStopped` (`SleeperAnnounced`, if `Signals` has
no `"stop"`), `StatusCorrect` and `Refinement` (`ImplementsLock`).  `MarksCorrect`,
`NoLostWakeupUnlessStopped` and `StatusCorrect` are properties that no regular run repeats.
They are about `Spec` of `RWLock`; the last part carries them over to `RRSpec`, which the
run `rwlock` checks.

The inductive invariant `IInv` joins `TypeOK`, `WordMatchesHolders`,
`MarksOnlyWhileHeld`, `NoPanic` and `QueuedAnnounced` with two facts about each thread.
`LocalOK` says what its place implies about what it holds and remembers: a thread about
to do its CAS has loaded a word that allows the operation, one in `rw_exit()`
remembers the right kind of hold.  Without it the word could not be shown to match
the holders after the CAS.  `SleepOK` says that only a thread inside the sleep of
`rw_enter()` is on the queue.  One lemma per effect on the word (a reader more, a
reader less, a writer in, out or downgraded, marks only) does the counting;
one lemma per group of actions shows that `IInv` is kept.

Of `RRWLock`, for any requests and any depth of nesting: `RecursiveUse` (`RRSpec` implies `Spec`, since a
call of `lockmgr()` is a call of `rw_enter()` or `rw_exit()`, or touches nothing of the
rwlock), with it `RRInvariance` and `RRRefinement` (`ImplementsLock`), and
`RecursionCorrect` (`RecursionBalanced`).  The last needs, besides `IInv`, that a thread
outside `rrw_enter()` is with its caller or on its way out, and holds nothing once it is at
the wakeup of `rw_exit()` (`Outside`): otherwise a step of the rwlock could bring a
thread back as a writer that nobody counted.  That a reader's store of 1 to `rrwl_wcnt`
disturbs no writer follows from the word: while one thread writes, all others hold
nothing.

### `QueueProof`

What a removal and a concatenation leave: `Without(s, X)` has the elements of `s` that are not
in `X`, and none twice if `s` had none twice; `Joined(q, n)` has the elements of all lists, and
none twice if no list has and no two lists share one; the same for `Append` and `Tail`.
The lemma under them, `Numbering`, is about finite sets: if every member of `S` comes with
the set of those up to it, and those sets are nested, then counting them gives each member one of the
numbers `1..Cardinality(S)`, all different and all used.  `JoinedPlaces` says more of
`Joined`: from which list, and from where in it, each element comes, and that their order is kept.
`TaskqProof`, `KernSynchProof`, `TimeoutProof` and `LockfProof` extend it.

### `TimeoutProof`

For wheels of any even size, any timeouts, any delays, and any jumps of the clock up to
`INT_MAX`: `TypeCorrect` (`TypeOK`), `QueuesCorrect` (`QueuesConsistent`) and `BucketsInTime`
(`BucketInTime`).  `IInv` is the conjunction of the three: that a bucket turns in time is inductive
once the queues are known to be disjoint.  The arithmetic is separate.  `BucketStart`: an int
rounded down to a multiple of `span(w)` is an int, all lower digits are 0 there, and its bucket of
level `w` is the same.  `FiledInTime`: if a timeout is due in `r >= 1` ticks, the clock is at
that multiple after at least 1 and at most `r` ticks, because `BUCKET()` takes level `w > 0`
only if `r` exceeds `span(w)`; this is where an off-by-one in `BUCKET()` would show.
`Ticking` and `PutOff` say that the bucket stays in time when the clock ticks without moving it
and when the timeout is put off; `TurnedQueues` and `GatheredQueues` that no timeout is lost or
doubled when buckets are moved or the wheel is emptied.

`Refinement` (`ImplementsTimers`) and `DueIsLasting` (`DueStaysDue`) have the hypothesis `Steady`:
`MaxLag` and a jump together do not exceed `INT_MAX`.  It is needed because
`timeout_adjust_ticks()` leaves the times on the work list alone, and `MCTimeoutJump.cfg` shows
what happens without it.  The invariant `Late` says how late a timeout on the work list can be:
no more than `INT_MAX` ticks, and less if `softclock()` is not pending, since then nothing makes
the clock wait.

### `TaskqProof`

For any tasks, callers, threads and queues of the kinds in `Queues`: `Invariance`, `TypeCorrect`,
`FlagsCorrect` (`FlagsMatchList`), `FreedUnused` (`NoUseAfterFree`) and `FreedDrained`
(`DrainedFirst`).  Assumed: the sets are finite and a `TASKQ_MPSAFE` queue has one thread
(`TaskqAssumption`).  `IInv` adds to `TypeOK` and `FlagsMatchList` where everybody can be
(`Places`) and the life of the queue (`Lifetime`): `tq_running` is the number of threads, with one
that is being made counted already; the last thread leaves none behind; `tq_state` follows the
creator and the destroyer; the kernel lock is held where the code relies on it.  Without the
last, a thread that has counted itself out could look at the flags of a queue that is freed;
a `TASKQ_MPSAFE` queue has no such lock, and is safe only because it has a single thread.

### `KernSynchProof`

For any threads, idents, hash function and calls: `Invariance`, `TypeCorrect`, `QueuesCorrect`
(`QueuesAgree`) and `PanicFree` (`NoPanic`).  `IInv` says for each place of a thread in
`kern_synch.c` whether it is on a queue, in which state, and which locks it has; every action
is shown either to be a step of one thread from one place to the next (`Does`) or to leave all
others the same or woken (`Same`, `Woken`).

* `TruthTold` (`ReturnsTruth`), if timed sleeps hold the kernel lock (`Timed`): the timeout
  of a running thread then cannot be between `softclock()` and `endtsleep()`, which the
  invariant `TimedInv` says with the reasons for which a thread leaves its queue.
* `SignalsSeen` (`NoSignalSlept`), if `CURSIG()` finds the interrupting signal first
  (`First = "intr"`).
* `WakeupsArrive` (`NoLostWakeup`), if `Timed` and if calls on idents of `wakeup_one()` do not
  give up for a signal or a timeout or leave without their lock (`OnePlain`).

Each hypothesis keeps out a behaviour that the code has: `MCKernSynchTimeout.cfg` and
`MCKernSynchSignal.cfg` show the first two, and of the third no caller is promised otherwise.

### `PipeProof`

For any finite set of threads, any sizes and any calls: `Invariance`, `RingCorrect`
(`RingSound`) and `CloseCorrect` (`NoUseAfterFree`); and, if no buffer is replaced once bytes are in
it (`~LateResize`), `Refinement` (`ImplementsStream`).  `IInv` says what a thread computed before
it slept in `uiomove()` or `km_alloc()` (`Computed`), that one thread has `PIPE_LOCK` whenever
it is set (`Lock`), and of each end that the ring is sound, that `pipe_peer` is the
other end unless that is freed, and that `pipe_busy` counts the threads inside (`End`).
The stream is the bytes from `out` to `in` around the ring; lemmas say what reading and
writing a stretch, and wrapping, do to it.  Without `~LateResize` the step that
replaces the buffer empties the stream, which is the finding of `pipe_resize`.

Under the same hypothesis, `WaitersInvariance` and `NobodyIsForgotten` (`NobodyForgotten`).  That
property is not inductive: it says that somebody `Moving` will wake a sleeper, not that he is
bound to.  `WInv` says of each end what those who wait have left behind (`Sleeper`, `Poller`,
`Closer`: `PIPE_LWANT` with the lock taken, `PIPE_WANTR`, `PIPE_WANTW`, `PIPE_SEL`, `PIPE_WANT` with
`pipe_busy` above 0), and that what they wait for is not there unless the thread that brings it
has yet to reach the place where it wakes others: a writer between `pipelock()` and the end
of `uiomove()` for data (`Filling`), a reader in `uiomove()` for space (`Draining`).  A step
inside a call keeps this (`KeepsFaith`) if it leaves the flags of the sleepers alone or wakes
all of them, and, when it ends `Filling` or `Draining` or makes data or space appear, has woken
those with the flag and run the filters of the knotes.  One lemma for each of
the endings (`ReadEndLands`, `WriteEndLands`) and loops (`ReadLoopLands`, `WriteLoopLands`) says
where a step lands, and one for each action that it is faithful.  `NoRoomIs` is where the sizes
matter: a writer goes to sleep only with at least `MINPIPESIZE` bytes in the pipe, so that
the reader that takes it below that wakes it.  Without `~LateResize` the property fails: a
buffer that is replaced late is empty, and if the `uiomove()` that follows fails, nobody tells
the writers and the knotes that wait for space.

### `SRPProof`

If stores are seen in order (`TSO = FALSE`), for any numbers of CPUs, records, pointers,
values and updaters: `Invariance` and `HeldStaysAlive` (`HeldAlive`); and for the reference
count `TypeCorrect`, `FinalizeWaitsForAll` (`FinalizeWaits`) and `FinalizeNotForgotten`
(`FinalizeWoken`).  That a held
value is alive is not inductive, as it does not say that no scan has passed its record.
`IInv` adds where the value is (`Protected`: in its srp, before a scan that has its record
yet to read, or waiting for its timeout), that it is in one such place only
(`OnePlace`), and what records say of readers (`Publishing`, `Recorded`).  The critical
step is the second load of `srp_v()`: if the value is still in the srp, any later
exchange starts a scan of all records, and the record is already there.  `FInv` says that
`srp_gc_refcnt` is the owner's reference and one for each value that is not destroyed, and that
whoever brought it to 0 has the wakeup of `refcnt_finalize()` still to do.

### `LockfProof`

For any threads, processes, files and requests, any limit, file size and number of bytes told
apart: `ListStaysSound` (`ListSound`), `NobodyEverSleepsFree` (`NobodySleepsFree`) and
`LocksRefinement` (`ImplementsLocks`) without a hypothesis, and `ClosedNeverHolds`
(`ClosedHoldsNothing`) under two: `NeverFull`, that `lf_alloc()` does not fail for an unlock, and
`OneUnlocks`, that no thread unlocks a `struct file` that another one locks.  Both hold in the
run `lockf`; without the one or the other the property is false (`MCLockfLimit`, `MCLockfUnlock`),
and the theorem says that nothing else can break it.

The lemmas are about one lock, then about a list, then about a step.  Of one lock,
`ClearOneLeaves` and `LinkedAt` say that what the five cases leave is what sticks out of the range on
either side, with the new lock between, in order and byte for byte.  Of a list, `UnseenIsBehind` shows
that the loops miss nothing by ending early if the list is sound, so that `lf_clearlock` and
`addlock` treat every lock of the owner (`ClearIs`, `AddIs`); then `ClearSound` and `AddSound`
keep the order, `ClearHas` and `AddHas` say who holds each byte afterwards, and `ClearWaits` and
`AddWaits` where each waiter went: a waiter is still with its lock, or with the one that
replaced it and covers it in a mode that is not weaker (`ConflictKept`), or in no list.  They need no induction
over the list, since `JoinedPlaces` says where each lock of the new list comes from.

`LockfInv`, the inductive invariant, joins `Sound` (`ListSound` with types), what a thread sleeps in,
and `Waits` (`NobodySleepsFree`); each needs the first, and the waiters need that a sleeper's
request is valid.  The step that is not obvious is `flock()` for an exclusive lock, which clears its own
lock and looks again for one that blocks: `StillBlocked` shows that there is one, so that
`TAILQ_INSERT_TAIL()` has a lock to go to.  `ClosedInv` adds that locks are of owners with the file open, those of files
with `FIF_HASLOCK`, and that a sleeper has the file open or has lost the race against `close()`.
For the refinement an action is a range given or taken (`Change`), clipped to
the bytes told apart, and an `fcntl()` that gets a lock and clears all is one that clears all.

### Only model-checked

Liveness (`QueuedWakes`, `DueRuns`, `AddLeadsToCall`, `DestroyEnds`, `Reclaimed`,
`TimedSleepEnds`, `EventWakes`, `CloseEnds`) needs fairness and stays with TLC.
All safety properties and refinements of the passing runs are theorems.  The runs also compare `Without` and `Joined`
with the recursive definitions, which no proof can.

## Plan

1. `__thrsleep()` and `__thrwakeup()` (`kern_synch.c:438-598`) on top of the sleep queue:
   the wakeup of ident -1 that a thread in `copyin()` misses.
2. An abstract specification of sleeping (a thread waits for an event, is told, timed out
   or interrupted) that `KernSynch` implements; the other modules already use it in that
   form.
3. `softintr.c` with `Timeout`, replacing the flag `softclock_si`; kqueue with knotes that
   are dropped while they are scanned; `vget()` and `vclean()` on `lockmgr()`; timehands.

Hazards the models leave to their callers or their environment: a thread that holds a
lock `LK_SHARED` and asks for `LK_EXCLUSIVE` waits for itself (`kern_lock.c:101`); a CPU that
holds `SRP_HAZARD_NUM` references panics (`kern_srp.c:221`); `nbigpipe` may exceed its limit,
since it is compared before and counted after sleeps (`sys_pipe.c:437`); `lf_split()` may sleep
in `pool_get()` with the list half updated (`vfs_lockf.c:659`); sums of `off_t` may overflow
(`vfs_lockf.c:163`).
