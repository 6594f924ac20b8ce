# A TLA+ model of OS/161 (asst2)

The repository is an OS/161 kernel for the System/161 MIPS machine with the
second assignment done in it: file descriptors and open files, pids, `fork`,
`_exit`, `waitpid`, `getpid` and `execv`. This directory holds

* TLA+ modules that model the process and file layer, and the parts of the
  kernel below it, at the granularity at which threads, processors, interrupts
  and cards interleave;
* TLC configurations that check them on small instances;
* theorems, checked by TLAPS, that state the central safety properties for every
  number of processes, threads, descriptors, pids, handles, sectors.

Paths below are relative to the repository's `src/`.

## 1. The system and its parts

| part | code | modules |
|---|---|---|
| file tables, file system calls | `kern/syscall/file.c`, `file_syscalls.c` | `FileTable`, `FileHandles`, `FileTable_proofs`, `FileTable_refines` |
| pid table | `kern/thread/pid.c` | `PidTable`, `PidTable_proofs` |
| process system calls, `struct proc` | `kern/syscall/proc_syscalls.c`, `kern/proc/proc.c` | `PidTable` (pids, life and death), `FileTable` (descriptors), `Dumbvm` (memory) |
| `execv`, `runprogram`, `load_elf` | `kern/syscall/execv.c`, `runprogram.c`, `loadelf.c` | `FileTable`, `Dumbvm` |
| menu, shutdown | `kern/main/` | `PidTable` (`common_prog`), `FileTable` (`cmd_progthread`), `Vfs` (mount, unmount, cd, q) |
| sleep locks, condition variables, semaphores | `kern/thread/synch.c` | `Synch`, `Monitor`, `Synch_proofs` |
| threads, processors, wait channels, `spl` | `kern/thread/thread.c`, `clock.c`, `spl.c` | `Sched` |
| vnodes, device table, names, current directories | `kern/vfs/` | `Vfs` |
| user-level semaphores | `kern/fs/semfs/` | `Semfs` |
| disk file system, its checker | `kern/fs/sfs/`, `userland/sbin/sfsck/`, `mksfs/` | `SfsDisk`, `Sfs`, `Sfsck` |
| kernel heap | `kern/vm/kmalloc.c`, `kern/arch/mips/vm/ram.c` | `Heap` |
| address spaces, TLB | `kern/arch/mips/vm/dumbvm.c` | `Dumbvm`, `Dumbvm_proofs` |
| console, serial line, `kprintf` | `kern/dev/generic/console.c`, `kern/dev/lamebus/lser.c`, `kern/lib/kprintf.c` | `Console`, `Console_proofs` |
| disk | `kern/dev/lamebus/lhd.c`, `kern/vfs/device.c` | `Lhd`, `Drivers_proofs` |
| emulator file system | `kern/dev/lamebus/emu.c` | `Emufs`, `Emufs_proofs` |
| bus | `kern/dev/lamebus/lamebus.c` | `Lamebus` |
| clock | `kern/dev/lamebus/ltimer.c` | `Ltimer`, `Drivers_proofs` |
| 64-bit arithmetic | `common/gcc-millicode/` | `Quad` |
| C library heap | `userland/lib/libc/stdlib/malloc.c` | `Malloc` |

How they interact. A process is a `struct proc` with one thread. Its descriptor
table (`OPEN_MAX` entries) maps descriptors to indices of the one global
open-file table; an open file holds a vnode, an access mode, an offset and a
reference count, all of it under one sleep lock, `oft_l`, which `read` and
`write` keep while the device works. The pid table maps pids to the pid of the
parent, an exit flag, an exit code and a condition variable, under `pt_lock`.
`fork` copies the descriptor table and counts the new references, takes a pid
and a `struct proc` and starts a thread; `_exit` publishes the code, closes the
descriptors and frees the process; `waitpid` sleeps until the code is there and
frees the entry. Both locks are those of `synch.c`, which stand on wait channels
and the scheduler. A vnode belongs to a volume (sfs, semfs, the emulator's) that
the device table names; its last reference reclaims it. Below are the drivers,
each a pair of a thread that waits and an interrupt that answers.

The modules rest on each other where the code does. `Synch` shows that locks and
condition variables behave as the `Monitor` that makes a critical section of
`FileTable`, `PidTable` or `Semfs` one action; `Sched` shows that a thread that
is made runnable runs, once, on one processor, which `Synch` takes for granted.
`Sfs` and `Sfsck` share `SfsDisk`, and meet in one model in which the power fails
and the checker repairs. The other components share no state that their
properties tell apart, and are checked one at a time.

## 2. Modules

`FileTable`: `openfiles`, `oft_l`, `fd_t`, `freed` (processes whose table pointer
dangles), `sys` (where each process is), `vn_refs`, `crashed` and the ghost
`lost`. An open file is a vnode, a mode, a count and an offset. `sys[p]` is the
system call of `p`; its `op` is the point the thread has reached. One action is
one critical section under `oft_l`, or one stretch of code on private state:

| code | actions |
|---|---|
| `file_open` | `OpenVnode`, `OpenVnodeFails`, `Install`, `InstallFails` |
| `file_read`, `file_write` | `IoBegin` (takes `oft_l`), `IoEnd`, `IoBad` |
| `file_close`, `sys_close` | `Close`, `CloseBad` |
| `sys_dup2` | `Dup2Trivial`, `Dup2Locked`, `Dup2Assign` (after the unlock) |
| `sys_lseek` | `Lseek`, `LseekBad` |
| `sys_fork` | `ForkFails`, `ForkNoTable`, `ForkCopy`, `ForkCount` (one per descriptor), `ForkThread`, `ForkThreadFails` |
| `file_table_init` in `runprogram`, `sys_execv` | `RunProgram`, `ExecvRefused`, `ExecvInit`, three opens with `by` = `"run"` or `"exec"`, `Load` |
| `file_table_destroy` in `pid_exit` | `ExitClose` (one per descriptor), `ExitDone` |
| use of a freed or missing table | `UseFreed` (undefined from there on) |

`FileHandles`: the abstract specification: each process has a table from
descriptors to handles, a handle has a position. Open, close, dup2, move and inherit
are single steps; `execv` is none, as its man page says. `FileTable` implements it
under the mapping `Handles`, except for the one step in which `sys_execv` drops the
table of its caller.

`PidTable`: `pid_table`, `p_pid` (a word of each `struct proc` cell, which
survives `kfree` as the fill pattern), `sys`, `crashed` and the ghost `kids`.
Cells are recycled, so that a stale pointer to a `struct proc` is visible.
`Create` is `proc_create_runprogram` with `pid_create`; `ForkThread`,
`ForkThreadFails`, `ForkReturn` are the rest of `sys_fork` and `common_prog`;
`CallWait`, `Wait`, `WaitWoken`, `WaitStale`, `MenuWait` are `pid_wait` before and
after `cv_wait`; `CallExit`, `ExitAnnounce`, `ExitWild`, `ExitPanics`,
`ExitDestroy` are `pid_exit`. `pid_create` checks neither `kmalloc`
(`CreatePanics`) nor `cv_create`: an entry may lack its condition variable, and
the first sleep on it, or its announcement, panics.

`Synch`: one lock, one condition variable used with it and one semaphore.
`lk_holder`, the three wait channels as sequences of threads, `cv_wchanlock` (the
one spinlock held across another operation), `sem_count` and `pc`. One action is
what runs under one spinlock; `cv_wait` is four actions and ends with
`lock_acquire`. A woken thread tests again, and others may be faster. The ghost
`flip` changes with each signal, so that one that wakes nobody is a step the
abstract monitor must match. `Monitor`: a holder, a set of waiters, a count;
waiting gives up the lock in the same step.

`Sched`: processors with run queues, the current thread, zombies, pending
interprocessor interrupts; threads with state, processor, saved interrupt level
and what they do. The lock of a run queue is held across the context switch, from
the old thread into the new one, and so is a variable, like the lock of the wait
channel that `thread_switch` gives up in the middle. Interrupt handlers run on
top of the current thread, also when the processor idles in it.

`Vfs`: `knowndevs`, vnode counts, current directories, the boot file system and
the calls under way. `vfs_biglock` covers a call from acquire to release; a
`VOP_DECREF` outside it, and the reclaim it asks for, are steps of their own.

`Semfs`: semaphores with count, `linked` and `hasvnode`, the directory, vnode
counts and the four kinds of lock. The two flags are read and written under
different locks, so `semfs_remove` and `semfs_reclaim` are several actions.

`SfsDisk`, `Sfs`, `Sfsck`: blocks, inodes and the directory as on disk; the kernel
with its cached inodes and free map; the checker. An operation of `Sfs` is an
operator from machine to machine that stops at the write before which the power
fails, or takes the error path of the step that fails, so that every prefix of
every operation's writes is reached. `Sfsck` leaves out the merging of duplicate
names and the recursion into subdirectories of pass 2: no volume this kernel
writes has either.

`Heap`: `kmalloc`'s page references and lists, split at every release of
`kmalloc_spinlock`. `Dumbvm`: physical pages, one TLB per processor, the steps of
`vm_fault`, `execv`, `fork` and exit on address spaces, with `Machines` for how
many processors there are; `image` remembers what a program should find in its
memory. `Malloc`: the first-fit heap of the C library, in `size_t` arithmetic that
wraps at `SIZE_MAX`, over an `sbrk` that grows the heap, refuses, or, for an amount
that is negative to it, shrinks it. The kernel of this repository has no `sbrk`:
there `__malloc_init` ends the first `malloc` with its `err` (`__malloc_init_fails`),
and the rest of the model is about a kernel that has one. `Quad`: Knuth's algorithm
D, a pass of the loop per step, and the other two-word operations, at a width set by
`HALF_BITS`.

`Console`: printing by sleeping threads (`cs_wsem` and the interrupt) and by
contexts that spin on the device, and the input ring. `Lhd`: one sector at a time,
`lh_clear` and `lh_done`, the card with its buffer. `Emufs`: one operation of the
card under `e_lock`, handles, vnodes, retries of a failed close. `Lamebus`:
autoconfiguration with interrupts on, and the dispatch loop. `Ltimer`: the three
register reads of `ltimer_gettime` while the clock runs.

`MCFileTable`, `MCPidTable`, `MCSfs`, `MCSemfs`, `MCDumbvm` give one component its
constants and symmetry sets. `MCDevices` (console, disk, emulator, clock, bus),
`MCThread` (`PidTable`, `Sched`) and `MCSafe` (`FileTable`, `Synch`, `Vfs` twice,
`Semfs`, `Heap`, `Dumbvm`, `Malloc`, `Quad`) put components that share no state side
by side: the first state chooses one (`which`), the others stand still.

Atomicity. Where a lock guards state and nothing touches that state without it,
a critical section that does not sleep is one action, enabled when the lock is
free; a lock held over a sleep, an interrupt or another lock is a variable. What
a call does outside the locks, on state of its own, is folded into the
neighbouring action, except where another thread can see it: the vnode reference
between `vfs_open` and the installation, `sys_dup2`'s assignment after
`lock_release`, the child between the copy of its table and `thread_fork`, the
process between publishing its exit and its destruction, a vnode between the
decision to reclaim it and the reclaim.

Undefined behaviour. The last slot of the pid table is never initialised
(`pidtable_init` stops at `i < PID_MAX`): `PidInit` leaves it `NULL` or `Garbage`. A
freed `struct proc` reads as the fill pattern until it is reallocated. A use of a
freed descriptor table, of a freed pid entry or of `pid_table[-1]` ends the
behaviour with `crashed = "undefined"`, a failed assertion or a null dereference
in the kernel with `crashed = "panic"`. `file_table_destroy` runs its index up to
`PID_MAX`, past both tables: `ExitDone` may end in a normal exit or in a panic.
`getch`'s tail is read and moved without a lock: `Console` splits it there.

## 3. Properties

Each is explained at its definition; this is the list with its reason to be.

`FileTable`
* `RefCount`: an open file's count is the number of descriptors that lead to it over
  all processes plus the references that `execv` and a failed `fork` gave up
  (`lost`); that they give any up is a matter for `ImplementsHandles`. `sys_fork`
  counts one descriptor per critical section, so the descriptors of a half-made child
  count up to its index.
* `NoDangling`: no descriptor leads to an empty slot; the file a thread reads or
  writes under `oft_l` stays.
* `VnodeRefs`: vnode references equal open files plus opens in flight, on all
  error paths.
* `HandlesBarExecv`: refinement but for the step in which `sys_execv` drops a table;
  the windows of `sys_dup2` and `sys_fork` are invisible, and a reused slot is never
  shared by accident. The refinement without exception, `ImplementsHandles`, is
  violated (section 5).

`PidTable`
* `OwnsPid`: a process that has not announced its exit owns its entry, alone.
* `ChildrenKept`: a child that has not been collected keeps its entry.
* `WaiterSafe`: `pid_wait` tests the exit flag with `if` and not `while`; it is
  right to, since a thread comes back from `cv_wait` only with the entry present
  and marked, and shares it with no other waiter.
* `ExitWakesWaiter` (liveness): a sleeper on a process that calls `_exit` gets
  its code, which depends on the one broadcast of `pid_exit`.

`ChildrenKept` and the second half of `WaiterSafe` are conditional on
`AllHavePids`: two processes that were both created with the table full share
pid -1, and each passes for the parent of the other's children.

`Synch`
* `MutualExclusion`: the thread inside the lock is the one `lk_holder` records.
* `LockNotForgotten`: `lock_release` wakes one thread, which may lose the lock to
  a faster one and sleep again, behind the others; a free lock with sleepers still
  has somebody awake who will try it.
* `SemNotForgotten`: as long as threads sleep in `P`, as many are on their way as
  there are counts.
* `ImplementsMonitor`: refinement; a signal sent under the lock never misses a
  thread that has released the lock in `cv_wait`.

`Sched`
* `OneCpuPerStack`: no two processors are on one stack, none on a destroyed one.
* `OnePlace`: a thread runs or is on exactly one list, once.
* `IdleHasNoWork`: a processor that idles has an empty queue or an interrupt on
  its way, whatever wakes or migrates threads to it.
* `LevelsBalance`: interrupt levels match across the switch, in which one thread
  takes the lock and the next releases it.
* `ReadyRuns` (liveness): a ready thread runs.

`Sfs`, `Sfsck`
* `NoPanic`, `HeldLoaded` (a vnode somebody holds is not reclaimed), `Accounted`
  (blocks have one use, used blocks are marked, link counts are right, and without
  failures nothing is lost), `SafeToMount` (what sfsck calls clean is consistent),
  `SyncedStays` (what was synced survives power failures and sfsck).

`Vfs`: `VolumesHeld` joins `RefsCounted` (counts equal the pointers there are, at
every point of every call), `FsStays` (a volume does not go while somebody holds
one of its vnodes), `StandsInVolume`, and `QuitUnmounts` (the q command leaves
nothing mounted once nothing is open, so that no reference was lost).

`Semfs`: `SemsAccounted` joins `VnodeRefs`, `OpenSemsStay` (an open semaphore is
not destroyed, and what semfs asserts of its flags holds) and `NothingLeaks` (remove
and reclaim never both leave the semaphore to the other); `SemNoDeadlock`: the lock
order excludes deadlock. What `lock_destroy` asserts of the semaphore's lock does not
hold: `DestroyedUnheld` (section 5). There a behaviour ends, and the properties above
speak of the others.

`Heap`: `HeapSound`, no block twice or lost, no page with two uses, lists that
agree, no failed assertion. `Dumbvm`: `MemoryOwn`, a frame has one owner, a page
one TLB entry, and a program finds what it wrote. `Malloc`: `MallocSound`, blocks
have their size and lie apart, free neighbours are merged, the chain of blocks ends
at the top of the heap, and no errx of the allocator is reached, for sizes that do
not wrap; `AllocatesSize` (section 5) is about those that do. `Quad`:
`ArithmeticRight`, the loop invariant of the division and all results against
TLA+'s own arithmetic.

`Console`: `OutputWhole` (every character once and in order, messages in one
piece, the turn to write is never doubled or lost) and `InputInOrder` (keys once
and in order, unless kgets and con_io are in getch at once). `Lhd`:
`TransferMine` (the result and the data that a thread finds are its own sector's)
and `OnlyAsked` (a sector changes only under a write of that sector). `Emufs`:
`HandlesSound`, an operation names an open handle and takes its own answer, and
every open handle has one owner. `Ltimer`: `TimeWithin`. Liveness: `CallsEnd`
(messages get printed, the disk becomes free whatever fails), `CallsReturn` (a call
of emu.c returns unless others overtake it at the lock for ever, or
`emufs_loadvnode` has run out of memory) and `SlotServed` (a signalling card with a
driver is served).

## 4. Runs

Bounds are constants of the `.cfg` files or of the `INSTANCE`s in `MCSafe`,
`MCThread` and (for the bus) `MCDevices`.

| run | instance | checks |
|---|---|---|
| `safe`, file tables | 2 processes, tables of 3, memory failures | `RefCount`, `NoDangling`, `VnodeRefs`, `HandlesBarExecv`, no deadlock |
| `safe`, sleep primitives | 4 threads, count up to 2 | `MutualExclusion`, `LockNotForgotten`, `SemNotForgotten`, `ImplementsMonitor` |
| `safe`, the others | 2 threads or processes for each | `VolumesHeld`, `SemsAccounted`, `SemNoDeadlock`, `HeapSound`, `MemoryOwn`, `MallocSound`, `ArithmeticRight` |
| `threads`, pids | 2 processes and the menu, 2 pids, memory failures | `OwnsPid`, `ChildrenKept`, `WaiterSafe`, `ExitWakesWaiter` |
| `threads`, scheduler | 2 processors with their threads and one more, devices, shutdown | `OneCpuPerStack`, `OnePlace`, `IdleHasNoWork`, `LevelsBalance`, `ReadyRuns` |
| `sfs` | 8 blocks, 2 names, one failure or power failure, one run of sfsck | `NoPanic`, `HeldLoaded`, `Accounted`, `SafeToMount`, `SyncedStays` |
| `devices` | three parties at the console, 2 threads at the disk and at the emulator, 3 slots, a second of 7 ticks | `OutputWhole`, `InputInOrder`, `TransferMine`, `HandlesSound`, `TimeWithin`, `OnlyAsked`, `CallsEnd`, `CallsReturn`, `SlotServed` |
| `file_close_blocked` | 2 processes, `QuietSpec` | violated: `CloseReturns` |
| `file_execv` | 2 processes, tables of 4 | violated: `ImplementsHandles` |
| `pids_stranger` | 3 processes, 4 pids | violated: `WaitsForOwnChild` |
| `pids_fork` | 3 processes, 4 pids | violated: `ForkReturnsChildPid` |
| `semfs_wakeup` | 3 threads, 1 semaphore | violated: `BlocksUntilRaised` |
| `semfs_destroy` | 2 threads, 1 semaphore | violated: `DestroyedUnheld` |
| `execv_tlb` | 2 processes, 2 TLB entries | violated: `FailedExecvKeepsMemory` |
| `malloc_size` | a `size_t` of 64 values | violated: `AllocatesSize` |

Why the bounds are enough. *File tables*: with tables of three, every process has
its three standard files and nothing left, so open fails, close makes room, slots
are reused while the other process is in the middle of a `fork` or `dup2`, and
descriptors of both lead to one open file; `ArgFd` has one descriptor in range and
one outside, and `MaxRc` bounds only how many more references `fork` and `dup2`
take. *Sleep primitives*: a holder, two sleepers and one that overtakes a woken
thread; a count of two with two sleepers tells one wakeup per count from one wakeup
per change from zero. *The others in* `safe`: two threads for each race; heap pages
of two and three blocks fill and empty; a TLB of two entries with programs of three
pages is exhausted; three allocations of none, one, two and five blocks in a C heap
of three pages split, merge, grow the last block and exhaust `sbrk`; a digit of two
bits makes all 2^16 pairs of operands reachable, including those in which the
estimate of a quotient digit is one too large. *Pids*: the menu, a parent and a
child; with two pids the table overflows, so that pid -1 happens too; a program can
wait for a leaked process for ever. *Scheduler*: two processors and three threads
are the least with which one can be migrated while its processor switches away from
it, and `MIGRATE_HARDCLOCKS` of 2 makes migration and yielding alternate. *sfs*:
eight blocks are a file with an indirect block, the directory and one block more, so
the volume fills up; one failure or power cut may come at any of the first
`MaxSteps` fallible steps of any operation. A second failure, while `sfs_rename`
undoes what it did, is outside the bound: it is a panic the code states. *devices*:
the casts of the console are one for each combination of printing and reading
parties that share a lock or a register; a disk of two sectors makes requests of one
and two sectors, one behind the other (`lhd_io`'s remark on offsets beyond what 32
bits of sectors can say is about disks of 2 TB, which no instance has); two handles
and two vnodes make reuse and exhaustion, and the card gives every open a handle of
its own; three slots are two of one driver and one of none; a second of 7 ticks with
a margin of 3 turns over between any two reads.

In `safe` deadlock is checked for the file tables: there every call that has begun
can go on. Where `CHECK_DEADLOCK` is off the system may stop: everybody may wait for
a signal nobody is left to send, the machine may have been shut down or have
panicked, or a bound may have been reached.

## 5. What the violated properties show

Each states what a document, a comment or an assertion of the repository says and is
a `finding` in `PROJECT.json` with the line quoted:

* `CloseReturns`: a `read` of the console keeps `oft_l`, and no other process can
  close a file, although `README.md` speaks of a lock per open file;
* `ImplementsHandles`: `sys_execv` calls `file_table_init`, and the program it starts
  has three descriptors for the console instead of those its caller had, although
  `man/syscall/execv.html` says that the file table is not modified and
  `testbin/redirect` warns of this very thing;
* `WaitsForOwnChild`: a new process can get the pid of a dead parent, and wait for
  its orphan;
* `ForkReturnsChildPid`: `sys_fork` reads the child's pid after the child may have
  been freed;
* `BlocksUntilRaised`: a second write to a user-level semaphore wakes nobody when
  the first reader woken has not yet run;
* `DestroyedUnheld`: `semfs_remove` holds a semaphore's lock and has cleared
  `sems_linked` when `semfs_reclaim`, under another lock, reads that flag and destroys
  the semaphore: `lock_destroy`'s assertion that nobody holds the lock fails;
* `FailedExecvKeepsMemory`: a failing `execv` goes back to the old address space
  without `as_activate`;
* `AllocatesSize`: the rounding in `malloc` wraps for the largest sizes, and the
  caller gets a block that is too small instead of a null pointer.

The models contain more that the code does and a reader may not expect; none of it
contradicts a property above. `execv` never gives back the references of the table it
replaces, and a `fork` whose `thread_fork` fails leaks the child, its references and
its pid (`lost` in `FileTable`). A full pid table makes processes with pid -1,
and the menu waits for pid 2, whichever process that is. A program that cannot be
loaded makes the kernel panic in `thread_exit`. `emufs_loadvnode` returns with
`vfs_biglock` held when no memory is left (`nomem` in `Emufs`). A failed reclaim
leaves a reference nobody has, after which a volume cannot be unmounted (`lost` in
`Vfs` and `Emufs`). `sfs_bmap` loses a block when the write of a new indirect
block fails, and `sfs_sync_vnodes` ignores errors. Two callers in `getch` at once
can be given the same key (`shared` in `Console`).

## 6. Fairness

* `PidTable.PidFairness`: weak fairness for each step of a thread inside the kernel
  (the timer preempts, run queues are round robin, and `pt_lock` is free whenever
  an action of the model is not running) and none for programs: a process need not
  call `_exit`.
* `FileTable.QuietSpec`: strong fairness for each thread's next step and weak fairness
  for I/O on everything but the console, which may stay silent. That is more than
  `lock_acquire` guarantees, since a woken thread can be overtaken; `CloseReturns` is
  violated even so.
* `Sched`, in `MCThread`: processors keep executing, timers keep ticking and pending
  interprocessor interrupts are taken; strong, because a handler may run in
  between. No fairness for what threads decide to do.
* `Console`, `Lhd`, `Lamebus`: a card answers, its interrupt is taken, the thread it
  wakes runs. No fairness for keys, requests and new calls.
* `Emufs`: weak fairness for the card and for the steps of a call. A call may lose its
  lock to newcomers again and again, as `synch.c` allows, so `CallsReturn` excuses a
  call that another thread overtakes for ever.

## 7. Theorems

All are proved from the modules' own specifications, without bounds on the size of
anything: where a constant is a bound for TLC (`MaxRc`, `MaxOff`, `MaxCount`,
`MaxRetry`, `MaxResid`, `Horizon`, `Written`, the spaces in `Machines`) the theorem
holds for every value.

| module | theorem | states |
|---|---|---|
| `FileTable_proofs` | `Invariance` | `FileSpec => []IInv` |
| | `CountsAreRight` | `FileSpec => []RefCount` |
| | `NothingDangles` | `FileSpec => []NoDangling` |
| | `VnodesBalance` | `FileSpec => []VnodeRefs` |
| `FileTable_refines` | `Refinement` | `FileSpec => HandlesBarExecv` |
| `PidTable_proofs` | `TypeCorrect`, `PidOwnership`, `PidKept`, `WaitSafety` | `PidSpec => []TypeOK`, `[]OwnsPid`, `[]ChildrenKept`, `[]WaiterSafe` |
| `Synch_proofs` | `TypeCorrect`, `LockExcludes`, `LockWakesEnough`, `SemWakesEnough` | `SynchSpec => []TypeOK`, `[]MutualExclusion`, `[]LockNotForgotten`, `[]SemNotForgotten` |
| | `Refinement` | `SynchSpec => ImplementsMonitor` |
| `Drivers_proofs` | `FindsItsResult` | `LhdSpec => []TransferMine` |
| | `WritesWhatWasAsked` | `LhdSpec => OnlyAsked` |
| | `TimeIsWithin` | `LtimerSpec => []TimeWithin` |
| `Emufs_proofs` | `HandlesAreSound` | `EmuSpec => []HandlesSound` |
| `Console_proofs` | `Invariant` | `ConsoleSpec => []IInv` |
| | `OutputIsWhole` | `ConsoleSpec => []OutputWhole` |
| | `InputIsInOrder` | `ConsoleSpec => []InputInOrder` |
| `Dumbvm_proofs` | `MemoryIsOwn` | `VmSpec => []MemoryOwn` |

Assumptions. `FileTable`: finitely many processes, and names that differ from each
other (`ProcAssumption` to `NullAssumption`). `PidTable`: the kernel's process is
not one of the cells, `PID_MIN` is 2, null and uninitialised words are not entries,
0 is an exit code. `Synch`: finitely many threads. `Dumbvm`: `NONE` is no process, and
a program is a sequence of segments, at least one, none at address 0
(`VmAssumption`). The driver theorems carry theirs
in the statement: `Sizes` (a sector is not empty), `Names` (`None` is nobody's name,
finitely many threads; for the console, that nobody prints and reads, finitely many
readers and a buffer that is not empty), `Margin` (the 5 ms that `ltimer_gettime`
allows itself are at most half a second; they are a 200th).

**File tables.** `IInv` is `RefCount` and `VnodeRefs` with `TypeOK` and what a
process in the middle of a call relies on: `ForkShape` (between the copy of the
table and `thread_fork` a child belongs to one parent, and their tables are
equal), `Dup2Shape` (between the two halves of `sys_dup2` the old descriptor is
open and the new one closed), `IoShape` (who reads or writes has `oft_l` and a
descriptor of the file), `ClosedShape` and `FreedShape` (a process that is gone,
or has closed its descriptors, has none). `RefCount` alone is not inductive:
`ForkCount` adds a reference for the child's descriptor `i`, which is right only
if that descriptor still leads where the parent's does, and `Dup2Assign` makes a
descriptor of a reference counted before, which is right only if nobody closed the
old one. `NoDangling` follows: a slot that is empty has no holders. The proof
counts: `HoldersGain`, `HoldersLoss` and `HoldersSame` say how the set of pairs of
process and descriptor behind a count changes when one entry does, `OnVnodeStep`
and `PendingStep` the same for vnodes; each action then has one lemma, with one
step per conjunct.

**File tables implement handles.** `Table` shows, for a process between the halves of
`sys_dup2`, the new descriptor where the old one leads; for a child under
construction, nothing. Then `Dup2Locked`, `ForkThread`, `Install`, `Close`, `IoEnd`
and `Lseek` map to the steps of `FileHandles`, `ExecvInit` to `ExecvDrops`, and all
the others change nothing that can be seen. `IInv` is needed for the fresh handle of
`Install` (a slot that is empty is reached by no descriptor) and for the position a
reused slot begins with.

**Pids.** `IInv` joins `OwnsPid`, `ChildrenKept` and `WaiterSafe` with `OneCreator`
(a process under construction belongs to one creator), `MenuAlive` and `Childless`
(a recycled `struct proc` inherits no children). They need each other: `pid_create`
takes only empty slots, so ownership and the waiters' entries survive `Create`; an
entry is destroyed only when it is marked exited, and then by `OwnsPid` no living
process owns it; that no other waiter sleeps on it and no other parent keeps it
follows from `LivePidsDiffer`, which is where `AllHavePids` is needed.

**Sleep primitives.** `IInv` adds `SpinHeld`: the spinlock of the condition variable
is held exactly while a thread is between taking it in `cv_wait` and being on the
channel. That is the heart of the refinement: a signaller has the spinlock, so
nobody is in that window, and the set of waiters is what the channel lists.

**Disk.** `IInv` says that the card is at rest when no thread is in the middle of a
sector (`Rest`), and otherwise serves that thread (`Serves`): it works on its
sector, or its answer, in the card or saved by `lhd_irq`, is about that sector.
`Transfer` keeps the sectors still to do inside the disk; that is where the checks
of `dev_tryseek` and `lhd_io` come in.

**Emulator.** `IInv` says who waits and for what (`LockShape`, `Serves`), that a
handle between `emu_open` and `emufs_loadvnode` is one thread's (`HandShape`), that
vnodes have different handles, count at least the threads that have them, and are
reclaimed by the last (`VnodeShape`), and that every open handle is claimed. The
count is needed to show that a vnode with one reference left has no other user, the
handles' being different that a close closes one vnode's file, and `Serves` that
the handle the card names in its answer is still unclaimed when the thread that
waits takes it.

**Console, output.** `OutputWhole`, of which `OneTurn` is a part, becomes inductive
with `PollLock` (who polls has `ls_lock`, and drains only while a write is due to be
acknowledged), `DevShape` (with nothing under way the device is at rest, otherwise it
is sending or has just sent) and `HoldsLock` (who is within a message has the lock of
its kind). `DevShape` is what the two ways of printing owe each other: when
`lser_writepolled` or `lser_write` gives the device a character there is none in it,
so none is lost. `Shown` says that the characters given to the device are the first
ones of every message and that nothing of its kind has come after those of a message
that goes on; from that a new character keeps the messages whole.

**Console, input.** A key is in the device, with the handler, or among `Keys`, those
returned and those in the ring; `Pending` and `Older` say that one that comes later is
newer, so `con_input` appends in order. The ring's arithmetic is in `RingPut` and
`RingGet`: unless it is full, a key that enters changes no other, and the one that
leaves is the first. That `cs_rsem` and the readers in `getch` together count what
the ring holds needs no further assumption; that a reader has the key at the tail
(`HasKey`) needs that it is there alone (`Alone`), which `con_io`'s lock gives and
`kgets` does not take: hence `~shared`.

**Memory.** `MemoryOwn` speaks of programs that run; to carry it over the steps of
other processes one has to know about address spaces that are under construction and
about those an `execv` will go back to. `IInv` therefore gives every process its
`Claim`: the address space it has, the one it makes, the one it keeps for a failure.
`Claims` says that no two processes claim the same one; `Apart` that physical pages
are given out once, so that what two address spaces have differs; `Owns` and `Stage`
how far `fork`, `execv` or `runprogram` has got, and so which of the seven fields are
filled. `Tlbs` then states what a TLB may hold: pages that are `Private` to the
process that runs, and, unless an `execv` of it failed (`Exact`), exactly what its
address space says. That is inductive only because `as_activate` empties the TLB
before another process, or another address space, counts on it, and because an entry
of the address space that a failed `execv` gave up still belongs to that process: its
pages are never given out again. `Found` keeps a translation that `vm_fault` has
computed right until it is loaded, perhaps on another processor, and `Tlbs` says that
the page has no entry yet, from which `OneEntry` follows. `Remembers` ties memory to
`image` for the program a process runs or will return to, `Loaded` for the part that
`load_elf` has done; a page that is both zero-filled and loaded has what was written
to it last. TLC finds `IInv` true in all 8.1 million states of an instance with two
processes, one or two processors and a TLB of three. The lemmas come in that order:
`Physical` leads into the frames and is injective, what each step does to claims and
frames, then one lemma per action.

**Clock.** `IInv` remembers that there was a moment within the call whose
nanoseconds were read. If the seconds turned over before it, few nanoseconds have
passed and the second reading of the seconds is its second; if not, the first is.

Only model-checked:

* liveness and deadlock (`ExitWakesWaiter`, `ReadyRuns`, `CallsEnd`, `CallsReturn`,
  `SlotServed`, `SemNoDeadlock`): fairness and `ENABLED` are out of the prover's reach;
* `Sched`: migration hands out a list of threads in a fold, and what a fold
  computes needs induction over the list, which no installed prover does;
* `Sfs`, `Sfsck`, `Malloc`, `Quad`: operations are recursive functions over blocks,
  entries and digits, for the same reason;
* `Vfs` (its initial device list is a fold), `Semfs` (`VnodeRefs` is a sum over a
  set) and `Heap` (its lists are filtered): the same.

## 8. Not modelled

Creation and destruction of locks, condition variables and semaphores; start-up
and the secondary processors' boot; the deadlock detector (compiled only with its
option); `open_file_table_destroy` and `pidtable_destroy`; the contents of files
beyond a value per block; argument vectors (one value on the stack); the range
checks of `copyin` and `copyout`; `kmalloc`'s debugging options; line editing;
names, directory listings and paths inside a volume; the swap device and the calls
of the VFS layer that have no caller (`vfs_rename`, `vfs_link`, `vfs_symlink`,
`vfs_mkdir`, `vfs_rmdir`; what sfs does for the first two is in `Sfs`). The
random, beep, trace, network and screen drivers, the kernel library's sequential
helpers, generated configuration, assembly, kernel tests and the rest of userland
are outside the model. `PROJECT.json` lists every part with its status.
