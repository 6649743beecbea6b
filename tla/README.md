# UZIX: a TLA+ model of the kernel

UZIX is a small Unix for Z80 machines (here the Orion-128, `ORI_UZIX`), written in C
with a little assembly.  This directory holds TLA+ modules translated from its
source, the TLC runs that check them on small instances, and proofs, checked by TLAPS,
that hold for every size of the tables.  All paths below are relative to `src/`.

1. [The system](#the-system)
2. [Modules](#modules)
3. [The process layer](#the-process-layer)
4. [The buffer cache](#the-buffer-cache)
5. [The terminal](#the-terminal)
6. [Pipes](#pipes)
7. [The free blocks](#the-free-blocks)
8. [Inodes and names](#inodes-and-names)
9. [Descriptors and open files](#descriptors-and-open-files)
10. [Mounts](#mounts)
11. [Runs](#runs)
12. [Where the code does something else](#where-the-code-does-something-else)
13. [Proofs](#proofs)
14. [Not modelled](#not-modelled)

## The system

The kernel is one body of code that is not preemptive: a system call runs until it
returns or calls `psleep`.  Only the clock interrupt (`clk_int`) and the keyboard poll
(`tty_poll`, called at every system call, from the clock and from the scheduler's idle
loop) come in between, and they touch the process table, the signal bits and the
terminal queue.  A process in user code is preempted when its time slice is used up.
There is no memory protection and one processor.

| Component | State | Operations | Talks to | Module |
|---|---|---|---|---|
| Processes (`PR1.C`, `PR2.C`, `MD.C`, part of `SC2.C`, `SC3.C`) | `ptab`, `initproc`, `ptotal`, `nextready`'s pointer, `ptab_alloc`'s `nextpid`, `udata_t` of each process | `fork`, `execve`, `exit`, `waitpid`, `pause`, `signal`, `kill`, `alarm`; `psleep`, `wakeup`, `ssig`, `chksigs`, `calltrap`, `xswapout`, `nextready`, `swapin`, `clk_int` | everything that sleeps (pipes, terminal); files, which `exit` closes | `Proc` |
| Buffer cache (`DIO.C`) | `bufpool`, `bufclock`, `dirty_mask` | `bread`, `bfree` (`brelse`, `bawrite`), `zerobuf`, `freebuf`, `bufsync`, `bufinit` | device drivers below, the file system above | `BufCache` |
| Character queues and terminal (`DIO.C`, `DTTY.C`) | `ttyinq`, `rawmode`, `ttysleep`, `ctrlcp`, `suspendflag`, `flshflag` | `insq`, `remq`, `uninsq`, `clrq`, `tty_read`, `tty_write`, `tty_poll`, `tty_ioctl` | `psleep`/`wakeup`, `SIGINT` | `Tty` |
| Pipes (`SC1.C` `readwritei`, `SC2.C` `sys_pipe`) | the pipe's inode: `i_size`, `c_refs`; the offsets of the two open files | `pipe`, `read`, `write`, `close` | file tables, buffer cache, `psleep`/`wakeup`, `SIGPIPE` | `Pipe` |
| Block and inode allocation (`FS.C`) | `s_nfree`, `s_free`, `s_tfree`, `s_ninode`, `s_inode`, `s_tinode`, the chain of free blocks on the device | `blk_alloc`, `blk_free`, `i_alloc`, `i_free`, `bmap`, `freeblk`, `f_trunc` | buffer cache | `FreeList`, `Inodes` |
| Inodes, open files, descriptors (`FS.C`, `SC1.C`, `SC2.C`, `PR1.C`) | `i_tab`, `of_tab`, `u_files`, `u_cwd`, `u_root` of each process | `i_open`, `i_ref`, `i_deref`, `wr_inode`, `i_sync`, `oft_alloc`, `oft_deref`, `uf_alloc`, `doclose`, `open`, `creat`, `mknod`, `close`, `dup`, `dup2`, `link`, `unlink`, `chdir`, `chroot` | all of the above | `Inodes`, `Files` |
| Path names and mounts (`FS.C`, `SC1.C`) | `fs_tab`, directories | `namei`, `srch_dir`, `srch_mt`, `ch_link`, `newfile`, `fmount`, `mount`, `umount` | inodes | `Inodes`, `Mounts` |
| Memory (`SWP.C`, `Machdep.orn`) | page map | `swap_alloc`, `swap_dealloc`, `brk`, `sbrk` | `fork`, `exec`, `exit` | |
| Drivers (`DFD.C`, `DSK.C`, `BD.C`, `DMISC.C`) | hardware | block and character transfers | buffer cache | |
| Host tools (`UCP.C`, `UCS.C`, `XFS.C`, `MKFS.C`, `FSCK.C`, `FDISK*.C`), `libc/`, `app/`, `WinUtils/` | — | utilities and user programs | — | |

What is hard, and what must hold:

* **Processes.**  Signals, alarms and ^C arrive between any two steps of sleeping,
  being chosen and returning.  A signal must not be lost on a sleeper; an exiting child
  must not be missed by a waiting parent; the table must stay a tree; pids, which wrap
  round, and entries, which are used again, must not be confused; one process runs;
  a ready process is run in the end.
* **Buffer cache.**  Callers nest, buffers are two (`NBUFS`), transfers fail, writing
  is put off while inodes are synced, and power fails.  A block must never have two
  buffers, a buffer that is not dirty must be what the device holds, and the device
  must never hold anything but what was written to the block, last or earlier.
* **Terminal.**  The keyboard is polled from anywhere, also between the test of the
  queue and the sleep; ^C, ^S and ^Q change flags that sleepers have looked at.
* **Pipes.**  Offsets wrap, open files are shared after `fork`, ends are closed while
  the other side sleeps, a writer may want more than fits.
* **Allocation and files.**  Each operation is several block transfers of which any may
  fail, reference counts are kept by hand along every error path, copies of inodes in
  the table are thrown away for others, and mounts are pointers into that table.

`PROJECT.json` lists these hazards one by one with their lines, and the properties that
would notice them going wrong.  Some do go wrong in the code as it is; where a history
variable sets such a case apart, the hazard has a note in the place of a property.

## Modules

| Module | What it is |
|---|---|
| `ProcTree` | what the process layer promises about the life of processes: fork, exit, reap |
| `Proc` | the process layer; it implements `ProcTree` |
| `BlockStore` | what the buffer cache promises: blocks with a content and a stable copy |
| `BufCache` | the buffer cache; it implements `BlockStore` |
| `CharQueue` | what a character queue promises |
| `Tty` | the terminal; its ring implements `CharQueue` |
| `Pipe` | one pipe and the processes that share it |
| `FreeList` | the free blocks of a file system and the files that take them |
| `Inodes` | one file system: inodes on the disk and in memory, directories, free inodes, and the calls on path names |
| `Files` | descriptors, open files and who refers to which inode |
| `Namespace` | what path names and mounts promise |
| `Mounts` | several file systems, mounted and unmounted; it implements `Namespace` |
| `MC...` | each of these for TLC: sets, views, symmetries, bounds (`Tty` to `Tty.cfg` etc.) |
| `...Proofs` | the theorems about each, with their proofs |

The layers are kept apart along the lines on which the code is quiet: nothing sleeps
between the start of a file system call and its end, so `Inodes`, `Files`, `Mounts`,
`FreeList` and `BufCache` take one call as one step and no other process comes in
between, while `Proc`, `Tty` and `Pipe`, where things do sleep, cut their calls at the
sleeps and at the points where interrupts are on.  `Proc` has `psleep` and `wakeup` in
full; `Tty` and `Pipe` use what it shows of them (a sleeper is roused by `wakeup` or by
a signal, and is asleep only if neither came).  `BufCache` answers a transfer or fails;
the modules above it let every transfer fail (`MayFail`).

The operators named after a definition with one slip in it (`FreeSlotAny`,
`CleanedAll`, ...) are used by nothing.  Put in the place of the definition, each makes
the property it is paired with in `PROJECT.json` fail: they show that the property
notices the slip.

## The process layer

**State.**  A process is its entry of `ptab`, `0 .. PTABSIZE - 1`.  `status`, `pid`,
`pptr`, `wait`, `intr`, `pending`, `ignored` and `alarm` are the fields of `ptab_t`;
`sigvec` and `cursig` those of its `udata_t`; `kpc` and `wpid` say where its kernel
stack will go on.  `u_ptab`, `rr` (the static pointer of `nextready`), `nextpid` and
`ptotal` are the kernel's globals.  `cpu` says what the processor does: it runs `u_ptab`,
it is inside `swapout` before `chksigs`, it is in `nextready`, or it has stopped
(`panic`, the endless loop of `dowait`, the halt after the last exit).

**Grain.**  An action is a system call up to the point where the process sleeps or is
about to return (`kpc = "ret"`); the return, with `chksigs` and `calltrap`; one of
`chksigs` in `swapout`, `nextready` with `swapin`; or an interrupt.  Interrupts can come
between any two actions.  They also can come inside one in the code, where interrupts
are not disabled; what they do there to the table commutes with the rest of the action.
The scan of `nextready` is one step: an entry that becomes ready after the scan has passed it is
taken by the step before or after.

| Code | Actions |
|---|---|
| `dofork` with `ptab_alloc`, `newproc` | `Fork`, `ForkNoMemory` |
| `sys_execve` (signal part) | `Exec` |
| `doexit` from `exit` or from `chksigs` | `Exit`, `SwapoutDies`, `ReturnDies` |
| `sys_waitpid`, `dowait` | `Waitpid`, `WaitResumed`, `Interrupted`, with `Reap` and `WaitForChild` |
| `sys_pause`, `sys_signal`, `sys_kill`, `sys_alarm` | `Pause`, `Signal`, `Kill`, `Alarm` |
| `psleep` by a pipe or the terminal, `wakeup` | `SleepOn`, `Slept`, `Wakeup` |
| `xswapout`, `nextready`, `swapin` | `SwapoutQuiet`, `SwapoutCatch`, `Dispatch`, `ExtraRunning` |
| `clk_int` | `Second`, `Preempt`, `TrapInUser` |
| end of `unix()`, `calltrap` | `ReturnQuiet`, `ReturnCatch` |
| `tty_poll` on ^C | `KeyboardIntr` |
| a call that fails or changes none of this | `NoEffect` |

**Abstractions.**  User ids are left out: every `kill` of an existing process is
permitted, which only allows more.  Exit values, times and what `exec` loads are left
out.  The handler of a caught signal returns at once; the calls it makes are calls
that the process makes next.  Files that `doexit` closes and `sys_sync` are left out (they are
the other components').  `doexit` gives the process's memory back, so its vectors are
set to the default there.  A zombie's `alarm` is any number of `StimeMinutes`, because
`doexit` stores times over that field (`PR1.C:489`).  `P_FORKING` never outlives
`dofork` and is left out.

**Fairness** (`FairSpec`, used by the run `ProcTree`, for `ReadyRuns`).  Weak fairness of the kernel's own
steps: the processor does not stop in the kernel.  Strong fairness of `Preempt`: the
clock ticks for ever, `runticks` is only reset by a switch, so a process that is in user
code again and again is met there by a tick that finds its slice used up.  Nothing is
assumed of what processes do, nor of the keyboard and alarms.

## The buffer cache

**State.**  `name` is `bf_dev` and `bf_blk`; `data`, `dirty` (the set of its bits 1 and
2) and `use` (`bf_busy`, with the purpose the holder asked for) are fields of
`blkbuf_t`.  `disk` is the devices.  `unread` is a history variable: the buffers whose
name stems from a read that failed.  `stuck` is the endless loop of `freebuf`.

**Grain.**  No process sleeps while it holds a buffer, so nothing interleaves with a
call, and an action is one call with everything it does to the device.  What
interleaves is nesting: a caller that holds buffers asks for another.  Callers are
constrained as the code's callers are (`FS.C`, `SC1.C`): they hold at most `MAXHELD`
when they ask, never ask for a block they hold (`bread` would panic), release what they
asked to rewrite as dirty and what they got from `zerobuf` as clean.

**Abstractions.**  Which of the eligible buffers `freebuf` takes depends on time stamps
(`bf_time`): any of them here.  `bf_prio` is tested but never set in the sources and is
left out.  `Boot` is the loss of the pool, by power failure or reset, and `bufinit`.

**What is promised** is `BlockStore`: each block has a content and a stable copy.
Opening does not change it, closing writes it, the stable copy moves to the content
only, at any time, or at once where the caller asked for that and writing is not put
off; a failure changes nothing but may leave the stable copy behind; power failure goes
back to the stable copies.

## The terminal

**State.**  `ttyinbuf`, `q_head`, `q_tail` and `q_count` are the queue, its pointers as
offsets; `rawmode`, `suspendflag`, `ttysleep` and `ctrlcp` the flags of `DTTY.C`.  Of a
process there are `status`, `pending` (SIGINT only), `intr`, and its call: `pc`, `want`
(`u_count`), `nread` and `ch`.  Characters are `x`, a line end `nl` and `eof`.

**Grain.**  `tty_poll` may run wherever interrupts are on.  `remq` enables them when it
returns (`DIO.C:441`), so that `tty_read`'s loop is cut after the test of the count, after
`remq`, before `ttysleep` is set, before `psleep`, and before the character is stored: `ReadEnough`,
`ReadRemq`, `ReadEmpty`, `ReadNoKey`, `ReadMark`, `ReadSleep`, `ReadBroken`,
`ReadWoken`, `ReadStore`.  `tty_write` goes from its test of `suspendflag` to `psleep`
with interrupts off and is one step per character.  The keys are `KeyRaw`,
`CtrlCSignals`, `CtrlCWakes`, `CtrlS`, `CtrlQ`, `Backspace` and `KeyCooked`; `Preempt`
and `Dispatch` move the processor.

**Histories.**  `raced` are the readers that a wakeup missed between `remq` and
`psleep`, `freed` the writers that slept when ^C lifted the suspension, `overlap` says
that a read began during another.  The properties set apart exactly these.

**Abstractions.**  What is on the screen (echo, ^O, the cursor), the branches for
modules and for the host build, and the direct BIOS calls of `tty_ioctl` are left out.

## Pipes

**State.**  `fds` are the ends that a process has descriptors of; the open file of an
end is open as long as somebody has it, and `c_refs` counts the two.  `o_ptr` are their
offsets, `i_size` the bytes in the pipe, `cell` the ring: each byte is its number in
the stream, so that order, loss and repetition show.  `call` is what a sleeper will go
on with: `rwsetup` has copied the offset before the sleep.

**Grain.**  A call sleeps only before its first byte, so that a `Call` or `Resume` is
one of `Transfer`, `OtherEndGone`, `Sleep` and `DieAsleep`.  A transfer moves all, or
stops between two blocks (`Moved`), as each block may be unreadable or not to be had.
`After` is the wrap as the code does it: after a transfer that ended in the block past
the direct ones the offset is cut to its place in a block.

**Histories.**  `clean` becomes FALSE when a transfer begins at an offset that another
has moved on meanwhile, or ends inside the last block; `wrote`, `got` and `inOrder`
number the stream.

**Abstractions.**  Signals are fatal ones here; what `psleep` does with caught ones is
in `Proc`.  The blocks behind the ring are in `FreeList`, the descriptors in `Files`.

## The free blocks

**State.**  `s_free` (its length is `s_nfree`) and `s_tfree` are the superblock's;
`list` is the free list that a block holds, or `UserData`; `addr` the block at every
place of every file: `i_addr`'s slots, the entries of the indirect block and of the
double indirect one, as triples.  `doomed` are the blocks that `f_trunc` still has to give
back.  The file system is made by `Make` steps from the last block down, as `mkfs`
(`MKFS.C:217-226`, no end marker) or as pass 2 of `fsck` (`FSCK.C:262-265`, a 0 under
the list), which is `marked`.

**Grain.**  One step is one `blk_alloc` or `blk_free`, so that failures fall between
any two of them.  `Bmap` allocates the block or one of the tables on its `Way`;
`Truncate` empties the file, `GiveBack` frees its blocks in the code's order
(`Before`).  A transfer fails where the code reads or writes: a table that cannot be
read leaves its blocks behind, zeroing that fails leaks a block, a refill that fails
leaves the cache empty.

**Histories.**  `spilled` are the lists written into blocks, oldest first; `intact` says
that every list read back was one of those; `faults` what failures have done.

**Abstractions.**  One device, not read-only; `validblk`'s panics, sizes, and a crash:
there is one copy of the superblock (see [Not modelled](#not-modelled)).  `Data` is
what a user may have written where the code expects a list.

## Inodes and names

**State** is one record `fs`: `node` is each inode as `i_open` would find it, `disk` its
copy on the disk, `here` the inodes in `i_tab`, `c_refs` and `c_dirty` their fields,
`dir` the entries of each directory, `s_inode`, `s_tinode` and `condemned` the
superblock's.

**Grain.**  A step is a system call; nothing sleeps in it.  It is put together from the functions it
calls, each an operator from a state to the set of those that it may leave, with its result:
`WrInode`, `IRef`, `Deref` (with `i_free`), `Synced`, `IAlloc`, `IOpen`, `NewInode`,
`SrchDir`, `Namei`, `ChLink`, `NewFile`, `NCreat` follow the functions of `FS.C` and
`SC1.C` of nearly the same names.  `panic` is the absence of a next state.  The calls are `Open`
(also what `stat`, `chdir` and others begin with), `Creat`, `Mknod`, `Link`, `Unlink`,
`Pipe`, `Hold` (fork, chroot), `Release` (close, exit), `Touch` (chmod, writing),
`Sync`.

**Histories.**  `spoiled` are the inodes that a slip of the code has spoiled: a copy that
was thrown away unwritten, a directory written by a call that then failed, a name that
ended in a slash.  `wasted` counts numbers that `i_alloc` took off the list for nothing.

**Abstractions.**  Permissions, times, sizes, devices and what files hold are left out;
a directory has `LastSlot` entries; paths have up to two names; symbolic links are left out.

## Descriptors and open files

**State.**  `u_files`, `u_cwd` and `u_root` of each process that is alive, `of_tab`
(`o_refs`, `o_inode`), the `c_refs` of each inode, and `lost`, a history: references
that their holders forgot (`sys_pipe` on a full table, `sys_chdir` without permission).

**Grain.**  A step is a call: `Open`, `Close`, `Dup`, `Dup2`, `Pipe`, `Chdir`, `Chroot`,
`Fork` (`newproc`) and `Exit` (`doexit`).  `uf_alloc` and `oft_alloc` take the first
free entry.  An entry of `u_files` is free when its top bit is set (`freefileentry`),
so that the tables have at most 128 entries.  A call that gives everything back before
it fails changes nothing.

**Abstractions.**  Which inode a path leads to is any (`Inodes` and `Mounts` have that);
offsets and access modes are in `Pipe`, or left out.

## Mounts

**State.**  `i_tab` has an inode (device and number) and `c_refs` for every entry;
`fs_tab` has slots, free, locked or mounted, with `s_dev` and `s_mntpt`, which points to
an *entry* of `i_tab`.  `at` are the holders of references: roots, working directories
and open files; the `Keeper` is init's root, which never lets go.  Every device has a
tree of directories, `Child`, and some files are the special files of devices.

**Grain.**  A step is a call with a path of one name: `Open`, `Chdir`, `Mount`, `Umount`; or
`Close`, `Fork`.  A path of more names is several such calls, since nothing sleeps in
between and `namei` refers to each directory on the way.  `Findfs`, `IRef`, `Deref`,
`IOpen`, `SrchMt`, `Up`, `Search`, `Namei` and `Fmount` follow the functions.  An entry
may be taken over by any other inode as soon as its count is zero: that is what the
pointers of `fs_tab` are exposed to.

**What is promised** is `Namespace`: no tables, no counts, only where everybody is and
which directory each mounted device stands for.  What one finds coming to such a
directory is the root of the device, "up" from there is looked up in the directory; a
directory in use, or a root, is not covered, and a device in use, or one that carries
another, is not taken away.

**Histories.**  `lost` counts the references to each entry that a `chdir` without
permission has forgotten (`Refused`; `chroot` goes through `chdir`).  They are in
`c_refs` for ever, so that `RefsExact` counts them beside holders and mounts.  `snared`
says that `fmount` has failed and left a slot with the pointer of
an earlier mount (see below); nothing is promised after that.  `asked` is the last path, so that
the result can be told from that of another path.

**Failures.**  `MayFail` lets any read fail, any permission be missing and any entry be
unavailable; a call then takes the way back that the code takes, or, in `Refused`, does not take.

**Abstractions.**  The trees do not change; a device that is mounted again has the same
contents; symbolic links and what `sys_sync` writes at `umount` are left out.

## Runs

`CHECK_DEADLOCK` is off in all of them: the system stops when the last process exits,
when a `panic` is the only step, when everybody sleeps in a pipe or at the terminal and
nobody types, or in the states the violation runs are about.

| Run | Bounds | Checks |
|---|---|---|
| `ProcTree` | 3 entries, pids 1..3, default handlers, `waitpid` for any and for pid 3, no alarms; `FairSpec`, no view | `FoundAsItself`, `TotalExact`, `ParentAlive`, `WaitersNotified`, `ReapedByParent`, `TreeSpec`, `ReadyRuns` |
| `ProcSignals` | 2 entries, 2 signals, one event to sleep on, all handlers, one alarm of 1 s at a time | `NoSignalAsleep`, `OneRunner` |
| `BufCache` | 2 buffers, 3 blocks, 2 contents, reads and writes may fail | `OneBufferPerBlock`, `CleanIsOnDisk`, `StoreSpec` |
| `Tty` | 2 processes, one of which catches SIGINT; a buffer of 2, reads of 2, cooked and raw mode | `ReaderAsleepForCause`, `WriterAsleepForCause`, `SleeperFlagged`, `LineSpec` |
| `Pipe` | 2 processes, 2 direct blocks of 2 bytes, transfers of 1, 2 and 5 (more than fits), any block may fail | `SleepersHaveCause`, `InOrder` |
| `FreeList` | blocks 3..6, a cache of 2, 1 direct block, 2 numbers in a table, 2 files, both kinds of list, any transfer may fail | `NoSharedBlock`, `CountRight`, `MarkedListHolds`, `NothingLost` |
| `Inodes` | 3 inodes, a table of 2, a list of 1, 3 entries in a directory, one plain name, paths `a` and `a/a`, any transfer may fail; at most 4 links, 3 references, 1 unsaved inode, 1 wasted number | `NamesHold`, `CleanSaved`, `InodeCount`, `KeptWhileHeld` |
| `Files` | 2 processes with 2 descriptors, 3 open files, 2 inodes, `MAXREFS` 9, 1 lost reference | `OpenCounted`, `RefsRight`, `KeptOpen` |
| `Mounts` | 3 devices, 3 slots, 5 entries, init's root and one other holder, names `..`, `a` and two special files, reads may fail and permissions be missing, 1 lost reference | `RefsExact`, `TreeStands`, `NamespaceSpec` |
| `ProcPanic`, `FreeListFull`, `InodesMkdir` | as small as the case needs | see below |

Every run but the last three checks its module's `TypeOK` too (`ProcTree` that of
`Proc`).  What the runs show is in `PROJECT.json`, a sentence each.

Why the bounds are enough for the cases to happen:

* Processes: three entries give a grandparent, parent and child, an orphan handed to
  `initproc`, a full table, and with pids as few as entries every fork after the third
  wraps round and must skip the pids in use.  Two signals give a first and a second
  pending one, of which one may be ignored.
* Buffers are two in the kernel (`Unix.h`, `NBUFS`); with three blocks every one may be
  evicted for another; two contents tell old from new.
* A terminal buffer of two is full, wraps and has room for a line; with two readers one
  takes the line that woke the other.
* The ring of a pipe is three blocks, filled by two transfers; a write of five never
  fits, so that its writer sleeps until a signal comes or the reader goes; a process has both ends
  or one, or shares either with the other.
* Four blocks and a cache of two spill and refill twice; a table of two
  entries and one direct block make the second block indirect, the fourth double
  indirect.
* A table of two inodes is full when a path of two names is walked with one inode open, so
  that entries give way; with a list of one number `i_alloc` scans the disk at every
  second call; the third slot of a directory is its only free one.
* Three open files for four descriptors run out, and two descriptors do before.
* Three devices give a device on a device; five entries are one more than two nested
  mounts and a path need, so that an entry that was mounted on is taken over, and few enough that the
  table is full in others.

Views, symmetries and constraints:

* `MCProc!Observed`, `MCFiles!Observed`: without what no step reads before it is
  written again.  `MCProc!OneAlarm` bounds the instance: alarms of two processes meet
  only in the loop of `clk_int`, which treats one after the other.
* `MCTty!Seen`: without what the buffer holds outside the queue, the counts of a call
  that is over, and `p_intr` outside a sleep.
* `MCPipe!Seen`: unread bytes as right or wrong, relative to `got`, so that the streams
  need no bound; processes other than the creator are alike.
* `MCFreeList!Tracked`, `MCInodes!Bounded`, `MCMounts!Unbroken`: a state in which a
  refill has failed, an inode is spoiled or a slot is snared is checked, but not what
  follows; the proofs about `FreeList` and `Inodes` have no such bound.
* `MCMounts!OneLost`: one reference is forgotten, to whichever entry.  An entry with a
  forgotten reference is never free again, so each takes one out of the table for good.
  The proofs about `Mounts` have no such bound.
* `MCMounts!Seen`: of a free slot only whether its pointer is none; entries are alike
  (`i_open`'s choice among the unreferenced ones is any).
* Blocks and buffers are alike in `BufCache`: no definition tells one from another.

## Where the code does something else

Three runs end in a state that contradicts what a comment or an assertion says:

* `ProcPanic`: `nextready` asserts that no other process is `P_RUNNING`
  (`PR1.C:373`).  `psleep` with a signal pending leaves the process so (`PR1.C:306-314`)
  and swaps it out; if the signal is caught, the scheduler meets it.  The same happens to a
  process that ignores a signal while it is pending (between the key and the end of
  `signal()`): `chksigs` passes it over without clearing it (`PR1.C:582-590`), so that every `psleep`
  from then on leaves the process `P_RUNNING`.  `OneRunner` says, and `SingleRunner` proves, that
  there is no third way.
* `FreeListFull`: `blk_alloc` "allocates an unused block" (`FS.C:708`), but the list that
  `mkfs` makes has no end marker: on a disk that was full once, a block of a file is
  read as a free list.
* `InodesMkdir`: `mkdir` counts the `..` of the new directory in its parent after
  `newfile` has given the parent back (`SC1.C:1078`): the count is lost when the parent's
  entry is taken over, and `i_nlink` is less than the number of names.

The models have the following as well; the properties say what holds in spite of them,
and name them where they must be set apart:

* Processes.  `dowait`'s `continue` (`PR1.C:532`) does not advance `p`: `waitpid` for
  one child while another is a zombie loops for ever (`cpu = "hang"`; two children, the
  second exits first).  Zombies handed to `initproc` do not wake it (`PR1.C:471-492`), so
  `WaitersNotified` leaves `initproc` out.
* Buffers.  `freebuf` with all buffers held neither sleeps nor returns NULL
  (`DIO.C:216`): removing a file with a double indirect block while the free list in the
  superblock is full holds two and asks for a third (`FS.C:843-863`, `770-771`).
  The kernel's builds have two buffers, or three with `DEBUG > 1` (`Unix.h:88-104`).
  `bread` leaves the block's name on a buffer whose read failed (`DIO.C:122-131`): the
  next reader of the block takes what the buffer held before for its contents (`unread`).
* Terminal.  A key that comes between `remq` and `psleep` wakes nobody
  (`DTTY.C:121-122`; `raced`).  ^C lifts ^S without waking the writers (`DTTY.C:310`;
  `freed`).  With two readers `ttysleep` and `ctrlcp` stand for the wrong one
  (`DTTY.C:120`, `312`; `overlap`).  ^C breaks out of a read without clearing `ttysleep`
  (`DTTY.C:122`): the next ^C is taken for one that meets a reader and signals nobody.
* Pipes.  A write of more than the pipe holds sleeps for ever (`SC1.C:144`).  Two readers or
  writers of one open file use the same offset when one of them has slept (`SC1.C:1110`).
  A transfer that ends inside the last block puts reader and writer at different
  bytes (`SC1.C:216`).
* Blocks.  Zeroing a new block fails: the block is lost (`FS.C:744`).  The refill fails:
  the cache is empty, and the next call condemns the file system (`FS.C:732`).
* Inodes.  `i_alloc` condemns a file system that has just run out of inodes
  (`FS.C:660-661`).  `i_open` takes a number off the list before it knows that there is
  an entry for it (`FS.C:451`).  A failed `brelse` leaves another inode's contents in an
  entry (`FS.C:459-460`).  Dirty entries without references are passed over by `i_sync`
  and thrown away by `i_open` (`FS.C:1111`, `443-459`).  An inode that cannot be opened
  is taken for a missing name, so that `link` and `creat` make the entry twice
  (`SC1.C:437`, `FS.C:595`).  `unlink` and `link` of a path that ends in a slash change
  the count without the entry (`SC1.C:533`).  A failure inside `mkdir` gives the parent
  back twice (`SC1.C:1073-1085`), one inside `ch_link` leaves the entry in the buffer, and when
  it was to name a new inode, that inode stays in use with one link and no name (`FS.C:616-618`).
* Descriptors.  `dup2(fd, fd)` closes `fd` and counts a reference of an entry that is not in
  the table (`SC1.C:878`).  `sys_pipe` on a full table and `sys_chdir` without permission keep a reference for
  ever (`SC2.C:191`, `SC1.C:632-635`; `lost` in `Files`, the second also in `Mounts`,
  where it keeps the device busy until the system is started again).
* Mounts.  Going "up" is recognised by the *second* character (`name[1] == '.'`,
  `FS.C:225`): in the root of a mounted device a name like `a.out` is looked up in the
  directory below the mount (`Upward`).  When `fmount` cannot read the superblock the
  slot stays locked, with the pointer of an earlier mount, which `srch_mt` follows and
  `umount` gives back (`FS.C:1068-1074`, `396`, `SC1.C:997-998`; `snared`).  When that
  pointer is NULL, `umount` of the locked device would dereference it; the model has no
  step there.
  Two more are outside the models: `unlink` of a mount point removes the outer name and
  lowers the count of the mounted root (`SC1.C:513-541`), and entries of `i_tab` and
  buffers of an unmounted device are found again when another medium is mounted
  (`FS.C:443-450`, `DIO.C:108`).

## Proofs

All theorems hold for every value of the constants that the modules assume
(`ProcAssumption`, `BufAssumption`, ...): any sizes of tables, numbers of processes,
blocks, buffers, inodes and names, and any set of transfers that may fail.  None uses a
TLC bound or constraint.

**Processes**

* **`TypeCorrect`** is inductive on its own; a case per action.
* **`SingleRunner`** needs `RunnerInv`: besides the property, that `u_ptab` is in use
  and not a zombie while it is inside `swapout`, and has a signal pending there if it is
  still `P_RUNNING`.  `chksigs` then kills it unless it catches or ignores that signal, and a
  process that is not `u_ptab` cannot change its vectors.  **`DefaultsNeverPanic`** follows:
  with default vectors `nextready`'s assertion holds.
* **`RoundRobin`**: `Ahead(p)` is the number of entries that the scan looks at before `p`'s.
  The scan stops at the first ready entry, so that a process that stays ready is not
  passed, and each process that is run instead brings it nearer.  This is the part of `ReadyRuns` that is
  safety; that the scheduler is entered again and again is the part that rests on fairness.
* **`FindprocessRight`** needs `PidsApart`: an entry differs in its pid from every entry
  after it that is in use, even when it is itself free.  It rests on `ptab_alloc`
  taking the first empty entry; with any other choice the property is false (see the
  mutant `FreeSlotAny`).
* **`ParentsLive`**, **`ReapRight`** follow from `FamilyInv`: `initproc` is in use and
  its own parent, no other process is its own, and parents are in use.  `LifeStep` shows that a
  step is a fork, a failed fork, an exit or a reap, or leaves the family alone, so that
  each proof has four cases instead of thirty.
* **`ParentsNotified`** needs `WaitInv`: a process in `P_WAIT` waits on its own entry,
  which is the address that `doexit` wakes.
* **`NoLostSignal`** is inductive with the type invariant.
* **`TotalRight`**, **`ImplementsTree`**: the count changes with the set of live
  entries; each of the four kinds of step maps to a step of `ProcTree` or a stutter.

**Buffers**

* **`BufTypeCorrect`**, **`OneBuffer`**, **`CleanRight`** are the parts of `CacheInv`,
  with `Sound`: a dirty or held buffer has a block, one from `zerobuf` has none, one
  left by a failed read is clean.  `CleanIsOnDisk` is not inductive without
  `OneBufferPerBlock`, since writing one of two buffers of a block would make the other stale.
* **`ImplementsStore`**: `Mapped` restates the refinement mapping without `CHOOSE`;
  `MissMapped` and `TouchMapped` say what a call that evicts, and one that does not, do to the
  mapped variables; then there is a lemma per action.

**Terminal**

* **`TtyImplementsLine`**: `RingShape` ties the pointers to the count; a lemma for each
  of `insq`, `remq`, `uninsq` and `clrq` says what it does to `Contents`, and every
  action is one of them or leaves the queue alone.
* **`ReadersServed`**, **`WritersServed`**, **`SleepersFlagged`** need where the sleeper stands
  in its call as well as the property, and that a step that puts a line end into the queue wakes.

**Pipes**

* **`SleepersRoused`**: whoever changes `i_size` or closes the last descriptor of an end
  rouses all, and a process lies down only when its own test failed.
* **`StreamRight`**: the unread bytes are the ring's from the reader's offset on; while
  the stream is clean reader and writer wrap at the same bytes (lemmas on `Pos`, `Index`
  and `After`).

**Free blocks**

* The list is a sequence of segments: the spilled ones, then the cache.  The invariant
  says that positions and numbers correspond one to one, that all segments but the last
  are full, that the first number of each holds the one below, and that files, list,
  `doomed` and what is not made yet are disjoint.  From it: **`BlocksNotShared`**,
  **`FreeBlocksCounted`**, **`MarkedListEnds`**, **`BlocksAccountedFor`**.

**Inodes**

* `Good` holds between calls: `Sound` (references belong to entries in the table, what is
  not marked is on the disk, free inodes are blank, the count of them is right) and
  `Named` (names lead to inodes in use that count them).  Inside a call the caller's own
  references are not held by anybody else: `Mid` carries a bag of them, with which every function of
  `FS.C` has a lemma saying what it adds to the bag or takes from it on each of its
  results, and `End` says that the bag is empty again.  A lemma per call puts these
  together; **`NamesAlwaysHold`**, **`CleanAlwaysSaved`**, **`InodesAlwaysCounted`**,
  **`HeldAlwaysKept`** and **`TypeAlways`** follow.

**Descriptors**

* `OpenCounted` and `RefsRight` are inductive together with the type invariant: only the
  counts being right keeps `i_deref` from going below zero.  `Recount` says how the
  number of users of one value changes when one user moves.  **`DescriptorsCounted`**,
  **`ReferencesCounted`**, **`DescriptorsKept`**.

**Mounts**

* `IInv` is: `snared` is a boolean and, as long as it is false, `Good`, which holds between
  calls.  Besides the properties, `Good` says that no slot points to a root (`NoRoots`: else "up"
  would go round in a circle), that no two slots in use have one device (`SlotsApart`:
  `findfs` takes the first), that the root device has a slot without a pointer
  (`RootSlot`), and, in `Fit`, that no inode has two entries (`Unique`: else the `c_refs`
  that `mount` and `umount` look at would be half the truth).
* As for the inodes, `Mid` carries the call's own references as a bag, and `i_ref`,
  `i_deref`, `i_open`, `srch_mt`, the way up, `srch_dir`, `_namei` and `namei` have lemmas
  (`RefMid` to `NameiMid`) that say what each adds to the bag or takes from it on each of its results.
  They also say which inode is found, in terms of the slots (`Covers`, `RootOf`,
  `Leads`, `Finds`).
* `SettleLost` turns the bag, when the call is over, back into exact counts (`Settle` is
  the case that forgets nothing): if what is left in it is what holders and slots gained
  and what the call forgot, `Exact` holds again.  `Forgotten` is the refused `chdir`, whose bag still holds
  the new directory: `lost` takes it.  That nobody is in a directory that gets covered
  follows from `c_refs = 1` and exact counts: the one reference is the call's own, so
  that holders, mounts and forgotten references are none (`ZeroMid`, `MountDone`).
* `SlotsAreOn`, `OnOfSlot` and `FindsFound` say that the slots, seen through `Covers`, are the
  function `on` of `Namespace`, without the `CHOOSE` of the refinement mapping; `PlacesStay` that
  what is in use keeps its inode.  With a lemma per action (`OpenStep` ... `UmountStep`):
  **`MountsTypeCorrect`**, **`ReferencesExact`**, **`FileSystemsHang`**, **`ImplementsNamespace`**.

Only model-checked: `ReadyRuns`, which rests on fairness: the prover has neither `ENABLED`
nor the temporal induction that it would take; what is safety in it is `RoundRobin`.  The violation runs are single behaviours, for TLC.
Every other property of a run is stated by a theorem.

## Not modelled

The map covers the kernel's C sources as far as they have state worth speaking of.  They
are some 12,000 of the repository's 156,000 lines: the rest are user programs (most of
them ports), the library, host tools, a copy of the sources for Windows, assembly and
generated files, which keep no state that the kernel's parts share.

* **Drivers** (`DFD.C`, `DSK.C`, `BD.C`, `DMISC.C`): port input and output and BIOS
  calls; a transfer succeeds or fails.
* **System call entry** (`DISPATCH.C`, `UZIX.C`): no state of its own; the end of
  `unix()` is in `Proc`.
* **Clock**: `clk_int`'s alarms and time slices are in `Proc`; `updttod` is arithmetic.
* **Memory**: which banks `swap_alloc` hands out is decided in machine-dependent code
  (`Machdep.orn`); that it may have none is `ForkNoMemory`.
* **Modules** (`UZIX_MODULE`): not built.
* **Symbolic links**, and names longer than 14 characters.
* **A crash of the file system** above the buffers: what the disk holds between two
  syncs is promised by nothing, `fsck` rebuilds it; `BlockStore` says what each block
  holds after a crash.
* **fsck's repairs**, **mkfs**, **fdisk**, **ucp**, **xfs**: sequential programs that
  run alone; what `mkfs` and pass 2 of `fsck` leave is where `FreeList` and `Inodes` begin.
* **Library and applications**: not part of the kernel's logic.
