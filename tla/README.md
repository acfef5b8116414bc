# Verification of the OS_Project_2024-25 kernels

The repository holds five copies of xv6 (x86, multiprocessor), each with its own
change to the console or to the keyboard driver. This directory holds TLA+
models of the code those changes touch and of the kernel code they depend on,
the TLC configurations that check the models on small instances, and proofs that
hold for every instance.

Paths below are relative to `src/`. `HP` is `B22CS052/Helpful`, `AN` is
`B22CS052/Annoying`, `BG` is `B22ES019/bgcolor_change`, `AC` is
`B22ES019/autocomplete`, `K39` is `B22CS039`. Apart from console, keyboard and
exec the kernel files of the five copies are the same, so one model of `log.c`,
`pipe.c`, `fs.c`, ... stands for all five.

## 1. Inventory

| Component | State | Operations | Hard behaviour | What makes it correct |
|---|---|---|---|---|
| Line discipline (`BG/console.c` 183-276; the ring and the readers of every copy) | `input.buf/r/w/e`, `cons.lock` | `consoleintr`, `consoleread`; `sleep`, `wakeup`, `kill` from `proc.c` | an interrupt on one CPU, readers on others; sleeping and waking; the ring at its limit; the rollback of a `^D` | no character lost, changed or read twice; a full ring can be read; no reader sleeps while there is input |
| Helpful console (`HP/console.c`) | `clipboard`, `previous_line`, `track_enigma`, the flags of one interrupt | copy, paste, recall, completion, cipher line, devil mode | completion and recall edit the ring after `cons.lock` was released | the ring's invariants survive; recall gives the previous line, copy the last characters |
| Helpful keyboard (`HP/kbd.c`, `kbd.h`) | modifiers, case modes, cipher, devil and Dvorak modes, sticky keys, marks of the last character | `kbdgetc`, byte by byte | the 0xE0 prefix and its code arrive apart, keys are held, repeated and released in any order, a timeout | no modifier is stuck, modes exclude one another, the cipher mode leaks nothing |
| Write-ahead log (`HP/log.c`) | `log.lh`, `outstanding`, `committing`; on disk the header, the log's blocks and the home blocks | `begin_op`, `log_write`, `end_op`, `commit`, recovery | concurrent operations; a crash between any two disk writes, during recovery as well | the writes of a group of operations reach the disk together or not at all |
| Sleep and wake-up, scheduler, spinlocks (`HP/proc.c`, `spinlock.c`) | `ptable`, per-CPU `ncli`, the process states | `sched`, `sleep`, `wakeup`, `acquire` | the two locks of `sleep`, `yield` from an interrupt | no wake-up lost, one CPU per process |
| Process life cycle (`HP/proc.c`) | `ptable`: state, parent, `killed`, channel | `fork`, `exit`, `wait`, `kill` | parent, child and `init` on different CPUs | each child reaped once, no orphan lost |
| Pipe (`HP/pipe.c`) | ring of 512 bytes, two counters, two open flags | `pipewrite`, `piperead`, `pipeclose` | two channels under one lock, close against both ends | first in, first out; nobody sleeps for ever |
| Sleep locks, buffer cache, disk (`HP/sleeplock.c`, `bio.c`, `ide.c`) | reference counts, valid and dirty flags, the disk's queue | `bget`, `brelse`, `iderw`, `ideintr` | eviction against reuse, the interrupt against the queue | one buffer per block, its holder alone writes it |
| Inodes, files (`HP/fs.c`, `file.c`, `sysfile.c`) | reference counts, the inode cache | `iget`, `iput`, `filedup`, `fileclose`, ... | last close against a new open | an object lives as long as it is referred to |
| Page allocator (`HP/kalloc.c`) | the free list | `kalloc`, `kfree` | list shared by the CPUs | no page given twice |
| B22CS039 keyboard, B22ES019 completion, the Annoying console | as the line discipline, plus the screen | echo from `kbdintr`; completion under the lock; pranks | echo without `cons.lock`; `input.e++` without a test for room | as the line discipline |
| Virtual memory, exec, traps, boot, user programs, mkfs | | | hardware formats, sequential code, clients | |

How they interact. The keyboard and the serial line interrupt CPU 0, whose
`trap()` calls `kbdintr`, which gives `kbdgetc` to `consoleintr` as the source
of characters. `consoleintr` takes `cons.lock`, reads characters until there
are none, edits the ring, and wakes the processes asleep on `input.r`. A
process reads through `sys_read`, `fileread`, `readi` and `consoleread`, which
sleeps on `input.r` when the ring has no committed character. `kill()` may wake
it for another reason. File-system calls wrap their block writes in `begin_op`
and `end_op`; every change of a block goes through `log_write`, which pins its
buffer in the cache until the commit has installed it.

## 2. The modules

| Module | What it is |
|---|---|
| `LineInput` | the ring, the handler and the readers of the unmodified console; the refinement mapping to `Terminal` |
| `Terminal` | what a console promises its readers: one stream of lines, no ring, lock or sleep |
| `HelpfulConsole` | `LineInput` under the handler of `HP/console.c` |
| `Keyboard` | `kbdgetc` of `HP/kbd.c` with the keyboard it listens to |
| `Log` | `log.c` with crashes; the refinement mapping to `AtomicDisk` |
| `AtomicDisk` | what the log promises: groups of operations, all or nothing |
| `Pipe` | `pipe.c`: ring, wrapping counters, two ends, sleeping |
| `PipeUsers` | `Pipe` between readers and writers that close as they leave; the mapping to `ByteStream` |
| `ByteStream` | what a pipe promises: a bounded queue, and an end of file that means it |
| `FileTable` | `file.c` and the descriptors of `sysfile.c` over `Pipe` |
| `ProcTable` | `proc.c` with its schedulers, `exec`, the pages and the clock |
| `BufferCache` | `bio.c`, `sleeplock.c`, `ide.c`; the mapping to `BlockStore` |
| `BlockStore` | what `bread`/`bwrite`/`brelse` promise: one copy of every block |
| `Inodes` | the inode cache, directories and the calls on names (`fs.c`, `sysfile.c`) |
| `MCHelpfulConsole`, `MCBufferCache`, `MCInodes` | a dictionary and the keys one user presses, which blocks are nested, sets of calls, and symmetries for TLC; the other modules are checked as they are |
| `LineInputProofs` (with `HelpfulConsole`), `LogProofs`, `KeyboardProofs`, `PipeProofs`, `FileTableProofs`, `ProcTableProofs`, `BufferCacheProofs`, `InodesProofs` | the theorems |

**LineInput.** `buf`, `r`, `w`, `e` are the fields of `input`; `holder` is who
has `cons.lock`; `pc`, `target` and `got` are where a reader is in `consoleread`,
what it asked for and what it has copied; `killed` is `proc.killed`. The
handler is `IntrAcquire`, one `PutChar`, `Backspace` or `KillLine` per
character, `IntrRelease`. A reader is `ReadCall`, `ReadAcquire`, then
`ReadFull`, `ReadEmpty`, `ReadAdvance` (`input.r++`), `ReadByte` (the load from
the slot it left) and `ReadUnread` under the lock, and
`ReadSleep` (the inside of `sleep()`, where the lock is given up only once
`wakeup()` can see the process) or `ReadReturn`. `KillProc` is `kill()`. Steps are
this small under the lock because `HelpfulConsole` touches the ring without it.
Indices are natural numbers: the code's are 32-bit and free-running, 128 divides
2^32, and only differences, equality and slots are used, so the two agree.

**HelpfulConsole** keeps the readers of `LineInput` and replaces its handler.
`stage` is where the handler is, `flags` what it noted under the lock. `End`
releases the lock and chooses the one key it will serve, in the order of the
code's `else if` chain. `Collect`, `Complete`, then `Insert`, `Store`,
`TestFull`, `CommitFull` and `WakeFull` for each character is `auto_complete`;
`Recall`, then `Insert` and `Store`, is `get_prev_line`; `EndCipher` and `WakeAll`
are the others. Loops over the ring are one step when they only use what
the handler alone writes, and a step for each test of `input.r`, each character
stored and each change of `input.w` otherwise, because a reader on another CPU
may run in between: it may advance `input.r` before the test for room, and have
given a `^D` back, or not yet loaded the byte, when the character is stored. Where the
code reads outside `input.buf`, `previous_line` or `clipboard`, the model takes
any bytes of `Junk`.

**Keyboard** has a typist who holds, repeats and releases `Keys`, the
controller's queue `bytes`, and one action per branch of the `else if` chain of
`kbdgetc`; the keys that go on to be translated share `Translate`. A character is
its kind (lower, upper, space, ...), since no property depends on which letter
it is.

**Log** has one action per critical section of `begin_op`, `log_write` and
`end_op`, one per disk write of a commit, and a `Crash` that may come anywhere.
After a crash the machine runs `recover_from_log`, a block at a time, and may crash
again. `cache` is what `bread()` finds: a block in the log is pinned by
`B_DIRTY`, so it is as last written, and any other is as on disk. That is what
`BufferCache` promises.

**Pipe** has one action per stretch under the pipe's lock: up to the next byte,
the next test, or the sleep. The counters are taken modulo `Wrap` (2^32 in the
code), and `killed` is read under a lock that `kill()` does not take, so a kill
may fall between the test and the sleep. A byte is known by who wrote it.
**PipeUsers** adds who closes which end and when; **FileTable** instead adds
`struct file` with its counts, the descriptor tables, `dup`, `fork`, `exit`,
`close` and a `pipe()` whose three allocations may each fail.

**ProcTable** models the hand-over of `ptable.lock` across `swtch()`: `cpu` says
what each CPU runs, `lock` which CPU has the lock, and whoever takes it in
`exit`, `wait` or `yield` leaves it to the scheduler, which leaves it to the
process it resumes. `fork` and `exec` take pages one allocation at a time and
may fail at each. The tick of the clock and `sys_sleep` run under `tickslock`.

**BufferCache** has one action per critical section of `bcache.lock`, of a
sleep-lock's spinlock and of `idelock`. A process may keep a buffer while it
reads another, as `install_trans` and `write_log` do (`HP/log.c` 75-76, 183-184)
and as `bmap` does while `balloc` reads the bitmap (`HP/fs.c` 389-392): it has
several `Hands`, each with one buffer, and one of them at a time is in a call
(`Running`). `Nested` says which block may be read while which is kept. `bget`
without a buffer left is `NoBuffers`; after it the machine may stop. A read may
fail (`Faults`), in which case `ideintr` leaves the buffer's bytes as they are.

**Inodes** has one action per stretch between two locks of inodes. `has` is
what each process has in hand: the pointers `ip`, `dp`, `old` of the calls, the
one `iput` is giving back, its current directory and its open file. `after` is
where `iput` returns to. `dir` is the directory's blocks as a function. `ialloc`
is two steps, `Mark` (the type on the disk, `HP/fs.c` 201-208) and `Create` (its
`iget`, line 209), with the number in `marked` in between: the code holds nothing
on the inode then. The panics of `iget`, `ialloc`, `ilock` and `unlink` are steps
that stop everything (`panicked`).

## 3. What the runs check

| Run | Instance | Shows |
|---|---|---|
| `line_input` | two readers, ring of 3, 4 characters put in it, reads of 0 to 2 | `IInv`, `FullIsCommitted`, `CommittedIsStable`, that the whole implements `Terminal`, and that a reader is served or the input goes to another (`ReaderServed`) |
| `helpful` | one reader of up to two bytes, ring of 2, three characters typed; three sets of special keys: Tab, Up, layout and devil; Up and cipher; Tab, copy and paste | the ring is overrun by one slot at most (`HelpfulInv`); what is given back is a `^D`, unless the handler has just stored over it (`EofInv`); only a character that a reader has passed and not loaded or is giving back, or a `^D` given back, can be overwritten (`OnlyPassedAtRisk`); the handler returns |
| `helpful_eof` | ring of 2; Tab | **finding**: the saved `^D` is overwritten |
| `keyboard` | eleven keys, four held at once, one byte or 0xE0 pair waiting, sticky keys with a clock | no stuck modifier, exclusive case modes, `A_mode` equals `devil_mode`, the cipher mode hides every key |
| `log` | two operations on three blocks, log of 4 with its header | `LogInv`, the reservation of `begin_op` (`ReserveInv`), every execution with its crashes implements `AtomicDisk`, a waiting operation gets in |
| `log_full` | two operations of two blocks each, as many as they are allowed, on four blocks; the same log | **finding**: `log_write` panics |
| `pipe` | one reader, two writers, ring of 2, counters modulo 4 | `PipeInv`, every wake-up but that of a killed writer arrives, the pipe implements `ByteStream`, closing an end frees whoever waits at the other |
| `files` | two processes, three files, two descriptors each | counts agree with descriptors, ends with files, nobody works on a freed pipe |
| `procs` | three slots, two CPUs, nine pages | `ProcInv` and `PageInv`, nothing is freed that a CPU is on, every child has a parent, nobody sleeps over a zombie or a tick |
| `buffers` | one process with two buffers nested, one with a single buffer; four blocks, three buffers, one of which the log may pin | `CacheInv`, one buffer per block, the cache implements `BlockStore`; the panic of `bget` is reached |
| `inodes` | two processes, names `/a`, `/a/b`, `/b`, four inodes, three cache entries | pointers counted, one entry per inode, copies agree with the disk, link counts cover the names, nothing is freed that has a name or is in use; the panics of `iget` and `ialloc` are reached |
| `inodes_deadlock` | the same | **finding**: `create` and `unlink` wait for each other |

What the invariants are about. `FullIsCommitted` and `IInv` count with
`R`, the read index as the next reader will find it: while a reader is giving a
`^D` back `input.r` is one too far, and an invariant over `input.r` would miss
that the slot is not free; the same holds between `input.r++` and the load of
the byte. `FullIsCommitted` matters because the handler refuses
every character of a full ring, the newline that would commit it included.
`CommittedIsStable` follows a committed character until it is read;
`OnlyPassedAtRisk` does so under the handler that edits without the lock, and
leaves out only the character at `R`, and that only while a reader has passed it
or when it is a `^D`. `ImplementsTerminal` is the functional promise: what readers get is
what was typed, in order, cut at lines and ends of file, each end of file
answered once. `ImplementsAtomicDisk` is the log's: the abstract `durable` is
what the disk would hold after a crash and its recovery, and it changes only by
whole groups. `ImplementsByteStream` and `ImplementsBlockStore` are the pipe's
and the cache's.

Each property of a passing run is paired with a plausible bug of a definition it
depends on (the definitions commented "Mutant of ..."), and the run fails with
that bug put in.

Bounds, and why they are enough. The rings have 2 or 3 slots: the code
compares indices by difference and by slot, and with more characters than slots
the ring fills, wraps, and reuses slots whose old content differs. Two
readers make competition for a line and for a wake-up; a third would add a
symmetric copy. Reads of 0, 1 and 2 bytes include the read that is full at once,
the one that ends inside a line, and a `^D` with and without bytes before it;
with `MaxRead = 2` the run `helpful` gives a `^D` back as well.
`DoubleX` is one word longer than what is typed, so completion erases and
inserts. `MaxBytes = 1` lets one byte, or an 0xE0 pair, wait at the controller;
a longer queue only delays `kbdgetc`, which is its sole reader. In `log`,
`LOGSIZE = 4` and `MAXOPBLOCKS = 2` let operations overlap and make a third
`begin_op` wait. `OpBlocks` is how many blocks an operation really changes: 1 in
`log`, so that every operation can end and commit, and the whole allowance in
`log_full`, where the panic ends many executions before a commit. `Wrap = 4` is
twice the ring, so the counters wrap in the middle of a read. Nine pages let two address spaces exist and a third allocation fail half
way. Three buffers for three hands and a pinned block are enough for the nested
reads to happen and for a buffer to be recycled under each of them, and few
enough for `bget` to find none. Four inodes are one more than the names of the
calls, so that two processes can be in the middle of making one; three entries
for four inodes make `iget` recycle an entry that was just dropped, and run out.
With three slots the zombie that `init` inherits from a process that has exited is
not met by TLC; the proof covers it.

Fairness. `ReadStep` is weakly fair: a process inside the kernel runs on until it
sleeps or returns. `IntrRelease` is weakly fair: the handler runs with
interrupts off and the controller runs dry. `ReadAcquire` is strongly fair: a CPU
spinning in `acquire()` gets a lock that is free again and again. In
`HelpfulConsole`, `End` and `Unlocked` are weakly fair, for the same reason as
`IntrRelease`. In `Log` a commit and a `log_write` under way go on. In `PipeUsers` a process
in the kernel goes on, one that was killed closes its end and leaves, and a
process spinning for the pipe's lock gets it if it is free again and again. Nothing makes anyone type, call, kill or crash. `CHECK_DEADLOCK` is off
where a system may really stop: `pipe` and `files` when every process has left or
has no call left to make, and the two runs of `Inodes`, whose code deadlocks
and panics.

Disagreements between the code and its comments that were met while modelling
and are not among the runs; the hazards of `PROJECT.json` carry most of them:
a `kill()` between the test of `killed` and `sleep()` leaves a reader
(`LineInput`) or a writer (`Pipe`) asleep; a
completion that fills the ring commits and wakes between a reader's test and
its sleep (`HelpfulConsole`); copy and recall do not give what the guide says;
the sticky keys' timeout counts from boot, devil mode has no exit, Pascal,
snake case and Caps Lock differ from their comments (`Keyboard`); a failed
read leaves a buffer valid with the bytes of another block
(`HP/ide.c` 118-122, `Faults = TRUE` breaks `ImplementsBlockStore`); `bget`
panics when what the log holds back (up to 29 blocks) and what the processes use
(two each, of `NPROC` = 64) leave none of `NBUF` = 30 buffers. Two processes that
give up the last two references to an
unlinked inode both find two of them in `iput`, so neither frees it, against
"If that was the last reference and the inode has no links to it, free the inode
(and its content) on disk" (`HP/fs.c`). A file made in a directory that was
removed between `nameiparent` and `ilock` (`HP/sysfile.c` 252) keeps its inode and
has no name; `NamesCovered` bounds links from below only and does not see it.
What a `..` can lead to is in section 4.

## 4. What is proved

Every theorem is for any values of the constants under the assumptions named in
the modules: finite sets where something is counted, special values that
differ from ordinary ones, sizes above zero. Theorems with a further hypothesis
name it below.

| Component | Invariant proved inductive | What follows |
|---|---|---|
| `LineInput` | `IInv` | `TypeOK`, `FullIsCommitted`, `PendingIsOpen`, `NoLostWakeup`; the action property `CommittedIsStable`; `ImplementsTerminal` |
| `HelpfulConsole` | `HelpfulInv` and `EofInv`, with `WakeInv` when there is no Tab | `OnlyPassedAtRisk`, `NoLostWakeup` without Tab |
| `Keyboard` | `ModifierInv`; the modes | `NoStuckModifier`, `OneCaseMode`, `AnomalyIsDevil`, `CipherHidesKeys` |
| `Log` | `LogInv`, `ReserveInv`, `DiskInv` | `CommitIsExclusive`, `NobodyStranded`, `NeverExhausted` under `Spare`, `ImplementsAtomicDisk` |
| `Pipe`, `PipeUsers` | `PipeInv` | `WakeupsArrive`, `ImplementsByteStream` |
| `FileTable` | `FileInv` | `RefsAgree`, `EndsAgree`, `NoUseAfterFree` |
| `ProcTable` | `ProcInv`, `PageInv` | `OneCPU`, `NothingFreedInUse`, `NoOrphan`, `NoSleepOverZombie`, `NoMissedTick` |
| `BufferCache` | `CacheInv` | `OneBuffer`; `Coherent`, `ImplementsBlockStore` if reads do not fail |
| `Inodes` | `InodeInv`; `NamesInv` under `NoClimbing` | `PointersAgree`, `OneEntry`, `CoreAgrees`; `NamesCovered`, `FreedUnused` under `NoClimbing` |

The proofs have one lemma per action or group of actions, and under it one step
per part of the invariant. The four refinements are proved by showing that the
initial states map to initial states and each step to a step or a stutter.

**Console.** `NoLostWakeup` is not inductive: the step from `tosleep` to `asleep`
preserves it only if the ring is still empty, so `ReaderInv` says that a reader
on its way to sleep has seen `r = w` and that it still is; that is preserved
only because nobody else moves `w` meanwhile, so `LockInv` says who holds the
lock. `IndexOrder` needs `LockInv` as well, for `R = r` whenever the handler is
active. `RingFilled` says that every slot a reader can reach has been typed
into. The arithmetic of the ring is in `SlotsDiffer`: two indices less than `N`
apart have different slots. For `ConsoleIsTerminal` a stretch of the ring is a
sequence (`Stretch`); `StretchGrows`, `StretchCut`, `StretchStart` and
`StretchJoins` say what storing, reading, erasing and committing do to it, and a
`^D` on its way back has never left the stream because the mapping reads from
`R`.

**Helpful console.** The handler that edits without the lock sees an `input.r`
that may be one too far, so `e - R <= N` becomes `e - R <= N + 1` (`Overrun`), and
a slot of the ring may come to hold two characters. `HelpfulInv` has that weaker
bound, the owner of the lock and the order of `R`, `r` and `w`. Which character
can be lost needs more: `EofInv` says that a reader on its way to give a
character back has a `^D`, unless the handler has just stored over it, and that
a handler about to store over the next character to be read does so while a
reader has passed it, or over a `^D` that was given back after the test for room.
The byte a reader has passed but not loaded may be an ordinary one, and the code
does lose it. With `"tab" \notin Keys` nothing commits without the lock, and
`NoLostWakeup` is back.

**Keyboard.** `NoStuckModifier` speaks of an empty queue only; `ModifierInv` says
what is true before that: a modifier in force, or one whose press still waits,
has a key that is down or a release further back in the queue.

**Log.** `NobodyStranded` is not inductive: a process goes to sleep when
`begin_op` finds no room, which with nobody inside could only happen if blocks
were left in the log, so `LogInUse` says that an idle log is empty.
`ReserveInv` counts: what the log holds and what `begin_op` has reserved exceed
the log by no more than what the operations inside have logged already. It
holds for any sizes. `NeverExhausted` needs the hypothesis `Spare`:
`OpBlocks < MAXOPBLOCKS` and `LOGSIZE - (MAXOPBLOCKS - OpBlocks) < Size - 1`.
The kernel (`LOGSIZE` 30, `MAXOPBLOCKS` 10, `Size` 30) satisfies it exactly when
an operation logs at most eight blocks. With the allowance that `param.h` names it
does not, and `log_full` shows the panic. `DiskInv` is what a crash finds at each step of a commit
and of a recovery: while the header is empty the home blocks are those of before;
once it is written the log has a copy of every block of the group; and before it
is cleared the copies are at home. It needs `ReserveInv` for the log's length
and `LogInv` for the quiet during a commit. TLC has checked it on the
instance of `log`.

**Pipe.** `PipeInv` ties the ring's length, computed modulo `Wrap`, to the two
counters; `WakeupsArrive` needs who holds the lock and whether an end was
closed since the test. The refinement shows that a read across the wrap takes
the bytes in order.

**File table.** A file's count is the number of descriptors, and of processes in
the middle of a call, that refer to it; an end of the pipe is open as long as
some file refers to it; `NoUseAfterFree` follows because a process in `piperead`
or `pipewrite` has the file's reference, and no `dup`, `fork` or `close` of another
process can take that one away.

**Process table.** `ProcInv` says for each place what state the process is in, on
which CPU, and who holds `ptable.lock`. A stack is freed only for a `ZOMBIE`, and
a process becomes one with the lock held until its CPU has left its stack.
`NoSleepOverZombie` needs that the children of a parent in `wait()` do not change
under the lock. `PageInv` counts the pages of each slot, those of a `fork` or
`exec` under way included.

**Buffer cache.** `CacheInv` ties `refcnt` to the processes that use or wait for
a buffer, the sleep-lock to its holder, and `idequeue` to who waits for the disk,
whatever buffers a process keeps at once. It holds up to and after the panic of
`bget`. `CacheImplementsStore` and `BuffersCoherent` have the hypothesis that reads
do not fail. Whether there are always buffers enough is not a theorem: in this
kernel there are not.

**Inodes.** `ref` counts pointers, so it needs to know which registers a process
has in use at each place (`RegistersOf`), and `LocksAgree` says which of them are
locked. A copy is valid only while the entry is in use, and it agrees with the
disk except for the instant in which `iput` has freed the inode and `ialloc` may
have taken it again (`CacheAgrees`).

`NamesInv` is what makes `NamesCovered` inductive. A link of an inode is a name,
the `..` of a named directory inside it, a call that has raised `nlink` for a name
to come or has not yet lowered it for one that is gone, and the root's own;
`LinksCounted` bounds their number by `nlink`. `unlink` lowers the count of the
directory it removes a subdirectory from, so `Directories` says that a directory
is named in one place, the one its `..` leads to. `InHand`, `Fresh` and `Leaving`
say what a call may have in its registers: an inode that `create` has marked and
not filled, or that `iput` is freeing, has no link and no other call has it; from
`ialloc`'s mark to its `iget` only the type on the disk keeps it from others. `Knows` keeps what a call has looked up and what it holds the lock
to rely on. From it, `FreedUnused`: what `iput` frees has `nlink` 0, so no name.

The hypothesis `NoClimbing` says that no path names `..`. It is needed: the `..`
of a removed directory that somebody is still in leads wherever the parent's inode
number is used next. With it the code goes wrong in several ways, all of which
the model has.

- Two names, one link. A process stays in `/a/b` while another removes `/a/b` and
  `/a`, whose inode is freed, and makes a file: `ialloc` marks that same inode and
  holds nothing on it until its `iget` (`HP/fs.c` 208-209). In between the first
  process calls `chdir("..")`, which finds `nlink` 0 and one reference and frees the
  inode; it then creates a file of its own, which takes the inode and names it;
  and the second process names it again. Removing one of the names frees what the
  other still leads to. `MCInodes` has the calls (`Calls <- Climbing`); with four
  cache entries TLC finds `NamesCovered` violated in 121 steps.
- A `mkdir` through such a `..` raises the count of an inode that `create` then sets
  to 1.
- `ilock` panics, when the parent's inode is free (`AlwaysHasType`,
  `HP/sysfile.c` 222).

Only model-checked, or only shown to fail. Liveness (`ReaderServed`, `HandlerReturns`, `WaiterWakes`,
`ClosingReaches`) is beyond the prover. Every other property of a passing run is
stated by a theorem, some under the hypotheses given above. `EofPreserved`,
`NeverExhausted` without `Spare`, and `NoCircularWait` are violated by the code.

## 5. What is not modelled

Of the modelled files: the echo and the screen, the process listing, the
colour toggle of `BG`, the cipher's substitution, the reset that three keys of
devil mode trigger, the cipher keys after `previous_line` is full, NumLock,
ScrollLock, the Hindi map and the plain keys that are in no chord; the blocks of
a file (`bmap`, `balloc`, `readi`, `writei`), device nodes, `growproc` and
`procdump`. Spinlocks are taken as what `acquire()` and `release()` promise on a
machine with sequential consistency.

The components without a module, with the reason, are in `PROJECT.json`.
Virtual memory, boot and interrupt controllers are sequential code over hardware
formats; user programs and `usertests` are clients. The repository holds the same
kernel five times: the models cover one copy of each file, so that the share of
the mapped lines in the whole repository is small by construction.

## 6. Plan

1. `TabConsole` (`AC`: completion under the lock and without a room test) and
   `KbdEcho` (`K39`: echo without `cons.lock`), on `LineInput`.
2. The content of files (`bmap`, `balloc`, `writei`) over `AtomicDisk`.
