# A verification development for Jix

Jix is a small 32-bit x86 microkernel system: a kernel with preemptive
scheduling and synchronous messages, two server tasks (memory and file system),
a library of message stubs, and programs. This directory holds TLA+ models of
its core, TLC configurations that check them on small instances, and TLAPS
proofs for every size. Source paths below are relative to the repository.

## 1. The system

| part | state | operations | talks to |
|---|---|---|---|
| messages, `kernel/msg.c` | per slot: `state`, `msgp`, `sendto`, `recvfrom`, `msgstate`, `tmp` | `sendrecv` (SEND, RECV, BOTH), `sendmsg`, `recvmsg` | every task, by trap |
| scheduler, `kernel/proc.c`, `kernel/trap.c` | `counter`, `priority`, `current` | `schedule`, timer, `sleep_on`, `wake_up` | messages, interrupts |
| file-system task, `fs/main.c` | `fs_current`, `fs_sleep` | receive, serve, reply | programs and the memory task (messages), disk and keyboard (interrupts) |
| pipes and files, `fs/pipe.c`, `fs/file.c`, `fs/do_fs.c` | `struct pipe`, `files[]`, `ofile[]` | read, write, close, dup, pipe, fork, exit | called by the task |
| inodes and directories, `fs/inode.c` | `inodes[]`, the disk | open, link, unlink, mkdir, ... | the buffer cache |
| buffer cache and disk, `fs/cache.c`, `fs/ide.c` | LRU list, `idequeue` | `bread`, `bwrite`, `brelse`, `iderw`, `ideintr` | disk interrupt |
| terminal, `fs/tty.c` | `tty` | `tty_read`, `tty_write`, `ttyintr` | keyboard interrupt |
| memory task, `mm/main.c`, `mm/proc.c`, `mm/exec.c` | `ptable` (parent, pid), `nextpid`, page tables | fork, exit, wait, exec, sbrk | programs; asks the file-system task |
| pages, `mm/vm.c` | `kfreelist` | `kalloc1`, `kfree1`, `mappages`, `freevm` | both tasks |
| library, `lib/` | buffers, the malloc list | stubs, stdio, malloc | the tasks |
| programs, `bin/` | - | init, sh, cat, grep, ... | the library |
| `sys/main.c`, boot, `tool/mkfs.c` | - | - | - |

What is hard:

* **Interleaving.** A message call is made of one or two sections between
  `cli()` and `sti()`. Kernel code is preempted everywhere else, in particular
  between the `sendmsg` and the `recvmsg` of one call.
* **Waiting.** A handler that cannot go on answers -2; the loop makes it
  `MSG_BESLEEP`, whose delivery puts the caller to sleep, and the caller asks
  again when woken. The wake-up may come at any moment.
* **Ordering.** A receive from `ANY` takes the lowest slot. fork, exit, wait and
  exec change slots whose owners may be anywhere.
* **Failure.** A fork or exec runs out of memory; the disk is slow; a panic
  stops only its own task, and with it everybody who calls it.

What makes the parts correct: a call is answered once, to its caller, about its
request; nobody sleeps who could go on; bytes pass a pipe once and in order; the
process tree stays whole and every dead process can be reaped; the scheduler
always finds somebody and starves nobody; every count says who holds what; a page
and a block of the heap have one owner; what is typed is read, once and in order.

## 2. The modules

| module | models | |
|---|---|---|
| `Msg` | `sendmsg`, `recvmsg`, `wake_up`, each one step | operators only |
| `Rpc` | what a server promises its callers | abstract specification |
| `FsServer` | `task_fs`'s loop, its callers, disk and keyboard wake-ups; a handler may do anything a handler may do | extends `Msg`, implements `Rpc` |
| `PipeIpc` | read, write and close on a pipe, the programs of a pipeline | extends and implements `FsServer` |
| `MmService` | `task_mm`'s loop, fork, exit, wait, exec and their callers | extends `Msg` |
| `Sched` | `schedule`, the timer, what fork, exit and wait do to them | |
| `BufCache` | the buffer cache and the disk driver | operators and their state |
| `FileBlocks` | reading, writing, truncating and reopening one file, down to each `bread` and `bwrite` | extends `BufCache` |
| `FsTree` | inodes, directories and paths under open, close, mkdir, mknod, link, unlink, chdir, write and exit, and stops between disk writes | |
| `FileTable` | `files[]`, `ofile[]`, `inodes[]` and pipes' pages under open, close, dup, chdir, seek, pipe, fork and exit | |
| `Tty` | the line buffer and the cursor, shared by the task and the keyboard interrupt | |
| `Vm` | pages, page tables and address spaces under fork, exec, exit, wait and sbrk | |
| `Malloc`, `Stdio` | the library's heap; streams over it, `read` and `write` | operators; the state machine extends them |
| `SchedProofs`, `PipeIpcProofs`, `MmServiceProofs`, `TtyProofs`, `FileTableProofs`, `CacheProofs`, `VmProofs`, `StdioProofs` | theorems | each extends the module it is about; `PipeIpcProofs` is also about `FsServer`, `CacheProofs` about `BufCache` and `FileBlocks` |
| `MC...` | instances for TLC | |

### Messages and the server loop

`state`, `sendto`, `recvfrom`, `msgstate` and `tmp` are the fields of
`struct proc`. `mbuf[p]` is the message in p's kernel stack together with the
caller's struct it is copied from and to. `pc[p]` says which call p is in: a
caller is in its program (`user`), between its send and its receive (`wait`),
in or after its receive (`done`), or about to repeat (`again`); the server is at
the top of its loop, in a handler, asleep for the disk, or about to reply.

`Deliver` and `BlockSending` are the two ways through `sendmsg`, `TakeFirst` and
`BlockReceiving` those through `recvmsg`. The dead-lock walks are the guards
`SendDeadlocks` and `RecvDeadlocks`: a panic stops the task, so a call that would
panic is a call that cannot be made, and `NoPanic` says that this never comes
up. The walk is written as the least set closed under `sendto`, which is what
the loop visits.

`recvmsg`'s last branch (`kernel/msg.c:204-207`) puts the *sender* of a
`MSG_BESLEEP` to sleep. It is modelled as it stands; see finding 1.

`FsServe` leaves the handler open: any result, any set of channels woken, -2 only
for read and write. `PipeIpc` puts the pipe's handlers in its place and
`ImplementsFsServer` shows that they are among those allowed. `FsServer` is
therefore about every handler of `fs/main.c`.

### The pipe

The ring, the reference counts of its two ends and the tables of open ends are
as in `struct pipe`, `struct file` and `struct proc`. Programs start with both
ends, as after the shell's forks, close what they do not use, then read or write
and may close early. Bytes are pairs (writer, number), so that a lost, doubled or
reordered byte shows. `iobuf` is the buffer `mcopyin` fills and `mcopyout` reads.

### Buffers and blocks

`lru` is the list from `cache.head`, a sequence; `sector`, `valid`, `dirty` and
`data` are the fields of each `struct buf`. `iderw` is the step that links the
request (`Iderw`), the test under `cli` (`IdeSleep` or `IdeReturn`) and the
return after a wake-up; `IdeIntr` may come anywhere between. A sector is a
function from places to numbers: the bits of the bitmap, the pointers of an
indirect block, the inode's `addrs` and `size`, the value a data block is filled
with.

A function of `fs/inode.c` is the list of the cache operations it makes, with the
steps on a buffer between them (`balloc`, `bfree`, `bmap`, `readi`, `writei`,
`itrunc`). `todo` is what is left of the call; a step that decides on what it
finds in a buffer (`StepPick`, `StepLook`, `StepFreeWord`) puts its continuation
there. `held` is the stack of buffers between `bread` and `brelse`. The superblock
is read and not interpreted. `written` is what the file should hold. `lost` says
that a held buffer was recycled (finding 2); the call goes on with the wrong
buffer, and no further call is made.

### The directory tree

A call of `FsTree` is one step, since the task ends it before it takes the next.
The functions of `fs/inode.c` (`iget`, `iput`, `itrunc`, `dirlookup`, `dirlink`,
`namex`, `icreate`) take the state `st` and give it back changed, each `bwrite`
leaving the disk it makes in `st.was`. A call ends (`Ends`), or the machine stops
on the way and starts again with one of these disks and empty memory (`Stops`).
`mem[i]` and `ref[i]` are the `struct inode` of number i; `Found` and `Holding` are
`dirlookup`, whose `iget` is made by its callers; `Enter` is one turn of `namex`'s
loop, with the return that forgets `iput`. A file or directory has one block:
`FileBlocks` has the rest, and the cache is transparent.

### Descriptors

A call of `FileTable` is one step too, on a state `st` that each function takes and
gives back. Where the code would panic, or follow a pointer that was never set, the
task is stuck (`Halt`): `trap` returns from a fault to the same instruction. The
mark `fdalloc` leaves in `ofile` is `RESERVED`, and `do_pipe` that runs out of
descriptors leaves it there, because it clears the table of `current`, which is the
task itself, and does not clear descriptor 0; closing it, forking or exiting then
stops the task. `lost` counts references that `icreate` and `namex` have dropped: the
counts are exact but for these, which fill `inodes[]` for good. `do_dup` alone looks at no
bound of its descriptor: one past the table takes the field behind it, `cwd` first, for
a `struct file` and counts it up. After such a call (`DupOutside`) `wild` is set, nothing
is said of the tables, and no further call is made.

### The terminal

`pc` is where the task is in `tty_read` or `tty_putc`, cut wherever it reads or writes
what the interrupt shares: `r` is what it has loaded. `ttyintr` is one turn of the
interrupt's loop. The store of `count` in `ReadDrop` and those of `pos` may each be
late; the first is behind `disable_irq`, the second is not. At `-O0` `pos` is loaded anew
each time it is named: for `\n` twice and then stored (`PutBreak`, `PutBroken`), for
`memset` once for the address and once for the length (`PutMeasure`, `PutClear`), in
either order, as C leaves it open. `CursorOnScreen` says that the worst is a character in
the wrong place on the display, or a `memset` that clears cells past the 25th row,
which nobody sees: `queue` is what a reader should get, `wild` says that a character was
written outside the display or anything outside video memory (`VIDEO`: 16384 cells, from
`VIDEO_BASE`). `tty_putc` is safe because all that can be erased while it scrolls fits in the
rows above (`TtyAssumption`; 1023 characters and 23 rows of 80 in the code), and because
video memory has more than twice the screen's cells. No program writes a
backspace while keys are echoed, and the model writes none.

### Pages

`Vm` counts addresses in pages. A space is its directory, one table for the kernel's
part, its other tables and its pages (`dir`, `kern`, `tab`, `map`); the code's four
kernel mappings need more tables than one, all of them made by `setupkvm`.

The memory task is preempted inside every loop, and `exec` waits for the file-system
task to read the program, so a step is one `kalloc1`, or half a `kfree1`, with what
follows up to the next. `job` is where the memory task is: which call for whom (`call`, `p`,
`q`), the next address and the end of the present loop (`at`, `end`), the page that was
allocated and not yet mapped (`got`), the pages still to be given back (`give`), and
whether `allocuvm` has gone on without a table (`missed`). `AllocPage` is the loops'
`kalloc1`, `EnterPage`, `EnterMissed` and `EnterRemap` are `mappages` with the table it
may have to make. What fork and exec have made so far is in the slot `Nobody`.

`PipeTake`, `PipeLink` and `PipeStore` are the file-system task's `kalloc1` and the two halves of its
`kfree1`, `GiveLink` and `GiveStore` the memory task's. Each may overtake the other's
(`corrupt`); the models stop there. `torn` marks a process whose `brk` and pages have come
apart: its `sbrk` failed half way or wrapped, or its `sbrk` or `exec` found no page for a table and went
on. When the file-system task gives back pages in between, such an `exec` succeeds with a
page missing. Children get what their parent has. An `sbrk` past `KBASE` or to 0 exactly
is refused and changes nothing.

### The library

`Malloc` is `free`, `morecore` and `malloc` on a heap `h`: a function from addresses to
links and sizes. `Stdio` is a program that uses streams and blocks in any order: `cnt`,
`buf` and `flags` are those of `FILE`, `data` is what the buffer has and `sink` what the
descriptor got. Characters are numbered. A call that would go through a NULL buffer
ends the model (`stray`).

### Process life

A slot's state, parent and pid are those of `ptable`. A call to the file-system
task inside fork and exit is the boundary between two steps (`ForkStart` and
`ForkEnd`; `ExitStart`, `Reparent` and `ExitEnd`); programs move in between.
A process exits with its pid as status, so that a status that reaches the wrong
parent shows. init does what `bin/init.c` does; all others call as they like.

### Scheduling

`Finds` is the pass over `ptable`, `Keep` and `Recharge` what follows it. The
slots' states are what `schedule` tells apart, with `COPIED` for a half-made
child that already has its parent's credit. Interrupts other than the timer only
make slots runnable (`Wake`), or return task_idle from `hlt` (`IdleSched`). `RecvBeSleep`
is the call of `sched` in `recvmsg` (`kernel/msg.c:207`): when the sender of a
`MSG_BESLEEP` was waiting, the caller goes on being runnable, and is not charged.

## 3. What the runs check

| run | instance | shows |
|---|---|---|
| `fs_calls` | 2 callers, a blocking and a plain request | types; no call lost; replies match; no panic; the server implements `Rpc` with its fairness; plain calls return |
| `fs_race` | the same and a channel only a call can wake | **violated**, finding 1 |
| `pipe` | 2 writers, 1 reader, ring of 2, calls of up to 2 bytes | reference counts; bytes once and in order; no lost wake-up; the loop is `FsServer`'s; a pipeline ends |
| `sched` | idle, a server, init and 2 children; priorities 4 and 3 | credit; termination of `schedule`; nobody starves once forks end |
| `mm_tree` | init and 3 more slots, 3 forks | the tree, no missed child, right statuses, no slot left half made; every call but exit and exec is answered once; what init inherits is reaped |
| `blocks` | 6 buffers on 8 sectors; 1 direct, 2 indirect blocks, 2 values | what is read was written; no block lost or shared; the cache agrees with the disk; calls end |
| `blocks_held` | 8 buffers | **violated**, finding 2 |
| `tree` | 1 process, 3 inodes, 3 blocks, 4 paths of depth up to 2 | wherever the machine stops, names lead to live inodes, counts and blocks are enough, directories form a tree; nothing is freed under its user |
| `files` | 2 processes, 3 files, 2 descriptors each, 2 pages, 3 inodes and room for 2 | counts of files, ends of pipes and inodes are those of their holders, after failures too |
| `terminal` | buffer of 2 and one, 4 rows of 2, keys a letter, Enter, backspace, ^D | the ring holds what was typed; no character is written off the display; a line is read |
| `pages` | 2 slots, 16 pages, tables of 2, 2 pipes | one owner for each page; spaces are what `brk` says but for torn ones; pages are lost only where memory has run out |
| `library` | 3 streams with buffers of 2, 1 block of the program's, 9 units of heap | blocks do not overlap and are joined when free; characters keep their order |

**Bounds.** Two callers give every interleaving of a call with one competitor;
that more of them change nothing is what section 5 proves. Two writers may wait
for room at once. A ring of two with writes of up to two bytes wraps, fills,
empties and gives partial results. Three slots besides init hold a grandchild
whose parent is not init's child, so that an orphan, dead or alive, is handed on
by every kind of process. Priorities need only their order and a distance from
task_idle's 1. `CounterMax` stands for the largest u32. The bounds are the
constants `MaxBytes` (`PipeIpc`: what each writer writes) and `MaxPid`
(`MmService`); past `MaxPid` fork fails as it does without a free slot.

Six buffers hold all but two of the disk's sectors: every sector may be evicted,
and the file still grows to its largest size without a loss. With 64 buffers the
same needs more sectors; what matters is which buffer is last.

In `files` every table fills: two processes with two descriptors want more files than
there are, pipes more than there are pages, paths more inodes than `inodes[]` has
(`MaxLost` bounds each inode's dropped references). In `terminal` the buffer fills, wraps
and is erased empty, and a scroll happens with every other character; `MaxRead` makes
reads end at the line, before it and beyond it. Sixteen pages, eleven of them free at first, are too few for two processes with stacks and
an exec or two pipes: fork, exec and sbrk fail at every page they take, and `MaxPipe` pages
come back in between. Six user pages in three tables have one that the program and the
heap share, one that the heap grows into, and the stack's; `Grow` has sizes that fit, cross
a table and wrap. In `library` the heap grows twice,
splits, joins on both sides and runs out; `MaxMine` bounds the program's own blocks,
`MaxChars` the characters of open streams, enough to fill a buffer and begin another.

Three inodes are the root and what a call is about, or a directory and its entry;
the four paths reach an entry of the root, one of a subdirectory, one of the
cwd, and the parent. `tree` stops (by `CONSTRAINT`) where a removed directory was still in use (below),
where more than one reference has no holder, which O_CREATE and a path through a
file leave (`FewLeaks`), and where stops have left more than one link too many
(`FewMiscounts`); each of them could be repeated for ever. The invariants are
therefore about trees that has not happened to.

The pipe and memory-task runs use a `VIEW` that leaves out fields nobody reads
before they are written again (the message of a slot that holds none, `sendto` of
a slot that does not send, a free slot's pid and parent); that of `blocks` names
buffers by their places in the list, and that of `tree` leaves out inodes that
cannot be reached and the order of entries. `files` leaves out what a file in no use
remembers, `terminal` the cells of the ring that hold nothing, `library` the headers
that are written before they are read; `pages` tells states apart by how many pages are
free, what each slot has mapped and where the page is that a `kfree1` has linked to, as one
page is like another; slots are symmetric there and in `files`. Two states a view does
not tell apart have the same behaviours and satisfy the same properties.

**Deadlock** is checked in `fs_calls`, `sched`, `tree` and `terminal`. It is off where the
system may stop: a pipeline that has ended, a server asleep for good (finding 1),
a system whose init gave up or whose memory task is asleep; in `blocks`, which
makes no call after a loss; in `files` and `pages`, where a task may panic or get stuck;
and in `library`, which ends at a NULL buffer.

**Fairness.** Kernel code runs on when it is runnable, because the timer keeps
ticking and `schedule` starves nobody (`NoStarvation`); this is weak fairness of
each process's steps. Disk and keyboard interrupts come (weak fairness of
`IdeIntr`, `TtyIntr`), and a handler waits for the disk finitely often (strong
fairness of `FsServe`). A program need not call, except that init keeps calling
wait and the programs of a pipeline go on to their ends. Where the code gives no
guarantee the property says so: `CallReturns` supposes that the others stop
calling, since `recvmsg` prefers low slots; `NoStarvation` that forks end, since a
child inherits credit and an endless chain of forks can keep others waiting;
`PipelineFinishes` and `ZombiesReaped` that finding 1 does not strike. In `Tty` the task
and the reader run on (weak fairness); keys need not come. `LineIsRead` supposes, as
`CallReturns`, that the other processes stop calling: `recvmsg` takes the lowest slot, and
two writers in lower slots can keep a reader waiting for ever. It leaves out a line whose
end comes between -2 and the sleep, which the code does lose until another line ends.

## 4. Findings

1. **MSG_BESLEEP may put the server to sleep** (`kernel/msg.c:205`). `fs/pipe.c:99`
   returns -2 with the comment `sleep it`, and `mm/proc.c:149` sets `mm_sleep` with
   `let sleep`. If the caller is preempted between `sendmsg` and `recvmsg`, the
   server blocks in sending its reply, and the caller's `recvmsg` sets the state of
   the slot it takes the message from, the server's. The server sleeps on a channel
   that, for a pipe or a wait, only a call to the server could wake. Run `fs_race`.
2. **The cache recycles a buffer in use** (`fs/cache.c:41`). `bread` is said to
   return a `B_BUSY`, locked, buffer (`fs/cache.c:48`, `include/cache.h:15`), but
   nothing sets or tests `B_BUSY`, and after a miss the buffer stays last in the
   list, the next victim, until it is released. `bmap` holds the indirect block
   while `balloc` reads others (`fs/inode.c:215-219`). The first append to a file
   with an indirect block after a start reads that block, then the superblock into
   the same buffer, and writes the new pointer there. Run `blocks_held`.

The models reach further places where the code does other than one would expect; no
run is spent on them, the properties say what still holds, and the actions say where:

* exec's caller may be runnable (`mm/exec.c:25`, whose comment says it cannot be): the
  window of finding 1. It then waits for a reply exec does not send. `MmService`.
* A directory removed while in use keeps its dots (`fs/inode.c:189`): its parent may be
  freed under them. `FsTree` stops there (`LastEntryErased`).
* `do_pipe`'s mark, `dup` of a closed descriptor and `seek` on a pipe get the task stuck;
  `open` with O_CREATE and paths through files fill `inodes[]`. `FileTable`.
* `dup` past the table counts up a field that is no file's (`fs/do_fs.c:230`). `FileTable`.
* `kfree1` stores the list's head after `sti` (`mm/vm.c:144`): a page is given out twice,
  or lost. `setupkvm` that fails drops what it has taken; `allocuvm` ignores
  `mappages`, drops the page and reports success, which makes `loaduvm` panic, or, when the
  file-system task gives pages back in time, `exec` succeed with a page missing; an `sbrk` that
  fails half way, or whose sum wraps, ends in a `remap` panic at the next. `Vm`.
* A line that ends between -2 and the sleep is not read; a full buffer without a newline
  wakes nobody; a backspace between the test of `count` and `disable_irq` makes a read
  return 0, which programs take for the end; with caps lock, Enter, backspace and ^D
  become negative codes (`fs/kbd.c:39`) and vanish. `Tty`.
* `fclose` flushes nothing; a write that falls short loses the rest of the buffer, and
  the next character may still go out; streams go through a NULL buffer when `malloc`
  fails. `Stdio`.

## 5. What is proved

`PipeIpcProofs`, first part (any set of slots, requests, results and channels that satisfies
`FsServerAssumption`): `TypeCorrect`, `CallsAreConserved`, `RepliesMatch`,
`CallsDoNotPanic`, `ServerImplementsRpc`. `NoCallLost` is not inductive: whether a reply may be delivered
depends on whom everybody sends to and receives from and on what the messages
underway say. The invariant adds, for each place in the code, the states a slot
may be in there, the message its buffer holds and the partner it waits for. Each
action is then a case, and the dead-lock walks end because callers send only to
the server: the set {caller, server} or {server} is closed.

`ServerImplementsRpc` rests on the same invariant. A caller is
idle, pending, taken or answered as `Phase` says; each action of the server maps
to one of `Rpc` or to a stutter, for `BlockReceiving` and all steps about the disk.

`PipeIpcProofs`, second part (any processes, writers, readers, size of ring and of calls, numbers of
bytes): `PipeImplementsFsServer`, `PipeTypeCorrect`, `BytesArriveOnceInOrder`,
`NoWakeupLost`. The first says that each step of the pipeline is a step of `FsServer`,
so its invariant `IInv` holds here and gives where each call is. `CallInv` adds
what a call carries: the request's bytes are the writer's next ones, a reply's count is
what the handler moved, and a reply that says MSG_BESLEEP is on its way to a caller
whose reason to sleep still holds. That last part is what `NoLostWakeup` needs to be
inductive, as a handler may find the ring empty long before its caller sleeps: until
then nobody else's call is served. `BytesOnceInOrder` is inductive with these; the
lemmas `TakenSound`, `AddedSound` and what they rest on say once, for any sequences, what moving bytes
from the end of one to the end of another preserves.

`MmServiceProofs` (any slots, any number of pids, any calls of the other programs):
`ParentsLive`, `ChildrenSeen`, `CallsKept`, `WaitIsRight`. The invariant has five parts
besides the types and the places in the code. *Parents*: while a process is dying nobody
is its child any more, and a slot in the making is nobody's parent. *initproc* dies, if
at all, alone: it exits only when its only fork has failed, hence when there never was
anybody else; else handing orphans to it would leave them without a parent. *Pids*: a
pid in use belongs to one slot, has not been reaped, and is known to its parent or on
its way to it (`Forks`); a dead slot's `msgstate` is its pid. *Waits*: a reply to wait
that is on its way (`Reaps`), held by the memory task or by the caller, carries a pid no
slot has any more, that no other reply carries. *Sleep*: a reply that says MSG_BESLEEP
is about to reach a caller that still has no dead child, since nobody exits before the
next receive. Steps that only move messages leave all five alone (`MessageKeeps`).

`FileTableProofs` (any finite table of processes, any numbers of files, descriptors,
inodes and pages): `FilesCountedAlways`, `PipesOwnedAlways`, `InodesHeldAlways`. The three counts
hold between calls, not inside them: `filedup` counts a file before a descriptor names
it, `fileclose` gives an inode back before the descriptor is cleared. So each function
has a lemma that says by how much it leaves the counts wrong (`Good(st, e, h)`: file f is counted
e[f] times too often, inode i h[i] times), and a call's debts add up to nothing, on
every path, the failing ones included. The invariant `FInv` says that there are no debts, that each
open end of a pipe has one file, and that a free slot has no files and no directory as
long as the task runs: without this last part fsfork, which writes over its child's
fields, would lose references. The loops of fsfork and fsexit are functions on
0 .. NOFILE. That such a function exists and what it leaves after n turns is shown by an
induction over sets of turns (`SetInduct`, from the least element of a set of
naturals), as the library's induction theorems cannot be used here.

`CacheProofs` (any number of buffers, any disk, any size of file):
`CacheCoherentAlways`. `CacheCoherent` is about the cache, but whether it holds depends
on its users: a buffer that is changed and released without a `bwrite` would be the next
reader's. The invariant `CInv` therefore says that what is left of a call (`todo`) takes a
small machine, which counts the buffers held and remembers whether the latest is
changed, from the present count down to none (`Leads`); each function of `fs/inode.c` leads from a count
to the same count, and `bwrite` comes before the next `bread` or `brelse`. The rest is
that only the buffer read last may differ from its sector, that the disk has at most one
request, of that buffer, and where `iderw` is with respect to it. It holds
also after a loss (finding 2): the buffer taken away from its holder is clean.

`BlocksSoundAlways` and `ReadsBackAlways` are about the file, for the disks `LayoutAssumption`
allows: those `tool/mkfs.c` makes, where an empty file has room to grow to its largest
size (in the code 141 blocks on a disk of 204800 sectors, `Makefile:70`). Both are seldom
true of the disk or of the cache inside a call: a block is taken in the bitmap before a
pointer names it, a pointer is changed in a buffer before it is written. The invariant `FInv`
therefore looks ahead. A second machine (`Deed`) has neither buffers nor a disk, only what a
reader of the cache would see of each sector (`Contents`, the buffer if there is one, else
the disk), the stack of sectors held, and `got`, `addrs` and `size`; a step of it makes what
one item of `todo` makes. `FInv` says that this machine, started from what the cache now
shows (`Shows`) and run to the end of `todo` (`Does`), comes to a file that is whole
(`Fine`): each place of the file has a block of its own or none, the bitmap has exactly
these, the inode's sector agrees with the inode in memory, and every block below `size`
holds what was `written`. Each function of `fs/inode.c` has a lemma that it leads from any
whole file to a whole one (`BmapDoes`, `ReadiDoes`, `WriteiDoes`, `ItruncDoes`, `IgetDoes`); `Room`,
that `balloc` finds a block while a place is without one, is a count of blocks. Each step of the
cache then leaves what is shown alone, and each step of a call is one of the second machine's: here
`CInv` is needed, since `iget` after a restart reads a disk that must agree with what the
cache showed. `ReadsBack` is what the second machine finds at `copy`. After a loss nothing is claimed of
the file, as nothing is true.

`VmProofs` (any processes, any numbers of pages, any sizes of tables and of the address
space within `VmAssumption`): `PagesOwnedAlways`, `SpaceMappedAlways`, `NothingLostEver`.
The three are proved of one invariant, `VInv`, which every step keeps. `PagesOwned` counts
places; `VInv` says instead (`Sound`, in `Owners`) that the free list, each slot's pages, its kernel
stack, the page in hand, those still to be given back and the pipes' have no page in
common, and that no space has a page twice (`Tidy`). A dozen lemmas say what a step may do
to that: take a page in hand (`Take`), put it or a table in a space (`PutMap`, `PutTab`,
`PutSpace`), move a space or a stack to another slot (`MoveSpace`, `MoveStack`), turn a space into pages to
be given back (`GiveSpace`), put one of these or of the pipes' on the free list (`StoreGiven`,
`StorePipe`). `SpaceMapped` is between calls what it is inside them, but for the
space in the making: `Job` says that its pages are those of the loop's addresses so far
(`ForkSpace`, `ExecSpace`), unless a table was missing, and that a mapped page has its
table (`Tables`), as `mappages` makes that first. `NothingLost` follows step by step: a
page that was held or free still is (`Kept`), unless a `kalloc1` has just found the list
empty. Ownership is claimed until a `kfree1` is overtaken, and no call goes on after that.

`TtyProofs` (any line buffer and screen within `TtyAssumption`, any keys):
`RingHoldsQueue`, `CursorStays`. The first needs that what the task has read of `count`
stays true while the interrupt is masked. The second needs a bound on how far back the
interrupt can still move the cursor (`Erasable`: what has been echoed and not yet
read), for each place of `tty_putc`; of the two cursors `memset` gets it needs only that
each is on the screen.

`StdioProofs` (any size of the heap, of a page, of what `morecore` asks for and of a buffer,
any blocks the program takes): `HeapTiledAlways`, `StreamsInOrderAlways`. The code finds the
free blocks by following links, `HeapTiled` counts them along the links (`Node`, `Round`), and
an invariant about a walk is hard to keep. The proof names the set `F` of free blocks instead:
`Linked` says that each link goes to the next block of `F` by address, or from the last one to
`base`; `Apart` that no block reaches the next, be it free or in use, or past what
`sbrk` gave; `Tidy` adds that free blocks do not touch. Three lemmas connect it to the loops:
once round the list is exactly `F` (`RoundIs`: no two links lead to one block, and there are no
more blocks than addresses), `free`'s search ends at the free block just below the one given
back (`PlaceIs`), and `malloc`'s, if it finds one, at a block of `F` that is large enough
(`TakeFirstIs`). `free` is then an insertion (`InsertIs`) and up to two mergers (`MergeIs`), between
which blocks may touch for a moment; `malloc` removes a block or cuts its tail
(`TakenIs`); what `morecore` adds is a block in use that is given back (`MorecoreIs`), so that
malloc's second search cannot fail. The invariant `IInv` says that the heap is whole around the program's
blocks and the streams' buffers, that nobody shares one (`Owned`), and for each stream
(`Flows`) that what reached the descriptor and what waits ascend (`Rises`: this alone is left
after a short write), that nothing is missing as long as no write fell short, and that
the buffer of a reader holds the source's next characters. A stream that has no buffer yet
has nothing waiting (`Fresh`); without this `fflush`, which sets `cnt` to 0 after it has
allocated the buffer, could lose characters. `Fresh` fails only when a character has gone
through NULL, where the model stops.

`SchedProofs` (any slots, any priorities above 1): `TypeCorrect`,
`CreditNeverUnderflows`, `SchedulingEnds`. The credit invariant needs that
a slot which may come to run has at least one credit and a priority of at least two, that
a half-made child has got both from its parent before it becomes runnable, and that
what `schedule` picks exceeds task_idle's credit of 1. `SchedulingEnds` is about one call
of `schedule`: a pass that meets a runnable slot with credit finds the first of greatest
credit (`PassFinds`), and task_idle, which is always runnable, has some after recharging.

The assumptions are those on constants; TLC evaluates them in the runs. Each
proof's hypotheses are exactly the specification, without fairness. TLC has checked each
inductive invariant on the run's instance before it was proved.

Only model-checked: liveness (`CallReturns`, the fairness half of `ImplementsRpc`,
`PipelineFinishes`, `NoStarvation`, `ZombiesReaped`, `CallEnds`), which is beyond
the prover, like `LineIsRead`; everything about `FsTree`, whose invariants hold of the runs
its `CONSTRAINT` keeps and not of every behaviour of the specification, so that no theorem
`Spec => []...` can state them. Its walk over a path is moreover a fold over a sequence (`namei`), and
what a fold keeps is an induction over data, which the provers here cannot instantiate.

## 6. What is not modelled, and the plan

Not modelled: boot, assembly, the context switch, `task_sys` (nobody calls it), the image
builder; the string and format functions, which keep no state; errors of the drive;
`stderr`, which is not buffered; what programs compute (games, listings, matching).
Of the program loader, the ELF file and the argument block; of the keyboard, all but
caps lock; of page tables, permissions. A page fault is returned from to fault again:
`FileTable` stops there and the other models do not meet one. Data is abstract: paths,
file contents and addresses appear only where a property tells them apart.

Planned: a form of `FsTree` in which the two cases its `CONSTRAINT` stops at are part of the
state, so that its invariants can be stated of the whole specification and proved.
