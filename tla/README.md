# TLA+ models of my-own-os

A verification development for the 32-bit x86 teaching kernel in this
repository. It holds TLA+ modules for the parts of the kernel that carry state
and interleave, TLC configurations that check them on small instances, and
theorems that TLAPS proves for every instance. `PROJECT.json` lists the
components, the runs, the source lines behind every definition, the hazards and
the theorems.

    tlc -workers 2 -config MCTasks.cfg MCTasks     # one run
    tlapm KHeapProofs.tla                          # one proof module

## The system

A single-CPU kernel boots from GRUB, builds paging and a heap, mounts an initrd,
and starts PID 1, which forks PID 2, the shell. Everything after that is system
calls (`int 0x80`), the timer (IRQ0) and the keyboard (IRQ1).

| Part | State | Operations | Talks to |
|---|---|---|---|
| Processes and scheduler (`task.c`, `process.s`) | linked list of `task_t`, `current_task`, `next_pid` | create, fork, exit, waitpid, sbrk, sleep/wake, `switch_task` | signals, paging, heap, keyboard |
| Signals (`signal.c`, `user/signal.s`) | per task: handlers, trampoline, pending word, active signal, frames on the user stack | send, deliver, set handler, sigreturn, inherit, exec reset | called at the end of every system call and timer tick |
| System calls (`syscall.c`) | none | dispatch table, blocking `read(0)` | everything |
| Keyboard (`keyboard.c`) | ring of 128 slots, two indices, Shift | IRQ1 handler, `keyboard_getchar` | wakes readers |
| Timer (`timer.c`) | tick counter | deliver, then switch | signals, scheduler |
| Kernel heap (`kheap.c`, `ordered_array.c`) | boundary-tagged blocks, index of holes | alloc (aligned), free, expand, contract | paging |
| Paging (`paging.c`) | frame bitmap, page directories | allocate/free frame, clone, destroy | heap |
| Loader (`exec.c`) | none of its own | validate ELF, build image, commit or abandon | paging, file system, signals |
| File system and archive (`fs.c`, `initrd.c`, `make_initrd.c`) | node tree, archive headers | mount, path lookup, mkdir, readdir, getcwd, read | loader, system calls |
| File descriptors (`task.c`, `syscall.c`) | 16 descriptors and a working directory per task | open, read, lseek, close, stat; copied by fork, released by exit | file system |
| Console (`monitor.c`) | screen cells, cursor | put, scroll, clear | written by PID 0 and by system calls |
| Shell (`user/programs/shell.c`) | the line, a place in a command | edit the line; cd, mkdir, ls, cat, run, exec | everything, through system calls |
| Interrupt plumbing, boot, user library, scripts | | | |

### What is hard in it

Every IDT entry is an interrupt gate, so a handler starts with interrupts off.
But `switch_task` ends in `sti; jmp`: whoever is switched *back to* goes on in
the kernel with interrupts **on**. Code written as if it were atomic (the rest
of a `read(0)` that slept, the signal delivery after it, an exit from there) is
therefore interleaved with the timer, with IRQ1, and through the timer with all
other processes. Most of the findings below come from this window.

The other hard parts are sequential but long: boundary tags and a sorted index
kept in step over any sequence of allocations; frames and page tables over fork,
exec that fails late, sbrk and reaping; signal frames over fork and exec inside
handlers; unsigned arithmetic at its limits; one node tree that every process
changes while others walk it.

User programs see the same interleaving at a coarser grain: every file service
runs with interrupts off, but a command of the shell is many of them, and a
program that was started and orphaned runs in between.

### What makes each part correct

- Scheduler: only runnable tasks run; none starves; each PID lives once and is
  reaped by its parent.
- Signals: state stays consistent, a SIGKILL that was sent kills, a signal
  interrupts a read, a dying child is reported. (The first holds but for one
  race, the other two do not hold: see the findings.)
- Keyboard: a FIFO queue; no byte lost, duplicated or forgotten by a sleeper.
- Heap: blocks tile the arena, the index lists the holes, memory that callers
  hold is not touched.
- Paging and loader: every frame has one owner, the private pages of a process
  stay its own and new memory is clean, a failed exec changes nothing, only
  loadable files are loaded. Isolation from a program that stores through the
  kernel mappings is *not* promised (below).
- Files: the nodes form a tree, lookup and getcwd are inverse, every archive
  that a tree can hold is mounted with each file's own bytes, descriptors name
  files or nothing, calls agree about what a path or a descriptor is.
- Shell and terminal: a command ends and leaves nothing behind; ls and cat print
  everything; the screen shows the line the shell edits; every accepted key is
  read.

## Modules

| Module | Models |
|---|---|
| `Tasks` | task list, scheduler, signals, blocking read, timer and keyboard interrupts |
| `Processes` | abstract: what fork, exit and waitpid promise. `Tasks` implements it |
| `TasksProofs` | the inductive invariant of `Tasks` and its safety theorems |
| `TasksRefinement` | the proof that `Tasks` implements `Processes` |
| `Keyboard` | the ring and `keyboard_getchar`, cut at every access to the ring |
| `KeyQueue` | abstract: a bounded FIFO queue. The ring of `Terminal` implements it until two readers race |
| `KHeap` | alloc, free, expand, contract and the ordered index |
| `KHeapProofs` | the inductive invariant of `KHeap` and its theorems |
| `ElfImage` | `validate_elf` in modular arithmetic, and what it should accept |
| `ElfProofs` | `validate_elf` is exact, for every file header |
| `AddressSpace` | frames and page tables through fork, execve, sbrk, exit, waitpid |
| `AddressSpaceProofs` | the inductive invariant of `AddressSpace`, its invariants and action properties |
| `FileTree` | nodes, path resolution, mkdir, readdir, getcwd, as operators on a tree |
| `Initrd` | extends `FileTree`: `make_initrd`, mounting the archive, reading a file |
| `Files` | extends `Initrd`: working directories, descriptor tables, file and process calls |
| `Shell` | extends `Files`: the shell's commands among other processes |
| `FileTreeProofs` | lemmas on the operators of `FileTree` and `Initrd`: walks, mkdir, getcwd, mounting |
| `ShellProofs` | the inductive invariant of `Files` and `Shell` and their theorems |
| `Console` | the screen; `monitor_put` atomic for processes, step by step for PID 0 |
| `Terminal` | extends `Keyboard` and `Console`: IRQ1, line editor, a program run by the shell or beside it, screen |
| `TerminalProofs` | the inductive invariant of `Terminal`, its safety theorems, and the proof that its ring implements `KeyQueue` |
| `MC*` | small instances for TLC |

Definitions named `Bug_...` are seeded defects. Each precedes the definition it
is a defect of; replacing that definition by it makes TLC report the property
that `PROJECT.json` names, which shows that the property can fail.

### Tasks

`task[p]` is the `task_t` of PID `p`, cut down to what the code branches on.
Because PIDs grow and `append_ready_task` appends, list order is PID order, and
the list is the set of PIDs that are not `"free"`. Handlers are one of default,
ignore, catch; the pending word is a set; a signal frame on the user stack is the
number of the signal it was built for. A fork copies the user stack, and so the
frames, but `task_signal_inherit` clears `signal_active`.

System calls are one action each, and end in `Deliver` because
`syscall_handler` does. `pc` says where a task is: `"user"`; `"irqret"`, on the
way back to ring 3; or at one of the shared-memory accesses of the interruptible
rest of a read: `woken`, `getchar`, `sleep`, `switch`, `deliver`, `taken`,
`exit`, `notify`, `leave`. `pending_signals &= ~bit` is a load (`TakeSignal`) and
a store (`ActOnSignal`). The timer is `TimerUser` over ring 3 (deliver, switch)
and `TimerKernel` over ring 0, where delivery returns at once.

Programs may make any system call in any order; handlers return through libc's
trampoline. PID 1 forks once and spins. `SyscallGetchar` on an empty ring also
stands for every call that changes nothing here. A context switch is one step:
the saved registers inside `switch_task` are not modelled.

### Keyboard

The interrupt handler is atomic. `GetcharAtomic` is a getchar from a call that
has not slept; `TestEmpty`, `LoadChar`, `FetchIndex`, `StoreIndex` are the steps
of one that has. A byte is the number of its key press with the Shift state, so
duplicates and reordering are visible.

### KHeap

Addresses count from the start of the arena. A block is a header with its
footer, so "the footer before me leads to a hole" is "a hole ends where I
begin". `AllocExpand` is one pass of alloc that finds no hole, expands and calls
itself; `AllocFromHole` is the pass that succeeds. A failed ASSERT sets `panic`
and stops. That frames can be found for the arena is assumed.

### ElfImage and AddressSpace

`ValidateElf` follows the source's comparisons modulo `Word`; `Loadable` says
the same with sets of bytes. A directory is the function from its private
present pages to frame and rights. Contents are `zero`, `image` (bytes of the
file), `args` (argc, argv and the argument strings that `build_initial_stack`
puts on the top page of a new stack) or `data` (written by a program). Which free
frame an allocation takes is the lowest, in page order. Heap blocks (directory,
tables, task, kernel stack, and the request of an execve while it runs) are
counted, and compared with the set of blocks the processes should have. A
file is a record of the header fields `validate_elf` reads (`ElfFile`), each an
unsigned number below `Word`. The kernel heap is taken to stay within its initial arena.
The late failure of execve is the one after the image and stack are built, when
no room is left for a heap. A short read cannot happen for a file that
`validate_elf` accepted, nor can arguments that `capture_request` bounded fail to
fit on the stack. `page->present` fails only if the kernel and the archive reach
the user region at 4 MiB; that they end below it is a premise of the model, which
nothing in `main.c` or `paging.c` enforces. The place of the program headers in
the file is folded into the field `magic`, with the other checks that refuse a
file whole.

`Write` is a store to a private page. The kernel's own mappings are another
matter: `syscall.c:8-10` says that "this experimental address space still exposes
kernel mappings to ring 3", and `paging.c:252-258` maps the kernel heap, page
tables and tasks included, writable for ring 3 in every directory. A program
that stores there, or passes such a pointer to a call, can change anything.
`WriteKernel` is that step: it writes some page of some process and the model
ends with `panic = "overwritten"`. So `PrivatePagesKept` and `FreshMemory` are
about what fork, execve, sbrk, exit, waitpid and stores to private pages do to
one another, not about protection from a program that uses those mappings.

### FileTree, Initrd, Files, Shell

Nodes are never freed, so a node is the number of its allocation and the tree a
sequence. A path is whether it begins with a slash and the names between its
slashes; all names have the same length, which matters for the buffer of getcwd
and the 63 bytes of an archive name. Inodes count from 1 here, from 0 in the
code. The position in the archive stands for a byte of a file, so a byte of the
wrong file, or one read twice, is visible. `PathTo` (the names from the root to
each node) and `Follow` (a path followed on names, in the set of all paths) are
not code: they are what `LookupExact` and `GetcwdExact` compare the code with.

`Files` starts from an archive that `make_initrd` accepted, its check of the
image size included; `Boot` mounts it or fails an ASSERT (`phase = "panic"`), and
starts PID 2, which becomes the shell or, if execve of `/bin/shell` fails, exits
at once and stays a zombie. Then a system call is one step. Calls that
fail or change nothing are not steps: their results are operators (`OpenResult`,
`StatResult`, ...) which the properties evaluate in every state. Return values
are in the model, with `newlib_result` on top, because lseek packs a position
and an error into one int. A zombie keeps its parent and nothing else that is
used again. Exit statuses are in `Tasks`.

`Shell` cuts ls, cat and run at their system calls. A program that run started
makes any calls in any order, forks, and may exit before its child, which is
then an orphan running beside the shell. Any process may be killed at any step,
the shell too. exec and the child of run replace the image or fail; which files
are programs is `AddressSpace`'s question and left open here.

### Console and Terminal

`Put` is `monitor_put` with interrupts off. `BootStep` is PID 0 in
`monitor_put` with interrupts on, cut at each load and store of the cursor and
the cell (the kernel is built with -O0, so each is a memory access); the copying
loop of `scroll` is one step. PID 0 writes only at boot; afterwards it halts.

In `Terminal` the shell reads with the getchar call, which does not sleep, and a
program with `read(0)`, which may have slept and then runs `keyboard_getchar` in
steps. run waits for its child, but not for the children of that child, so a
program may read and write while the shell edits: `ProgramRead` and
`ProgramWrite` are enabled as long as a program is alive, whatever the shell is
doing. exec replaces the shell by a program, and a signal may end it
(`tty.pc = "gone"`).

History variables say what the properties depend on. `prog.raced`: the shell has
read while a woken program was inside `keyboard_getchar`. Until then the ring is
a queue; `keyboard_two_readers` shows a byte taken twice afterwards. `tty.quiet`:
nobody else has written since the prompt. `tty.edge`: an erasure has begun in
column 0, where `monitor_put` ignores a backspace, and `tty.shown` is the line
with the characters that such erasures have left in it.

## Runs

| Run | Checks | Distinct states |
|---|---|---|
| `tasks` | `TypeOK`, `RunningIsRunnable`, `StateMatchesCode`, `SignalStateConsistent`, `SwitchesToRunnable`, `KillLostOnlyByStaleStore`, `ImplementsProcesses` | 1,269,342 |
| `tasks_live` | `EveryRunnableRuns`, `KillTakesEffect` | 7,725 |
| `terminal` | `TypeOK`, `ImplementsQueue`, `CursorOnScreen`, `LineShown`, `KeysRead` | 639,985 |
| `kheap` | `TypeOK`, `BlocksTileArena`, `IndexListsHoles`, `HolesCoalesced`, `OwnedIntact`, `RetriesBounded` | 92,838 |
| `address_space` | `TypeOK`, `FramesOwnedOnce`, `BlocksAccounted`, `HeapMapped`, `FailedCallsChangeNothing`, `PrivatePagesKept`, `FreshMemory`, `ElfCheckExact` | 291,102 |
| `shell` | `TypeOK`, `TreeWellFormed`, `LookupExact`, `GetcwdExact`, `DescriptorsConsistent`, `LseekExact`, `CallsAgree`, `BootExact`, `ListingComplete`, `CatPrintsFile`, `PromptClean`, `CommandEnds` | 101,915 |

What the runs on files and terminal show beyond "it holds": ls never misses
an entry that was there, but prints an old one again when a directory is made
meanwhile, and `ListingComplete` bounds how often. So ls need not end: an orphan
that makes a directory between any two of its calls keeps it going, and
`CommandEnds` promises its end only once the tree no longer changes. getcwd fails
exactly for directories below the 32nd level, which mkdir can create. make_initrd packs
archives that the kernel refuses with an ASSERT (`a` with `a/b`, a file `dev`);
`BootExact` says that these are the only ones. The screen shows the line through
wrapping and scrolling, also while it is erased, until a program writes into it;
but a character whose erasure begins in column 0 stays on the screen, although it
has left the line. (`monitor.c:70` says of a backspace that it is handled "by
moving the cursor back one space"; in column 0 it is not.) PID 0 and the shell may write over each
other at boot, but never outside the screen and the row below it.

Six runs show where the code does not do what the repository says:

| Run | Statement | What happens |
|---|---|---|
| `tasks_sleep` | `signal.c:113` "A signal interrupts a blocking stdin read so delivery is not postponed.", `syscall.c:100` "Sleep until IRQ1 queues the first byte." | a signal pending before the sleep does not interrupt it, and the process waits for a key. IRQ1 between the empty test and the sleep of a woken reader is missed as well (what TLC reports for the part of `NoSleeperInVain` about the ring alone) |
| `tasks_lost_sigchld` | `task.c:521` "Inform a living parent." | a tick after the zombie state and before the signal ends the process silently |
| `tasks_fork_frame` | `user/signal.s:19` "A valid kernel-created frame never fails." | a child forked in a handler cannot sigreturn and exits with 255 |
| `tasks_lost_kill` | `signal.h:5` "consumes one pending signal and either applies its default action or redirects the saved CPU frame" | a SIGKILL sent between the load and the store of `pending_signals &= ~bit` of a woken reader is overwritten; `KillLostOnlyByStaleStore` says that it is lost in no other way |
| `keyboard_two_readers` | `keyboard.c:2` "single-producer/single-consumer" | two woken readers take the same byte |
| `kheap_tiny_hole` | `kheap.c:257` ASSERT on the size of every block | contraction leaves fewer than 20 bytes in the last hole (the run uses the kernel's own sizes) |

### Bounds

- `tasks`: PIDs up to 3 (PID 1, the shell and a child of it), SIGKILL and SIGCHLD (the two signals the code
  treats specially, one caught and one not), one frame on the stack, a ring of
  one byte. A parent, a child and the idle task are what the interleavings
  above need. The fork-in-handler run has room for two frames. The theorems
  remove all of these bounds.
- `tasks_live`: as above with no handlers.
- `terminal`: three slots and three keys, so both indices wrap and the ring
  overflows; each key a character, Enter or Backspace. A screen of 3 by 2, so
  lines wrap, are erased over the edge, and the screen scrolls; a line of two
  characters; a boot message that fills a row. One process besides the shell uses
  the terminal at a time, and writes one character, printable or one of the
  control characters. After a race with the shell it reads without sleeping only.
  The keyboard is not touched before PID 0 is done, and Shift only between the
  first two keys. Two characters fill the line with a key left. Deadlock is
  allowed: when every key is read the shell waits for ever.
- `shell`: archives of one and two files over all names of up to three
  components from `a`, `dev`, `..` and the empty one, and one that is too large;
  processes are explored on one of them (`/c/b`, the shell, and `/a` of three
  bytes, so that cat, reading two at a time, meets the end in the middle of a
  read). PIDs up to 4: the shell, a program and its child, which can outlive it.
  Five descriptors per process, so a table fills with two files; at most two open
  files when a program opens or forks (`MaxOpen`). Two new directories
  (`MaxNodes`), so the tree grows one level deeper than `MaxComponents`: `Mkdir`
  stops there, the code does not, and no property rests on it (`CommandEnds`
  makes the end of mkdirs its hypothesis, and the theorems hold for every
  `MaxNodes`). ints from -4 to 3. Deadlock is allowed: a panic halts, and all
  processes may die.
- `kheap`: pages of 8 with tags of 2 and 1 and arenas of 8 to 32, so every case
  of splitting, merging, alignment, expansion and contraction occurs; an index of
  three entries, so it also overflows. Deadlock is allowed: a panic halts.
- `address_space`: 32 addresses in pages of 2, tables of 4 pages, 7 frames, PIDs
  up to 3, three programs (text; text, data and bss; one that reaches the heap
  limit), increments INT_MIN, -1 and 3. Memory runs out in many orders.
  Deadlock is allowed for the same reason. `ElfCheckExact` compares over a grid
  of the edges of each field of a second program header.

### Fairness

`tasks_live` assumes that the timer keeps ticking (weak fairness of `Timer`), and
that a kernel step which is enabled again and again is taken (strong fairness of
each task's kernel steps): the few instructions between two switches are much
shorter than a tick of the 50 Hz timer. Nothing is assumed of programs or of the
keyboard.

`shell` and `terminal` assume that the shell takes its next step if it stays
able to (weak fairness of `ShellStep`). That the scheduler gives it the CPU is
what `EveryRunnableRuns` checks. Programs need not end, read or write, and
waitpid need not return.

## Proofs

The theorems hold for every value of the constants that satisfies the named
ASSUMEs of the modules, so they remove the bounds above. TLC evaluates the same
ASSUMEs on every run.

| Module | Theorem | States |
|---|---|---|
| `TasksProofs` | `TypeCorrect` | `Spec => []TypeOK` |
| | `OnlyRunnableTasksRun` | `Spec => []RunningIsRunnable` |
| | `StatesMatchCode` | `Spec => []StateMatchesCode` |
| | `SignalsStayConsistent` | `Spec => []SignalStateConsistent` |
| | `SwitchIsSafe` | `Spec => SwitchesToRunnable` |
| | `KillLossIsStaleStore` | `Spec => KillLostOnlyByStaleStore` |
| `TasksRefinement` | `TasksImplementProcesses` | `Spec => ImplementsProcesses` |
| `TerminalProofs` | `KeyboardTypes` | `TermSpec => []TypeOK` |
| | `CursorStaysOnScreen` | `TermSpec => []CursorOnScreen` |
| | `ScreenShowsLine` | `TermSpec => []LineShown` |
| | `KeyboardImplementsQueue` | `TermSpec => ImplementsQueue` |
| `KHeapProofs` | `HeapTypes` | `Spec => []TypeOK` |
| | `HeapTiled` | `Spec => []BlocksTileArena` |
| | `IndexExact` | `Spec => []IndexListsHoles` |
| | `NoFragments` | `Spec => []HolesCoalesced` |
| | `AllocationsIntact` | `Spec => []OwnedIntact` |
| | `RecursionBounded` | `Spec => []RetriesBounded` |
| `ElfProofs` | `ValidateElfExact` | `\A f \in ElfFile : ValidateElf(f) <=> Loadable(f)` |
| `AddressSpaceProofs` | `SpaceTypes` | `Spec => []TypeOK` |
| | `FramesExact` | `Spec => []FramesOwnedOnce` |
| | `BlocksExact` | `Spec => []BlocksAccounted` |
| | `HeapsMapped` | `Spec => []HeapMapped` |
| | `ElfChecked` | `Spec => []ElfCheckExact` |
| | `FailuresHarmless` | `Spec => FailedCallsChangeNothing` |
| | `PrivatePages` | `Spec => PrivatePagesKept` |
| | `MemoryFresh` | `Spec => FreshMemory` |
| `ShellProofs` | `ShellTypes` | `Spec => []TypeOK` |
| | `FileTreeWellFormed` | `Spec => []TreeWellFormed` |
| | `LookupsExact` | `Spec => []LookupExact` |
| | `GetcwdReturns` | `Spec => []GetcwdExact` |
| | `DescriptorsSound` | `Spec => []DescriptorsConsistent` |
| | `SeeksExact` | `Spec => []LseekExact` |
| | `ServicesAgree` | `Spec => []CallsAgree` |
| | `MountExact` | `Spec => []BootExact` |
| | `LsComplete` | `Spec => []ListingComplete` |
| | `CatExact` | `Spec => []CatPrintsFile` |
| | `PromptSound` | `Spec => []PromptClean` |

### Tasks

For every `MaxPid >= 2`, every set of signals that contains SIGKILL and SIGCHLD,
every number of frames and every ring size. `IInv` is `TypeOK`; `TableInv`, what
must hold of each task by itself (its state against its pc, its frames against
its active signal, the locals of an interrupted delivery, SIGKILL uncatchable);
`Family`, which ties the table to `next_pid` (tasks beyond it are free, parents
are older than children); and `CurrentInv`, which task may be running where. The
properties are not inductive alone: that the scheduler enters only runnable tasks
needs PID 0 to stay runnable, that needs signals never to reach PID 0; that
sigreturn of an active handler succeeds needs the frames to be untouched by a
delivery that is half done.

The argument has three layers. A lemma for each operator on the table (`Send`,
`BecomeZombie`, `NotifyParent`, `Exit`, `PushFrame`, `Dispatch`, `Deliver`) gives
what it preserves and what it may change of its own task and of others. A lemma
classifies every step as a step of one task's own, a fork, a reap or a key. The
invariant, the two action properties and the refinement follow from that
classification.

### Terminal and keyboard

For every ring size from 2 up, any number of keys, every screen of two columns or
more, every tab width,
every boot message and line size. `RingInv` says that a reader between two
accesses of `keyboard_getchar` sees a ring that is not empty and holds the byte
and the index it has read: IRQ1 moves only the other index. A program inside may
be joined by the shell, which never sleeps; `RingInv` says this of the time before
that happens (`prog.raced`), and of types also afterwards. The
refinement maps the slots between the two indices to the queue, and shows that
IRQ1 appends or drops, that the store of the read index removes the head, and
that every other step before a race leaves the queue alone.

`CursorInv` bounds the cursor by the step PID 0 has reached: the cursor may stand
behind the last column or below the last row, but not both. `EditInv` relates what
is left of an erase sequence or an echo to the cells that are already on the
screen, as long as nobody else has written; `LineShown` is what remains of it when
nothing is left to write. Lines of every length are covered, also those longer
than a row or than the screen.

### Kernel heap

For every page size, tag size, arena and index size and set of request sizes, if
a page holds a header and a smallest block (`Page >= HeaderSize + MinHole`; the
kernel has 4096 against 12 and 20). `IInv` says that the blocks tile the arena,
that no two holes touch, that the index is the list of the holes in order, that
used blocks and allocations correspond, and, for an alloc in progress, what its
expansions have bought: the last block is a hole that has grown by a page, and by
the size asked for, each time. None of the properties is inductive alone: that freeing finds
the right neighbours needs the tiling, that merging two neighbours is enough
needs the absence of adjacent holes before, that two expansions suffice needs
both and the exact index. The proof treats splitting, appending and merging as
replacements of blocks by blocks over the same addresses, and shows the index
lemmas (`Unlist`, `InsertHole`) once.

Blocks may become too small only in the way `kheap_tiny_hole` shows; the model
stops there with `panic = "malformed"`, and tiling and coalescing are stated
for a heap that has not panicked.

### ELF check and address spaces

`ValidateElfExact` is about all headers, of any number, with fields of a machine
word: no sum that `validate_elf` computes wraps around without being noticed, and
nothing loadable is refused. It rests on lemmas about `AlignDown`, `AlignUp` and
ranges that overlap in the last or first byte of a page.

`AddressSpaceProofs` holds for every number of frames, pages, processes, every
set of files and of sbrk increments. Besides the layout of the address space,
`SpaceAssumption` says that boot found frames for the stack of PID 1 (the kernel
would have stopped before the first step). `IInv` adds to the properties: a free
process has no pages; a heap's bounds are whole pages; between `heap_start` and
the limit a page is present exactly below `heap_mapped_end`, and writable; the
stack is there; PIDs from `next_pid` on are free; the heap blocks held are those
of the processes. It is needed because fork, sbrk and execve trust each other's
bookkeeping: sbrk maps pages without looking whether they are present, and would
leak their frames if they were.

First, `Assign` gives pairwise different free frames whenever there are enough
(the n-th page gets the n-th free frame; by the least number principle of the
library). Then one lemma, `ReplaceIInv`,
says when replacing one process keeps `IInv`, and each call is shown to be such a
replacement, a panic, or a step that changes neither processes nor frames. The
action properties follow from the same case distinction: an owned frame is not
written, because what an allocation writes was free before.

### Files and shell

For every set of archives, paths, offsets and counts, every number of processes,
descriptors, nodes and path components, every word size and every name length.
Five assumptions describe the inputs:

- `ArchivesAssumption`: a file's length is at most `SeekMax`. An archive that
  fits below the user region at 4 MiB has no longer ones; `SeekMax` is 2 GiB - 1.
- `NameBytesAssumption`: a name that fits in a header has no more than
  `MaxComponents` components, so make_initrd never packs a file that is too deep
  for the kernel (63 bytes hold at most 32 one-byte components).
- `PathsAssumption`, `ShellAssumption`: paths are names between slashes, none of
  them empty; cat reads at least a byte at a time.
- `CountsAssumption`: counts are unsigned.

`WellFormed` says the tree invariant on the tree alone (an older parent for every
node, the lists of children in step with the parents, names unique in a
directory). `FilesOf` ties a node to its header. `ProcInv` and `PidInv` say it of
processes: a living one works in a directory and keeps its standard streams, a
dead one holds nothing, PIDs beyond `next_pid` are free. `ShInv` says what a
command has done when it is between two calls: `Listing`, that every entry
present at the start has been printed or is still to come, also when a mkdir has
pushed the list back; `CatInv`, that the descriptor is behind exactly the bytes
printed; `ChildInv`, that the shell's only child is the one it waits for. These
are `IInv`. None of the properties is inductive alone: that a listing is
complete needs that mkdir only pushes at the front, that cat prints the file
needs that nobody else holds its descriptor, and a clean prompt needs that only
the shell reaps its child, and that a fork of a program makes no child of the
shell.

`PlacedInv` is about the archive: after a panic it was not `Mountable`, and once
the system is up each file is at its path (`Filled`). To show it, `Contents`
describes the tree after each name of each header: its regular files are the
files added so far, its directories are `/dev` and the proper prefixes of their
names. So an ASSERT fails only where one name is a prefix of another or is
`dev`, and the panic is exact in both directions. mkdir adds a node and moves none, so
the files stay where they are.

The operators of `FileTree` and `Initrd` walk along names, parents or headers,
and what a walk computes is an induction over its steps. The library's induction
theorems take an operator as a parameter, which the provers cannot instantiate.
`FileTreeProofs` states induction once on sets instead (`Induction`: a set that
contains 0 and with k - 1 also k contains 0 .. n), from the least number
principle, and each use defines its set of good positions. `Iteration` shows that
the recursive functions exist and satisfy their equations, and `StaysIn` that
they stay in their set. On these rest `WalkFollows` (the walk along nodes and
the walk `Follow` along names agree), `PathToInjective` (no two nodes have the same
path) and `GetPathExact`.

### Only model-checked

Every invariant and every action property of the passing runs is a theorem. What
is left to TLC is liveness (`EveryRunnableRuns`, `KillTakesEffect`, `KeysRead`,
`CommandEnds`): it needs fairness and ENABLED, which the provers do not treat.

## Not modelled

- The saved registers in `switch_task`; a tick inside a `switch_task` that was
  entered with interrupts on can save a context into the wrong task.
- Boot up to the mount, descriptor tables, interrupt stubs: sequential set-up,
  whose outcome is the `Init` of the models and whose effect (interrupt gates)
  is their premise.
- Growth of the kernel heap across a 4 MiB boundary, where heap and paging call
  each other; and nodes of the tree that the heap cannot provide.
- Number formatting and colours of the console, word splitting and the printing
  commands of the shell, the register wrappers of the user library, host scripts.
- Null checks of user pointers in the system calls.
- What becomes of the kernel after a program has stored through the kernel
  mappings (`WriteKernel` ends the model).
- An archive that reaches beyond 4 MiB; and the truncated image that
  `make_initrd` leaves when a file disappears between its two passes (it exits
  with an error).

## Plan

1. Done: `Tasks`, `Processes`, `Keyboard`, `KeyQueue`, `KHeap`, `ElfImage`,
   `AddressSpace`, `Console`, `Terminal`, `FileTree`, `Initrd`, `Files`, `Shell`,
   and the proofs of all their safety properties.
2. Left: `Switch`, the instructions of `switch_task` with saved contexts, which
   would cover the tick inside a switch entered with interrupts on.
