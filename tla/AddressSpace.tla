---------------------------- MODULE AddressSpace ----------------------------
(***************************************************************************)
(* Physical frames and the address spaces of processes: the frame bitmap   *)
(* and the page directories of paging.c through fork, execve, sbrk, exit   *)
(* and waitpid (task.c, exec.c).                                           *)
(*                                                                         *)
(* Each call runs with interrupts off and is one action.  A directory is   *)
(* its private part: a function from the user pages that are present to    *)
(* [frame, rw].  The kernel's tables are shared by all directories and     *)
(* hold no user page, but ring 3 may use and, in the kernel heap, write    *)
(* the pages they map (WriteKernel).  Frames are taken lowest first, in    *)
(* page order.                                                             *)
(* Kernel heap blocks (directories, page tables, tasks, kernel stacks) are *)
(* counted; how the heap places them is KHeap.                             *)
(***************************************************************************)
EXTENDS ElfImage, Functions

CONSTANTS
  NFrames,         \* nframes: physical frames
  KernelFrames,    \* frames taken by the kernel and its heap
  PagesPerTable,   \* 1024
  HeapBase,        \* USER_HEAP_START, the heap of PID 1 and of its child
  StackPages,      \* the pages below USER_STACK_TOP
  Files,           \* programs that execve() is called with
  Increments,      \* arguments of sbrk()
  MaxPid           \* bound: the largest PID ever created

ASSUME SpaceAssumption ==
  /\ {NFrames, PagesPerTable, MaxPid} \subseteq Nat \ {0}
  /\ KernelFrames \subseteq 0 .. NFrames - 1
  /\ HeapBase \in Nat /\ HeapBase % PageSize = 0
  /\ ProgramMin <= HeapBase /\ HeapBase < HeapLimit
  /\ StackPages \subseteq HeapLimit \div PageSize .. Word \div PageSize - 1
  /\ StackPages # {}
  /\ Cardinality(StackPages) <= Cardinality((0 .. NFrames - 1) \ KernelFrames)
  /\ Files \subseteq ElfFile
  /\ Increments \subseteq -(Word \div 2) .. Word \div 2 - 1

VARIABLES
  frames,    \* the bitmap: frames in use
  content,   \* content[f]: what frame f holds
  proc,      \* proc[p]: the part of task_t and its directory
  next_pid,
  blocks,    \* kernel heap blocks held for processes
  last,      \* history: who made the last call, and did it succeed
  panic      \* "none", "frames": physical memory ran out, or "overwritten":
             \*  a process has stored into the kernel's memory

vars == <<frames, content, proc, next_pid, blocks, last, panic>>

Pids     == 1 .. MaxPid
Frames   == 0 .. NFrames - 1
Pages    == 0 .. Word \div PageSize - 1
Contents == {"zero", "image", "args", "data"}

\* Below USER_STACK_TOP; argc, argv and the strings fit into one page.
ArgumentPage == CHOOSE pg \in StackPages : \A pg2 \in StackPages : pg2 <= pg

NoProc == [state |-> "free", parent_id |-> 0, pages |-> <<>>,
           heap_start |-> 0, heap_break |-> 0, heap_mapped_end |-> 0]

TableOf(pg) == pg \div PagesPerTable
TablesOf(S) == {TableOf(pg) : pg \in S}

-----------------------------------------------------------------------------
(* The frame bitmap. *)

Rank(x, S) == Cardinality({y \in S : y < x})

\* alloc_frame() for each page of S, while the frames in U are in use.
Assign(S, U) ==
  LET free == Frames \ U
  IN  [pg \in S |-> CHOOSE f \in free : Rank(f, free) = Rank(pg, S)]

OutOfFrames(S, U) == Cardinality(S) > Cardinality(Frames \ U)

FramesOf(pages) == {pages[pg].frame : pg \in DOMAIN pages}

\* What the owner of these pages sees in them.
View(pages, memory) == [pg \in DOMAIN pages |-> memory[pages[pg].frame]]

Panics == panic' = "frames" /\ UNCHANGED <<frames, content, proc, next_pid, blocks>>

Called(p, ok) == last' = [pid |-> p, ok |-> ok]

\* A directory, its tables, the task and its kernel stack.
BlocksFor(S) == 1 + Cardinality(TablesOf(S)) + 2

-----------------------------------------------------------------------------
\* create_initial_user_process(): PID 1 has a zeroed stack and no image.
Init ==
  LET a == Assign(StackPages, KernelFrames)
  IN  /\ frames = KernelFrames \cup Range(a)
      /\ content = [f \in Frames |-> "zero"]
      /\ proc = [p \in Pids |->
           IF p = 1
           THEN [state |-> "runnable", parent_id |-> 0,
                 pages |-> [pg \in StackPages |-> [frame |-> a[pg], rw |-> TRUE]],
                 heap_start |-> HeapBase, heap_break |-> HeapBase,
                 heap_mapped_end |-> HeapBase]
           ELSE NoProc]
      /\ next_pid = 2
      /\ blocks = BlocksFor(StackPages)
      /\ last = [pid |-> 0, ok |-> TRUE]
      /\ panic = "none"

Runs(p) == panic = "none" /\ proc[p].state = "runnable"

\* PID 1 forks PID 2 and then spins; only its death by a signal is left.
Program(p) == Runs(p) /\ p >= 2

(* The Bug_ definitions are seeded defects, see Tasks. *)
Bug_CloneShares(pages, U) == pages

\* clone_directory() and clone_table(): fresh frames, the same access rights.
CloneDirectory(pages, U) ==
  LET a == Assign(DOMAIN pages, U)
  IN  [pg \in DOMAIN pages |-> [frame |-> a[pg], rw |-> pages[pg].rw]]

Fork(p) ==
  /\ Runs(p) /\ (p = 1 => next_pid = 2) /\ next_pid <= MaxPid
  /\ Called(p, TRUE)
  /\ LET old  == proc[p].pages
         copy == CloneDirectory(old, frames)
     IN  IF OutOfFrames(DOMAIN old, frames) THEN Panics
         ELSE /\ frames' = frames \cup FramesOf(copy)
              /\ content' = [f \in Frames |->
                   IF \E pg \in DOMAIN copy : copy[pg].frame = f
                   THEN content[old[CHOOSE pg \in DOMAIN copy : copy[pg].frame = f].frame]
                   ELSE content[f]]
              /\ proc' = [proc EXCEPT ![next_pid] =
                            [proc[p] EXCEPT !.parent_id = p, !.pages = copy]]
              /\ next_pid' = next_pid + 1
              /\ blocks' = blocks + BlocksFor(DOMAIN old)
              /\ panic' = panic

Exit(p) ==
  /\ Runs(p)
  /\ proc' = [proc EXCEPT ![p].state = "zombie"]
  /\ Called(p, TRUE)
  /\ UNCHANGED <<frames, content, next_pid, blocks, panic>>

Bug_DestroyKeepsReadOnly(pages) == {pages[pg].frame : pg \in {x \in DOMAIN pages : pages[x].rw}}

\* destroy_directory(): the frames of the private pages go back to the bitmap.
DestroyDirectory(pages) == FramesOf(pages)

ReapedBlocks(pages) == BlocksFor(DOMAIN pages)

Waitpid(p, c) ==
  /\ Program(p) /\ proc[c].state = "zombie" /\ proc[c].parent_id = p
  /\ frames' = frames \ DestroyDirectory(proc[c].pages)
  /\ blocks' = blocks - ReapedBlocks(proc[c].pages)
  /\ proc' = [proc EXCEPT ![c] = NoProc]
  /\ Called(p, TRUE)
  /\ UNCHANGED <<content, next_pid, panic>>

-----------------------------------------------------------------------------
(* task_sbrk(). *)

\* Where the break would move to, or -1 when the sum wraps around.
Target(old, inc) ==
  IF inc >= 0 THEN IF inc > Word - 1 - old THEN -1 ELSE old + inc
  ELSE LET shrink == (0 - inc) % Word IN IF shrink > old THEN -1 ELSE old - shrink

\* The pages that become necessary.
SbrkPages(t, required) == t.heap_mapped_end \div PageSize .. required \div PageSize - 1

\* get_page() makes an entry, alloc_frame() fills it, user and writable.
AddPages(pages, S, a) ==
  [pg \in S \cup DOMAIN pages |->
     IF pg \in S THEN [frame |-> a[pg], rw |-> TRUE] ELSE pages[pg]]

Bug_MappedEndShrinks(t, required) == required

\* Shrinking unmaps nothing.
MappedEnd(t, required) == IF required > t.heap_mapped_end THEN required ELSE t.heap_mapped_end

Bug_SbrkContent(S, a) == content

\* zero_page_physical() on the frames just taken.
SbrkContent(S, a) == [f \in Frames |-> IF f \in Range(a) THEN "zero" ELSE content[f]]

Bug_SbrkLimit(t, new) == new < t.heap_start

SbrkLimit(t, new) == new < t.heap_start \/ new > HeapLimit

Sbrk(p, inc) ==
  /\ Program(p)
  /\ LET t        == proc[p]
         new      == Target(t.heap_break, inc)
         refused  == new = -1 \/ SbrkLimit(t, new)
         required == AlignUp(new)
         S        == SbrkPages(t, required)
         a        == Assign(S, frames)
     IN  /\ Called(p, ~refused)
         /\ IF refused THEN UNCHANGED <<frames, content, proc, next_pid, blocks, panic>>
            ELSE IF OutOfFrames(S, frames) THEN Panics
            ELSE /\ frames' = frames \cup Range(a)
                 /\ content' = SbrkContent(S, a)
                 /\ proc' = [proc EXCEPT ![p] =
                      [t EXCEPT !.pages = AddPages(t.pages, S, a),
                                !.heap_mapped_end = MappedEnd(t, required),
                                !.heap_break = new]]
                 /\ blocks' = blocks + Cardinality(TablesOf(S) \ TablesOf(DOMAIN t.pages))
                 /\ UNCHANGED <<next_pid, panic>>

-----------------------------------------------------------------------------
(* process_execve(). *)

\* The block of the request is taken first and freed on every way out.
KmallocRequest(held) == held + 1

Bug_KfreeRequest(held) == held

KfreeRequest(held) == held - 1

\* A bad path, arguments or file: nothing has been built yet.
ExecveRefused(p) ==
  /\ Program(p)
  /\ Called(p, FALSE)
  /\ blocks' = KfreeRequest(KmallocRequest(blocks))
  /\ UNCHANGED <<frames, content, proc, next_pid, panic>>

\* The new image: the pages of each segment, and the stack.
NewImage(f, a) ==
  [pg \in ImagePages(f) \cup StackPages |->
     [frame |-> a[pg],
      rw |-> IF pg \in StackPages THEN TRUE ELSE SegmentOf(f, pg).w]]

\* File bytes, the arguments at the top of the stack, zeros elsewhere.
NewContent(f, new) ==
  [fr \in Frames |->
     IF fr \notin FramesOf(new) THEN content[fr]
     ELSE LET pg == CHOOSE pg \in DOMAIN new : new[pg].frame = fr
          IN  IF pg \in ImagePages(f) /\ HasFileBytes(SegmentOf(f, pg), pg)
              THEN "image" ELSE IF pg = ArgumentPage THEN "args" ELSE "zero"]

\* The image leaves room for a heap; otherwise it is thrown away again.
HeapFits(f) == HeapStart(f) < HeapLimit

Bug_AbandonImage(new) == frames \cup FramesOf(new)

\* switch back to the old directory and destroy the new one.
AbandonImage(new) == (frames \cup FramesOf(new)) \ DestroyDirectory(new)

Execve(p, f) ==
  /\ Program(p) /\ ValidateElf(f)
  /\ LET S   == ImagePages(f) \cup StackPages
         new == NewImage(f, Assign(S, frames))
         old == proc[p].pages
         held == KmallocRequest(blocks)
     IN  IF OutOfFrames(S, frames) THEN Panics /\ Called(p, TRUE)
         ELSE /\ content' = NewContent(f, new)
              /\ Called(p, HeapFits(f))
              /\ IF HeapFits(f)
                 THEN /\ proc' = [proc EXCEPT ![p] =
                           [proc[p] EXCEPT !.pages = new, !.heap_start = HeapStart(f),
                                           !.heap_break = HeapStart(f),
                                           !.heap_mapped_end = HeapStart(f)]]
                      /\ frames' = (frames \cup FramesOf(new)) \ DestroyDirectory(old)
                      /\ blocks' = KfreeRequest(held + BlocksFor(S) - BlocksFor(DOMAIN old))
                 ELSE proc' = proc /\ frames' = AbandonImage(new) /\ blocks' = KfreeRequest(held)
              /\ UNCHANGED <<next_pid, panic>>

-----------------------------------------------------------------------------
\* A user program stores to a private page it may write.
Write(p, pg) ==
  /\ Runs(p) /\ pg \in DOMAIN proc[p].pages /\ proc[p].pages[pg].rw
  /\ content' = [content EXCEPT ![proc[p].pages[pg].frame] = "data"]
  /\ Called(p, TRUE)
  /\ UNCHANGED <<frames, proc, next_pid, blocks, panic>>

(***************************************************************************)
(* A store into the kernel's memory, by the program itself or by a call    *)
(* that it gave such a pointer: every directory maps the kernel heap, with *)
(* the page tables and tasks in it, writable for ring 3.  Through them it  *)
(* reaches any page of any process.  The model ends there.                 *)
(***************************************************************************)
WriteKernel(p) ==
  /\ Runs(p)
  /\ \E q \in Pids : \E pg \in DOMAIN proc[q].pages :
       content' = [content EXCEPT ![proc[q].pages[pg].frame] = "data"]
  /\ panic' = "overwritten"
  /\ Called(p, TRUE)
  /\ UNCHANGED <<frames, proc, next_pid, blocks>>

Next ==
  \E p \in Pids :
    \/ Fork(p)
    \/ Exit(p)
    \/ \E c \in Pids : Waitpid(p, c)
    \/ \E inc \in Increments : Sbrk(p, inc)
    \/ ExecveRefused(p)
    \/ \E f \in Files : Execve(p, f)
    \/ \E pg \in Pages : Write(p, pg)
    \/ WriteKernel(p)

Spec == Init /\ [][Next]_vars

-----------------------------------------------------------------------------
\* Page tables name existing frames and pages; heap bounds never pass USER_HEAP_LIMIT.
TypeOK ==
  /\ frames \subseteq Frames
  /\ content \in [Frames -> Contents]
  /\ \A p \in Pids :
       /\ proc[p].state \in {"free", "runnable", "zombie"} /\ proc[p].parent_id \in 0 .. MaxPid
       /\ DOMAIN proc[p].pages \subseteq Pages
       /\ \A pg \in DOMAIN proc[p].pages :
            proc[p].pages[pg] \in [frame : Frames, rw : BOOLEAN]
       /\ {proc[p].heap_start, proc[p].heap_break, proc[p].heap_mapped_end}
            \subseteq 0 .. HeapLimit
  /\ next_pid \in 2 .. MaxPid + 1 /\ blocks \in Nat
  /\ panic \in {"none", "frames", "overwritten"}

(***************************************************************************)
(* The bitmap and the page tables agree after every fork, exec (committed  *)
(* or abandoned), sbrk and reap: a frame is in use exactly when the kernel *)
(* has it or one page of one process maps it, and never two.               *)
(***************************************************************************)
FramesOwnedOnce ==
  LET owners == {o \in Pids \X Pages : o[2] \in DOMAIN proc[o[1]].pages}
      frame(o) == proc[o[1]].pages[o[2]].frame
  IN  /\ frames = KernelFrames \cup {frame(o) : o \in owners}
      /\ \A o \in owners : frame(o) \notin KernelFrames
      /\ \A o, o2 \in owners : o # o2 => frame(o) # frame(o2)

(* The blocks a process holds: its page tables, named by number, its directory, *)
(* its task and its kernel stack.                                               *)
BlocksOf(t) ==
  IF t.state = "free" THEN {} ELSE TablesOf(DOMAIN t.pages) \cup {-1, -2, -3}

(***************************************************************************)
(* Kernel heap blocks are neither leaked nor freed twice: the number held  *)
(* is that of the distinct blocks of the processes that are not free.      *)
(***************************************************************************)
BlocksAccounted ==
  blocks = Cardinality(UNION {{p} \X BlocksOf(proc[p]) : p \in Pids})

(***************************************************************************)
(* The heap of a process is mapped and writable from heap_start to its     *)
(* break, is contiguous, and lies between the image and the stack: no page *)
(* above its mapped end and below the limit is present, so sbrk() never    *)
(* finds one that alloc_frame() would silently keep.                       *)
(***************************************************************************)
HeapMapped ==
  \A p \in Pids : proc[p].state # "free" =>
    LET t == proc[p]
        heap == {pg \in DOMAIN t.pages :
                   t.heap_start <= pg * PageSize /\ pg * PageSize < HeapLimit}
    IN  /\ t.heap_start <= t.heap_break /\ t.heap_break <= t.heap_mapped_end
        /\ heap = t.heap_start \div PageSize .. t.heap_mapped_end \div PageSize - 1
        /\ \A pg \in heap \cup StackPages : pg \in DOMAIN t.pages /\ t.pages[pg].rw

(***************************************************************************)
(* exec.c: "the running image is not destroyed until a complete            *)
(* replacement has been validated, mapped, populated".  A call that        *)
(* returns an error has changed nothing the process, or the frame bitmap,  *)
(* can tell.                                                               *)
(***************************************************************************)
FailedCallsChangeNothing ==
  [][~last'.ok => /\ frames' = frames /\ proc' = proc /\ blocks' = blocks
                  /\ \A p \in Pids :
                       View(proc[p].pages, content') = View(proc[p].pages, content)]_vars

(***************************************************************************)
(* Private pages are private: neither a call of one process nor its stores *)
(* to its own pages change what another sees in its pages.  It is not      *)
(* isolation: syscall.c says that the address space "still exposes kernel  *)
(* mappings to ring 3", and a store through them is the exception.         *)
(***************************************************************************)
PrivatePagesKept ==
  [][panic' = "overwritten" \/
     \A q \in Pids :
       q # last'.pid /\ proc[q].state # "free" /\ proc'[q].state # "free"
         => View(proc'[q].pages, content') = View(proc[q].pages, content)]_vars

(***************************************************************************)
(* No process is given memory with another's data in it: the frames that   *)
(* sbrk and execve give it hold file bytes, below its heap, its own        *)
(* arguments, at the top of its stack, or zeros, whatever their last owner *)
(* or an abandoned image left in them; a forked child sees what its parent *)
(* saw at the fork.                                                        *)
(***************************************************************************)
FreshMemory ==
  [][panic' = "none" =>
     LET p      == last'.pid
         before == View(proc[p].pages, content)
         after  == View(proc'[p].pages, content')
         got    == {pg \in DOMAIN after : pg \notin DOMAIN before
                      \/ proc'[p].pages[pg].frame # proc[p].pages[pg].frame}
     IN  /\ \A pg \in got : \/ after[pg] = "zero"
                            \/ after[pg] = "image" /\ pg * PageSize < proc'[p].heap_start
                            \/ after[pg] = "args" /\ pg = ArgumentPage
         /\ next_pid' # next_pid => View(proc'[next_pid].pages, content') = before]_vars

(***************************************************************************)
(* validate_elf() accepts exactly the programs whose segments lie, byte    *)
(* for byte, inside the user region and the file, share no page, and hold  *)
(* the entry point in an executable one: its unsigned comparisons let no   *)
(* sum wrap around and refuse nothing they should take.  The answer does   *)
(* not depend on the state, so it is compared once, at boot.               *)
(***************************************************************************)
ElfCheckExact ==
  last.pid = 0 => \A f \in Headers : ValidateElf(f) <=> Loadable(f)
=============================================================================
