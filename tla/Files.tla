-------------------------------- MODULE Files -------------------------------
(***************************************************************************)
(* Files as processes see them: the working directory and the descriptor   *)
(* table in each task_t, and the file services of syscall.c over the node  *)
(* tree.  Every service runs with interrupts off, so a call is one step.   *)
(* A call that fails changes nothing and is no step; its result is an      *)
(* operator (OpenResult, ...) that the properties evaluate.                *)
(*                                                                         *)
(* PID 1 makes no file call and is left out.  PID 2 is the shell, module   *)
(* Shell; the others are programs that make any call in any order.         *)
(***************************************************************************)
EXTENDS Initrd

CONSTANTS
  Archives,     \* the archives tried: sequences of [name, length]
  Explored,     \* those among them on which user processes are explored (a bound)
  Paths,        \* paths that programs pass to the kernel
  Probes,       \* paths with which the properties try the lookups
  ShellPath,    \* "/bin/shell"
  MaxFds,       \* MAX_FILE_DESCRIPTORS: 16
  SeekMax,      \* 0x7FFFFFFF, the largest s32int
  Offsets,      \* offsets passed to lseek
  Counts,       \* counts passed to read
  MaxPid,       \* bound: processes ever created
  MaxNodes,     \* bound: nodes of the tree
  MaxOpen       \* bound: open files in all processes, when a program adds to them

\* The archive lies in memory below the user region, so no file is near 2 GiB.
ASSUME ArchivesAssumption ==
  Archives \subseteq Seq([name : Seq(STRING \ {Long}), length : 0 .. SeekMax])
ASSUME PathsAssumption ==
  Paths \cup Probes \subseteq PathStrings /\ ShellPath \in PathStrings
ASSUME CountsAssumption == Counts \subseteq Nat
ASSUME FdsAssumption  == MaxFds \in Nat /\ MaxFds >= 3
ASSUME SeekAssumption == SeekMax \in Nat /\ Offsets \subseteq -(SeekMax + 1) .. SeekMax
ASSUME PidAssumption  == MaxPid \in Nat /\ MaxPid >= 2

VARIABLES
  headers,   \* the archive that make_initrd wrote
  phase,     \* "boot", "up", or "panic" after a failed ASSERT
  tree,      \* the nodes
  proc,      \* proc[p]: state, parent_id, image, working_directory, descriptors
  next_pid

fileVars == <<headers, phase, tree, proc, next_pid>>

Mother == 1
Shell  == 2
Pids   == 2 .. MaxPid
Fds    == 0 .. MaxFds - 1

(* errno.h *)
ENOENT == 2
EBADF  == 9
EISDIR == 21
EINVAL == 22
EMFILE == 24
ESPIPE == 29
EROFS  == 30

-----------------------------------------------------------------------------
(* task.c: the descriptor table. *)

FreeFd == [kind |-> "free", node |-> Null, offset |-> 0]

StandardDescriptors ==
  [fd \in Fds |-> [FreeFd EXCEPT !.kind = IF fd = 0 THEN "keyboard"
                                          ELSE IF fd <= 2 THEN "console" ELSE "free"]]

\* task_get_descriptor() returns one.
Valid(p, fd) == fd \in Fds /\ proc[p].fds[fd].kind # "free"

NodeFd(p, fd) == Valid(p, fd) /\ proc[p].fds[fd].kind = "node"

FreeProc ==
  [state |-> "free", parent |-> 0, image |-> "none", cwd |-> Null,
   fds |-> [fd \in Fds |-> FreeFd]]

-----------------------------------------------------------------------------
(* Boot: mount the archive, then PID 0 -> PID 1 -> PID 2, which inherit the *)
(* standard descriptors and the root as working directory.  PID 2 execs     *)
(* /bin/shell; when it is not there or is no ELF32 program, it exits.       *)

Init ==
  /\ \E files \in Archives : MakeInitrdAccepts(files) /\ headers = Headers(files)
  /\ phase = "boot" /\ tree = <<>> /\ next_pid = 2
  /\ proc = [p \in Pids |-> FreeProc]

Boot ==
  LET mounted == InitialiseInitrd(headers, ImageEnd(headers)) IN
  /\ phase = "boot"
  /\ tree' = mounted.tree
  /\ IF mounted.ok
     THEN /\ phase' = "up" /\ next_pid' = 3
          /\ \/ /\ IsFile(mounted.tree, ResolvePath(mounted.tree, Root, ShellPath))
                /\ proc' = [proc EXCEPT ![Shell] =
                     [state |-> "alive", parent |-> Mother, image |-> "shell", cwd |-> Root,
                      fds |-> StandardDescriptors]]
             \/ proc' = [proc EXCEPT ![Shell] =
                  [FreeProc EXCEPT !.state = "zombie", !.parent = Mother]]
     ELSE phase' = "panic" /\ UNCHANGED <<proc, next_pid>>
  /\ UNCHANGED headers

ExploredHeaders == {Headers(files) : files \in Explored}

Alive(p) == phase = "up" /\ headers \in ExploredHeaders /\ proc[p].state = "alive"

Lookup(p, path) == ResolvePath(tree, proc[p].cwd, path)
-----------------------------------------------------------------------------
(* open, close, read, lseek *)

FreeFds(p) == {fd \in 3 .. MaxFds - 1 : proc[p].fds[fd].kind = "free"}

\* service_open()
OpenResult(p, path) ==
  LET node == Lookup(p, path) IN
  IF node = Null THEN -ENOENT
  ELSE IF IsDir(tree, node) THEN -EISDIR
  ELSE IF FreeFds(p) = {} THEN -EMFILE ELSE Min(FreeFds(p))

(* The Bug_ definitions are seeded defects, see Tasks. *)
Bug_OpenKeepsOffset(p, path) ==
  /\ Alive(p) /\ OpenResult(p, path) >= 0
  /\ proc' = [proc EXCEPT ![p].fds[OpenResult(p, path)] =
                [kind |-> "node", node |-> Lookup(p, path), offset |-> 1]]
  /\ UNCHANGED <<headers, phase, tree, next_pid>>

\* task_open_descriptor() takes the lowest free descriptor.
Open(p, path) ==
  /\ Alive(p) /\ OpenResult(p, path) >= 0
  /\ proc' = [proc EXCEPT ![p].fds[OpenResult(p, path)] =
                [kind |-> "node", node |-> Lookup(p, path), offset |-> 0]]
  /\ UNCHANGED <<headers, phase, tree, next_pid>>

\* task_close_descriptor(): the standard streams stay.
Close(p, fd) ==
  /\ Alive(p) /\ fd >= 3 /\ Valid(p, fd)
  /\ proc' = [proc EXCEPT ![p].fds[fd] = FreeFd]
  /\ UNCHANGED <<headers, phase, tree, next_pid>>

\* The bytes that service_fd_read() copies from a file.
ReadBytes(p, fd, count) ==
  LET d == proc[p].fds[fd]
  IN InitrdRead(headers[tree[d.node].inode], d.offset, count)

Read(p, fd, count) ==
  /\ Alive(p) /\ NodeFd(p, fd)
  /\ proc' = [proc EXCEPT ![p].fds[fd].offset = @ + Len(ReadBytes(p, fd, count))]
  /\ UNCHANGED <<headers, phase, tree, next_pid>>

\* Two's complement, as in (int)result.
AsInt(word) == IF word > SeekMax THEN word - 2 * (SeekMax + 1) ELSE word

SeekBase(d, origin) ==
  IF origin = 0 THEN 0 ELSE IF origin = 1 THEN d.offset ELSE tree[d.node].length

Bug_SeekTargetUnchecked(d, offset, origin) ==
  LET base == SeekBase(d, origin) IN
  IF origin \notin 0 .. 2 \/ -offset > base THEN -1 ELSE base + offset

\* task_seek_descriptor(): -1, or the new offset as the int it returns.
SeekTarget(d, offset, origin) ==
  LET base == SeekBase(d, origin) IN
  IF origin \notin 0 .. 2 THEN -1
  ELSE IF offset >= 0
  THEN IF base > SeekMax \/ offset > SeekMax - base THEN -1 ELSE AsInt(base + offset)
  ELSE IF -offset > base THEN -1 ELSE AsInt(base - (-offset))

\* service_lseek()
LseekResult(p, fd, offset, origin) ==
  LET target == SeekTarget(proc[p].fds[fd], offset, origin) IN
  IF ~Valid(p, fd) THEN -EBADF
  ELSE IF ~NodeFd(p, fd) THEN -ESPIPE
  ELSE IF target < 0 THEN -EINVAL ELSE target

Lseek(p, fd, offset, origin) ==
  /\ Alive(p) /\ LseekResult(p, fd, offset, origin) >= 0
  /\ proc' = [proc EXCEPT ![p].fds[fd].offset = LseekResult(p, fd, offset, origin)]
  /\ UNCHANGED <<headers, phase, tree, next_pid>>

-----------------------------------------------------------------------------
(* Directories *)

Bug_ChdirResultAny(p, path) == IF Lookup(p, path) # Null THEN 0 ELSE -1

\* service_chdir()
ChdirResult(p, path) == IF IsDir(tree, Lookup(p, path)) THEN 0 ELSE -1

Chdir(p, path) ==
  /\ Alive(p) /\ ChdirResult(p, path) = 0
  /\ proc' = [proc EXCEPT ![p].cwd = Lookup(p, path)]
  /\ UNCHANGED <<headers, phase, tree, next_pid>>

\* The kernel has no limit of its own: MaxNodes bounds the model.
Mkdir(p, path) ==
  /\ Alive(p) /\ Len(tree) < MaxNodes
  /\ tree' = MkdirPath(tree, proc[p].cwd, path) /\ tree' # tree
  /\ UNCHANGED <<headers, phase, proc, next_pid>>

-----------------------------------------------------------------------------
(* Calls that change nothing: their results. *)

\* fill_file_status() of a node.
NodeStatus(node) ==
  [type |-> tree[node].type, size |-> tree[node].length, inode |-> tree[node].inode]

Failure(errno) == [type |-> "error", size |-> 0, inode |-> errno]

\* service_stat()
StatResult(p, path) ==
  IF Lookup(p, path) = Null THEN Failure(ENOENT) ELSE NodeStatus(Lookup(p, path))

\* service_fstat()
FstatResult(p, fd) ==
  IF ~Valid(p, fd) THEN Failure(EBADF)
  ELSE IF NodeFd(p, fd) THEN NodeStatus(proc[p].fds[fd].node)
  ELSE [type |-> "character", size |-> 0, inode |-> 0]

\* service_isatty(): 1 or 0, or an error.
IsattyResult(p, fd) ==
  IF Valid(p, fd) THEN (IF NodeFd(p, fd) THEN 0 ELSE 1) ELSE -EBADF

\* service_fd_write() of count > 0 bytes: console, or an error.
WriteResult(p, fd, count) ==
  IF ~Valid(p, fd) THEN -EBADF
  ELSE IF proc[p].fds[fd].kind = "console" THEN count
  ELSE IF NodeFd(p, fd) THEN -EROFS ELSE -EBADF

\* service_readfile(): as much of the file as the buffer holds, or -1.
ReadfileResult(p, path, capacity) ==
  IF capacity = 0 \/ ~IsFile(tree, Lookup(p, path)) THEN -1
  ELSE LET node == Lookup(p, path) IN
       Len(InitrdRead(headers[tree[node].inode], 0,
                      Min({tree[node].length, capacity})))

\* newlib_result(): -1 with errno for a negative result of the kernel.
NewlibResult(result) ==
  IF result < 0 THEN [ret |-> -1, errno |-> -result] ELSE [ret |-> result, errno |-> 0]

-----------------------------------------------------------------------------
(* Processes *)

\* task_fork_from_frame(): the descriptors are copied, offsets and all.
Fork(p, image) ==
  /\ Alive(p) /\ next_pid <= MaxPid
  /\ proc' = [proc EXCEPT ![next_pid] = [proc[p] EXCEPT !.parent = p, !.image = image]]
  /\ next_pid' = next_pid + 1
  /\ UNCHANGED <<headers, phase, tree>>

Bug_ExitedKeepsFds(p) ==
  [FreeProc EXCEPT !.state = "zombie", !.parent = proc[p].parent, !.fds = proc[p].fds]

\* task_exit() releases the descriptors; a zombie's directory and image are not used again.
Exited(p) == [FreeProc EXCEPT !.state = "zombie", !.parent = proc[p].parent]

Exit(p) ==
  /\ Alive(p)
  /\ proc' = [proc EXCEPT ![p] = Exited(p)]
  /\ UNCHANGED <<headers, phase, tree, next_pid>>

Bug_WaitpidNever(p, child) == FALSE

\* task_waitpid() returns the child: it is ours and dead.
WaitpidSucceeds(p, child) ==
  proc[child].parent = p /\ proc[child].state = "zombie"

Reap(p, child) ==
  /\ Alive(p) /\ WaitpidSucceeds(p, child)
  /\ proc' = [proc EXCEPT ![child] = FreeProc]
  /\ UNCHANGED <<headers, phase, tree, next_pid>>

OpenFiles(p) == Cardinality({fd \in Fds : NodeFd(p, fd)})

\* The bound MaxOpen lets p add n open files.
MayAdd(n) == SumFunction([p \in Pids |-> OpenFiles(p)]) + n <= MaxOpen

\* Any file or process call of a program.
ProgramCall(p) ==
  /\ proc[p].image = "program"
  /\ \/ \E path \in Paths : \/ MayAdd(1) /\ Open(p, path)
                            \/ Chdir(p, path) \/ Mkdir(p, path)
     \/ \E fd \in Fds : \/ Close(p, fd)
                        \/ \E count \in Counts : Read(p, fd, count)
                        \/ \E offset \in Offsets, origin \in 0 .. 2 :
                             Lseek(p, fd, offset, origin)
     \/ MayAdd(OpenFiles(p)) /\ Fork(p, "program")
     \/ Exit(p)
     \/ \E child \in Pids : Reap(p, child)

-----------------------------------------------------------------------------
Descriptors ==
  [kind : {"free", "keyboard", "console", "node"}, node : 0 .. Len(tree), offset : 0 .. SeekMax]

FilesTypeOK ==
  /\ phase \in {"boot", "up", "panic"}
  /\ \A n \in 1 .. Len(tree) :
       /\ tree[n].type \in {"directory", "regular"} /\ tree[n].parent \in 0 .. Len(tree)
       /\ tree[n].length \in 0 .. SeekMax /\ tree[n].inode \in 0 .. Len(headers)
       /\ Range(tree[n].kids) \subseteq 1 .. Len(tree)
  /\ next_pid \in 2 .. MaxPid + 1
  /\ proc \in [Pids -> [state : {"free", "alive", "zombie"}, parent : 0 .. MaxPid,
                        image : {"none", "shell", "child", "program"},
                        cwd : 0 .. Len(tree), fds : [Fds -> Descriptors]]]

(***************************************************************************)
(* The pointers of initrd.c form a tree: each node but the root is once in *)
(* the list of its parent, an older directory, and in no other list; names *)
(* are unique in a directory.  mkdir keeps it so after boot.               *)
(***************************************************************************)
TreeWellFormed ==
  phase = "up" =>
    /\ tree[Root].parent = Null /\ IsDir(tree, Root)
    /\ \A n \in 2 .. Len(tree) :
         /\ tree[n].parent \in 1 .. n - 1 /\ IsDir(tree, tree[n].parent)
         /\ n \in Range(tree[tree[n].parent].kids)
         /\ tree[n].name \notin {Dot, DotDot, Empty, Long}
    /\ \A d \in 1 .. Len(tree) :
         LET kids == tree[d].kids IN
         /\ IsInjective([i \in 1 .. Len(kids) |-> tree[kids[i]].name])
         /\ \A k \in Range(kids) : tree[k].parent = d

(***************************************************************************)
(* resolve_path_fs() finds the node that the names of the path lead to,    *)
(* from every directory, and nothing when there is none.                   *)
(***************************************************************************)
LookupExact ==
  phase = "up" =>
    LET pathTo == PathTo(tree)
        paths == Range(pathTo)
    IN \A cwd \in 1 .. Len(tree), path \in Probes :
         IsDir(tree, cwd) =>
           LET node == ResolvePath(tree, cwd, path)
               names == Follow(paths, IF path.abs THEN <<>> ELSE pathTo[cwd],
                               path.names)[Len(path.names)]
           IN IF node = Null THEN names = Fails ELSE pathTo[node] = names

(***************************************************************************)
(* getcwd() gives the path that leads back to the directory, and fails     *)
(* only for a directory deeper than 32 levels, which mkdir can create, or  *)
(* for a buffer too small to hold it.                                      *)
(***************************************************************************)
GetcwdExact ==
  phase = "up" =>
    LET pathTo == PathTo(tree) IN
    \A n \in 1 .. Len(tree), capacity \in 2 .. PathBytes(MaxComponents) :
      LET path == GetPath(tree, n, capacity)
          depth == Len(pathTo[n])
      IN IF depth > MaxComponents \/ PathBytes(depth) > capacity
         THEN path = NoPath
         ELSE path.abs /\ ResolvePath(tree, Root, path) = n

(***************************************************************************)
(* A living process works in a directory and keeps its standard streams;   *)
(* every other descriptor is free or names a regular file at an offset     *)
(* that an int can report.  A dead process holds no descriptor.            *)
(***************************************************************************)
DescriptorsConsistent ==
  \A p \in Pids :
    IF proc[p].state = "alive"
    THEN /\ IsDir(tree, proc[p].cwd)
         /\ \A fd \in 0 .. 2 : proc[p].fds[fd] = StandardDescriptors[fd]
         /\ \A fd \in 3 .. MaxFds - 1 :
              LET d == proc[p].fds[fd] IN
              \/ d = FreeFd
              \/ d.kind = "node" /\ IsFile(tree, d.node) /\ d.offset \in 0 .. SeekMax
    ELSE \A fd \in Fds : proc[p].fds[fd] = FreeFd

(***************************************************************************)
(* lseek() computes base + offset exactly and refuses what an int cannot   *)
(* report, INT_MIN included; so newlib_result() never takes a position for *)
(* an error or an error for a position.                                    *)
(***************************************************************************)
LseekExact ==
  \A p \in Pids, fd \in 3 .. MaxFds - 1, offset \in Offsets, origin \in 0 .. 3 :
    proc[p].state = "alive" /\ NodeFd(p, fd) =>
      LET target == IF origin = 3 THEN -1 ELSE SeekBase(proc[p].fds[fd], origin) + offset
          got == NewlibResult(LseekResult(p, fd, offset, origin))
      IN IF target \in 0 .. SeekMax THEN got = [ret |-> target, errno |-> 0]
         ELSE got = [ret |-> -1, errno |-> EINVAL]

(***************************************************************************)
(* The services that look at a path or a descriptor agree on what it is:   *)
(* stat, open, chdir and readfile on a path, with any size of buffer;      *)
(* fstat, isatty, lseek and write on a descriptor.  mkdir, which walks a   *)
(* path on its own, succeeds only where stat finds nothing, and stat then  *)
(* finds the new directory there.                                          *)
(***************************************************************************)
CallsAgree ==
  \A p \in Pids : proc[p].state = "alive" =>
    /\ \A path \in Paths :
         LET status == StatResult(p, path)
             opened == OpenResult(p, path)
             made == MkdirPath(tree, proc[p].cwd, path)
         IN /\ (status.type = "directory") = (opened = -EISDIR)
            /\ (status.type = "directory") = (ChdirResult(p, path) = 0)
            /\ (status.type = "regular") = (opened \in Fds \cup {-EMFILE})
            /\ \A capacity \in 0 .. SeekMax :
                 ReadfileResult(p, path, capacity) =
                   IF status.type = "regular" /\ capacity > 0
                   THEN Min({status.size, capacity}) ELSE -1
            /\ made # tree =>
                 /\ status.type = "error" /\ Len(made) = Len(tree) + 1
                 /\ ResolvePath(made, proc[p].cwd, path) = Len(made)
                 /\ IsDir(made, Len(made))
    /\ \A fd \in 0 .. MaxFds :
         LET status == FstatResult(p, fd)
             end == LseekResult(p, fd, 0, 2)
         IN /\ (status.type = "character") = (IsattyResult(p, fd) = 1)
            /\ (status.type = "character") = (end = -ESPIPE)
            /\ status.type = "regular" =>
                 end = status.size /\ WriteResult(p, fd, 1) = -EROFS
            /\ status.type = "error" => WriteResult(p, fd, 1) = -EBADF

\* What reads of a file give, whatever their offset and size.
BytesRead(header) ==
  UNION {Range(InitrdRead(header, offset, size)) : offset, size \in 0 .. SeekMax}

(***************************************************************************)
(* The kernel mounts exactly the archives that a tree can hold.  Once      *)
(* mounted, each file is at its path, and reads of any size at any offset, *)
(* across and past its end too, give its own bytes and no others.          *)
(* make_initrd packs more than these: an archive with a and a/b, or with   *)
(* a file dev, fails an ASSERT at boot.                                    *)
(***************************************************************************)
BootExact ==
  /\ phase = "panic" => ~Mountable(headers)
  /\ phase = "up" =>
       /\ Mountable(headers)
       /\ \A i \in 1 .. Len(headers) :
            LET node == ResolvePath(tree, Root, [abs |-> TRUE, names |-> headers[i].name])
                Bytes(k) == BytesRead(headers[k])
            IN /\ IsFile(tree, node) /\ tree[node].inode = i
               /\ Cardinality(Bytes(i)) = headers[i].length
               /\ Bytes(i) \subseteq 0 .. ImageEnd(headers) - 1
               /\ \A j \in 1 .. Len(headers) : i # j => Bytes(i) \cap Bytes(j) = {}
=============================================================================
