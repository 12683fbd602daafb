-------------------------------- MODULE Shell -------------------------------
(***************************************************************************)
(* /bin/shell (user/programs/shell.c) and the programs it starts, over the *)
(* file services of Files.  A command is cut at its system calls, between  *)
(* which other processes run: an orphan left by an earlier program may     *)
(* change the tree while ls or cat is at work.  Any process can be killed  *)
(* by a signal at any time.                                                *)
(***************************************************************************)
EXTENDS Files

CONSTANTS
  CatCount,      \* bytes per read of cat: SHELL_FILE_BUFFER_SIZE - 1
  ShellPaths     \* paths typed at the prompt

ASSUME ShellAssumption == CatCount \in Nat \ {0} /\ ShellPaths \subseteq PathStrings

VARIABLES
  sh     \* the shell's place in a command and its locals; see Idle

vars == <<fileVars, sh>>

Idle ==
  [pc      |-> "prompt",  \* "ls", "cat", "close", "wait"; "gone" without a shell
   listed  |-> <<>>,      \* ls: nodes printed; their number is the index
   present |-> {},        \* ls: children of the directory when it began
   fd      |-> 0,         \* cat: its descriptor
   out     |-> <<>>,      \* cat: bytes printed
   file    |-> Null,      \* cat: the file
   child   |-> 0,         \* run: the PID fork returned
   path    |-> NoPath]    \* run: the child's argv[0]

ShInit == Init /\ sh = Idle

\* Boot, which may leave the machine without a shell.
StartShell ==
  Boot /\ sh' = IF proc'[Shell].state = "zombie" THEN [Idle EXCEPT !.pc = "gone"] ELSE sh

At(pc) == sh.pc = pc /\ Alive(Shell)

Here == tree[proc[Shell].cwd].kids

-----------------------------------------------------------------------------
(* Commands of one call: cd, mkdir, exec.  A failing command prints a line. *)

CommandCd(path) == At("prompt") /\ Chdir(Shell, path) /\ UNCHANGED sh

CommandMkdir(path) == At("prompt") /\ Mkdir(Shell, path) /\ UNCHANGED sh

\* The file may or may not be an ELF32 program; only one that is replaces the image.
CommandExec(path) ==
  /\ At("prompt") /\ IsFile(tree, Lookup(Shell, path))
  /\ proc' = [proc EXCEPT ![Shell].image = "program"]
  /\ sh' = [Idle EXCEPT !.pc = "gone"]
  /\ UNCHANGED <<headers, phase, tree, next_pid>>

-----------------------------------------------------------------------------
(* ls: readdir_name(0), readdir_name(1), ... until one returns 0. *)

CommandLs ==
  /\ At("prompt")
  /\ sh' = [Idle EXCEPT !.pc = "ls", !.present = Range(Here)]
  /\ UNCHANGED fileVars

LsEntry == ReadDir(tree, proc[Shell].cwd, Len(sh.listed))

LsNext ==
  /\ At("ls")
  /\ sh' = IF LsEntry = Null THEN Idle ELSE [sh EXCEPT !.listed = Append(@, LsEntry)]
  /\ UNCHANGED fileVars

-----------------------------------------------------------------------------
(* cat: open, read until nothing more comes, close. *)

CommandCat(path) ==
  /\ At("prompt") /\ Open(Shell, path)
  /\ sh' = [Idle EXCEPT !.pc = "cat", !.fd = OpenResult(Shell, path),
                        !.file = Lookup(Shell, path)]

CatRead ==
  LET bytes == ReadBytes(Shell, sh.fd, CatCount) IN
  /\ At("cat") /\ Read(Shell, sh.fd, CatCount)
  /\ sh' = IF bytes = <<>> THEN [sh EXCEPT !.pc = "close"]
           ELSE [sh EXCEPT !.out = @ \o bytes]

CatClose == At("close") /\ Close(Shell, sh.fd) /\ sh' = Idle

-----------------------------------------------------------------------------
(* run: fork; the child execs or exits with 127; the shell polls waitpid.   *)

CommandRun(path) ==
  /\ At("prompt") /\ Fork(Shell, "child")
  /\ sh' = [Idle EXCEPT !.pc = "wait", !.child = next_pid, !.path = path]

ChildExecs(p) ==
  /\ Alive(p) /\ proc[p].image = "child" /\ IsFile(tree, Lookup(p, sh.path))
  /\ proc' = [proc EXCEPT ![p].image = "program"]
  /\ sh' = [sh EXCEPT !.path = NoPath]
  /\ UNCHANGED <<headers, phase, tree, next_pid>>

ChildFails(p) ==
  proc[p].image = "child" /\ Exit(p) /\ sh' = [sh EXCEPT !.path = NoPath]

(* The Bug_ definitions are seeded defects, see Tasks. *)
Bug_WaitChildOnce == At("wait") /\ UNCHANGED fileVars /\ sh' = Idle

WaitChild == At("wait") /\ Reap(Shell, sh.child) /\ sh' = Idle

-----------------------------------------------------------------------------
\* A signal whose default action ends the process.
Killed(p) ==
  /\ Exit(p)
  /\ sh' = IF p = Shell THEN [Idle EXCEPT !.pc = "gone", !.path = sh.path]
           ELSE IF proc[p].image = "child" THEN [sh EXCEPT !.path = NoPath] ELSE sh

Command(path) ==
  \/ CommandCd(path) \/ CommandMkdir(path) \/ CommandExec(path)
  \/ CommandCat(path) \/ CommandRun(path)

ShellStep == LsNext \/ CatRead \/ CatClose \/ WaitChild

Next ==
  \/ StartShell
  \/ CommandLs
  \/ \E path \in ShellPaths : Command(path)
  \/ ShellStep
  \/ \E p \in Pids : \/ ChildExecs(p) \/ ChildFails(p) \/ Killed(p)
                     \/ ProgramCall(p) /\ UNCHANGED sh

Spec == ShInit /\ [][Next]_vars /\ WF_vars(ShellStep)

-----------------------------------------------------------------------------
TypeOK ==
  /\ FilesTypeOK
  /\ sh.pc \in {"prompt", "ls", "cat", "close", "wait", "gone"}
  /\ sh.fd \in Fds /\ sh.child \in Pids \cup {0} /\ sh.file \in 0 .. Len(tree)

(***************************************************************************)
(* ls prints every entry that was there when it began, whatever mkdirs run *)
(* between its calls.  New entries go to the front of the list, so an old  *)
(* one may be printed again, but no more often than directories were made. *)
(***************************************************************************)
ListingComplete ==
  sh.pc = "ls" /\ LsEntry = Null =>
    /\ sh.present \subseteq Range(sh.listed)
    /\ Len(sh.listed) - Cardinality(Range(sh.listed)) <= Len(Here) - Cardinality(sh.present)

(***************************************************************************)
(* cat prints the bytes of its file, in order, each once, and all of them  *)
(* before it closes.                                                       *)
(***************************************************************************)
CatPrintsFile ==
  sh.pc \in {"cat", "close"} =>
    LET header == headers[tree[sh.file].inode]
        whole == [k \in 1 .. header.length |-> header.offset + k - 1]
    IN IF sh.pc = "cat" THEN IsPrefix(sh.out, whole) ELSE sh.out = whole

(***************************************************************************)
(* Back at the prompt the shell has no child, alive or dead, and no open   *)
(* file; while it waits, the child is its own and has not been reaped.     *)
(***************************************************************************)
PromptClean ==
  /\ sh.pc = "prompt" /\ phase = "up" =>
       /\ \A p \in Pids : proc[p].state # "free" => proc[p].parent # Shell
       /\ proc[Shell].fds = StandardDescriptors
  /\ sh.pc = "wait" =>
       proc[sh.child].state # "free" /\ proc[sh.child].parent = Shell

(***************************************************************************)
(* cat ends, and run ends once its child is dead, if the scheduler lets    *)
(* the shell run.  ls ends if at some time no more directories are made:   *)
(* one made between any two of its calls puts an entry it has printed back *)
(* in its way, so that it never comes to the end of the list.              *)
(***************************************************************************)
CommandEnds ==
  /\ sh.pc \in {"cat", "close"} ~> sh.pc \in {"prompt", "gone"}
  /\ <>[][tree' = tree]_vars => (sh.pc = "ls" ~> sh.pc \in {"prompt", "gone"})
  /\ (sh.pc = "wait" /\ proc[sh.child].state = "zombie") ~> sh.pc \in {"prompt", "gone"}
=============================================================================
