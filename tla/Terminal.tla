------------------------------ MODULE Terminal ------------------------------
(***************************************************************************)
(* The line editor of the shell (main() of user/programs/shell.c) between  *)
(* the keyboard driver, module Keyboard, and the screen, module Console.   *)
(* Each character goes out in a system call of its own.  The shell reads   *)
(* with getchar, which never sleeps; a program reads with read(0), which   *)
(* may.  The shell waits for the child it runs, not for the child's        *)
(* children: one of these may read and write beside the shell.             *)
(*                                                                         *)
(* A bound: one process besides the shell uses the terminal at a time.     *)
(***************************************************************************)
EXTENDS Keyboard, Console

CONSTANTS
  LineSize,     \* SHELL_LINE_SIZE: 128
  BootText,     \* what PID 0 still has to write when interrupts come on
  MaxWrites     \* bound: characters a program writes

ASSUME LineAssumption == LineSize \in Nat /\ LineSize >= 2
ASSUME ReadersAssumption == {"shell", "program"} \subseteq Readers

VARIABLES
  typed,    \* typed[n]: the kind of character of the n-th key
  tty,      \* the shell; see Prompting
  prog      \* the program; see NoProgram

termVars == <<vars, con, boot, typed, tty, prog>>

ShellReader   == "shell"
ProgramReader == "program"

Text == <<"char", <<MaxKeys + 1, FALSE>>>>      \* a character of a message
Control(kind) == <<kind, NoByte>>
Newline   == Control("nl")
Backspace == Control("bs")

Message   == <<Text, Newline>>      \* print_line()

ASSUME BootTextAssumption == BootText \in Seq({Text, Newline}) \ {<<>>}

\* The shell about to print a prompt.
Prompting ==
  [pc    |-> "prompt",  \* "edit", "exec"; "run" in waitpid(); "gone" without a shell
   out   |-> <<Text>>,  \* characters still to be written
   line  |-> <<>>,      \* line[], length
   shown |-> <<>>,      \* history: line[] and what erasures in column 0 have left in it
   most  |-> 0,         \* history: cells behind the prompt that were written to
   quiet |-> FALSE,     \* history: only the shell has written since the prompt
   edge  |-> FALSE]     \* history: an erasure has begun in column 0

Gone == [Prompting EXCEPT !.pc = "gone", !.out = <<>>]

NoProgram ==
  [alive  |-> FALSE,
   writes |-> 0,        \* characters it has written
   raced  |-> FALSE]    \* history: the shell read while it was inside getchar

TermInit ==
  /\ Init
  /\ con = [mem |-> [i \in Memory |-> Blank], x |-> 0, y |-> 0]
  /\ boot = BootWriting(BootText)
  /\ typed = <<>>
  /\ tty = [Prompting EXCEPT !.out = Message \o @]     \* Welcome
  /\ prog = NoProgram

-----------------------------------------------------------------------------
(* IRQ1.  Bounds: nobody touches the keyboard before PID 0 is done, and      *)
(* shift is pressed and released between the first two keys only.            *)

PressShift ==
  /\ BootAt("halt") /\ keys = 1
  /\ \E down \in BOOLEAN : ShiftKey(down)
  /\ UNCHANGED <<con, boot, typed, tty, prog>>

PressKey ==
  /\ BootAt("halt") /\ PrintableKey
  /\ \E kind \in {"char", "nl", "bs"} : typed' = Append(typed, kind)
  /\ UNCHANGED <<con, boot, tty, prog>>

-----------------------------------------------------------------------------
(* The shell *)

Added(ch) ==
  [tty EXCEPT !.line = Append(@, ch), !.out = <<ch>>, !.shown = Append(@, ch),
              !.most = IF Len(tty.shown) = @ THEN @ + 1 ELSE @]

Erased ==
  [tty EXCEPT !.line = SubSeq(@, 1, Len(@) - 1), !.out = <<Backspace, Blank, Backspace>>,
              !.shown = IF con.x = 0 THEN @ ELSE SubSeq(@, 1, Len(@) - 1),
              !.most = IF con.x = 0 /\ Len(tty.shown) = @ THEN @ + 1 ELSE @,
              !.edge = @ \/ con.x = 0]

(* The Bug_ definitions are seeded defects, see Tasks. *)
Bug_EditNoErase(ch) ==
  CASE ch[1] = "nl" -> [tty EXCEPT !.pc = "exec", !.out = <<Newline>>]
    [] ch[1] = "bs" /\ tty.line # <<>> -> [Erased EXCEPT !.out = <<Backspace>>]
    [] Shown(ch) /\ Len(tty.line) + 1 < LineSize -> Added(ch)
    [] OTHER -> tty

\* What the editor does with a character.
Edit(ch) ==
  CASE ch[1] = "nl" -> [tty EXCEPT !.pc = "exec", !.out = <<Newline>>]
    [] ch[1] = "bs" /\ tty.line # <<>> -> Erased
    [] Shown(ch) /\ Len(tty.line) + 1 < LineSize -> Added(ch)
    [] OTHER -> tty

\* The character in a byte; the zeroed buffer holds '\0', which Edit ignores.
CharOf(byte) == <<IF byte = NoByte THEN "nul" ELSE typed[byte[1]], byte>>

Bug_ShellGetFull ==
  /\ tty.pc = "edit" /\ tty.out = <<>> /\ Len(tty.line) + 1 < LineSize
  /\ GetcharAtomic(ShellReader)
  /\ tty' = Edit(CharOf(input_buffer[read_index]))
  /\ prog' = [prog EXCEPT !.raced = @ \/ pc[ProgramReader] # "out"]
  /\ UNCHANGED <<con, boot, typed>>

\* getchar_nonblocking() and the branches on what it returns.
ShellGet ==
  /\ tty.pc = "edit" /\ tty.out = <<>>
  /\ GetcharAtomic(ShellReader)
  /\ tty' = Edit(CharOf(input_buffer[read_index]))
  /\ prog' = [prog EXCEPT !.raced = @ \/ pc[ProgramReader] # "out"]
  /\ UNCHANGED <<con, boot, typed>>

\* shell_putchar(): after the last one of the prompt the editor starts.
ShellPut ==
  /\ tty.out # <<>>
  /\ con' = Put(con, Head(tty.out))
  /\ tty' = IF tty.pc = "prompt" /\ Len(tty.out) = 1
            THEN [tty EXCEPT !.pc = "edit", !.out = <<>>, !.quiet = BootAt("halt")]
            ELSE [tty EXCEPT !.out = Tail(@)]
  /\ UNCHANGED <<vars, boot, typed, prog>>

AtExec == tty.pc = "exec" /\ tty.out = <<>>

\* A built-in command prints a line or nothing, then the prompt.
ExecBuiltin ==
  /\ AtExec
  /\ \E message \in {<<>>, Message} : tty' = [Prompting EXCEPT !.out = message \o @]
  /\ UNCHANGED <<vars, con, boot, typed, prog>>

\* clear
ExecClear ==
  /\ AtExec
  /\ con' = Clear(con) /\ tty' = Prompting
  /\ UNCHANGED <<vars, boot, typed, prog>>

\* run announces the child, which is running already.
ExecRun ==
  /\ AtExec
  /\ tty' = [Prompting EXCEPT !.pc = "run", !.out = Message]
  /\ prog' = [prog EXCEPT !.alive = TRUE]
  /\ UNCHANGED <<vars, con, boot, typed>>

\* exec: the shell becomes the program.  (ExecBuiltin is its failure.)
ExecExec ==
  /\ AtExec
  /\ tty' = Gone /\ prog' = [prog EXCEPT !.alive = TRUE]
  /\ UNCHANGED <<vars, con, boot, typed>>

\* waitpid() returns, for the child has exited, and the shell reports it.
RunEnds ==
  /\ tty.pc = "run" /\ tty.out = <<>>
  /\ tty' = [Prompting EXCEPT !.out = Message \o @]
  /\ UNCHANGED <<vars, con, boot, typed, prog>>

\* A signal ends the shell: the program's, or its own kill command's.
ShellDies ==
  /\ tty.pc # "gone" /\ (prog.alive \/ AtExec)
  /\ tty' = Gone
  /\ UNCHANGED <<vars, con, boot, typed, prog>>

ShellStep == ShellGet \/ ShellPut \/ ExecBuiltin \/ ExecClear \/ ExecRun \/ ExecExec

-----------------------------------------------------------------------------
(***************************************************************************)
(* The program: the child of run, what exec made of the shell, or a child  *)
(* of one of them that has outlived it.  A bound: after a race it reads    *)
(* without sleeping only.                                                  *)
(***************************************************************************)

ProgramRead ==
  /\ prog.alive
  /\ \/ GetcharAtomic(ProgramReader)
     \/ ~prog.raced /\ TestEmpty(ProgramReader)
     \/ LoadChar(ProgramReader) \/ FetchIndex(ProgramReader) \/ StoreIndex(ProgramReader)
  /\ UNCHANGED <<con, boot, typed, tty, prog>>

ProgramWrite ==
  /\ prog.alive /\ pc[ProgramReader] = "out" /\ prog.writes < MaxWrites
  /\ \E ch \in {Text, Backspace, Newline, Control("tab"), Control("cr")} : con' = Put(con, ch)
  /\ tty' = [tty EXCEPT !.quiet = FALSE]
  /\ prog' = [prog EXCEPT !.writes = @ + 1]
  /\ UNCHANGED <<vars, boot, typed>>

ProgramExits ==
  /\ prog.alive /\ pc[ProgramReader] = "out"
  /\ prog' = [NoProgram EXCEPT !.raced = prog.raced]
  /\ UNCHANGED <<vars, con, boot, typed, tty>>

-----------------------------------------------------------------------------
TermNext ==
  \/ PressShift \/ PressKey
  \/ ShellStep \/ RunEnds \/ ShellDies
  \/ ProgramRead \/ ProgramWrite \/ ProgramExits
  \/ BootStep /\ UNCHANGED <<vars, typed, tty, prog>>

TermSpec == TermInit /\ [][TermNext]_termVars /\ WF_termVars(ShellStep)

-----------------------------------------------------------------------------
(***************************************************************************)
(* The ring is a first-in first-out queue of Size - 1 bytes, whatever IRQ1 *)
(* does between the instructions of a reader: nothing lost, duplicated,    *)
(* reordered or overwritten, and a key dropped only when the ring is full, *)
(* as long as the shell does not read while a program that has been woken  *)
(* is inside keyboard_getchar() (NoByteTwice is about what happens then).  *)
(***************************************************************************)
ImplementsQueue == Queue!Init /\ [][prog'.raced \/ Queue!Next]_Queue!queueVars

(***************************************************************************)
(* While only the shell writes, the screen shows the line that is edited,  *)
(* through wrapping, scrolling and erasing: it is in the cells before the  *)
(* cursor (those that have not scrolled off), and the cells of erased      *)
(* characters, behind it, are blank.  One thing is wrong on the screen: a  *)
(* character whose erasure began in column 0, where monitor_put ignores a  *)
(* backspace, stays there.                                                 *)
(***************************************************************************)
LineShown ==
  tty.pc = "edit" /\ tty.out = <<>> /\ tty.quiet =>
    /\ \A i \in 1 .. tty.most :
         LET at == Location(con) + i - Len(tty.shown) - 1
         IN  at \in Memory =>
               con.mem[at] = IF i <= Len(tty.shown) THEN tty.shown[i] ELSE Blank
    /\ ~tty.edge => tty.shown = tty.line

Queued(k) == \E i \in 1 .. Used : input_buffer[(read_index + i - 1) % Size][1] = k

(***************************************************************************)
(* Every key that was not dropped is read, also when the line is full, if  *)
(* the shell is scheduled, is there and is not waiting for a program.      *)
(***************************************************************************)
KeysRead == \A k \in 1 .. MaxKeys : Queued(k) ~> ~Queued(k) \/ tty.pc \in {"run", "gone"}
=============================================================================
