------------------------------ MODULE Console -------------------------------
(***************************************************************************)
(* monitor.c: the text screen, as a value c with the video memory mem and  *)
(* the cursor x, y.  mem has one row more than the screen.  A character is *)
(* <<kind, id>>: kind "char" is shown and takes a cell, the other kinds    *)
(* move the cursor.  Colours and the hardware cursor are left out.         *)
(*                                                                         *)
(* Processes write from system calls, with interrupts off: Put is one      *)
(* step.  PID 0 writes its boot messages with interrupts on; its           *)
(* monitor_put() is cut at every access to the cursor or to mem (BootStep) *)
(* and a process may write between any two of them.                        *)
(***************************************************************************)
EXTENDS Integers, Sequences

CONSTANTS
  Width, Height,   \* 80 and 25
  TabWidth         \* 8

ASSUME SizesAssumption ==
  Width \in Nat \ {0, 1} /\ Height \in Nat \ {0} /\ TabWidth \in 1 .. Width

VARIABLES
  con,    \* the screen
  boot    \* PID 0: text left to write, pc, and the locals reg, at, ret

Blank == <<"char", <<0, FALSE>>>>

Memory == 0 .. (Height + 1) * Width - 1

-----------------------------------------------------------------------------
(* monitor_put() and monitor_clear(). *)

Shown(ch) == ch[1] = "char"

Location(c) == c.y * Width + c.x

Move(c, ch) ==
  CASE ch[1] = "bs" -> IF c.x = 0 THEN c ELSE [c EXCEPT !.x = @ - 1]
    [] ch[1] = "tab" -> [c EXCEPT !.x = (@ \div TabWidth + 1) * TabWidth]
    [] ch[1] = "cr" -> [c EXCEPT !.x = 0]
    [] ch[1] = "nl" -> [c EXCEPT !.x = 0, !.y = @ + 1]
    [] Shown(ch) -> [c EXCEPT !.mem[Location(c)] = ch, !.x = @ + 1]

Wrap(c) == IF c.x >= Width THEN [c EXCEPT !.x = 0, !.y = @ + 1] ELSE c

ShiftUp(mem) ==
  [i \in Memory |-> CASE i < (Height - 1) * Width -> mem[i + Width]
                      [] i \in (Height - 1) * Width .. Height * Width - 1 -> Blank
                      [] OTHER -> mem[i]]

(* The Bug_ definitions are seeded defects, see Tasks. *)
Bug_ScrollLate(c) ==
  IF c.y > Height THEN [c EXCEPT !.mem = ShiftUp(@), !.y = Height - 1] ELSE c

Scroll(c) ==
  IF c.y >= Height THEN [c EXCEPT !.mem = ShiftUp(@), !.y = Height - 1] ELSE c

Put(c, ch) == Scroll(Wrap(Move(c, ch)))

Clear(c) == [c EXCEPT !.mem = [i \in Memory |-> IF i < Height * Width THEN Blank ELSE @[i]],
                      !.x = 0, !.y = 0]

-----------------------------------------------------------------------------
(* PID 0 in monitor_put(), one access at a time. *)

BootAt(pc) == boot.pc = pc

Goto(pc) == boot' = [boot EXCEPT !.pc = pc]

BootWriting(text) == [text |-> text, pc |-> "put", reg |-> 0, at |-> 0, ret |-> "none"]

EndPut ==
  boot' = IF Len(boot.text) = 1 THEN [BootWriting(<<>>) EXCEPT !.pc = "halt"]
          ELSE BootWriting(Tail(boot.text))

\* The character is a newline or is shown; y is read before x.
BootPut ==
  /\ BootAt("put")
  /\ \/ /\ Shown(Head(boot.text))
        /\ boot' = [boot EXCEPT !.pc = "column", !.at = con.y * Width]
        /\ UNCHANGED con
     \/ /\ Head(boot.text)[1] = "nl"
        /\ con' = [con EXCEPT !.x = 0]
        /\ boot' = [boot EXCEPT !.pc = "yload", !.ret = "wrap"]

BootColumn ==
  BootAt("column") /\ boot' = [boot EXCEPT !.pc = "cell", !.at = @ + con.x] /\ UNCHANGED con

BootCell ==
  /\ BootAt("cell")
  /\ con' = [con EXCEPT !.mem[boot.at] = Head(boot.text)]
  /\ Goto("xload")

BootXLoad == BootAt("xload") /\ boot' = [boot EXCEPT !.pc = "xstore", !.reg = con.x] /\ UNCHANGED con

BootXStore == BootAt("xstore") /\ con' = [con EXCEPT !.x = boot.reg + 1] /\ Goto("wrap")

BootWrap ==
  /\ BootAt("wrap")
  /\ IF con.x >= Width THEN Goto("xzero") ELSE Goto("scroll")
  /\ UNCHANGED con

BootXZero ==
  /\ BootAt("xzero")
  /\ con' = [con EXCEPT !.x = 0]
  /\ boot' = [boot EXCEPT !.pc = "yload", !.ret = "scroll"]

BootYLoad == BootAt("yload") /\ boot' = [boot EXCEPT !.pc = "ystore", !.reg = con.y] /\ UNCHANGED con

BootYStore == BootAt("ystore") /\ con' = [con EXCEPT !.y = boot.reg + 1] /\ Goto(boot.ret)

BootScroll ==
  /\ BootAt("scroll")
  /\ IF con.y >= Height THEN Goto("shift") ELSE EndPut
  /\ UNCHANGED con

\* The copying loop is one step: no property is about text written meanwhile.
BootShift == BootAt("shift") /\ con' = [con EXCEPT !.mem = ShiftUp(@)] /\ Goto("sety")

BootSetY == BootAt("sety") /\ con' = [con EXCEPT !.y = Height - 1] /\ EndPut

BootStep ==
  \/ BootPut \/ BootColumn \/ BootCell \/ BootXLoad \/ BootXStore \/ BootWrap
  \/ BootXZero \/ BootYLoad \/ BootYStore \/ BootScroll \/ BootShift \/ BootSetY

-----------------------------------------------------------------------------
(***************************************************************************)
(* No store of monitor_put() goes past the row below the screen, even if a *)
(* process writes while PID 0 is between two accesses; and whenever PID 0  *)
(* is not inside monitor_put() the cursor is on the screen.                *)
(***************************************************************************)
CursorOnScreen ==
  /\ Location(con) \in Memory
  /\ BootAt("cell") => boot.at \in 0 .. Height * Width - 1
  /\ boot.pc \in {"put", "halt"} => con.x \in 0 .. Width - 1 /\ con.y \in 0 .. Height - 1
=============================================================================
