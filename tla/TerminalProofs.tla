--------------------------- MODULE TerminalProofs ---------------------------
(***************************************************************************)
(* Proofs about Terminal for every ring, screen and line size, every       *)
(* number of keys and every boot text: the keyboard ring is a queue, the   *)
(* cursor stays on the screen, and the screen shows the line being edited. *)
(***************************************************************************)
EXTENDS Terminal, TLAPS, SequenceTheorems

-----------------------------------------------------------------------------
(* The inductive invariant. *)

(***************************************************************************)
(* The ring.  Until the shell reads while a woken program is inside        *)
(* keyboard_getchar(), what the program has loaded is still true when it   *)
(* stores the index.                                                       *)
(***************************************************************************)
ReaderInv ==
  /\ pc[ProgramReader] # "out" => read_index # write_index
  /\ pc[ProgramReader] \in {"fetch", "store"} =>
       char[ProgramReader] = input_buffer[read_index]
  /\ pc[ProgramReader] = "store" => index[ProgramReader] = read_index

RingInv ==
  /\ TypeOK
  /\ dropped <= keys
  /\ pc[ShellReader] = "out"
  /\ prog \in [alive : BOOLEAN, writes : Nat, raced : BOOLEAN]
  /\ ~prog.raced => ReaderInv

AnyByte == Bytes \cup {NoByte, <<MaxKeys + 1, FALSE>>}
Cells   == {"char"} \X AnyByte
Output  == {"char", "nl", "bs", "tab", "cr"} \X AnyByte

Screen   == [mem : [Memory -> Cells], x : 0 .. Width, y : 0 .. Height]
OnScreen == con.x < Width /\ con.y < Height

BootType ==
  [text : Seq({Text, Newline}), reg : Nat, at : Nat, ret : {"none", "wrap", "scroll"},
   pc : {"put", "column", "cell", "xload", "xstore", "wrap", "xzero", "yload", "ystore",
         "scroll", "shift", "sety", "halt"}]

(***************************************************************************)
(* The cursor while PID 0 is inside monitor_put(): it may stand behind the *)
(* last column or below the last row, never both.                          *)
(***************************************************************************)
CursorInv ==
  /\ con \in Screen
  /\ boot \in BootType
  /\ boot.pc # "halt" => boot.text # <<>>
  /\ boot.pc \in {"put", "column", "cell", "xload", "xstore", "yload", "ystore", "halt"} => OnScreen
  /\ boot.pc = "wrap" => con.x < Width \/ con.y < Height
  /\ boot.pc = "xzero" => con.y < Height
  /\ boot.pc \in {"scroll", "shift", "sety"} => con.x < Width
  /\ boot.pc = "column" => \E row \in 0 .. Height - 1 : boot.at = row * Width
  /\ boot.pc \in {"column", "cell"} => Shown(Head(boot.text))
  /\ boot.pc = "cell" => boot.at \in 0 .. Height * Width - 1
  /\ boot.pc = "xstore" => boot.reg < Width
  /\ boot.pc = "ystore" => boot.reg < Height
  /\ boot.pc \in {"yload", "ystore"} => boot.ret \in {"wrap", "scroll"}

TtyStates ==
  [pc : {"prompt", "edit", "exec", "run", "gone"}, out : Seq(Output), line : Seq(Cells),
   shown : Seq(Cells), most : Nat, quiet : BOOLEAN, edge : BOOLEAN]
TtyType == tty \in TtyStates

\* What cell i of a line has to show.
Wanted(line, i) == IF i <= Len(line) THEN line[i] ELSE Blank

\* Where cell i of the line is on screen c when the cursor is behind cell p.
Place(c, i, p) == Location(c) + i - p - 1

\* With the cursor behind cell p, the cells are right except perhaps those in S.
CellsRight(c, t, p, S) ==
  \A i \in (1 .. t.most) \ S : Place(c, i, p) \in Nat => c.mem[Place(c, i, p)] = Wanted(t.shown, i)

\* All cells behind the cursor are in its row.
Fits(c, t, p) == c.x + t.most - p < Width

Editing == tty.pc = "edit" /\ tty.quiet

(***************************************************************************)
(* The screen c against what it should show of the line of t, for each     *)
(* part of the echo still to be written: nothing, a character, an erasure  *)
(* in column 0 or behind it, or what is left of one.                       *)
(***************************************************************************)
EchoInv(c, t) ==
  LET n == Len(t.shown)
  IN  \/ t.out = <<>> /\ Fits(c, t, n) /\ CellsRight(c, t, n, {})
      \/ /\ n > 0 /\ t.out = <<t.shown[n]>>
         /\ (n < t.most => Fits(c, t, n - 1)) /\ CellsRight(c, t, n - 1, {n})
      \/ /\ n < t.most /\ t.out = <<Backspace, Blank, Backspace>>
         /\ c.x > 0 /\ Fits(c, t, n + 1) /\ CellsRight(c, t, n + 1, {n + 1})
      \/ /\ n < t.most /\ t.out = <<Backspace, Blank, Backspace>>
         /\ c.x = 0 /\ Fits(c, t, n) /\ CellsRight(c, t, n, {n + 1})
      \/ /\ n < t.most /\ t.out = <<Blank, Backspace>>
         /\ Fits(c, t, n) /\ CellsRight(c, t, n, {n + 1})
      \/ /\ n < t.most /\ t.out = <<Backspace>>
         /\ c.x > 0 /\ Fits(c, t, n + 1) /\ CellsRight(c, t, n + 1, {})

Lengths(t) ==
  /\ Len(t.line) <= Len(t.shown) /\ Len(t.shown) <= t.most
  /\ ~t.edge => t.shown = t.line

Unwritten(t) == t.line = <<>> /\ t.shown = <<>> /\ t.most = 0

EditInv ==
  /\ TtyType
  /\ tty.pc = "edit" => Lengths(tty)
  /\ tty.pc = "prompt" => Unwritten(tty) /\ tty.out # <<>>
  /\ tty.quiet => boot.pc = "halt"
  /\ Editing => EchoInv(con, tty)

IInv == RingInv /\ CursorInv /\ EditInv

-----------------------------------------------------------------------------
(* The ring. *)

\* Indices wrap around once.
LEMMA Modulo ==
  ASSUME NEW k \in 0 .. 2 * Size - 1
  PROVE  k % Size = IF k < Size THEN k ELSE k - Size
<1>1. CASE k < Size
  BY <1>1, SizeAssumption
<1>2. CASE k >= Size
  BY <1>2, SizeAssumption
<1> QED BY <1>1, <1>2, SizeAssumption

LEMMA NextSlot ==
  ASSUME NEW i \in Slots
  PROVE  /\ (i + 1) % Size \in Slots
         /\ (i + 1) % Size = IF i + 1 = Size THEN 0 ELSE i + 1
BY Modulo, SizeAssumption DEF Slots

LEMMA PrintableKeyKeeps ==
  ASSUME RingInv, PrintableKey, UNCHANGED prog
  PROVE  RingInv'
<1> USE SizeAssumption, MaxKeysAssumption, ReadersAssumption DEF RingInv
<1>1. keys' \in 0 .. MaxKeys /\ <<keys + 1, shift_pressed>> \in Bytes
  BY DEF PrintableKey, TypeOK, Bytes
<1>2. CASE Enqueue
  <2>1. TypeOK'
    BY <1>1, <1>2, NextSlot DEF PrintableKey, Enqueue, TypeOK
  <2>2. read_index # write_index => read_index' # write_index'
    BY <1>2 DEF Enqueue, Full
  <2>3. read_index # write_index => input_buffer'[read_index'] = input_buffer[read_index]
    BY <1>2 DEF Enqueue, TypeOK
  <2>4. ReaderInv => ReaderInv'
    BY <1>2, <2>2, <2>3 DEF PrintableKey, Enqueue, TypeOK, ReaderInv, ProgramReader
  <2> QED BY <1>2, <2>1, <2>4 DEF PrintableKey, Enqueue, TypeOK, ShellReader
<1>3. CASE DropNewest
  BY <1>1, <1>3 DEF PrintableKey, DropNewest, ringVars, TypeOK, ReaderInv
<1> QED BY <1>2, <1>3 DEF PrintableKey

LEMMA GetcharAtomicKeeps ==
  ASSUME RingInv, NEW r \in Readers, GetcharAtomic(r),
         prog' \in [alive : BOOLEAN, writes : Nat, raced : BOOLEAN],
         ~prog'.raced => pc[ProgramReader] = "out"
  PROVE  RingInv'
<1>1. TypeOK'
  BY NextSlot DEF GetcharAtomic, TypeOK, RingInv
<1> QED BY <1>1 DEF GetcharAtomic, RingInv, ReaderInv, TypeOK

LEMMA ProgramReadKeeps ==
  ASSUME RingInv, ProgramRead
  PROVE  RingInv'
<1> DEFINE r == ProgramReader
<1>1. r \in Readers /\ ShellReader \in Readers /\ r # ShellReader /\ UNCHANGED prog
  BY ReadersAssumption DEF ProgramReader, ShellReader, ProgramRead
<1>2. CASE GetcharAtomic(r)
  BY <1>1, <1>2, GetcharAtomicKeeps DEF GetcharAtomic, RingInv
<1>3. CASE TestEmpty(r)
  BY <1>1, <1>3 DEF TestEmpty, Step, ringVars, RingInv, ReaderInv, TypeOK, ProgramRead
<1>4. CASE LoadChar(r)
  BY <1>1, <1>4 DEF LoadChar, Step, ringVars, RingInv, ReaderInv, TypeOK, ProgramRead
<1>5. CASE FetchIndex(r)
  BY <1>1, <1>5 DEF FetchIndex, Step, ringVars, RingInv, ReaderInv, TypeOK, ProgramRead
<1>6. CASE StoreIndex(r)
  <2>1. read_index' \in Slots
    BY <1>1, <1>6, NextSlot DEF StoreIndex, RingInv, TypeOK
  <2>2. taken' \in Seq(Bytes \cup {NoByte})
    BY <1>1, <1>6 DEF StoreIndex, RingInv, TypeOK
  <2>3. pc' \in [Readers -> {"out", "load", "fetch", "store"}] /\ pc'[r] = "out"
        /\ pc'[ShellReader] = "out"
    BY <1>1, <1>6 DEF StoreIndex, Step, RingInv, TypeOK
  <2> QED BY <1>1, <1>6, <2>1, <2>2, <2>3 DEF StoreIndex, RingInv, ReaderInv, TypeOK
<1> QED BY <1>2, <1>3, <1>4, <1>5, <1>6 DEF ProgramRead

-----------------------------------------------------------------------------
(* The cursor. *)

\* Where a row and a column are in video memory.
LEMMA RowColumn ==
  ASSUME NEW r \in Nat, NEW k \in Nat, NEW n \in Nat, r < n, k < Width
  PROVE  r * Width + k \in 0 .. n * Width - 1
<1>1. r + 1 <= n /\ Width \in Nat
  BY SizesAssumption
<1>2. (r + 1) * Width <= n * Width
  <2>1. PICK d \in Nat : n = r + 1 + d
    <3>1. n - (r + 1) \in Nat /\ n = r + 1 + (n - (r + 1))
      BY <1>1
    <3> QED BY <3>1
  <2>2. n * Width = (r + 1) * Width + d * Width
    BY <1>1, <2>1
  <2>3. d * Width \in Nat /\ (r + 1) * Width \in Nat
    BY <1>1
  <2> QED BY <2>2, <2>3
<1>3. (r + 1) * Width = r * Width + Width /\ r * Width \in Nat /\ n * Width \in Nat
  BY <1>1
<1> QED BY <1>1, <1>2, <1>3

\* A cursor behind the last column or below the last row is still in mem.
LEMMA LocationInMemory ==
  ASSUME NEW c \in Screen, c.x < Width \/ c.y < Height
  PROVE  Location(c) \in Memory
<1> USE SizesAssumption
<1>1. c.x \in Nat /\ c.y \in Nat /\ c.x <= Width /\ c.y <= Height
  BY DEF Screen
<1>2. CASE c.x < Width
  <2>1. c.y * Width + c.x \in 0 .. (Height + 1) * Width - 1
    BY <1>1, <1>2, RowColumn
  <2> QED BY <2>1 DEF Location, Memory
<1>3. CASE c.x = Width /\ c.y < Height
  <2>1. (c.y + 1) * Width + 0 \in 0 .. (Height + 1) * Width - 1
    BY <1>1, <1>3, RowColumn
  <2>2. c.y * Width + c.x = (c.y + 1) * Width + 0
    BY <1>1, <1>3
  <2> QED BY <2>1, <2>2 DEF Location, Memory
<1> QED BY <1>1, <1>2, <1>3

LEMMA ShiftUpType ==
  ASSUME NEW m \in [Memory -> Cells]
  PROVE  ShiftUp(m) \in [Memory -> Cells]
<1> USE SizesAssumption
<1>1. Blank \in Cells
  BY DEF Blank, Cells, AnyByte, NoByte
<1>2. \A i \in Memory : i < (Height - 1) * Width => i + Width \in Memory
  <2>1. (Height - 1) * Width + Width = Height * Width /\ (Height + 1) * Width = Height * Width + Width
    BY SizesAssumption
  <2>2. Height * Width \in Nat /\ (Height - 1) * Width \in Int /\ (Height + 1) * Width \in Int
    BY SizesAssumption
  <2> QED BY <2>1, <2>2 DEF Memory
<1>3. ASSUME NEW i \in Memory
      PROVE  (CASE i < (Height - 1) * Width -> m[i + Width]
                [] i \in (Height - 1) * Width .. Height * Width - 1 -> Blank
                [] OTHER -> m[i]) \in Cells
  <2>1. i \in Int /\ (Height - 1) * Width \in Int
    BY SizesAssumption DEF Memory
  <2>2. CASE i < (Height - 1) * Width
    BY <1>2, <2>1, <2>2
  <2>3. CASE ~(i < (Height - 1) * Width)
    BY <1>1, <2>1, <2>3
  <2> QED BY <2>2, <2>3
<1> QED BY <1>3 DEF ShiftUp

\* What monitor_put() does to the cursor before it wraps and scrolls.
LEMMA MoveType ==
  ASSUME NEW c \in Screen, NEW ch \in Output, c.x < Width \/ c.y < Height
  PROVE  /\ Move(c, ch) \in [mem : [Memory -> Cells], x : Nat, y : Nat]
         /\ ch[1] = "char" =>
              Move(c, ch) = [mem |-> [c.mem EXCEPT ![Location(c)] = ch], x |-> c.x + 1, y |-> c.y]
         /\ ch[1] = "bs" /\ c.x # 0 =>
              Move(c, ch) = [mem |-> c.mem, x |-> c.x - 1, y |-> c.y]
         /\ ch[1] = "bs" /\ c.x = 0 => Move(c, ch) = c
<1> DEFINE stored == [c.mem EXCEPT ![Location(c)] = ch]
           tabbed == (c.x \div TabWidth + 1) * TabWidth
<1>1. ch[1] \in {"char", "nl", "bs", "tab", "cr"} /\ (ch[1] = "char" => ch \in Cells)
  BY DEF Output, Cells
<1>2. c \in [mem : [Memory -> Cells], x : Nat, y : Nat]
  BY SizesAssumption DEF Screen
<1>3. tabbed \in Nat
  <2>1. c.x \div TabWidth \in Nat /\ TabWidth \in Nat
    BY <1>2, SizesAssumption
  <2> QED BY <2>1
<1>4. ch[1] = "char" => stored \in [Memory -> Cells]
  BY <1>1, <1>2, LocationInMemory
<1>5. Move(c, ch) = CASE ch[1] = "bs" -> IF c.x = 0 THEN c ELSE [c EXCEPT !.x = @ - 1]
                      [] ch[1] = "tab" -> [c EXCEPT !.x = tabbed]
                      [] ch[1] = "cr" -> [c EXCEPT !.x = 0]
                      [] ch[1] = "nl" -> [c EXCEPT !.x = 0, !.y = @ + 1]
                      [] ch[1] = "char" -> [c EXCEPT !.mem = stored, !.x = @ + 1]
  BY DEF Move, Shown
<1> HIDE DEF stored, tabbed
<1>6. CASE ch[1] = "bs"
  <2>1. Move(c, ch) = IF c.x = 0 THEN c ELSE [mem |-> c.mem, x |-> c.x - 1, y |-> c.y]
    BY <1>2, <1>5, <1>6
  <2> QED BY <1>2, <1>6, <2>1
<1>7. CASE ch[1] = "tab"
  <2>1. Move(c, ch) = [mem |-> c.mem, x |-> tabbed, y |-> c.y]
    BY <1>2, <1>5, <1>7
  <2> QED BY <1>2, <1>3, <1>7, <2>1
<1>8. CASE ch[1] = "cr"
  <2>1. Move(c, ch) = [mem |-> c.mem, x |-> 0, y |-> c.y]
    BY <1>2, <1>5, <1>8
  <2> QED BY <1>2, <1>8, <2>1
<1>9. CASE ch[1] = "nl"
  <2>1. Move(c, ch) = [mem |-> c.mem, x |-> 0, y |-> c.y + 1]
    BY <1>2, <1>5, <1>9
  <2> QED BY <1>2, <1>9, <2>1
<1>10. CASE ch[1] = "char"
  <2>1. Move(c, ch) = [mem |-> stored, x |-> c.x + 1, y |-> c.y]
    BY <1>2, <1>5, <1>10
  <2> QED BY <1>2, <1>4, <1>10, <2>1 DEF stored
<1> QED BY <1>1, <1>6, <1>7, <1>8, <1>9, <1>10

\* monitor_put() leaves the cursor on the screen, wherever PID 0 had put it.
LEMMA PutOnScreen ==
  ASSUME NEW c \in Screen, NEW ch \in Output, c.x < Width \/ c.y < Height
  PROVE  Put(c, ch) \in Screen /\ Put(c, ch).x < Width /\ Put(c, ch).y < Height
<1> USE SizesAssumption
<1> DEFINE m == Move(c, ch)
           w == Wrap(m)
<1>1. m \in [mem : [Memory -> Cells], x : Nat, y : Nat]
  BY MoveType
<1> HIDE DEF m
<1>2. w \in [mem : [Memory -> Cells], x : Nat, y : Nat] /\ w.x < Width
  <2>1. CASE m.x < Width
    BY <1>1, <2>1 DEF Wrap
  <2>2. CASE m.x >= Width
    <3>1. w = [mem |-> m.mem, x |-> 0, y |-> m.y + 1]
      BY <1>1, <2>2 DEF Wrap
    <3> QED BY <1>1, <3>1
  <2> QED BY <1>1, <2>1, <2>2
<1> HIDE DEF w
<1>3. Scroll(w) \in Screen /\ Scroll(w).x < Width /\ Scroll(w).y < Height
  <2>1. CASE w.y < Height
    BY <1>2, <2>1 DEF Scroll, Screen
  <2>2. CASE w.y >= Height
    <3>1. ShiftUp(w.mem) \in [Memory -> Cells]
      BY <1>2, ShiftUpType
    <3>2. Scroll(w) = [mem |-> ShiftUp(w.mem), x |-> w.x, y |-> Height - 1]
      BY <1>2, <2>2 DEF Scroll
    <3> QED BY <1>2, <3>1, <3>2 DEF Screen
  <2> QED BY <1>2, <2>1, <2>2
<1> QED BY <1>3 DEF Put, w, m

LEMMA ClearOnScreen ==
  ASSUME NEW c \in Screen
  PROVE  Clear(c) \in Screen /\ Clear(c).x < Width /\ Clear(c).y < Height
<1> DEFINE m == [i \in Memory |-> IF i < Height * Width THEN Blank ELSE c.mem[i]]
<1>1. Blank \in Cells
  BY DEF Blank, Cells, AnyByte, NoByte
<1>2. m \in [Memory -> Cells]
  BY <1>1 DEF Screen
<1>3. Clear(c) = [c EXCEPT !.mem = m, !.x = 0, !.y = 0]
  BY DEF Clear
<1> HIDE DEF m
<1>4. Clear(c) = [mem |-> m, x |-> 0, y |-> 0]
  BY <1>3 DEF Screen
<1> QED BY <1>2, <1>4, SizesAssumption DEF Screen

\* Whatever a process writes, PID 0 finds a cursor on the screen.
LEMMA WriteKeeps ==
  ASSUME CursorInv, UNCHANGED boot, con' \in Screen, con'.x < Width, con'.y < Height
  PROVE  CursorInv'
BY DEF CursorInv, OnScreen

\* PID 0, one access of monitor_put() at a time.
LEMMA BootTextHead ==
  ASSUME CursorInv, boot.pc # "halt"
  PROVE  /\ Head(boot.text) \in {Text, Newline}
         /\ Head(boot.text)[1] = "char" => Head(boot.text) \in Cells
<1>1. Head(boot.text) \in {Text, Newline}
  BY DEF CursorInv, BootType
<1>2. Text \in Cells /\ Newline[1] = "nl"
  BY DEF Text, Cells, AnyByte, Newline, Control
<1> QED BY <1>1, <1>2

LEMMA EndPutKeeps ==
  ASSUME CursorInv, boot.pc # "halt", EndPut, con' \in Screen, con'.x < Width, con'.y < Height
  PROVE  CursorInv'
<1>1. boot.text \in Seq({Text, Newline}) /\ boot.text # <<>>
  BY DEF CursorInv, BootType
<1>2. CASE Len(boot.text) = 1
  <2>1. boot' = [text |-> <<>>, pc |-> "halt", reg |-> 0, at |-> 0, ret |-> "none"]
    BY <1>2 DEF EndPut, BootWriting
  <2>2. boot' \in BootType /\ boot'.pc = "halt"
    BY <2>1 DEF BootType
  <2> QED BY <2>2 DEF CursorInv, OnScreen
<1>3. CASE Len(boot.text) # 1
  <2>1. boot' = [text |-> Tail(boot.text), pc |-> "put", reg |-> 0, at |-> 0, ret |-> "none"]
    BY <1>3 DEF EndPut, BootWriting
  <2>2. Tail(boot.text) \in Seq({Text, Newline}) /\ Tail(boot.text) # <<>>
    <3>1. Len(Tail(boot.text)) = Len(boot.text) - 1 /\ Tail(boot.text) \in Seq({Text, Newline})
      BY <1>1
    <3>2. Len(boot.text) - 1 # 0
      BY <1>1, <1>3
    <3> QED BY <3>1, <3>2
  <2>3. boot' \in BootType /\ boot'.pc = "put" /\ boot'.text # <<>>
    BY <2>1, <2>2 DEF BootType
  <2> QED BY <2>3 DEF CursorInv, OnScreen
<1> QED BY <1>2, <1>3

LEMMA BootStepKeeps ==
  ASSUME CursorInv, BootStep
  PROVE  CursorInv'
<1> USE SizesAssumption DEF BootAt, Goto
<1>1. /\ con \in Screen /\ boot \in BootType
      /\ con.x \in Nat /\ con.y \in Nat /\ con.x <= Width /\ con.y <= Height
  BY DEF CursorInv, Screen
<1>2. CASE BootPut
  <2>1. OnScreen /\ boot.text # <<>> /\ boot.pc = "put"
    BY <1>2 DEF CursorInv, BootPut
  <2>2. CASE /\ Shown(Head(boot.text)) /\ UNCHANGED con
             /\ boot' = [boot EXCEPT !.pc = "column", !.at = con.y * Width]
    <3>1. con.y \in 0 .. Height - 1 /\ con.y * Width \in Nat
      BY <1>1, <2>1 DEF OnScreen
    <3>2. /\ boot' \in BootType /\ boot'.pc = "column" /\ boot'.text = boot.text
          /\ boot'.at = con.y * Width
      BY <1>1, <2>2, <3>1 DEF BootType
    <3> QED BY <2>1, <2>2, <3>1, <3>2 DEF CursorInv, OnScreen
  <2>3. CASE con' = [con EXCEPT !.x = 0] /\ boot' = [boot EXCEPT !.pc = "yload", !.ret = "wrap"]
    <3>1. con' \in Screen /\ con'.x = 0 /\ con'.y = con.y
      BY <1>1, <2>3 DEF Screen
    <3>2. boot' \in BootType /\ boot'.pc = "yload" /\ boot'.text = boot.text /\ boot'.ret = "wrap"
      BY <1>1, <2>3 DEF BootType
    <3> QED BY <2>1, <3>1, <3>2 DEF CursorInv, OnScreen
  <2> QED BY <1>2, <2>2, <2>3 DEF BootPut
<1>3. CASE BootColumn
  <2>1. PICK row \in 0 .. Height - 1 : boot.at = row * Width
    BY <1>3 DEF CursorInv, BootColumn
  <2>2. OnScreen /\ boot.text # <<>> /\ Shown(Head(boot.text))
    BY <1>3 DEF CursorInv, BootColumn
  <2>3. boot.at + con.x \in 0 .. Height * Width - 1
    <3>1. con.x \in Nat /\ con.x < Width /\ row \in Nat /\ row < Height /\ Height \in Nat
      BY <1>1, <2>2, SizesAssumption DEF OnScreen
    <3>2. row * Width + con.x \in 0 .. Height * Width - 1
      BY <3>1, RowColumn
    <3> QED BY <2>1, <3>2
  <2>4. boot.at + con.x \in Nat
    BY <2>3
  <2>5. /\ boot' \in BootType /\ boot'.pc = "cell" /\ boot'.text = boot.text
        /\ boot'.at = boot.at + con.x /\ UNCHANGED con
    BY <1>1, <1>3, <2>4 DEF BootColumn, BootType
  <2> QED BY <1>1, <2>2, <2>3, <2>5 DEF CursorInv, OnScreen
<1>4. CASE BootCell
  <2>1. OnScreen /\ boot.text # <<>> /\ Head(boot.text) \in Cells
    BY <1>4, BootTextHead DEF CursorInv, BootCell, Shown
  <2>2. boot.at \in Memory
    <3>1. (Height + 1) * Width = Height * Width + Width /\ Height * Width \in Nat
      OBVIOUS
    <3>2. boot.at \in 0 .. Height * Width - 1
      BY <1>4 DEF BootCell, CursorInv
    <3> QED BY <3>1, <3>2 DEF Memory
  <2>3. con' = [mem |-> [con.mem EXCEPT ![boot.at] = Head(boot.text)], x |-> con.x, y |-> con.y]
    BY <1>1, <1>4 DEF BootCell, Screen
  <2>4. con' \in Screen /\ con'.x = con.x /\ con'.y = con.y
    BY <1>1, <2>1, <2>2, <2>3 DEF Screen
  <2>5. boot' \in BootType /\ boot'.pc = "xload" /\ boot'.text = boot.text
    BY <1>1, <1>4 DEF BootCell, BootType
  <2> QED BY <2>1, <2>4, <2>5 DEF CursorInv, OnScreen
<1>5. CASE BootXLoad
  <2>1. OnScreen /\ boot.text # <<>>
    BY <1>5 DEF CursorInv, BootXLoad
  <2>2. boot' \in BootType /\ boot'.pc = "xstore" /\ boot'.text = boot.text /\ boot'.reg = con.x
        /\ UNCHANGED con
    BY <1>1, <1>5 DEF BootXLoad, BootType
  <2> QED BY <1>1, <2>1, <2>2 DEF CursorInv, OnScreen
<1>6. CASE BootXStore
  <2>1. OnScreen /\ boot.text # <<>> /\ boot.reg \in Nat /\ boot.reg < Width
    BY <1>1, <1>6 DEF CursorInv, BootXStore, BootType
  <2>2. con' \in Screen /\ con'.y = con.y
    BY <1>1, <1>6, <2>1 DEF BootXStore, Screen
  <2>3. boot' \in BootType /\ boot'.pc = "wrap" /\ boot'.text = boot.text
    BY <1>1, <1>6 DEF BootXStore, BootType
  <2> QED BY <2>1, <2>2, <2>3 DEF CursorInv, OnScreen
<1>7. CASE BootWrap
  <2>1. (con.x < Width \/ con.y < Height) /\ boot.text # <<>> /\ UNCHANGED con
    BY <1>7 DEF CursorInv, BootWrap
  <2>2. /\ boot' \in BootType /\ boot'.text = boot.text
        /\ boot'.pc = IF con.x >= Width THEN "xzero" ELSE "scroll"
    BY <1>1, <1>7 DEF BootWrap, BootType
  <2> QED BY <1>1, <2>1, <2>2 DEF CursorInv, OnScreen
<1>8. CASE BootXZero
  <2>1. con.y < Height /\ boot.text # <<>>
    BY <1>8 DEF CursorInv, BootXZero
  <2>2. con' \in Screen /\ con'.x = 0 /\ con'.y = con.y
    BY <1>1, <1>8 DEF BootXZero, Screen
  <2>3. boot' \in BootType /\ boot'.pc = "yload" /\ boot'.text = boot.text /\ boot'.ret = "scroll"
    BY <1>1, <1>8 DEF BootXZero, BootType
  <2> QED BY <2>1, <2>2, <2>3 DEF CursorInv, OnScreen
<1>9. CASE BootYLoad
  <2>1. OnScreen /\ boot.text # <<>> /\ boot.ret \in {"wrap", "scroll"}
    BY <1>9 DEF CursorInv, BootYLoad
  <2>2. boot' \in BootType /\ boot'.pc = "ystore" /\ boot'.text = boot.text /\ boot'.reg = con.y
        /\ boot'.ret = boot.ret /\ UNCHANGED con
    BY <1>1, <1>9 DEF BootYLoad, BootType
  <2> QED BY <1>1, <2>1, <2>2 DEF CursorInv, OnScreen
<1>10. CASE BootYStore
  <2>1. /\ OnScreen /\ boot.text # <<>> /\ boot.reg \in Nat /\ boot.reg < Height
        /\ boot.ret \in {"wrap", "scroll"}
    BY <1>1, <1>10 DEF CursorInv, BootYStore, BootType
  <2>2. con' \in Screen /\ con'.x = con.x
    BY <1>1, <1>10, <2>1 DEF BootYStore, Screen
  <2>3. boot' \in BootType /\ boot'.pc \in {"wrap", "scroll"} /\ boot'.text = boot.text
    BY <1>1, <1>10, <2>1 DEF BootYStore, BootType
  <2> QED BY <2>1, <2>2, <2>3 DEF CursorInv, OnScreen
<1>11. CASE BootScroll
  <2>1. con.x < Width /\ boot.text # <<>> /\ boot.pc = "scroll" /\ UNCHANGED con
    BY <1>11 DEF CursorInv, BootScroll
  <2>2. CASE con.y >= Height
    <3>1. boot' \in BootType /\ boot'.pc = "shift" /\ boot'.text = boot.text
      BY <1>1, <1>11, <2>2 DEF BootScroll, BootType
    <3> QED BY <1>1, <2>1, <3>1 DEF CursorInv, OnScreen
  <2>3. CASE con.y < Height
    BY <1>1, <1>11, <2>1, <2>3, EndPutKeeps DEF BootScroll
  <2> QED BY <1>1, <2>2, <2>3
<1>12. CASE BootShift
  <2>1. con.x < Width /\ boot.text # <<>>
    BY <1>12 DEF CursorInv, BootShift
  <2>2. ShiftUp(con.mem) \in [Memory -> Cells]
    BY <1>1, ShiftUpType DEF Screen
  <2>3. con' \in Screen /\ con'.x = con.x
    BY <1>1, <1>12, <2>2 DEF BootShift, Screen
  <2>4. boot' \in BootType /\ boot'.pc = "sety" /\ boot'.text = boot.text
    BY <1>1, <1>12 DEF BootShift, BootType
  <2> QED BY <2>1, <2>3, <2>4 DEF CursorInv, OnScreen
<1>13. CASE BootSetY
  <2>1. con.x < Width /\ boot.pc # "halt"
    BY <1>13 DEF CursorInv, BootSetY
  <2>2. con' \in Screen /\ con'.x = con.x /\ con'.y = Height - 1
    BY <1>1, <1>13 DEF BootSetY, Screen
  <2> QED BY <1>13, <2>1, <2>2, EndPutKeeps DEF BootSetY
<1> QED BY <1>2, <1>3, <1>4, <1>5, <1>6, <1>7, <1>8, <1>9, <1>10, <1>11, <1>12, <1>13 DEF BootStep

-----------------------------------------------------------------------------
(* The line on the screen. *)

(***************************************************************************)
(* A shown character goes into the cell of the cursor, which moves on; if  *)
(* it is the last cell of the screen, all cells move up one row.           *)
(***************************************************************************)
LEMMA PutShown ==
  ASSUME NEW c \in Screen, NEW ch \in Cells, c.x < Width, c.y < Height
  PROVE  \E s \in {0, Width} :
           /\ Location(Put(c, ch)) = Location(c) + 1 - s
           /\ c.x + 1 < Width => s = 0 /\ Put(c, ch).x = c.x + 1
           /\ c.x + 1 = Width => Put(c, ch).x = 0
           /\ \A j \in Nat :
                j < Location(Put(c, ch)) \/ (s = 0 /\ j \in Memory) =>
                  Put(c, ch).mem[j] = [c.mem EXCEPT ![Location(c)] = ch][j + s]
<1> DEFINE stored == [c.mem EXCEPT ![Location(c)] = ch]
           m == [mem |-> stored, x |-> c.x + 1, y |-> c.y]
           down == [mem |-> stored, x |-> 0, y |-> c.y + 1]
           up == [mem |-> ShiftUp(stored), x |-> 0, y |-> Height - 1]
<1>1. c.x \in Nat /\ c.y \in Nat /\ Width \in Nat /\ Height \in Nat
  BY SizesAssumption DEF Screen
<1>2. ch \in Output /\ ch[1] = "char"
  BY DEF Output, Cells
<1>3. Move(c, ch) = m
  BY <1>1, <1>2, MoveType
<1>4. /\ c.y * Width \in Nat /\ (c.y + 1) * Width = c.y * Width + Width
      /\ Location(c) = c.y * Width + c.x
  BY <1>1 DEF Location
<1> HIDE DEF stored
<1>5. CASE c.x + 1 < Width
  <2>1. Put(c, ch) = m
    <3>1. Wrap(m) = m
      BY <1>1, <1>5 DEF Wrap
    <3>2. Scroll(m) = m
      BY <1>1 DEF Scroll
    <3> QED BY <1>3, <3>1, <3>2 DEF Put
  <2>2. Location(Put(c, ch)) = Location(c) + 1 - 0 /\ Put(c, ch).x = c.x + 1
    BY <1>1, <1>4, <2>1 DEF Location
  <2>3. ASSUME NEW j \in Nat PROVE Put(c, ch).mem[j] = stored[j + 0]
    BY <2>1
  <2> QED BY <1>1, <1>5, <2>2, <2>3 DEF stored
<1>6. CASE c.x + 1 = Width
  <2>1. Wrap(m) = down
    <3>1. m.x >= Width /\ m.mem = stored /\ m.y = c.y /\ m \in [mem : {stored}, x : Nat, y : Nat]
      BY <1>1, <1>6
    <3> HIDE DEF m
    <3> QED BY <3>1 DEF Wrap
  <2>2. CASE c.y + 1 < Height
    <3>1. Put(c, ch) = down
      <4>1. Scroll(down) = down
        BY <1>1, <2>2 DEF Scroll
      <4> QED BY <1>3, <2>1, <4>1 DEF Put
    <3>2. Location(Put(c, ch)) = Location(c) + 1 - 0 /\ Put(c, ch).x = 0
      BY <1>1, <1>4, <1>6, <3>1 DEF Location
    <3>3. ASSUME NEW j \in Nat PROVE Put(c, ch).mem[j] = stored[j + 0]
      BY <3>1
    <3> QED BY <1>1, <1>6, <3>2, <3>3 DEF stored
  <2>3. CASE c.y + 1 = Height
    <3>1. Put(c, ch) = up
      <4>1. Scroll(down) = up
        <5>1. /\ down.y >= Height /\ down.mem = stored /\ down.x = 0
              /\ down \in [mem : {stored}, x : Nat, y : Nat]
          BY <1>1, <2>3
        <5> HIDE DEF down
        <5> QED BY <5>1 DEF Scroll
      <4> QED BY <1>3, <2>1, <4>1 DEF Put
    <3>2. /\ c.y * Width = (Height - 1) * Width /\ (Height - 1) * Width \in Nat
          /\ (Height + 1) * Width = (Height - 1) * Width + 2 * Width
      BY <1>1, <2>3
    <3>3. /\ Location(Put(c, ch)) = Location(c) + 1 - Width /\ Put(c, ch).x = 0
          /\ Location(Put(c, ch)) = (Height - 1) * Width
      BY <1>1, <1>4, <1>6, <3>1, <3>2 DEF Location
    <3>4. ASSUME NEW j \in Nat, j < (Height - 1) * Width PROVE Put(c, ch).mem[j] = stored[j + Width]
      <4>1. j \in Memory
        BY <1>1, <3>2, <3>4 DEF Memory
      <4>2. ShiftUp(stored)[j] = CASE j < (Height - 1) * Width -> stored[j + Width]
                                   [] j \in (Height - 1) * Width .. Height * Width - 1 -> Blank
                                   [] OTHER -> stored[j]
        BY <4>1 DEF ShiftUp
      <4>3. j \notin (Height - 1) * Width .. Height * Width - 1
        BY <3>2, <3>4
      <4>4. ShiftUp(stored)[j] = stored[j + Width]
        BY <3>4, <4>2, <4>3
      <4> QED BY <3>1, <4>4
    <3> QED BY <1>1, <1>6, <3>3, <3>4, SizesAssumption DEF stored
  <2> QED BY <1>1, <2>2, <2>3
<1> QED BY <1>1, <1>5, <1>6

\* Writing the cell that the cursor is at puts it right and no other wrong.
LEMMA PutCell ==
  ASSUME NEW c \in Screen, c.x < Width, c.y < Height, NEW t \in TtyStates, NEW p \in Nat, NEW S,
         CellsRight(c, t, p, S), Wanted(t.shown, p + 1) \in Cells,
         t.most <= p + 1 \/ Fits(c, t, p)
  PROVE  LET d == Put(c, Wanted(t.shown, p + 1))
         IN  CellsRight(d, t, p + 1, S \ {p + 1}) /\ Fits(d, t, p + 1)
<1> DEFINE ch == Wanted(t.shown, p + 1)
           d == Put(c, ch)
           stored == [c.mem EXCEPT ![Location(c)] = ch]
<1>1. /\ c.x \in Nat /\ c.y \in Nat /\ Width \in Nat /\ Width > 0 /\ t.most \in Nat
      /\ c.mem \in [Memory -> Cells]
  BY SizesAssumption DEF Screen, TtyStates
<1>2. Location(c) \in Memory /\ Location(c) \in Nat
  BY LocationInMemory, <1>1 DEF Memory
<1> HIDE DEF ch
<1>3. PICK s \in {0, Width} :
           /\ Location(d) = Location(c) + 1 - s
           /\ c.x + 1 < Width => s = 0 /\ d.x = c.x + 1
           /\ c.x + 1 = Width => d.x = 0
           /\ \A j \in Nat : j < Location(d) \/ (s = 0 /\ j \in Memory) => d.mem[j] = stored[j + s]
  BY PutShown DEF ch
<1> HIDE DEF d, stored
<1>4. p + 1 < t.most => c.x + 1 < Width
  BY <1>1 DEF Fits
<1>5. Fits(d, t, p + 1)
  BY <1>1, <1>3, <1>4 DEF Fits
<1>6. ASSUME NEW i \in (1 .. t.most) \ (S \ {p + 1}), Place(d, i, p + 1) \in Nat
      PROVE  d.mem[Place(d, i, p + 1)] = Wanted(t.shown, i)
  <2> DEFINE at == Place(d, i, p + 1)
  <2>1. at + s = Place(c, i, p) /\ i \in Int /\ at \in Nat /\ s \in Nat
    BY <1>1, <1>2, <1>3, <1>6 DEF Place
  <2>2. at < Location(d) \/ (s = 0 /\ at \in Memory)
    <3>1. CASE i <= p + 1
      BY <1>1, <1>2, <1>3, <3>1 DEF Place
    <3>2. CASE i > p + 1
      <4>1. p + 1 < t.most
        BY <1>1, <3>2
      <4>2. s = 0 /\ Fits(c, t, p)
        BY <1>1, <1>3, <1>4, <4>1
      <4>3. c.x + (i - p - 1) \in Nat /\ c.x + (i - p - 1) < Width
        BY <1>1, <3>2, <4>2 DEF Fits
      <4>4. c.y * Width + (c.x + (i - p - 1)) \in 0 .. (Height + 1) * Width - 1
        <5>1. Height + 1 \in Nat /\ c.y < Height + 1
          BY <1>1, SizesAssumption
        <5> HIDE DEF at
        <5> QED BY <1>1, <4>3, <5>1, RowColumn
      <4>5. c.y * Width \in Nat
        BY <1>1
      <4>6. at = c.y * Width + (c.x + (i - p - 1))
        BY <1>1, <1>2, <2>1, <4>2, <4>5 DEF Place, Location
      <4> QED BY <4>2, <4>4, <4>6 DEF Memory
    <3> QED BY <2>1, <3>1, <3>2
  <2>3. d.mem[at] = stored[Place(c, i, p)]
    <3> HIDE DEF at
    <3> QED BY <1>3, <2>1, <2>2
  <2>4. CASE i = p + 1
    <3>1. Place(c, i, p) = Location(c)
      BY <1>2, <2>4 DEF Place
    <3> QED BY <1>1, <1>2, <2>3, <2>4, <3>1 DEF stored, ch
  <2>5. CASE i # p + 1
    <3>1. Place(c, i, p) # Location(c) /\ Place(c, i, p) \in Nat /\ i \notin S
      BY <1>1, <1>2, <2>1, <2>5 DEF Place
    <3>2. stored[Place(c, i, p)] = c.mem[Place(c, i, p)]
      BY <1>1, <1>2, <2>1, <3>1 DEF stored
    <3>3. c.mem[Place(c, i, p)] = Wanted(t.shown, i)
      BY <1>6, <3>1 DEF CellsRight
    <3> QED BY <2>3, <3>2, <3>3
  <2> QED BY <2>4, <2>5
<1> QED BY <1>5, <1>6 DEF CellsRight, d, ch

LEMMA PutBackspace ==
  ASSUME NEW c \in Screen, c.x \in 1 .. Width - 1, c.y < Height
  PROVE  Put(c, Backspace) = [mem |-> c.mem, x |-> c.x - 1, y |-> c.y]
<1> DEFINE m == [mem |-> c.mem, x |-> c.x - 1, y |-> c.y]
<1>1. c.x \in Nat /\ c.y \in Nat /\ Width \in Nat /\ Height \in Nat
  BY SizesAssumption DEF Screen
<1>2. Backspace \in Output /\ Backspace[1] = "bs"
  BY DEF Backspace, Control, Output, AnyByte
<1>3. Move(c, Backspace) = m
  BY <1>1, <1>2, MoveType
<1>4. Wrap(m) = m
  BY <1>1 DEF Wrap
<1>5. Scroll(m) = m
  BY <1>1 DEF Scroll
<1> QED BY <1>3, <1>4, <1>5 DEF Put

\* A backspace that is not in column 0 moves the cursor back one cell.
LEMMA BackCell ==
  ASSUME NEW c \in Screen, c.x > 0, c.x < Width, c.y < Height, NEW t \in TtyStates, NEW p \in Nat,
         NEW S, CellsRight(c, t, p + 1, S), Fits(c, t, p + 1)
  PROVE  CellsRight(Put(c, Backspace), t, p, S) /\ Fits(Put(c, Backspace), t, p)
<1> DEFINE d == Put(c, Backspace)
<1>1. /\ c.x \in Nat /\ c.y \in Nat /\ Width \in Nat /\ t.most \in Nat /\ c.y * Width \in Nat
  BY SizesAssumption DEF Screen, TtyStates
<1>2. d = [mem |-> c.mem, x |-> c.x - 1, y |-> c.y]
  BY <1>1, PutBackspace
<1> HIDE DEF d
<1>3. Fits(d, t, p)
  BY <1>1, <1>2 DEF Fits
<1>4. \A i \in 1 .. t.most : Place(d, i, p) = Place(c, i, p + 1)
  BY <1>1, <1>2 DEF Place, Location
<1>5. CellsRight(d, t, p, S)
  BY <1>2, <1>4 DEF CellsRight
<1> QED BY <1>3, <1>5 DEF d

\* In column 0 it does nothing.
LEMMA BackColumnZero ==
  ASSUME NEW c \in Screen, c.x = 0, c.y < Height
  PROVE  Put(c, Backspace) = c
<1>1. c.x \in Nat /\ c.y \in Nat /\ Width \in Nat /\ Height \in Nat /\ Width > 0
  BY SizesAssumption DEF Screen
<1>2. Move(c, Backspace) = c
  <2>1. Backspace \in Output /\ Backspace[1] = "bs"
    BY DEF Backspace, Control, Output, AnyByte
  <2> QED BY <2>1, MoveType
<1>3. Wrap(c) = c
  BY <1>1 DEF Wrap
<1>4. Scroll(c) = c
  BY <1>1 DEF Scroll
<1> QED BY <1>2, <1>3, <1>4 DEF Put

LEMMA OutputTypes ==
  /\ Text \in Output /\ Newline \in Output /\ Backspace \in Output /\ Blank \in Output
  /\ Cells \subseteq Output /\ Blank \in Cells
  /\ Message \in Seq(Output) /\ Message \o <<Text>> \in Seq(Output)
  /\ Message \o <<Text>> # <<>>
<1>1. Text \in Output /\ Newline \in Output /\ Backspace \in Output /\ Blank \in Output
  BY DEF Text, Newline, Backspace, Blank, Control, Output, AnyByte, NoByte
<1>2. Message \in Seq(Output) /\ <<Text>> \in Seq(Output) /\ Len(Message) = 2 /\ Len(<<Text>>) = 1
  BY <1>1 DEF Message
<1>3. Message \o <<Text>> \in Seq(Output) /\ Len(Message \o <<Text>>) = 3
  <2>1. /\ Message \o <<Text>> \in Seq(Output)
        /\ Len(Message \o <<Text>>) = Len(Message) + Len(<<Text>>)
    BY <1>2, ConcatProperties
  <2> QED BY <1>2, <2>1
<1>4. Message \o <<Text>> # <<>>
  BY <1>3
<1> QED BY <1>1, <1>2, <1>3, <1>4 DEF Cells, Output, Blank, AnyByte, NoByte

\* What the editor can do with a character.
LEMMA EditCases ==
  ASSUME TtyType, NEW byte \in Bytes \cup {NoByte}, NEW kind
  PROVE  LET ch == <<kind, byte>>
             t == Edit(ch)
         IN  \/ t = tty
             \/ t = [tty EXCEPT !.pc = "exec", !.out = <<Newline>>]
             \/ tty.line # <<>> /\ t = Erased
             \/ ch \in Cells /\ t = Added(ch)
<1> DEFINE ch == <<kind, byte>>
           done == [tty EXCEPT !.pc = "exec", !.out = <<Newline>>]
<1>1. Edit(ch) = CASE kind = "nl" -> done
                   [] kind = "bs" /\ tty.line # <<>> -> Erased
                   [] kind = "char" /\ Len(tty.line) + 1 < LineSize -> Added(ch)
                   [] OTHER -> tty
  BY DEF Edit, Shown
<1>2. kind = "char" => ch \in Cells
  BY DEF Cells, AnyByte
<1> HIDE DEF done
<1>3. \/ Edit(ch) = tty
      \/ Edit(ch) = done
      \/ tty.line # <<>> /\ Edit(ch) = Erased
      \/ kind = "char" /\ Edit(ch) = Added(ch)
  <2>1. CASE kind = "nl"
    BY <1>1, <2>1
  <2>2. CASE kind = "bs"
    BY <1>1, <2>2
  <2>3. CASE kind = "char"
    BY <1>1, <2>3
  <2>4. CASE kind \notin {"nl", "bs", "char"}
    BY <1>1, <2>4
  <2> QED BY <2>1, <2>2, <2>3, <2>4
<1> QED BY <1>2, <1>3 DEF done

\* A sequence without its last element.
LEMMA FrontProperties ==
  ASSUME NEW q \in Seq(Cells), q # <<>>
  PROVE  LET rest == SubSeq(q, 1, Len(q) - 1)
         IN  /\ Len(q) \in Nat \ {0} /\ rest \in Seq(Cells) /\ Len(rest) = Len(q) - 1
             /\ \A i \in 1 .. Len(q) - 1 : rest[i] = q[i]
<1> DEFINE n == Len(q) - 1
           rest == SubSeq(q, 1, n)
<1>1. Len(q) \in Nat /\ Len(q) > 0
  OBVIOUS
<1>2. \A i \in 1 .. Len(q) - 1 : q[i] \in Cells
  BY <1>1
<1>3. n \in Int /\ 1 \in Int
  BY <1>1
<1>4. /\ rest \in Seq(Cells) /\ Len(rest) = IF 1 <= n THEN n - 1 + 1 ELSE 0
      /\ \A i \in 1 .. n - 1 + 1 : rest[i] = q[1 + i - 1]
  <2> HIDE DEF n
  <2> QED BY <1>2, <1>3, SubSeqProperties DEF n
<1>5. n \in Nat
  BY <1>1
<1> HIDE DEF rest, n
<1>6. Len(rest) = n /\ n - 1 + 1 = n /\ \A i \in 1 .. n : 1 + i - 1 = i
  BY <1>4, <1>5
<1>7. \A i \in 1 .. n : rest[i] = q[i]
  BY <1>4, <1>6
<1> QED BY <1>1, <1>4, <1>6, <1>7 DEF rest, n

\* The erase sequence is about to be written.
LEMMA ErasedKeeps ==
  ASSUME IInv, tty.pc = "edit", tty.out = <<>>, tty.line # <<>>,
         tty' = Erased, UNCHANGED <<con, boot>>
  PROVE  EditInv'
<1> DEFINE n == Len(tty.shown)
           line == SubSeq(tty.line, 1, Len(tty.line) - 1)
           rest == SubSeq(tty.shown, 1, n - 1)
           shown == IF con.x = 0 THEN tty.shown ELSE rest
           most == IF con.x = 0 /\ n = tty.most THEN tty.most + 1 ELSE tty.most
           edge == tty.edge \/ con.x = 0
           echo == <<Backspace, Blank, Backspace>>
<1>1. /\ tty \in TtyStates /\ Lengths(tty) /\ (tty.quiet => boot.pc = "halt")
      /\ tty.line \in Seq(Cells) /\ tty.shown \in Seq(Cells) /\ n \in Nat /\ tty.most \in Nat
      /\ tty.edge \in BOOLEAN
  BY DEF IInv, EditInv, TtyType, TtyStates
<1>2. /\ Len(tty.line) \in Nat \ {0} /\ line \in Seq(Cells) /\ Len(line) = Len(tty.line) - 1
  BY <1>1, FrontProperties
<1>3. n > 0 /\ n <= tty.most /\ Len(tty.line) <= n /\ tty.shown # <<>>
  <2>1. n > 0 /\ n <= tty.most /\ Len(tty.line) <= n
    BY <1>1, <1>2 DEF Lengths
  <2>2. Len(<<>>) = 0
    OBVIOUS
  <2> QED BY <2>1, <2>2
<1>4. rest \in Seq(Cells) /\ Len(rest) = n - 1 /\ \A i \in 1 .. n - 1 : rest[i] = tty.shown[i]
  BY <1>1, <1>3, FrontProperties
<1>5. echo \in Seq(Output)
  BY OutputTypes
<1>6. tty' = [tty EXCEPT !.line = line, !.out = echo, !.shown = shown, !.most = most, !.edge = edge]
  BY DEF Erased
<1>7. con.x \in Nat /\ con.x <= Width /\ Width \in Nat /\ Width > 1
  BY SizesAssumption DEF IInv, CursorInv, Screen
<1>8. Editing => Fits(con, tty, n) /\ CellsRight(con, tty, n, {})
  BY DEF IInv, EditInv, EchoInv
<1>9. ~tty.edge /\ con.x # 0 => rest = line
  BY <1>1 DEF Lengths
<1> HIDE DEF line, rest, echo, n
<1>10. shown \in Seq(Cells) /\ most \in Nat /\ edge \in BOOLEAN
  BY <1>1, <1>4
<1> HIDE DEF shown, most, edge
<1>11. /\ tty' \in TtyStates /\ tty'.pc = "edit" /\ tty'.line = line /\ tty'.out = echo
       /\ tty'.shown = shown /\ tty'.most = most /\ tty'.edge = edge /\ tty'.quiet = tty.quiet
  BY <1>1, <1>2, <1>5, <1>6, <1>10, ZenonT(30) DEF TtyStates
<1>12. CASE con.x = 0
  <2>1. shown = tty.shown /\ edge = TRUE /\ most = IF n = tty.most THEN tty.most + 1 ELSE tty.most
    BY <1>12 DEF shown, edge, most
  <2>2. Len(shown) = n /\ n < most
    <3>1. Len(shown) = n
      BY <2>1 DEF n
    <3> QED BY <1>1, <1>3, <2>1, <3>1
  <2>3. Lengths(tty')
    BY <1>1, <1>2, <1>3, <1>11, <2>1, <2>2 DEF Lengths
  <2>4. ASSUME Editing' PROVE EchoInv(con', tty')
    <3>1. Editing
      BY <1>11, <2>4 DEF Editing
    <3>2. Fits(con, tty', n)
      BY <1>1, <1>3, <1>7, <1>8, <1>11, <1>12, <2>1, <3>1 DEF Fits
    <3>3. CellsRight(con, tty', n, {n + 1})
      <4>1. ASSUME NEW i \in (1 .. most) \ {n + 1} PROVE i \in 1 .. tty.most
        BY <1>1, <2>1
      <4> QED BY <1>8, <1>11, <2>1, <3>1, <4>1 DEF CellsRight
    <3> QED BY <1>11, <1>12, <2>2, <3>2, <3>3 DEF EchoInv, echo
  <2> QED BY <1>1, <1>11, <2>3, <2>4 DEF EditInv, TtyType
<1>13. CASE con.x # 0
  <2>1. shown = rest /\ edge = tty.edge /\ most = tty.most
    BY <1>1, <1>13 DEF shown, edge, most
  <2>2. Len(shown) = n - 1 /\ (n - 1) + 1 = n /\ n - 1 < most /\ n - 1 \in Nat
    BY <1>1, <1>3, <1>4, <2>1
  <2>3. Lengths(tty')
    BY <1>1, <1>2, <1>3, <1>9, <1>11, <1>13, <2>1, <2>2 DEF Lengths
  <2>4. ASSUME Editing' PROVE EchoInv(con', tty')
    <3>1. Editing /\ con.x > 0
      BY <1>7, <1>11, <1>13, <2>4 DEF Editing
    <3>2. Fits(con, tty', n)
      BY <1>8, <1>11, <2>1, <3>1 DEF Fits
    <3>3. ASSUME NEW i \in (1 .. tty.most) \ {n} PROVE Wanted(rest, i) = Wanted(tty.shown, i)
      <4>1. i \in Int /\ (i <= n <=> i <= n - 1) /\ (i <= n - 1 => i \in 1 .. n - 1)
        BY <1>1, <1>3
      <4> QED BY <1>4, <4>1 DEF Wanted, n
    <3>4. CellsRight(con, tty', n, {n})
      BY <1>8, <1>11, <2>1, <3>1, <3>3 DEF CellsRight
    <3> QED BY <1>11, <2>2, <3>1, <3>2, <3>4 DEF EchoInv, echo
  <2> QED BY <1>1, <1>11, <2>3, <2>4 DEF EditInv, TtyType
<1> QED BY <1>12, <1>13

\* The echo of a character is about to be written.
LEMMA AddedKeeps ==
  ASSUME IInv, tty.pc = "edit", tty.out = <<>>, NEW ch \in Cells,
         tty' = Added(ch), UNCHANGED <<con, boot>>
  PROVE  EditInv'
<1> DEFINE n == Len(tty.shown)
           line == Append(tty.line, ch)
           longer == Append(tty.shown, ch)
           most == IF n = tty.most THEN tty.most + 1 ELSE tty.most
           echo == <<ch>>
<1>1. /\ tty \in TtyStates /\ Lengths(tty) /\ (tty.quiet => boot.pc = "halt")
      /\ tty.line \in Seq(Cells) /\ tty.shown \in Seq(Cells) /\ n \in Nat /\ tty.most \in Nat
      /\ Len(tty.line) \in Nat
  BY DEF IInv, EditInv, TtyType, TtyStates
<1>2. line \in Seq(Cells) /\ Len(line) = Len(tty.line) + 1
  BY <1>1
<1>3. /\ longer \in Seq(Cells) /\ Len(longer) = n + 1 /\ longer[n + 1] = ch
      /\ \A i \in 1 .. n : longer[i] = tty.shown[i]
  BY <1>1
<1>4. echo \in Seq(Output) /\ most \in Nat
  BY <1>1, OutputTypes
<1>5. tty' = [tty EXCEPT !.line = line, !.out = echo, !.shown = longer, !.most = most]
  BY DEF Added
<1>6. Editing => Fits(con, tty, n) /\ CellsRight(con, tty, n, {})
  BY DEF IInv, EditInv, EchoInv
<1>7. ~tty.edge => longer = line
  BY <1>1 DEF Lengths
<1>8. n <= tty.most /\ Len(tty.line) <= n
  BY <1>1 DEF Lengths
<1>9. most = IF n = tty.most THEN tty.most + 1 ELSE tty.most
  OBVIOUS
<1> HIDE DEF line, longer, echo, most, n
<1>10. /\ tty' \in TtyStates /\ tty'.pc = "edit" /\ tty'.line = line /\ tty'.out = echo
       /\ tty'.shown = longer /\ tty'.most = most /\ tty'.edge = tty.edge
       /\ tty'.quiet = tty.quiet
  BY <1>1, <1>2, <1>3, <1>4, <1>5, ZenonT(30) DEF TtyStates
<1>11. Lengths(tty')
  BY <1>1, <1>2, <1>3, <1>7, <1>8, <1>9, <1>10 DEF Lengths
<1>12. ASSUME Editing' PROVE EchoInv(con', tty')
  <2>1. Editing
    BY <1>10, <1>12 DEF Editing
  <2>2. /\ Len(tty'.shown) = n + 1 /\ n + 1 > 0 /\ (n + 1) - 1 = n /\ con' = con
        /\ tty'.out = <<tty'.shown[n + 1]>>
    <3>1. tty'.shown[n + 1] = ch /\ tty'.out = <<ch>>
      BY <1>3, <1>10 DEF echo
    <3>2. Len(tty'.shown) = n + 1
      BY <1>3, <1>10
    <3> QED BY <1>1, <3>1, <3>2
  <2>3. n + 1 < tty'.most => Fits(con, tty', n)
    BY <1>1, <1>6, <1>9, <1>10, <2>1 DEF Fits
  <2>4. ASSUME NEW i \in (1 .. tty'.most) \ {n + 1}
        PROVE  i \in 1 .. tty.most /\ Wanted(longer, i) = Wanted(tty.shown, i)
    <3>1. /\ i \in 1 .. tty.most /\ (i <= n <=> i <= n + 1)
          /\ (i <= n + 1 => i \in 1 .. n)
      BY <1>1, <1>8, <1>9, <1>10
    <3> QED BY <1>3, <3>1 DEF Wanted, n
  <2>5. CellsRight(con, tty', n, {n + 1})
    BY <1>6, <1>10, <2>1, <2>4 DEF CellsRight
  <2> QED BY <2>2, <2>3, <2>5 DEF EchoInv
<1> QED BY <1>1, <1>10, <1>11, <1>12 DEF EditInv, TtyType

LEMMA ShellGetKeeps ==
  ASSUME IInv, ShellGet
  PROVE  EditInv'
<1> DEFINE byte == input_buffer[read_index]
           kind == IF byte = NoByte THEN "nul" ELSE typed[byte[1]]
           ch == <<kind, byte>>
<1>1. byte \in Bytes \cup {NoByte}
  BY DEF IInv, RingInv, TypeOK
<1>2. TtyType /\ tty.pc = "edit" /\ tty.out = <<>> /\ tty' = Edit(ch) /\ UNCHANGED <<con, boot>>
  BY DEF IInv, EditInv, ShellGet, CharOf
<1> HIDE DEF byte, kind
<1>3. CASE tty' = tty
  BY <1>2, <1>3 DEF IInv, EditInv, TtyType, TtyStates, Editing
<1>4. CASE tty' = [tty EXCEPT !.pc = "exec", !.out = <<Newline>>]
  <2>1. TtyType' /\ tty'.pc = "exec" /\ tty'.quiet = tty.quiet
    <3>1. <<Newline>> \in Seq(Output)
      BY OutputTypes
    <3> QED BY <1>2, <1>4, <3>1 DEF TtyType, TtyStates
  <2> QED BY <1>2, <2>1 DEF IInv, EditInv, Editing
<1>5. CASE tty.line # <<>> /\ tty' = Erased
  BY <1>2, <1>5, ErasedKeeps
<1>6. CASE ch \in Cells /\ tty' = Added(ch)
  BY <1>2, <1>6, AddedKeeps
<1> QED BY <1>1, <1>2, <1>3, <1>4, <1>5, <1>6, EditCases

\* shell_putchar() of the first character that is left of the echo.
LEMMA EchoKeeps ==
  ASSUME NEW c \in Screen, c.x < Width, c.y < Height, NEW t \in TtyStates,
         EchoInv(c, t), t.out # <<>>
  PROVE  EchoInv(Put(c, Head(t.out)), [t EXCEPT !.out = Tail(@)])
<1> DEFINE n == Len(t.shown)
           d == Put(c, Head(t.out))
           u == [t EXCEPT !.out = Tail(@)]
<1>1. t.shown \in Seq(Cells) /\ n \in Nat /\ t.most \in Nat
  BY DEF TtyStates
<1>2. u.shown = t.shown /\ u.most = t.most /\ u.out = Tail(t.out)
  BY DEF TtyStates
<1> SUFFICES EchoInv(d, u)
  OBVIOUS
<1> HIDE DEF u
<1>3. \A p, S : /\ Fits(d, t, p) <=> Fits(d, u, p)
                /\ CellsRight(d, t, p, S) <=> CellsRight(d, u, p, S)
  BY <1>2 DEF Fits, CellsRight
<1>4. CASE /\ n > 0 /\ t.out = <<t.shown[n]>>
           /\ (n < t.most => Fits(c, t, n - 1)) /\ CellsRight(c, t, n - 1, {n})
  <2>1. /\ t.shown[n] \in Cells /\ Head(t.out) = t.shown[n] /\ Tail(t.out) = <<>>
        /\ Wanted(t.shown, n) = t.shown[n] /\ n - 1 \in Nat /\ (n - 1) + 1 = n
    BY <1>1, <1>4 DEF Wanted
  <2>2. n < t.most \/ t.most <= n
    BY <1>1
  <2>3. CellsRight(d, t, n, {n} \ {n}) /\ Fits(d, t, n)
    <3> DEFINE p == n - 1
    <3>1. /\ p \in Nat /\ p + 1 = n /\ CellsRight(c, t, p, {n}) /\ Wanted(t.shown, p + 1) \in Cells
          /\ (t.most <= p + 1 \/ Fits(c, t, p)) /\ d = Put(c, Wanted(t.shown, p + 1))
      BY <1>4, <2>1, <2>2
    <3> HIDE DEF p, d, n
    <3>2. CellsRight(d, t, p + 1, {n} \ {p + 1}) /\ Fits(d, t, p + 1)
      BY <3>1, PutCell
    <3> QED BY <3>1, <3>2
  <2>4. {n} \ {n} = {}
    OBVIOUS
  <2> QED BY <1>2, <1>3, <2>1, <2>3, <2>4 DEF EchoInv
<1>5. CASE /\ n < t.most /\ t.out = <<Backspace, Blank, Backspace>>
           /\ c.x > 0 /\ Fits(c, t, n + 1) /\ CellsRight(c, t, n + 1, {n + 1})
  <2>1. Head(t.out) = Backspace /\ Tail(t.out) = <<Blank, Backspace>>
    BY <1>5
  <2>2. CellsRight(d, t, n, {n + 1}) /\ Fits(d, t, n)
    BY <1>1, <1>5, <2>1, BackCell
  <2> QED BY <1>2, <1>3, <1>5, <2>1, <2>2 DEF EchoInv
<1>6. CASE /\ n < t.most /\ t.out = <<Blank, Backspace>>
           /\ Fits(c, t, n) /\ CellsRight(c, t, n, {n + 1})
  <2>1. /\ Blank \in Cells /\ Head(t.out) = Blank /\ Tail(t.out) = <<Backspace>>
        /\ Wanted(t.shown, n + 1) = Blank
    BY <1>1, <1>6, OutputTypes DEF Wanted
  <2>2. /\ CellsRight(d, t, n + 1, {n + 1} \ {n + 1}) /\ Fits(d, t, n + 1) /\ d.x > 0
    <3>1. d = Put(c, Wanted(t.shown, n + 1)) /\ Wanted(t.shown, n + 1) \in Cells
      BY <2>1
    <3>2. c.x + 1 < Width /\ c.x \in Nat
      BY <1>1, <1>6, SizesAssumption DEF Fits, Screen
    <3> HIDE DEF d, n
    <3>3. CellsRight(d, t, n + 1, {n + 1} \ {n + 1}) /\ Fits(d, t, n + 1)
      BY <1>1, <1>6, <3>1, PutCell
    <3>4. d.x = c.x + 1
      BY <3>1, <3>2, PutShown
    <3> QED BY <3>2, <3>3, <3>4
  <2>3. {n + 1} \ {n + 1} = {}
    OBVIOUS
  <2> QED BY <1>2, <1>3, <1>6, <2>1, <2>2, <2>3 DEF EchoInv
<1>7. CASE /\ n < t.most /\ t.out = <<Backspace>>
           /\ c.x > 0 /\ Fits(c, t, n + 1) /\ CellsRight(c, t, n + 1, {})
  <2>1. Head(t.out) = Backspace /\ Tail(t.out) = <<>>
    BY <1>7
  <2>2. CellsRight(d, t, n, {}) /\ Fits(d, t, n)
    BY <1>1, <1>7, <2>1, BackCell
  <2> QED BY <1>2, <1>3, <2>1, <2>2 DEF EchoInv
<1>8. CASE /\ n < t.most /\ t.out = <<Backspace, Blank, Backspace>>
           /\ c.x = 0 /\ Fits(c, t, n) /\ CellsRight(c, t, n, {n + 1})
  <2>1. Head(t.out) = Backspace /\ Tail(t.out) = <<Blank, Backspace>>
    BY <1>8
  <2>2. d = c
    BY <1>8, <2>1, BackColumnZero
  <2> QED BY <1>2, <1>3, <1>8, <2>1, <2>2 DEF EchoInv
<1> QED BY <1>4, <1>5, <1>6, <1>7, <1>8 DEF EchoInv

LEMMA ShellPutKeeps ==
  ASSUME IInv, ShellPut
  PROVE  EditInv' /\ con' \in Screen /\ con'.x < Width /\ con'.y < Height
<1>1. /\ TtyType /\ tty.out \in Seq(Output) /\ tty.out # <<>> /\ con \in Screen
      /\ (con.x < Width \/ con.y < Height)
      /\ (tty.pc = "edit" => Lengths(tty))
      /\ (tty.pc = "prompt" => Unwritten(tty))
      /\ (tty.quiet => boot.pc = "halt" /\ OnScreen)
      /\ (Editing => EchoInv(con, tty))
      /\ UNCHANGED boot /\ con' = Put(con, Head(tty.out))
  <2>1. con.x < Width \/ con.y < Height
    BY DEF IInv, CursorInv, OnScreen, BootType
  <2> QED BY <2>1 DEF IInv, CursorInv, EditInv, TtyType, TtyStates, ShellPut
<1>2. con' \in Screen /\ con'.x < Width /\ con'.y < Height
  BY <1>1, PutOnScreen
<1>3. con'.x \in Nat
  BY <1>2 DEF Screen
<1>4. CASE tty.pc = "prompt" /\ Len(tty.out) = 1
  <2>1. tty' = [tty EXCEPT !.pc = "edit", !.out = <<>>, !.quiet = BootAt("halt")]
    BY <1>4 DEF ShellPut
  <2>2. /\ TtyType' /\ tty'.pc = "edit" /\ tty'.out = <<>>
        /\ Unwritten(tty')
    <3>1. <<>> \in Seq(Output) /\ BootAt("halt") \in BOOLEAN
      BY DEF BootAt
    <3> QED BY <1>1, <1>3, <1>4, <2>1, <3>1 DEF TtyType, TtyStates, Unwritten
  <2>3. tty'.quiet => boot'.pc = "halt"
    BY <1>1, <2>1 DEF TtyType, TtyStates, BootAt
  <2>4. EchoInv(con', tty')
    <3>1. Len(tty'.shown) = 0 /\ Fits(con', tty', 0) /\ CellsRight(con', tty', 0, {})
      BY <1>2, <1>3, <2>2 DEF Fits, CellsRight, Unwritten
    <3> QED BY <2>2, <3>1 DEF EchoInv
  <2>5. Lengths(tty')
    BY <2>2 DEF Unwritten, Lengths
  <2> QED BY <1>2, <2>2, <2>3, <2>4, <2>5 DEF EditInv
<1>5. CASE ~(tty.pc = "prompt" /\ Len(tty.out) = 1)
  <2>1. tty' = [tty EXCEPT !.out = Tail(@)]
    BY <1>5 DEF ShellPut
  <2>2. Tail(tty.out) \in Seq(Output) /\ (tty.pc = "prompt" => Tail(tty.out) # <<>>)
    <3>1. Len(Tail(tty.out)) = Len(tty.out) - 1 /\ Tail(tty.out) \in Seq(Output)
          /\ Len(tty.out) \in Nat
      BY <1>1
    <3>2. tty.pc = "prompt" => Len(Tail(tty.out)) # 0
      BY <1>5, <3>1
    <3>3. Len(<<>>) = 0
      OBVIOUS
    <3> QED BY <3>1, <3>2, <3>3
  <2>3. /\ TtyType' /\ tty'.pc = tty.pc /\ tty'.out = Tail(tty.out) /\ tty'.edge = tty.edge
        /\ tty'.line = tty.line /\ tty'.most = tty.most /\ tty'.quiet = tty.quiet
        /\ tty'.shown = tty.shown
    BY <1>1, <2>1, <2>2 DEF TtyType, TtyStates
  <2>4. Editing' => EchoInv(con', tty')
    <3> SUFFICES ASSUME Editing' PROVE EchoInv(con', tty')
      OBVIOUS
    <3>1. Editing /\ tty \in TtyStates /\ con.x < Width /\ con.y < Height
          /\ EchoInv(con, tty)
      BY <1>1, <2>3 DEF Editing, TtyType, OnScreen
    <3> QED BY <1>1, <2>1, <3>1, EchoKeeps
  <2> QED BY <1>1, <1>2, <2>2, <2>3, <2>4 DEF EditInv, Lengths, Unwritten
<1> QED BY <1>4, <1>5

-----------------------------------------------------------------------------
(* Every step keeps the invariant. *)

\* The shell about to prompt, waiting for a program, or gone.
Fresh ==
  {t \in TtyStates : t.pc \in {"prompt", "run", "gone"} /\ Unwritten(t) /\ ~t.quiet}

LEMMA PromptingType ==
  /\ Prompting \in Fresh /\ Prompting.out # <<>>
  /\ \A message \in {<<>>, Message} :
       /\ [Prompting EXCEPT !.out = message \o @] \in Fresh
       /\ [Prompting EXCEPT !.out = message \o @].out # <<>>
  /\ [Prompting EXCEPT !.pc = "run", !.out = Message] \in Fresh
  /\ [Prompting EXCEPT !.pc = "run", !.out = Message].pc = "run"
  /\ Gone \in Fresh /\ Gone.pc = "gone"
<1>1. <<Text>> \in Seq(Output) /\ <<Text>> # <<>> /\ <<>> \o <<Text>> = <<Text>>
  BY OutputTypes
<1>2. Message \in Seq(Output)
  BY OutputTypes
<1>3. Prompting.out = <<Text>>
  BY DEF Prompting
<1>4. Prompting \in Fresh
  <2>1. <<>> \in Seq(Cells)
    OBVIOUS
  <2> QED BY <1>1, <2>1 DEF Prompting, Fresh, TtyStates, Unwritten
<1>5. ASSUME NEW message \in {<<>>, Message}
      PROVE  /\ [Prompting EXCEPT !.out = message \o @] \in Fresh
             /\ [Prompting EXCEPT !.out = message \o @].out # <<>>
  <2> DEFINE full == message \o Prompting.out
  <2>1. full \in Seq(Output) /\ full # <<>>
    BY <1>1, <1>3, OutputTypes
  <2>2. [Prompting EXCEPT !.out = message \o @] = [Prompting EXCEPT !.out = full]
    OBVIOUS
  <2> HIDE DEF full
  <2> QED BY <1>4, <2>1, <2>2 DEF Fresh, TtyStates, Unwritten
<1>6. /\ [Prompting EXCEPT !.pc = "run", !.out = Message] \in Fresh
      /\ [Prompting EXCEPT !.pc = "run", !.out = Message].pc = "run"
  BY <1>2, <1>4 DEF Fresh, TtyStates, Unwritten
<1>7. Gone \in Fresh /\ Gone.pc = "gone"
  <2>1. <<>> \in Seq(Output)
    OBVIOUS
  <2> QED BY <1>4, <2>1 DEF Gone, Fresh, TtyStates, Unwritten
<1> QED BY <1>1, <1>3, <1>4, <1>5, <1>6, <1>7

\* Nothing is being edited.
LEMMA NotEditing ==
  ASSUME tty' \in Fresh, tty'.out # <<>> \/ tty'.pc \in {"run", "gone"}
  PROVE  EditInv'
BY DEF Fresh, EditInv, Editing, TtyType, TtyStates

LEMMA InitHolds == TermInit => IInv
<1> SUFFICES ASSUME TermInit PROVE IInv
  OBVIOUS
<1>1. TypeOK
  <2>1. 0 \in Slots /\ 0 \in 0 .. MaxKeys /\ <<>> \in Seq(Bytes \cup {NoByte})
    BY SizeAssumption, MaxKeysAssumption DEF Slots
  <2> QED BY <2>1 DEF TermInit, Init, TypeOK
<1>2. RingInv
  BY <1>1, ReadersAssumption, MaxKeysAssumption
     DEF RingInv, ReaderInv, TermInit, Init, ShellReader, ProgramReader, NoProgram
<1>3. con \in Screen /\ OnScreen
  <2>1. Blank \in Cells
    BY OutputTypes
  <2> QED BY <2>1, SizesAssumption DEF TermInit, Screen, OnScreen
<1>4. boot \in BootType /\ boot.pc = "put" /\ boot.text # <<>>
  BY BootTextAssumption DEF TermInit, BootWriting, BootType
<1>5. CursorInv
  BY <1>3, <1>4 DEF CursorInv
<1>6. tty \in Fresh /\ tty.out # <<>>
  BY PromptingType DEF TermInit
<1>7. EditInv
  BY <1>6 DEF Fresh, EditInv, Editing, TtyType, TtyStates
<1> QED BY <1>2, <1>5, <1>7 DEF IInv

\* Steps that leave the ring and its readers alone.
LEMMA RingUnchanged ==
  ASSUME RingInv, UNCHANGED vars, prog' \in [alive : BOOLEAN, writes : Nat, raced : BOOLEAN],
         prog'.raced = prog.raced
  PROVE  RingInv'
BY DEF RingInv, ReaderInv, TypeOK, vars, ringVars, Slots, Bytes, NoByte

LEMMA ScreenUnchanged ==
  ASSUME CursorInv, EditInv, UNCHANGED <<con, boot, tty>>
  PROVE  CursorInv' /\ EditInv'
<1>1. CursorInv'
  BY DEF CursorInv, OnScreen
<1>2. EditInv'
  BY DEF EditInv, TtyType, Editing
<1> QED BY <1>1, <1>2

\* Steps after which the shell is not editing, and which write nothing.
LEMMA FreshKeeps ==
  ASSUME IInv, tty' \in Fresh, tty'.out # <<>> \/ tty'.pc \in {"run", "gone"},
         UNCHANGED <<vars, con, boot>>,
         prog' \in [alive : BOOLEAN, writes : Nat, raced : BOOLEAN], prog'.raced = prog.raced
  PROVE  IInv'
<1>1. EditInv'
  BY NotEditing
<1>2. RingInv'
  BY RingUnchanged DEF IInv
<1>3. CursorInv'
  BY DEF IInv, CursorInv, OnScreen, Shown
<1> QED BY <1>1, <1>2, <1>3 DEF IInv

LEMMA StepKeeps == IInv /\ [TermNext]_termVars => IInv'
<1> SUFFICES ASSUME IInv, [TermNext]_termVars PROVE IInv'
  OBVIOUS
<1> DEFINE Progs == [alive : BOOLEAN, writes : Nat, raced : BOOLEAN]
<1>1. RingInv /\ CursorInv /\ EditInv /\ TtyType /\ con \in Screen /\ prog \in Progs
      /\ (con.x < Width \/ con.y < Height)
  BY DEF IInv, RingInv, EditInv, CursorInv, OnScreen, BootType
<1>2. CASE PressShift
  <2>1. RingInv'
    BY <1>1, <1>2 DEF PressShift, ShiftKey, RingInv, ReaderInv, TypeOK, ringVars
  <2> QED BY <1>1, <1>2, <2>1, ScreenUnchanged DEF PressShift, IInv
<1>3. CASE PressKey
  BY <1>1, <1>3, PrintableKeyKeeps, ScreenUnchanged DEF PressKey, IInv
<1>4. CASE ShellGet
  <2>1. EditInv'
    BY <1>4, ShellGetKeeps
  <2>2. prog' \in Progs /\ (~prog'.raced => pc[ProgramReader] = "out")
    BY <1>1, <1>4 DEF ShellGet
  <2>3. RingInv'
    BY <1>1, <1>4, <2>2, ReadersAssumption, GetcharAtomicKeeps DEF ShellGet, ShellReader
  <2>4. CursorInv'
    BY <1>1, <1>4 DEF ShellGet, CursorInv, OnScreen, Shown
  <2> QED BY <2>1, <2>3, <2>4 DEF IInv
<1>5. CASE ShellPut
  <2>1. EditInv' /\ CursorInv'
    BY <1>1, <1>5, ShellPutKeeps, WriteKeeps DEF ShellPut
  <2>2. RingInv'
    BY <1>1, <1>5, RingUnchanged DEF ShellPut
  <2> QED BY <2>1, <2>2 DEF IInv
<1>6. CASE ExecBuiltin
  BY <1>1, <1>6, PromptingType, FreshKeeps DEF ExecBuiltin
<1>7. CASE ExecClear
  <2>1. EditInv'
    BY <1>7, PromptingType, NotEditing DEF ExecClear
  <2>2. RingInv'
    BY <1>1, <1>7, RingUnchanged DEF ExecClear
  <2>3. CursorInv'
    BY <1>1, <1>7, ClearOnScreen, WriteKeeps DEF ExecClear
  <2> QED BY <2>1, <2>2, <2>3 DEF IInv
<1>8. CASE ExecRun \/ ExecExec
  <2>1. prog' \in Progs /\ prog'.raced = prog.raced
    BY <1>1, <1>8 DEF ExecRun, ExecExec
  <2> QED BY <1>1, <1>8, <2>1, PromptingType, FreshKeeps DEF ExecRun, ExecExec
<1>9. CASE RunEnds \/ ShellDies
  BY <1>1, <1>9, PromptingType, FreshKeeps DEF RunEnds, ShellDies
<1>10. CASE ProgramRead
  BY <1>1, <1>10, ProgramReadKeeps, ScreenUnchanged DEF ProgramRead, IInv
<1>11. CASE ProgramWrite
  <2>1. PICK ch \in {Text, Backspace, Newline, Control("tab"), Control("cr")} : con' = Put(con, ch)
    BY <1>11 DEF ProgramWrite
  <2>2. ch \in Output
    <3>1. Control("tab") \in Output /\ Control("cr") \in Output
      BY DEF Control, Output, AnyByte
    <3> QED BY <2>1, <3>1, OutputTypes
  <2>3. con' \in Screen /\ con'.x < Width /\ con'.y < Height
    BY <1>1, <2>1, <2>2, PutOnScreen
  <2>4. CursorInv'
    BY <1>1, <1>11, <2>3, WriteKeeps DEF ProgramWrite
  <2>5. /\ TtyType' /\ ~tty'.quiet /\ tty'.pc = tty.pc /\ tty'.line = tty.line
        /\ tty'.shown = tty.shown /\ tty'.most = tty.most /\ tty'.out = tty.out
        /\ tty'.edge = tty.edge
    BY <1>1, <1>11 DEF ProgramWrite, TtyType, TtyStates
  <2>6. EditInv'
    BY <1>1, <2>5 DEF EditInv, Editing, Lengths, Unwritten
  <2>7. prog' \in Progs /\ prog'.raced = prog.raced
    BY <1>1, <1>11 DEF ProgramWrite
  <2>8. RingInv'
    BY <1>1, <1>11, <2>7, RingUnchanged DEF ProgramWrite
  <2> QED BY <2>4, <2>6, <2>8 DEF IInv
<1>12. CASE ProgramExits
  <2>1. prog' \in Progs /\ prog'.raced = prog.raced
    BY <1>1, <1>12 DEF ProgramExits, NoProgram
  <2> QED BY <1>1, <1>12, <2>1, RingUnchanged, ScreenUnchanged DEF ProgramExits, IInv
<1>13. CASE BootStep /\ UNCHANGED <<vars, typed, tty, prog>>
  <2>1. boot.pc # "halt"
    BY <1>13 DEF BootStep, BootAt, BootPut, BootColumn, BootCell, BootXLoad, BootXStore, BootWrap,
                 BootXZero, BootYLoad, BootYStore, BootScroll, BootShift, BootSetY
  <2>2. ~tty.quiet
    BY <1>1, <2>1 DEF EditInv
  <2>3. EditInv'
    BY <1>1, <1>13, <2>2 DEF EditInv, Editing, TtyType, TtyStates
  <2>4. RingInv'
    BY <1>1, <1>13, RingUnchanged
  <2> QED BY <1>1, <1>13, <2>3, <2>4, BootStepKeeps DEF IInv
<1>14. CASE UNCHANGED termVars
  BY <1>1, <1>14, RingUnchanged, ScreenUnchanged DEF termVars, IInv
<1> QED BY <1>2, <1>3, <1>4, <1>5, <1>6, <1>7, <1>8, <1>9, <1>10, <1>11, <1>12, <1>13, <1>14
        DEF TermNext, ShellStep

LEMMA Invariance == TermSpec => []IInv
BY InitHolds, StepKeeps, PTL DEF TermSpec

-----------------------------------------------------------------------------
(***************************************************************************)
(* No index of the keyboard ring, and no index keyboard_getchar() has      *)
(* loaded, ever leaves the buffer, and no more keys are dropped than were  *)
(* pressed, for every ring size of two or more.                            *)
(***************************************************************************)
THEOREM KeyboardTypes == TermSpec => []TypeOK
<1>1. IInv => TypeOK
  BY DEF IInv, RingInv
<1> QED BY <1>1, Invariance, PTL

(***************************************************************************)
(* monitor_put() stores inside the video memory and, outside of PID 0's    *)
(* calls, leaves the cursor on the screen, for every screen and tab size   *)
(* and every interleaving of PID 0 with the processes that write.          *)
(***************************************************************************)
THEOREM CursorStaysOnScreen == TermSpec => []CursorOnScreen
<1>1. IInv => CursorOnScreen
  <2> SUFFICES ASSUME IInv PROVE CursorOnScreen
    OBVIOUS
  <2>1. con \in Screen /\ (con.x < Width \/ con.y < Height)
    BY DEF IInv, CursorInv, OnScreen, BootType
  <2>2. Location(con) \in Memory
    BY <2>1, LocationInMemory
  <2>3. con.x \in Nat /\ con.y \in Nat
    BY <2>1, SizesAssumption DEF Screen
  <2> QED BY <2>2, <2>3, SizesAssumption DEF IInv, CursorInv, CursorOnScreen, OnScreen, BootAt
<1> QED BY <1>1, Invariance, PTL

(***************************************************************************)
(* The screen shows the line that is edited, after every sequence of typed *)
(* characters, erasures and commands, through wrapping and scrolling, for  *)
(* every screen and line size, until a program writes into it, but for the *)
(* characters whose erasure began in column 0.                             *)
(***************************************************************************)
THEOREM ScreenShowsLine == TermSpec => []LineShown
<1>1. IInv => LineShown
  <2> SUFFICES ASSUME IInv, tty.pc = "edit", tty.out = <<>>, tty.quiet
               PROVE  LineShown
    BY DEF LineShown
  <2>1. EchoInv(con, tty) /\ Lengths(tty)
    BY DEF IInv, EditInv, Editing
  <2>2. CellsRight(con, tty, Len(tty.shown), {})
    BY <2>1 DEF EchoInv
  <2>3. ASSUME NEW i \in 1 .. tty.most, Location(con) + i - Len(tty.shown) - 1 \in Memory
        PROVE  con.mem[Location(con) + i - Len(tty.shown) - 1] =
                 IF i <= Len(tty.shown) THEN tty.shown[i] ELSE Blank
    <3>1. Place(con, i, Len(tty.shown)) \in Nat
      BY <2>3 DEF Place, Memory
    <3>2. con.mem[Place(con, i, Len(tty.shown))] = Wanted(tty.shown, i)
      BY <2>2, <3>1 DEF CellsRight
    <3> QED BY <3>2 DEF Place, Wanted
  <2> QED BY <2>1, <2>3 DEF LineShown, Lengths
<1> QED BY <1>1, Invariance, PTL

-----------------------------------------------------------------------------
(***************************************************************************)
(* The ring of keyboard.c implements KeyQueue, a bounded first-in          *)
(* first-out queue, with the readers that the shell and its program are.   *)
(***************************************************************************)

(* The refinement mapping of Queue, on a buffer and its two indices. *)
UsedOf(r, w)      == (w + Size - r) % Size
SlotOf(r, i)      == (r + i - 1) % Size
QueueOf(buf, r, w) == [i \in 1 .. UsedOf(r, w) |-> buf[SlotOf(r, i)]]
QueueMap          == QueueOf(input_buffer, read_index, write_index)

RingBytes == Bytes \cup {NoByte}

-----------------------------------------------------------------------------
LEMMA UsedValue ==
  ASSUME NEW r \in Slots, NEW w \in Slots
  PROVE  /\ UsedOf(r, w) = IF w >= r THEN w - r ELSE w + Size - r
         /\ UsedOf(r, w) \in 0 .. Size - 1
         /\ UsedOf(r, w) = 0 <=> r = w
<1>1. r \in 0 .. Size - 1 /\ w \in 0 .. Size - 1 /\ Size \in Nat /\ Size >= 2
  BY SizeAssumption DEF Slots
<1> DEFINE k == w + Size - r
<1>2. k \in 0 .. 2 * Size - 1
  BY <1>1
<1>3. k % Size = IF k < Size THEN k ELSE k - Size
  BY <1>2, Modulo
<1> QED BY <1>1, <1>3 DEF UsedOf

LEMMA SlotValue ==
  ASSUME NEW r \in Slots, NEW i \in 1 .. Size
  PROVE  /\ SlotOf(r, i) = IF r + i - 1 < Size THEN r + i - 1 ELSE r + i - 1 - Size
         /\ SlotOf(r, i) \in Slots
<1>1. r \in 0 .. Size - 1 /\ Size \in Nat /\ Size >= 2
  BY SizeAssumption DEF Slots
<1> DEFINE k == r + i - 1
<1>2. k \in 0 .. 2 * Size - 1
  BY <1>1
<1> HIDE DEF k
<1>3. k % Size = IF k < Size THEN k ELSE k - Size
  BY <1>2, Modulo
<1> QED BY <1>1, <1>3 DEF SlotOf, Slots, k

LEMMA QueueType ==
  ASSUME NEW buf \in [Slots -> RingBytes], NEW r \in Slots, NEW w \in Slots
  PROVE  /\ QueueOf(buf, r, w) \in Seq(RingBytes)
         /\ Len(QueueOf(buf, r, w)) = UsedOf(r, w)
         /\ UsedOf(r, w) \in Nat /\ UsedOf(r, w) < Size
         /\ \A i \in 1 .. UsedOf(r, w) : QueueOf(buf, r, w)[i] = buf[SlotOf(r, i)]
<1> DEFINE n == UsedOf(r, w)
<1>1. n \in Nat /\ n < Size /\ Size \in Nat
  BY UsedValue, SizeAssumption
<1> HIDE DEF n
<1>2. ASSUME NEW i \in 1 .. n PROVE buf[SlotOf(r, i)] \in RingBytes
  <2>1. SlotOf(r, i) \in Slots
    BY <1>1, SlotValue
  <2> QED BY <2>1
<1>3. QueueOf(buf, r, w) = [i \in 1 .. n |-> buf[SlotOf(r, i)]]
  BY DEF QueueOf, n
<1>4. QueueOf(buf, r, w) \in [1 .. n -> RingBytes]
  BY <1>2, <1>3
<1> QED BY <1>1, <1>3, <1>4 DEF n

\* A byte stored at the write index goes behind the last one and on no other.
LEMMA StoreAppends ==
  ASSUME NEW buf \in [Slots -> RingBytes], NEW r \in Slots, NEW w \in Slots, NEW b \in RingBytes,
         (w + 1) % Size # r
  PROVE  /\ Len(QueueOf(buf, r, w)) < Size - 1
         /\ QueueOf([buf EXCEPT ![w] = b], r, (w + 1) % Size) = Append(QueueOf(buf, r, w), b)
<1> DEFINE n == UsedOf(r, w)
           v == (w + 1) % Size
           new == [buf EXCEPT ![w] = b]
           q == QueueOf(buf, r, w)
           p == QueueOf(new, r, v)
<1>1. /\ r \in 0 .. Size - 1 /\ w \in 0 .. Size - 1 /\ Size \in Nat /\ Size >= 2
      /\ v = IF w + 1 = Size THEN 0 ELSE w + 1
      /\ v \in Slots /\ v # r /\ new \in [Slots -> RingBytes]
  BY SizeAssumption, NextSlot DEF Slots
<1> HIDE DEF v, new
<1>2. n = IF w >= r THEN w - r ELSE w + Size - r
  BY UsedValue
<1>3. n \in Nat /\ n < Size - 1 /\ UsedOf(r, v) = n + 1
  <2>1. UsedOf(r, v) = IF v >= r THEN v - r ELSE v + Size - r
    BY <1>1, UsedValue
  <2> QED BY <1>1, <1>2, <2>1
<1>4. /\ q \in Seq(RingBytes) /\ Len(q) = n
      /\ \A i \in 1 .. n : q[i] = buf[SlotOf(r, i)]
  BY QueueType
<1>5. /\ p \in Seq(RingBytes) /\ Len(p) = n + 1
      /\ \A i \in 1 .. n + 1 : p[i] = new[SlotOf(r, i)]
  <2>1. /\ p \in Seq(RingBytes) /\ Len(p) = UsedOf(r, v)
        /\ \A i \in 1 .. UsedOf(r, v) : p[i] = new[SlotOf(r, i)]
    BY <1>1, QueueType, ZenonT(30)
  <2> HIDE DEF n, p
  <2> QED BY <1>3, <2>1
<1> HIDE DEF n, q, p
<1>6. ASSUME NEW i \in 1 .. n + 1 PROVE p[i] = Append(q, b)[i]
  <2>1. i \in 1 .. Size /\ SlotOf(r, i) \in Slots
        /\ SlotOf(r, i) = IF r + i - 1 < Size THEN r + i - 1 ELSE r + i - 1 - Size
    BY <1>1, <1>3, SlotValue
  <2>2. CASE i = n + 1
    <3>1. SlotOf(r, i) = w
      BY <1>1, <1>2, <2>1, <2>2
    <3> QED BY <1>3, <1>4, <1>5, <2>2, <3>1 DEF new
  <2>3. CASE i \in 1 .. n
    <3>1. SlotOf(r, i) # w
      BY <1>1, <1>2, <2>1, <2>3
    <3>2. Append(q, b)[i] = q[i]
      BY <1>4, <2>3
    <3>3. p[i] = new[SlotOf(r, i)] /\ new[SlotOf(r, i)] = buf[SlotOf(r, i)]
      BY <1>5, <2>1, <3>1 DEF new
    <3>4. q[i] = buf[SlotOf(r, i)]
      BY <1>4, <2>3
    <3> QED BY <3>2, <3>3, <3>4
  <2>4. i = n + 1 \/ i \in 1 .. n
    BY <1>3
  <2> QED BY <2>2, <2>3, <2>4
<1>7. p = Append(q, b)
  <2>1. Append(q, b) \in Seq(RingBytes) /\ Len(Append(q, b)) = n + 1
    BY <1>4
  <2> QED BY <1>5, <1>6, <2>1, SeqEqual
<1> QED BY <1>3, <1>4, <1>7 DEF n, q, p, v, new

\* Advancing the read index takes the first byte off.
LEMMA AdvanceTakes ==
  ASSUME NEW buf \in [Slots -> RingBytes], NEW r \in Slots, NEW w \in Slots, r # w
  PROVE  /\ QueueOf(buf, r, w) # <<>>
         /\ Head(QueueOf(buf, r, w)) = buf[r]
         /\ QueueOf(buf, (r + 1) % Size, w) = Tail(QueueOf(buf, r, w))
<1> DEFINE n == UsedOf(r, w)
           s == (r + 1) % Size
           q == QueueOf(buf, r, w)
           p == QueueOf(buf, s, w)
<1>1. /\ r \in 0 .. Size - 1 /\ w \in 0 .. Size - 1 /\ Size \in Nat /\ Size >= 2
      /\ s = IF r + 1 = Size THEN 0 ELSE r + 1
      /\ s \in Slots
  BY SizeAssumption, NextSlot DEF Slots
<1> HIDE DEF s
<1>2. n = IF w >= r THEN w - r ELSE w + Size - r
  BY UsedValue
<1>3. n \in Nat /\ n > 0 /\ n < Size /\ UsedOf(s, w) = n - 1
  <2>1. UsedOf(s, w) = IF w >= s THEN w - s ELSE w + Size - s
    BY <1>1, UsedValue
  <2> QED BY <1>1, <1>2, <2>1
<1>4. /\ q \in Seq(RingBytes) /\ Len(q) = n
      /\ \A i \in 1 .. n : q[i] = buf[SlotOf(r, i)]
  BY QueueType
<1>5. /\ p \in Seq(RingBytes) /\ Len(p) = n - 1
      /\ \A i \in 1 .. n - 1 : p[i] = buf[SlotOf(s, i)]
  <2>1. /\ p \in Seq(RingBytes) /\ Len(p) = UsedOf(s, w)
        /\ \A i \in 1 .. UsedOf(s, w) : p[i] = buf[SlotOf(s, i)]
    BY <1>1, QueueType
  <2> HIDE DEF n, p
  <2> QED BY <1>3, <2>1
<1> HIDE DEF n, q, p
<1>6. q # <<>> /\ Head(q) = buf[r]
  <2>1. 1 \in 1 .. Size /\ 1 \in 1 .. n
    BY <1>1, <1>3
  <2>2. SlotOf(r, 1) = r
    BY <1>1, <2>1, SlotValue
  <2>3. Head(q) = q[1] /\ q # <<>>
    BY <1>3, <1>4
  <2> QED BY <1>4, <2>1, <2>2, <2>3
<1>7. Tail(q) \in Seq(RingBytes) /\ Len(Tail(q)) = n - 1
      /\ \A i \in 1 .. n - 1 : Tail(q)[i] = q[i + 1]
  BY <1>4, <1>6, HeadTailProperties
<1>8. ASSUME NEW i \in 1 .. n - 1 PROVE p[i] = Tail(q)[i]
  <2>1. i \in 1 .. Size /\ i + 1 \in 1 .. Size /\ i + 1 \in 1 .. n
    BY <1>1, <1>3
  <2>2. SlotOf(s, i) = IF s + i - 1 < Size THEN s + i - 1 ELSE s + i - 1 - Size
    BY <1>1, <2>1, SlotValue
  <2>3. SlotOf(r, i + 1) = IF r + (i + 1) - 1 < Size THEN r + (i + 1) - 1
                           ELSE r + (i + 1) - 1 - Size
    BY <2>1, SlotValue
  <2>4. SlotOf(s, i) = SlotOf(r, i + 1)
    BY <1>1, <1>3, <2>2, <2>3
  <2> QED BY <1>4, <1>5, <1>7, <2>1, <2>4
<1>9. p = Tail(q)
  BY <1>5, <1>7, <1>8, SeqEqual
<1> QED BY <1>6, <1>9 DEF q, p, s

-----------------------------------------------------------------------------
(* The steps of the terminal as steps of the queue. *)

LEMMA QueueIsMap ==
  Queue!queueVars = <<QueueMap, taken, dropped>>
BY DEF Queue!queueVars, QueueMap, QueueOf, UsedOf, SlotOf, Used

LEMMA RingIsBuffer ==
  ASSUME RingInv
  PROVE  /\ input_buffer \in [Slots -> RingBytes] /\ read_index \in Slots /\ write_index \in Slots
         /\ Len(QueueMap) = UsedOf(read_index, write_index)
BY QueueType DEF RingInv, TypeOK, RingBytes, QueueMap

LEMMA KeyRefines ==
  ASSUME RingInv, PrintableKey
  PROVE  Queue!Accept \/ Queue!Drop
<1>1. /\ input_buffer \in [Slots -> RingBytes] /\ read_index \in Slots /\ write_index \in Slots
      /\ Len(QueueMap) = UsedOf(read_index, write_index)
  BY RingIsBuffer
<1>2. CASE Enqueue
  <2> DEFINE b == <<keys + 1, shift_pressed>>
  <2>1. b \in Bytes /\ b \in RingBytes
    BY MaxKeysAssumption DEF PrintableKey, RingInv, TypeOK, Bytes, RingBytes
  <2>2. Len(QueueMap) < Size - 1 /\ QueueMap' = Append(QueueMap, b)
    BY <1>1, <1>2, <2>1, StoreAppends DEF Enqueue, Full, QueueMap
  <2>3. UNCHANGED <<taken, dropped>>
    BY <1>2 DEF PrintableKey, Enqueue
  <2> HIDE DEF b
  <2> QED BY <2>1, <2>2, <2>3 DEF Queue!Accept, QueueMap, QueueOf, UsedOf, SlotOf, Used
<1>3. CASE DropNewest
  <2>1. Len(QueueMap) = Size - 1
    <3>1. /\ read_index \in 0 .. Size - 1 /\ write_index \in 0 .. Size - 1 /\ Size \in Nat
          /\ read_index = IF write_index + 1 = Size THEN 0 ELSE write_index + 1
      BY <1>1, <1>3, NextSlot, SizeAssumption DEF DropNewest, Full, Slots
    <3> QED BY <1>1, <3>1, UsedValue
  <2>2. QueueMap' = QueueMap /\ dropped' = dropped + 1 /\ taken' = taken
    BY <1>3 DEF PrintableKey, DropNewest, ringVars, QueueMap
  <2> QED BY <2>1, <2>2 DEF Queue!Drop, QueueMap, QueueOf, UsedOf, SlotOf, Used
<1> QED BY <1>2, <1>3 DEF PrintableKey

LEMMA TakeRefines ==
  ASSUME RingInv, read_index # write_index,
         read_index' = (read_index + 1) % Size, UNCHANGED <<input_buffer, write_index, dropped>>,
         taken' = Append(taken, input_buffer[read_index])
  PROVE  Queue!Take
<1>1. /\ QueueMap # <<>> /\ Head(QueueMap) = input_buffer[read_index]
      /\ QueueMap' = Tail(QueueMap)
  BY RingIsBuffer, AdvanceTakes DEF QueueMap
<1>2. taken' = Append(taken, Head(QueueMap)) /\ UNCHANGED dropped
  BY <1>1
<1> QED BY <1>1, <1>2 DEF Queue!Take, QueueMap, QueueOf, UsedOf, SlotOf, Used

LEMMA StutterRefines ==
  ASSUME UNCHANGED <<input_buffer, read_index, write_index, taken, dropped>>
  PROVE  UNCHANGED Queue!queueVars
BY DEF Queue!queueVars, Used

LEMMA InitRefines == TermInit => Queue!Init
<1> SUFFICES ASSUME TermInit PROVE Queue!Init
  OBVIOUS
<1>1. RingInv /\ read_index = write_index
  BY InitHolds DEF IInv, TermInit, Init
<1>2. Len(QueueMap) = 0 /\ QueueMap \in Seq(RingBytes)
  BY <1>1, RingIsBuffer, UsedValue, QueueType DEF QueueMap
<1>3. QueueMap = <<>>
  BY <1>2
<1> QED BY <1>3 DEF Queue!Init, QueueMap, QueueOf, UsedOf, SlotOf, Used, TermInit, Init

LEMMA StepRefines ==
  IInv /\ [TermNext]_termVars => [prog'.raced \/ Queue!Next]_Queue!queueVars
<1> SUFFICES ASSUME IInv, [TermNext]_termVars, ~prog'.raced PROVE [Queue!Next]_Queue!queueVars
  OBVIOUS
<1>1. RingInv /\ prog \in [alive : BOOLEAN, writes : Nat, raced : BOOLEAN]
  BY DEF IInv, RingInv
<1>2. CASE PressShift
  BY <1>2, StutterRefines DEF PressShift, ShiftKey, ringVars
<1>3. CASE PressKey
  BY <1>1, <1>3, KeyRefines DEF PressKey, Queue!Next
<1>4. CASE ShellGet
  BY <1>1, <1>4, TakeRefines DEF ShellGet, GetcharAtomic, Queue!Next
<1>5. CASE ProgramRead
  <2>1. CASE GetcharAtomic(ProgramReader)
    BY <1>1, <2>1, TakeRefines DEF GetcharAtomic, Queue!Next
  <2>2. CASE TestEmpty(ProgramReader) \/ LoadChar(ProgramReader) \/ FetchIndex(ProgramReader)
    BY <2>2, StutterRefines DEF TestEmpty, LoadChar, FetchIndex, ringVars
  <2>3. CASE StoreIndex(ProgramReader)
    <3>1. ReaderInv
      BY <1>1, <1>5 DEF ProgramRead, RingInv
    <3>2. /\ read_index # write_index /\ index[ProgramReader] = read_index
          /\ char[ProgramReader] = input_buffer[read_index]
      BY <2>3, <3>1 DEF ReaderInv, StoreIndex, Step
    <3> QED BY <1>1, <2>3, <3>2, TakeRefines DEF StoreIndex, Queue!Next
  <2> QED BY <1>5, <2>1, <2>2, <2>3 DEF ProgramRead
<1>6. CASE UNCHANGED vars
  BY <1>6, StutterRefines DEF vars, ringVars
<1> QED BY <1>2, <1>3, <1>4, <1>5, <1>6
        DEF TermNext, ShellStep, ShellPut, ExecBuiltin, ExecClear, ExecRun, ExecExec, RunEnds,
            ShellDies, ProgramWrite, ProgramExits, termVars

(***************************************************************************)
(* The keyboard ring is a first-in first-out queue of Size - 1 bytes:      *)
(* whatever IRQ1 does between the instructions of a woken reader, no byte  *)
(* is lost, duplicated, reordered or overwritten, and a key is dropped     *)
(* only when the queue is full, for every ring size of two or more, until  *)
(* the shell reads while a woken program is inside keyboard_getchar().     *)
(***************************************************************************)
THEOREM KeyboardImplementsQueue == TermSpec => ImplementsQueue
BY InitRefines, StepRefines, Invariance, PTL DEF TermSpec, ImplementsQueue
=============================================================================
