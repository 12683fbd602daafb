------------------------------ MODULE Keyboard ------------------------------
(***************************************************************************)
(* keyboard.c: the IRQ1 handler and keyboard_getchar() over a ring of Size *)
(* slots, one of which stays empty.  IRQ1 runs with interrupts off.  So    *)
(* does the getchar of a system call that has not slept; the getchar of a  *)
(* reader that has been woken runs with interrupts on and is cut at every  *)
(* access to the volatile ring (the pc values).                            *)
(*                                                                         *)
(* A byte is the number of the key press that made it, with the shift      *)
(* state, so that a byte read twice or out of order shows.                 *)
(***************************************************************************)
EXTENDS Naturals, Sequences

CONSTANTS
  Size,      \* KEYBOARD_BUFFER_SIZE
  Readers,   \* processes that read the keyboard
  MaxKeys    \* bound: printable keys pressed

ASSUME SizeAssumption    == Size \in Nat /\ Size >= 2
ASSUME MaxKeysAssumption == MaxKeys \in Nat

VARIABLES
  input_buffer, read_index, write_index, shift_pressed,
  keys,      \* printable keys pressed so far
  taken,     \* history: bytes returned by keyboard_getchar, oldest first
  dropped,   \* history: keys dropped
  pc,        \* pc[r]: "out", "load", "fetch" or "store" in keyboard_getchar
  char,      \* char[r]: its local character
  index      \* index[r]: the read_index it has loaded to increment

ringVars == <<input_buffer, read_index, write_index>>
vars == <<ringVars, shift_pressed, keys, taken, dropped, pc, char, index>>

Slots == 0 .. Size - 1
Bytes == (1 .. MaxKeys) \X BOOLEAN
NoByte == <<0, FALSE>>      \* the zeroed buffer

Init ==
  /\ input_buffer = [i \in Slots |-> NoByte]
  /\ read_index = 0 /\ write_index = 0 /\ shift_pressed = FALSE
  /\ keys = 0 /\ taken = <<>> /\ dropped = 0
  /\ pc = [r \in Readers |-> "out"]
  /\ char = [r \in Readers |-> NoByte]
  /\ index = [r \in Readers |-> 0]

-----------------------------------------------------------------------------
(* keyboard_interrupt(): shift keys, then a printable key.  Releases and    *)
(* unmapped keys return without effect.                                     *)

ShiftKey(down) ==
  /\ shift_pressed' = down
  /\ UNCHANGED <<ringVars, keys, taken, dropped, pc, char, index>>

(* The Bug_ definitions are seeded defects, see Tasks. *)
Bug_NeverFull == FALSE

Full == (write_index + 1) % Size = read_index

Enqueue ==
  /\ ~Full
  /\ input_buffer' = [input_buffer EXCEPT ![write_index] = <<keys + 1, shift_pressed>>]
  /\ write_index' = (write_index + 1) % Size
  /\ UNCHANGED <<read_index, dropped>>

DropNewest ==
  /\ Full
  /\ dropped' = dropped + 1
  /\ UNCHANGED ringVars

PrintableKey ==
  /\ keys < MaxKeys
  /\ keys' = keys + 1
  /\ Enqueue \/ DropNewest
  /\ UNCHANGED <<shift_pressed, taken, pc, char, index>>

-----------------------------------------------------------------------------
(* keyboard_getchar(). *)

\* With interrupts off, from a system call that has not slept.
GetcharAtomic(r) ==
  /\ pc[r] = "out" /\ read_index # write_index
  /\ taken' = Append(taken, input_buffer[read_index])
  /\ read_index' = (read_index + 1) % Size
  /\ UNCHANGED <<input_buffer, write_index, shift_pressed, keys, dropped, pc, char, index>>

Step(r, from, to) == pc[r] = from /\ pc' = [pc EXCEPT ![r] = to]

\* if (read_index == write_index) return -1
TestEmpty(r) ==
  /\ read_index # write_index
  /\ Step(r, "out", "load")
  /\ UNCHANGED <<ringVars, shift_pressed, keys, taken, dropped, char, index>>

LoadChar(r) ==
  /\ Step(r, "load", "fetch")
  /\ char' = [char EXCEPT ![r] = input_buffer[read_index]]
  /\ UNCHANGED <<ringVars, shift_pressed, keys, taken, dropped, index>>

FetchIndex(r) ==
  /\ Step(r, "fetch", "store")
  /\ index' = [index EXCEPT ![r] = read_index]
  /\ UNCHANGED <<ringVars, shift_pressed, keys, taken, dropped, char>>

Bug_StoreIndexNoWrap(r) ==
  /\ Step(r, "store", "out")
  /\ read_index' = index[r] + 1
  /\ taken' = Append(taken, char[r])
  /\ UNCHANGED <<input_buffer, write_index, shift_pressed, keys, dropped, char, index>>

StoreIndex(r) ==
  /\ Step(r, "store", "out")
  /\ read_index' = (index[r] + 1) % Size
  /\ taken' = Append(taken, char[r])
  /\ UNCHANGED <<input_buffer, write_index, shift_pressed, keys, dropped, char, index>>

Next ==
  \/ \E down \in BOOLEAN : ShiftKey(down)
  \/ PrintableKey
  \/ \E r \in Readers : \/ GetcharAtomic(r) \/ TestEmpty(r) \/ LoadChar(r)
                        \/ FetchIndex(r) \/ StoreIndex(r)

Spec == Init /\ [][Next]_vars

-----------------------------------------------------------------------------
\* Both ring indices stay inside input_buffer, and the locals of keyboard_getchar too.
TypeOK ==
  /\ input_buffer \in [Slots -> Bytes \cup {NoByte}]
  /\ read_index \in Slots /\ write_index \in Slots
  /\ shift_pressed \in BOOLEAN
  /\ keys \in 0 .. MaxKeys /\ dropped \in 0 .. MaxKeys
  /\ taken \in Seq(Bytes \cup {NoByte})
  /\ pc \in [Readers -> {"out", "load", "fetch", "store"}]
  /\ char \in [Readers -> Bytes \cup {NoByte}]
  /\ index \in [Readers -> Slots]

Used == (write_index + Size - read_index) % Size

\* The ring as the queue of KeyQueue.
Queue ==
  INSTANCE KeyQueue WITH
    Capacity <- Size - 1,
    queue <- [i \in 1 .. Used |-> input_buffer[(read_index + i - 1) % Size]]

(***************************************************************************)
(* keyboard.c calls the ring "single-producer/single-consumer".  No byte   *)
(* is handed out twice, whoever the readers are.                           *)
(***************************************************************************)
NoByteTwice ==
  \A i, j \in 1 .. Len(taken) : taken[i] = taken[j] => i = j
=============================================================================
