--------------------------- MODULE MCAddressSpace ---------------------------
(* Programs and program headers for TLC. *)
EXTENDS AddressSpace

Seg(va, mem, off, fil, al, x, w) ==
  [load |-> TRUE, vaddr |-> va, memsz |-> mem, offset |-> off, filesz |-> fil,
   align |-> al, x |-> x, w |-> w]

File(entry, programs) == [length |-> 4, entry |-> entry, magic |-> TRUE, programs |-> programs]

Text == Seg(8, 2, 0, 2, 2, TRUE, FALSE)

MCFiles == {
  File(8, <<Text>>),                                     \* text only
  File(9, <<Text, Seg(10, 3, 2, 1, 1, FALSE, TRUE)>>),   \* text, data and bss
  File(8, <<Text, Seg(14, 1, 0, 0, 0, FALSE, TRUE)>>)}   \* reaches the heap limit

MCIncrements == {-16, -1, 3}

(* Every second header over the edges of each field, after a fixed first one. *)
MCHeaders ==
  {File(e, <<Seg(8, 3, 0, 2, 2, TRUE, FALSE), [Seg(va, mem, off, fil, al, x, TRUE) EXCEPT !.load = l]>>) :
     e \in {8, 11, 12}, va \in {0, 7, 10, 11, 12, 15, 16, 31}, mem \in {0, 1, 2, 6, 17, 22, 31},
     off \in {0, 3, 5, 31}, fil \in {0, 1, 2, 31}, al \in {0, 2, 3}, x \in BOOLEAN, l \in BOOLEAN}
=============================================================================
