------------------------------- MODULE KHeap -------------------------------
(***************************************************************************)
(* The kernel heap (kheap.c with ordered_array.c as its index): a boundary *)
(* tag allocator with best fit, page-aligned allocation, coalescing,       *)
(* expansion by whole pages and contraction when the last block is free.   *)
(*                                                                         *)
(* Addresses are relative to heap->start_address, which is page-aligned.   *)
(* A block is a header with its footer: header.size bytes from its address *)
(* on.  The neighbour that a footer or the next header leads to is the     *)
(* block that ends or begins there.  All callers run with interrupts off,  *)
(* so operations do not overlap.  A failed ASSERT halts the machine.       *)
(***************************************************************************)
EXTENDS Integers, SequencesExt

CONSTANTS
  Page,         \* 0x1000
  HeaderSize,   \* sizeof(header_t), 12
  FooterSize,   \* sizeof(footer_t), 8
  MinLength,    \* HEAP_MIN_SIZE
  InitLength,   \* arena length that create_heap() builds
  MaxLength,    \* max_address - start_address
  IndexSize,    \* HEAP_INDEX_SIZE
  Sizes         \* payload sizes callers ask for

MinHole == HeaderSize + FooterSize

ASSUME GeometryAssumption ==
  /\ {HeaderSize, FooterSize, IndexSize} \subseteq Nat \ {0}
  /\ Page \in Nat /\ Page >= HeaderSize + MinHole
  /\ \A n \in {MinLength, InitLength, MaxLength} : n \in Nat \ {0} /\ n % Page = 0
  /\ MinLength <= InitLength /\ InitLength <= MaxLength
ASSUME SizesAssumption == Sizes \subseteq Nat \ {0}

VARIABLES
  blocks,    \* the headers in the arena: [addr, size, hole]
  index,     \* heap->index: addresses of holes, smallest hole first
  length,    \* end_address - start_address
  owned,     \* history: what callers hold, [addr, size, align] of the payload
  request,   \* the alloc() being retried after an expansion, or NoRequest
  tries,     \* history: expansions made by that alloc()
  panic      \* which ASSERT has failed, or "none"

vars == <<blocks, index, length, owned, request, tries, panic>>

NoRequest == [size |-> 0, align |-> FALSE]
Requests  == [size : Sizes, align : BOOLEAN]

RoundUp(n) == ((n + Page - 1) \div Page) * Page

Hole(a, n)  == [addr |-> a, size |-> n, hole |-> TRUE]
Block(a, n) == [addr |-> a, size |-> n, hole |-> FALSE]
BlockAt(B, a) == CHOOSE b \in B : b.addr = a

Init ==
  /\ blocks = {Hole(0, InitLength)}
  /\ index = <<0>>
  /\ length = InitLength
  /\ owned = {}
  /\ request = NoRequest
  /\ tries = 0
  /\ panic = "none"

-----------------------------------------------------------------------------
(* The index. *)

(* The Bug_ definitions are seeded defects, see Tasks. *)
Bug_InsertHoleUnsorted(idx, B, h) == <<h.addr>> \o idx

\* insert_ordered_array(): before the first entry that is not smaller.
InsertHole(idx, B, h) ==
  LET smaller(n) == \A i \in 1 .. n : BlockAt(B, idx[i]).size < h.size
      n == CHOOSE n \in 0 .. Len(idx) : smaller(n) /\ (n < Len(idx) => ~smaller(n + 1))
  IN  InsertAt(idx, n + 1, h.addr)

\* Search the index for the hole in H, if there is one, and remove_ordered_array().
\* The ASSERT that the search finds it is a part of IndexListsHoles.
Unlist(idx, H) ==
  LET at == {i \in 1 .. Len(idx) : \E h \in H : h.addr = idx[i]}
  IN  IF at = {} THEN idx ELSE RemoveAt(idx, Min(at))

Bug_AlignHeader(a) == (Page - (a % Page)) % Page

\* page_alignment_offset(): bytes to leave free so that the payload is aligned.
PageAlignmentOffset(a) ==
  LET offset == (Page - ((a + HeaderSize) % Page)) % Page
  IN  IF offset # 0 /\ offset < MinHole THEN offset + Page ELSE offset

Lead(h, align) == IF align THEN PageAlignmentOffset(h.addr) ELSE 0

Fits(h, size, align) == h.size >= size + MinHole + Lead(h, align)

\* find_smallest_hole(): positions of the index that can serve the request.
Suitable(size, align) == {i \in 1 .. Len(index) : Fits(BlockAt(blocks, index[i]), size, align)}

-----------------------------------------------------------------------------
(* alloc(). *)

Asks(r) == request = NoRequest \/ request = r

\* A hole fits: split off an aligned front and a rest large enough to be a hole.
AllocFromHole(r) ==
  /\ panic = "none" /\ Asks(r) /\ Suitable(r.size, r.align) # {}
  /\ LET i    == Min(Suitable(r.size, r.align))
         h    == BlockAt(blocks, index[i])
         lead == Lead(h, r.align)
         room == h.size - lead
         need == r.size + MinHole
         new  == IF room - need < MinHole THEN room ELSE need
         b    == Block(h.addr + lead, new)
         rest == Hole(b.addr + new, room - new)
         front == Hole(h.addr, lead)
         B    == (blocks \ {h}) \cup {b}
                   \cup (IF lead # 0 THEN {front} ELSE {})
                   \cup (IF room # new THEN {rest} ELSE {})
         idx0 == RemoveAt(index, i)
         idx1 == IF lead # 0 THEN InsertHole(idx0, B, front) ELSE idx0
         idx2 == IF room # new THEN InsertHole(idx1, B, rest) ELSE idx1
     IN  IF Len(idx2) > IndexSize
         THEN panic' = "index" /\ UNCHANGED <<blocks, index, owned>>
         ELSE /\ blocks' = B
              /\ index' = idx2
              /\ owned' = owned \cup {[addr |-> b.addr + HeaderSize,
                                       size |-> r.size, align |-> r.align]}
              /\ panic' = panic
  /\ request' = NoRequest
  /\ tries' = 0
  /\ UNCHANGED length

\* The hole with the highest address, if it reaches the end of the arena.
Bug_TailHoleMissed == {}

TailHole == {h \in blocks : h.hole /\ h.addr + h.size = length}

\* No hole fits: expand(), extend or append the tail hole, and retry.
AllocExpand(r) ==
  /\ panic = "none" /\ Asks(r) /\ Suitable(r.size, r.align) = {}
  /\ LET grown == RoundUp(length + r.size + MinHole)
         start == IF TailHole = {} THEN length ELSE (CHOOSE h \in TailHole : TRUE).addr
         h     == Hole(start, grown - start)
         B     == (blocks \ TailHole) \cup {h}
         idx   == InsertHole(Unlist(index, TailHole), B, h)
         fails == IF grown > MaxLength THEN "limit"
                  ELSE IF Len(idx) > IndexSize THEN "index" ELSE "none"
     IN  IF fails # "none"
         THEN panic' = fails /\ UNCHANGED <<blocks, index, length, request, tries>>
         ELSE /\ blocks' = B /\ index' = idx /\ length' = grown
              /\ request' = r /\ tries' = tries + 1 /\ panic' = panic
  /\ UNCHANGED owned

-----------------------------------------------------------------------------
(* free(). *)

Bug_RightHoleIgnored(b) == {}

\* Left and right neighbours that are holes, and the hole they make with b.
LeftHole(b)  == {x \in blocks : x.hole /\ x.addr + x.size = b.addr}
RightHole(b) == {x \in blocks : x.hole /\ x.addr = b.addr + b.size}

Merged(b) ==
  LET left  == LeftHole(b)
      right == RightHole(b)
      from  == IF left = {} THEN b.addr ELSE (CHOOSE x \in left : TRUE).addr
      upto  == IF right = {} THEN b.addr + b.size
               ELSE LET x == CHOOSE x \in right : TRUE IN x.addr + x.size
  IN  Hole(from, upto - from)

Bug_ContractedNoMinimum(a) == RoundUp(a)
Bug_ContractedRoundsDown(a) ==
  IF (a \div Page) * Page < MinLength THEN MinLength ELSE (a \div Page) * Page

\* contract(): the arena length kept when the last hole begins at address a.
Contracted(a) == IF RoundUp(a) < MinLength THEN MinLength ELSE RoundUp(a)

Free(o) ==
  /\ panic = "none" /\ request = NoRequest
  /\ LET b    == BlockAt(blocks, o.addr - HeaderSize)
         h    == Merged(b)
         kept == IF h.addr + h.size = length THEN Contracted(h.addr) ELSE length
         size == h.size - (length - kept)
         B    == blocks \ ({b} \cup LeftHole(b) \cup RightHole(b))
         idx  == Unlist(Unlist(index, LeftHole(b)), RightHole(b))
         cut  == Hole(h.addr, size)
     IN  /\ length' = kept
         /\ IF size <= 0 THEN blocks' = B /\ index' = idx /\ panic' = panic
            ELSE /\ blocks' = B \cup {cut}
                 /\ index' = InsertHole(idx, blocks', cut)
                 /\ panic' = IF size < MinHole THEN "malformed"
                             ELSE IF Len(idx) = IndexSize THEN "index" ELSE panic
  /\ owned' = owned \ {o}
  /\ UNCHANGED <<request, tries>>

Next ==
  \/ \E r \in Requests : AllocFromHole(r) \/ AllocExpand(r)
  \/ \E o \in owned : Free(o)

Spec == Init /\ [][Next]_vars

-----------------------------------------------------------------------------
Addresses == 0 .. MaxLength - 1

\* Block addresses and sizes stay inside the arena, whose length is whole pages.
TypeOK ==
  /\ blocks \subseteq [addr : Addresses, size : 1 .. MaxLength, hole : BOOLEAN]
  /\ index \in Seq(Addresses)
  /\ length \in {k * Page : k \in 1 .. MaxLength \div Page}
  /\ owned \subseteq [addr : Addresses, size : Sizes, align : BOOLEAN]
  /\ request \in Requests \cup {NoRequest} /\ tries \in Nat
  /\ panic \in {"none", "limit", "index", "malformed"}

(***************************************************************************)
(* What heap_validate() walks: the blocks tile the arena without gap or    *)
(* overlap, each has room for its header and footer, and the arena is      *)
(* between its minimum and its maximum length.                             *)
(***************************************************************************)
BlocksTileArena ==
  panic = "none" =>
    /\ \E b \in blocks : b.addr = 0
    /\ \A b \in blocks :
         /\ b.size >= MinHole
         /\ b.addr + b.size = length \/ \E c \in blocks : c.addr = b.addr + b.size
         /\ \A c \in blocks : b # c => b.addr + b.size <= c.addr \/ c.addr + c.size <= b.addr
    /\ MinLength <= length /\ length <= MaxLength

(***************************************************************************)
(* The index lists every hole exactly once, smallest first, through every  *)
(* split, merge, expansion and contraction, so best fit finds the smallest *)
(* hole and free() finds the neighbour it merges with.                     *)
(***************************************************************************)
IndexListsHoles ==
  panic = "none" =>
    /\ {index[i] : i \in 1 .. Len(index)} = {b.addr : b \in {x \in blocks : x.hole}}
    /\ \A i, j \in 1 .. Len(index) :
         i < j => /\ index[i] # index[j]
                  /\ BlockAt(blocks, index[i]).size <= BlockAt(blocks, index[j]).size

(***************************************************************************)
(* Free space never fragments into neighbouring holes: free() merges both  *)
(* sides, alloc() leaves no hole next to a hole, expand() extends a hole   *)
(* at the end of the arena.                                                *)
(***************************************************************************)
HolesCoalesced ==
  \A b, c \in blocks : b.hole /\ c.hole => b.addr + b.size # c.addr

(***************************************************************************)
(* Every allocation that has not been freed is still a used block, with at *)
(* least the bytes asked for and the alignment asked for, inside the       *)
(* mapped arena, and nothing else is in use: no operation moves, shrinks,  *)
(* unmaps or reuses memory a caller holds, and none is leaked.             *)
(***************************************************************************)
OwnedIntact ==
  /\ \A o \in owned :
       /\ o.align => o.addr % Page = 0
       /\ \E b \in blocks : /\ b.addr = o.addr - HeaderSize /\ ~b.hole
                            /\ b.size >= o.size + MinHole
                            /\ b.addr + b.size <= length
  /\ \A b \in blocks : ~b.hole => \E o \in owned : o.addr = b.addr + HeaderSize

(***************************************************************************)
(* alloc() calls itself after each expansion, on the caller's kernel       *)
(* stack: two expansions always suffice, so the recursion is bounded.      *)
(***************************************************************************)
RetriesBounded == tries <= 2

(***************************************************************************)
(* heap_validate() asserts "header->size >= sizeof(header_t) +             *)
(* sizeof(footer_t)" of every block, and alloc() avoids "creating a        *)
(* malformed tiny hole".  No operation makes one.                          *)
(***************************************************************************)
NoMalformedHole == panic # "malformed"
=============================================================================
