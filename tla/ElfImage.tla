------------------------------ MODULE ElfImage ------------------------------
(***************************************************************************)
(* What exec.c accepts as a program: validate_elf() over the program       *)
(* headers, in unsigned arithmetic modulo Word, and the pages and the heap *)
(* base that follow from them.  Loadable is the same thing said without    *)
(* machine arithmetic, for comparison.                                     *)
(*                                                                         *)
(* A file is [length, entry, magic, programs]: magic stands for the fixed  *)
(* fields of the ELF header and the range of the program header table; a   *)
(* program header is [load, vaddr, memsz, offset, filesz, align, x, w].    *)
(***************************************************************************)
EXTENDS Integers, Sequences, FiniteSetsExt

CONSTANTS
  Word,         \* 2^32
  PageSize,     \* 0x1000
  ProgramMin,   \* USER_PROGRAM_MIN
  HeapLimit,    \* USER_HEAP_LIMIT
  Headers       \* files on which ValidateElf is compared with Loadable

ASSUME LayoutAssumption ==
  /\ {Word, PageSize, ProgramMin, HeapLimit} \subseteq Nat \ {0}
  /\ \A a \in {Word, ProgramMin, HeapLimit} : a % PageSize = 0
  /\ ProgramMin < HeapLimit /\ HeapLimit < Word

Unsigned == 0 .. Word - 1

Header == [load : BOOLEAN, vaddr : Unsigned, memsz : Unsigned, offset : Unsigned,
           filesz : Unsigned, align : Unsigned, x : BOOLEAN, w : BOOLEAN]

ElfFile == [length : Unsigned, entry : Unsigned, magic : BOOLEAN, programs : Seq(Header)]

ASSUME HeadersAssumption == Headers \subseteq ElfFile

AlignDown(a) == a - (a % PageSize)
AlignUp(a)   == AlignDown((a + PageSize - 1) % Word)

\* The headers the loops do not skip.
LoadIndices(f) ==
  {i \in 1 .. Len(f.programs) : f.programs[i].load /\ f.programs[i].memsz # 0}

End(s) == (s.vaddr + s.memsz) % Word

PowerOfTwo(a) == \E k \in 0 .. a : a = 2 ^ k

SegmentOK(f, s) ==
  /\ s.filesz <= s.memsz
  /\ s.offset <= f.length /\ s.filesz <= f.length - s.offset
  /\ s.vaddr >= ProgramMin
  /\ s.memsz <= Word - 1 - s.vaddr
  /\ End(s) <= HeapLimit /\ End(s) > s.vaddr
  /\ s.align > 1 => PowerOfTwo(s.align) /\ s.vaddr % s.align = s.offset % s.align

(* The Bug_ definitions are seeded defects, see Tasks. *)
Bug_OverlapBytes(s, t) == s.vaddr < End(t) /\ t.vaddr < End(s)

\* ranges_overlap() of the pages of two segments.
Overlap(s, t) ==
  AlignDown(s.vaddr) < AlignUp(End(t)) /\ AlignDown(t.vaddr) < AlignUp(End(s))

ValidateElf(f) ==
  LET P(i) == f.programs[i]
      L    == LoadIndices(f)
  IN  /\ f.magic /\ L # {}
      /\ \A i \in L : SegmentOK(f, P(i)) /\ \A j \in L : j < i => ~Overlap(P(i), P(j))
      /\ \E i \in L : P(i).x /\ f.entry >= P(i).vaddr /\ f.entry < End(P(i))

\* map_and_load_segments(): the pages of each segment.
SegmentPages(s) == AlignDown(s.vaddr) \div PageSize .. AlignUp(End(s)) \div PageSize - 1

ImagePages(f) == UNION {SegmentPages(f.programs[i]) : i \in LoadIndices(f)}

SegmentOf(f, pg) ==
  f.programs[CHOOSE i \in LoadIndices(f) : pg \in SegmentPages(f.programs[i])]

\* The page receives bytes of the file; the rest of a segment stays zero.
HasFileBytes(s, pg) == s.filesz # 0 /\ pg * PageSize < s.vaddr + s.filesz

\* ALIGN_UP_PAGE(highest_loaded_address), where the heap will begin.
HeapStart(f) == AlignUp(Max({End(f.programs[i]) : i \in LoadIndices(f)}))

-----------------------------------------------------------------------------
(* What should be accepted. *)

Bytes(s) == s.vaddr .. s.vaddr + s.memsz - 1

Loadable(f) ==
  LET S == {f.programs[i] : i \in LoadIndices(f)}
  IN  /\ f.magic
      /\ \A s \in S :
           /\ Bytes(s) \subseteq ProgramMin .. HeapLimit - 1
           /\ s.filesz <= s.memsz /\ s.offset + s.filesz <= f.length
           /\ s.align > 1 => /\ s.align \in {2 ^ k : k \in 0 .. s.align}
                             /\ (s.vaddr - s.offset) % s.align = 0
      /\ \A i, j \in LoadIndices(f) : i # j =>
           {a \div PageSize : a \in Bytes(f.programs[i])}
             \cap {a \div PageSize : a \in Bytes(f.programs[j])} = {}
      /\ \E s \in S : s.x /\ f.entry \in Bytes(s)
=============================================================================
