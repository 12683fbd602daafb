----------------------------- MODULE ElfProofs -----------------------------
(***************************************************************************)
(* What validate_elf() accepts, for every page size, user region and file. *)
(***************************************************************************)
EXTENDS ElfImage, TLAPS, WellFoundedInduction

-----------------------------------------------------------------------------
(* Division. *)

Divisors == Nat \ {0}

LEMMA Multiples ==
  ASSUME NEW i \in Int, NEW j \in Int, NEW d \in Divisors, i <= j
  PROVE  i * d <= j * d
BY DEF Divisors

LEMMA DivMod ==
  ASSUME NEW n \in Int, NEW d \in Divisors
  PROVE  /\ n \div d \in Int /\ n % d \in 0 .. d - 1
         /\ n = (n \div d) * d + (n % d)
BY DEF Divisors

LEMMA NextMultiple ==
  ASSUME NEW k \in Int, NEW d \in Divisors
  PROVE  k * d \in Int /\ (k + 1) * d = k * d + d /\ (k - 1) * d = k * d - d
BY DEF Divisors

\* k is at most the quotient exactly when k * d is at most n.
LEMMA Quotient ==
  ASSUME NEW n \in Int, NEW d \in Divisors, NEW k \in Int
  PROVE  k <= n \div d <=> k * d <= n
<1> DEFINE q == n \div d
           r == n % d
<1>1. q \in Int /\ r \in 0 .. d - 1 /\ n = q * d + r /\ d \in Nat
  BY DivMod DEF Divisors
<1> HIDE DEF q, r
<1>2. q * d \in Int /\ (q + 1) * d = q * d + d /\ k * d \in Int
  BY <1>1, NextMultiple
<1>3. ASSUME k <= q PROVE k * d <= n
  BY <1>1, <1>2, <1>3, Multiples
<1>4. ASSUME ~(k <= q) PROVE ~(k * d <= n)
  <2>1. q + 1 <= k
    BY <1>1, <1>4
  <2>2. (q + 1) * d <= k * d
    BY <1>1, <2>1, Multiples
  <2> QED BY <1>1, <1>2, <2>2
<1> QED BY <1>3, <1>4 DEF q

LEMMA DivModUnique ==
  ASSUME NEW q \in Int, NEW d \in Divisors, NEW r \in 0 .. d - 1
  PROVE  (q * d + r) \div d = q /\ (q * d + r) % d = r
<1> DEFINE n == q * d + r
           k == n \div d
<1>1. n \in Int /\ q * d \in Int /\ d \in Nat /\ (q + 1) * d = q * d + d
  BY NextMultiple DEF Divisors
<1>2. k \in Int /\ n % d \in 0 .. d - 1 /\ n = k * d + (n % d)
  BY <1>1, DivMod
<1>3. q <= k
  BY <1>1, Quotient
<1>4. ~(q + 1 <= k)
  BY <1>1, Quotient
<1>5. k = q
  <2> HIDE DEF k, n
  <2> QED BY <1>2, <1>3, <1>4
<1>6. n % d = r
  <2> HIDE DEF n
  <2>1. n = q * d + r
    BY DEF n
  <2>2. n = q * d + (n % d)
    BY <1>2, <1>5
  <2>3. n % d \in Int /\ r \in Int
    BY <1>2, <1>1
  <2> DEFINE m == n % d
             z == q * d
  <2> HIDE DEF m, z
  <2>4. m = r
    <3>1. n = z + m /\ n = z + r /\ z \in Int /\ m \in Int /\ r \in Int
      BY <2>1, <2>2, <2>3, <1>1 DEF m, z
    <3> QED BY <3>1
  <2> QED BY <2>4 DEF m
<1> QED BY <1>5, <1>6

LEMMA SmallMod ==
  ASSUME NEW d \in Divisors, NEW n \in 0 .. d - 1
  PROVE  n % d = n
<1>1. 0 * d = 0
  BY DEF Divisors
<1>2. (0 * d + n) % d = n
  BY DivModUnique
<1> QED BY <1>1, <1>2 DEF Divisors

\* Numbers with the same remainder are those a multiple apart.
LEMMA SameRemainder ==
  ASSUME NEW a \in Int, NEW b \in Int, NEW d \in Divisors
  PROVE  (a - b) % d = 0 <=> a % d = b % d
<1> DEFINE k == a \div d
           l == b \div d
           r == a % d
           s == b % d
<1>1. k \in Int /\ l \in Int /\ r \in 0 .. d - 1 /\ s \in 0 .. d - 1
  BY DivMod
<1>2. a = k * d + r /\ b = l * d + s
  BY DivMod
<1> HIDE DEF k, l, r, s
<1>3. k * d \in Int /\ l * d \in Int /\ (k - l) * d = k * d - l * d /\ d \in Nat
      /\ (k - l - 1) * d = (k - l) * d - d
  BY <1>1 DEF Divisors
<1>4. CASE r >= s
  <2>1. a - b = (k - l) * d + (r - s) /\ r - s \in 0 .. d - 1 /\ k - l \in Int
    BY <1>1, <1>2, <1>3, <1>4
  <2>2. (a - b) % d = r - s
    BY <2>1, DivModUnique
  <2> QED BY <2>2, <1>1 DEF r, s
<1>5. CASE r < s
  <2>1. /\ a - b = (k - l - 1) * d + (d + r - s) /\ d + r - s \in 0 .. d - 1
        /\ k - l - 1 \in Int /\ d + r - s # 0
    BY <1>1, <1>2, <1>3, <1>5
  <2>2. (a - b) % d = d + r - s
    BY <2>1, DivModUnique
  <2> QED BY <2>1, <2>2, <1>5, <1>1 DEF r, s
<1> QED BY <1>4, <1>5, <1>1

-----------------------------------------------------------------------------
(* Pages. *)

PageOf(a) == a \div PageSize

\* The first page that does not hold a byte below a.
PagesUpTo(a) == PageOf(a + PageSize - 1)

LEMMA Layout ==
  /\ PageSize \in Divisors /\ PageSize \in Nat /\ PageSize > 0
  /\ Word \in Divisors /\ Word \in Nat /\ ProgramMin \in Nat /\ HeapLimit \in Nat
  /\ ProgramMin > 0 /\ ProgramMin < HeapLimit /\ HeapLimit < Word
  /\ Word % PageSize = 0 /\ ProgramMin % PageSize = 0 /\ HeapLimit % PageSize = 0
BY LayoutAssumption DEF Divisors

LEMMA WholePages ==
  ASSUME NEW n \in Int, n % PageSize = 0
  PROVE  PageOf(n) \in Int /\ n = PageOf(n) * PageSize
<1>1. /\ n \div PageSize \in Int
      /\ n = (n \div PageSize) * PageSize + (n % PageSize)
  BY DivMod, Layout
<1>2. (n \div PageSize) * PageSize \in Int
  BY <1>1, NextMultiple, Layout
<1> DEFINE z == (n \div PageSize) * PageSize
<1> HIDE DEF z
<1>3. n = z + 0 /\ z \in Int
  BY <1>1, <1>2 DEF z
<1>4. n = z
  BY <1>3
<1> QED BY <1>1, <1>4 DEF z, PageOf

LEMMA MultipleOfPage ==
  ASSUME NEW k \in Int
  PROVE  (k * PageSize) % PageSize = 0 /\ PageOf(k * PageSize) = k
<1>1. 0 \in 0 .. PageSize - 1
  BY Layout
<1>2. (k * PageSize + 0) \div PageSize = k /\ (k * PageSize + 0) % PageSize = 0
  BY <1>1, DivModUnique, Layout
<1>3. k * PageSize + 0 = k * PageSize
  BY NextMultiple, Layout
<1> QED BY <1>2, <1>3 DEF PageOf

\* Strict order between numbers of pages.
LEMMA PageOrder ==
  ASSUME NEW i \in Int, NEW j \in Int
  PROVE  i < j <=> i * PageSize < j * PageSize
<1>1. i * PageSize \in Int /\ j * PageSize \in Int
  BY NextMultiple, Layout
<1>2. i < j => i + 1 <= j
  OBVIOUS
<1>3. ASSUME i < j PROVE i * PageSize < j * PageSize
  <2>1. (i + 1) * PageSize <= j * PageSize
    BY <1>2, <1>3, Multiples, Layout
  <2> QED BY <1>1, <2>1, NextMultiple, Layout
<1>4. ASSUME ~(i < j) PROVE ~(i * PageSize < j * PageSize)
  <2>1. j * PageSize <= i * PageSize
    BY <1>4, Multiples, Layout
  <2> QED BY <1>1, <2>1
<1> QED BY <1>3, <1>4

LEMMA AlignDownValue ==
  ASSUME NEW a \in Int
  PROVE  PageOf(a) \in Int /\ AlignDown(a) = PageOf(a) * PageSize
<1> DEFINE z == (a \div PageSize) * PageSize
           r == a % PageSize
<1>0. a \div PageSize \in Int /\ a = z + r /\ r \in 0 .. PageSize - 1
  BY DivMod, Layout
<1>1. a \div PageSize \in Int /\ a = z + r /\ r \in Int
  <2> HIDE DEF z, r
  <2> QED BY <1>0, Layout
<1>2. z \in Int
  BY <1>1, NextMultiple, Layout
<1>3. a - r = z
  <2> HIDE DEF z, r
  <2> QED BY <1>1, <1>2
<1> QED BY <1>1, <1>3 DEF AlignDown, PageOf

\* A page above the last whole one is one too many before the word ends.
LEMMA RoomToAlign ==
  HeapLimit + PageSize - 1 < Word
<1> DEFINE h == PageOf(HeapLimit)
           w == PageOf(Word)
<1>1. h \in Int /\ w \in Int /\ HeapLimit = h * PageSize /\ Word = w * PageSize
  BY WholePages, Layout
<1> HIDE DEF h, w
<1>2. h < w
  BY <1>1, PageOrder, Layout
<1>3. (h + 1) * PageSize <= w * PageSize
  BY <1>1, <1>2, Multiples, Layout
<1>4. (h + 1) * PageSize = h * PageSize + PageSize
  BY <1>1, NextMultiple, Layout
<1> QED BY <1>1, <1>3, <1>4, Layout

\* c is the number of pages that hold the bytes below a.
CeilOf(a, c) ==
  /\ c \in Int /\ c * PageSize \in Int
  /\ a <= c * PageSize /\ c * PageSize < a + PageSize
  /\ \A k \in Int : k < c <=> k * PageSize < a

LEMMA Ceiling ==
  ASSUME NEW a \in Int
  PROVE  CeilOf(a, PagesUpTo(a))
<1> DEFINE b == a + PageSize - 1
           c == b \div PageSize
           r == b % PageSize
<1>1. b \in Int /\ PageSize \in Divisors /\ PageSize \in Nat /\ PageSize > 0
  BY Layout
<1>2. c \in Int /\ r \in 0 .. PageSize - 1 /\ b = c * PageSize + r
  BY <1>1, DivMod
<1>3. c * PageSize \in Int
  BY <1>1, <1>2, NextMultiple
<1>4. a <= c * PageSize /\ c * PageSize < a + PageSize
  <2> HIDE DEF c, r
  <2> QED BY <1>1, <1>2, <1>3
<1>5. ASSUME NEW k \in Int PROVE k < c <=> k * PageSize < a
  <2>1. k * PageSize \in Int /\ (k + 1) * PageSize = k * PageSize + PageSize
    BY <1>1, NextMultiple
  <2>2. k + 1 <= c <=> (k + 1) * PageSize <= b
    BY <1>1, Quotient
  <2> HIDE DEF c
  <2>3. k < c <=> k + 1 <= c
    BY <1>2
  <2> QED BY <1>1, <2>1, <2>2, <2>3
<1> QED BY <1>2, <1>3, <1>4, <1>5 DEF CeilOf, PagesUpTo, PageOf

LEMMA AlignUpValue ==
  ASSUME NEW a \in Nat, a <= HeapLimit
  PROVE  AlignUp(a) = PagesUpTo(a) * PageSize
<1>1. a + PageSize - 1 \in 0 .. Word - 1
  BY RoomToAlign, Layout
<1>2. (a + PageSize - 1) % Word = a + PageSize - 1
  BY <1>1, SmallMod, Layout
<1>3. a + PageSize - 1 \in Int
  BY Layout
<1> QED BY <1>2, <1>3, AlignDownValue DEF AlignUp, PagesUpTo

\* What rounding up to a page returns below USER_HEAP_LIMIT.
Aligned(a, u) ==
  /\ u \in Nat /\ u % PageSize = 0 /\ a <= u /\ u < a + PageSize /\ u <= HeapLimit
  /\ PageOf(u) = PagesUpTo(a) /\ u = PagesUpTo(a) * PageSize

LEMMA AlignUpProperties ==
  ASSUME NEW a \in Nat, a <= HeapLimit
  PROVE  Aligned(a, AlignUp(a))
<1> DEFINE c == PagesUpTo(a)
           h == PageOf(HeapLimit)
<1>1. CeilOf(a, c)
  BY Ceiling
<1>2. AlignUp(a) = c * PageSize
  BY AlignUpValue
<1> HIDE DEF c
<1>3. h \in Int /\ HeapLimit = h * PageSize
  BY WholePages, Layout
<1> HIDE DEF h
<1>4. c <= h
  <2>1. ~(h * PageSize < a)
    BY <1>3, Layout
  <2>2. ~(h < c)
    BY <1>1, <1>3, <2>1 DEF CeilOf
  <2> QED BY <1>1, <1>3, <2>2 DEF CeilOf
<1>5. c * PageSize <= h * PageSize
  BY <1>1, <1>3, <1>4, Multiples, Layout DEF CeilOf
<1>6. (c * PageSize) % PageSize = 0 /\ PageOf(c * PageSize) = c
  BY <1>1, MultipleOfPage DEF CeilOf
<1>7. c * PageSize \in Nat /\ a <= c * PageSize /\ c * PageSize < a + PageSize
  BY <1>1, Layout DEF CeilOf
<1> QED BY <1>2, <1>3, <1>5, <1>6, <1>7 DEF Aligned, c

-----------------------------------------------------------------------------
(* Segments. *)

\* A segment lies, byte for byte, in the user region.
InRegion(s) == s.vaddr >= ProgramMin /\ s.vaddr + s.memsz <= HeapLimit

LEMMA HeaderFields ==
  ASSUME NEW s \in Header
  PROVE  /\ s.vaddr \in Nat /\ s.memsz \in Nat /\ s.offset \in Nat
         /\ s.filesz \in Nat /\ s.align \in Nat
         /\ s.vaddr < Word /\ s.memsz < Word /\ s.offset < Word
         /\ s.filesz < Word /\ s.align < Word
         /\ s.load \in BOOLEAN /\ s.x \in BOOLEAN /\ s.w \in BOOLEAN
BY Layout DEF Header, Unsigned

LEMMA EndValue ==
  ASSUME NEW s \in Header, s.vaddr + s.memsz < Word
  PROVE  End(s) = s.vaddr + s.memsz
<1>1. s.vaddr + s.memsz \in 0 .. Word - 1
  BY HeaderFields, Layout
<1> QED BY <1>1, SmallMod, Layout DEF End

LEMMA RegionExact ==
  ASSUME NEW s \in Header, s.memsz # 0
  PROVE  Bytes(s) \subseteq ProgramMin .. HeapLimit - 1 <=> InRegion(s)
<1>1. s.vaddr \in Nat /\ s.memsz \in Nat
  BY HeaderFields
<1>2. ASSUME Bytes(s) \subseteq ProgramMin .. HeapLimit - 1 PROVE InRegion(s)
  <2>1. s.vaddr \in Bytes(s) /\ s.vaddr + s.memsz - 1 \in Bytes(s)
    BY <1>1 DEF Bytes
  <2>2. s.vaddr \in ProgramMin .. HeapLimit - 1
        /\ s.vaddr + s.memsz - 1 \in ProgramMin .. HeapLimit - 1
    BY <1>2, <2>1
  <2> QED BY <1>1, <2>2, Layout DEF InRegion
<1>3. ASSUME InRegion(s) PROVE Bytes(s) \subseteq ProgramMin .. HeapLimit - 1
  BY <1>1, <1>3, Layout DEF Bytes, InRegion
<1> QED BY <1>2, <1>3

\* What Loadable asks of one segment.
FileRange(f, s) == s.filesz <= s.memsz /\ s.offset + s.filesz <= f.length

AlignmentOK(s) ==
  s.align > 1 => /\ s.align \in {2 ^ k : k \in 0 .. s.align}
                 /\ (s.vaddr - s.offset) % s.align = 0

LEMMA AlignmentExact ==
  ASSUME NEW s \in Header
  PROVE  AlignmentOK(s) <=>
           (s.align > 1 => PowerOfTwo(s.align) /\ s.vaddr % s.align = s.offset % s.align)
<1>1. PowerOfTwo(s.align) <=> s.align \in {2 ^ k : k \in 0 .. s.align}
  BY Zenon DEF PowerOfTwo
<1>2. ASSUME s.align > 1
      PROVE  (s.vaddr - s.offset) % s.align = 0 <=> s.vaddr % s.align = s.offset % s.align
  <2>1. s.align \in Divisors /\ s.vaddr \in Int /\ s.offset \in Int
    BY <1>2, HeaderFields DEF Divisors
  <2> QED BY <2>1, SameRemainder
<1> QED BY <1>1, <1>2, Zenon DEF AlignmentOK

(***************************************************************************)
(* The unsigned tests on a segment lose nothing to wrap-around.            *)
(***************************************************************************)
LEMMA SegmentExact ==
  ASSUME NEW s \in Header, s.memsz # 0, NEW f, f.length \in Nat
  PROVE  SegmentOK(f, s) <=> InRegion(s) /\ FileRange(f, s) /\ AlignmentOK(s)
<1> DEFINE tests == /\ s.filesz <= s.memsz
                    /\ s.offset <= f.length /\ s.filesz <= f.length - s.offset
                    /\ s.vaddr >= ProgramMin
                    /\ s.memsz <= Word - 1 - s.vaddr
                    /\ End(s) <= HeapLimit /\ End(s) > s.vaddr
           al    == s.align > 1 =>
                      PowerOfTwo(s.align) /\ s.vaddr % s.align = s.offset % s.align
<1>1. SegmentOK(f, s) <=> tests /\ al
  BY Zenon DEF SegmentOK
<1>2. tests <=> InRegion(s) /\ FileRange(f, s)
  <2>1. /\ s.vaddr \in Nat /\ s.memsz \in Nat /\ s.offset \in Nat /\ s.filesz \in Nat
        /\ f.length \in Nat /\ Word \in Nat /\ HeapLimit \in Nat /\ HeapLimit < Word
    BY HeaderFields, Layout
  <2>2. ASSUME s.vaddr + s.memsz < Word PROVE tests <=> InRegion(s) /\ FileRange(f, s)
    <3>1. End(s) = s.vaddr + s.memsz
      BY <2>2, EndValue
    <3> QED BY <2>1, <2>2, <3>1 DEF InRegion, FileRange
  <2>3. ASSUME ~(s.vaddr + s.memsz < Word) PROVE ~tests /\ ~InRegion(s)
    BY <2>1, <2>3 DEF InRegion
  <2> HIDE DEF tests
  <2> QED BY <2>2, <2>3
<1>3. al <=> AlignmentOK(s)
  BY AlignmentExact
<1> QED BY <1>1, <1>2, <1>3, Zenon

\* The pages of a segment, as a range.
FirstPage(s) == PageOf(s.vaddr)
EndPage(s)   == PagesUpTo(s.vaddr + s.memsz)

Spans(s) ==
  /\ FirstPage(s) \in Int /\ EndPage(s) \in Int /\ FirstPage(s) < EndPage(s)
  /\ AlignDown(s.vaddr) = FirstPage(s) * PageSize
  /\ AlignUp(End(s)) = EndPage(s) * PageSize
  /\ SegmentPages(s) = FirstPage(s) .. EndPage(s) - 1

LEMMA SegmentSpans ==
  ASSUME NEW s \in Header, s.memsz # 0, InRegion(s)
  PROVE  Spans(s)
<1>1. /\ s.vaddr \in Nat /\ s.memsz \in Nat /\ s.vaddr + s.memsz \in Nat
      /\ s.vaddr + s.memsz <= HeapLimit /\ s.vaddr < s.vaddr + s.memsz
  BY HeaderFields, Layout DEF InRegion
<1>2. End(s) = s.vaddr + s.memsz
  BY <1>1, EndValue, Layout
<1> DEFINE e == s.vaddr + s.memsz
           b == FirstPage(s)
           c == EndPage(s)
<1>3. b \in Int /\ AlignDown(s.vaddr) = b * PageSize
  BY <1>1, AlignDownValue DEF FirstPage
<1>4. CeilOf(e, c) /\ AlignUp(e) = c * PageSize
  BY <1>1, Ceiling, AlignUpValue DEF EndPage
<1>5. b * PageSize <= s.vaddr
  BY <1>1, Quotient, Layout, <1>3 DEF FirstPage, PageOf
<1>6. b < c
  <2>1. b * PageSize < e
    BY <1>1, <1>3, <1>5, NextMultiple, Layout
  <2> QED BY <1>3, <1>4, <2>1 DEF CeilOf
<1>7. SegmentPages(s) = b .. c - 1
  <2>1. (b * PageSize) \div PageSize = b /\ (c * PageSize) \div PageSize = c
    BY <1>3, <1>4, MultipleOfPage DEF PageOf, CeilOf
  <2> QED BY <1>2, <1>3, <1>4, <2>1 DEF SegmentPages
<1> QED BY <1>2, <1>3, <1>4, <1>6, <1>7 DEF Spans, CeilOf

\* The pages of the range are those that hold a byte of the segment.
LEMMA PagesOfBytes ==
  ASSUME NEW s \in Header, s.memsz # 0, InRegion(s)
  PROVE  {a \div PageSize : a \in Bytes(s)} = SegmentPages(s)
<1> DEFINE e == s.vaddr + s.memsz
           b == FirstPage(s)
           c == EndPage(s)
<1>1. s.vaddr \in Nat /\ s.memsz \in Nat /\ e \in Nat /\ Bytes(s) = s.vaddr .. e - 1
  BY HeaderFields DEF Bytes
<1>2. b \in Int /\ c \in Int /\ SegmentPages(s) = b .. c - 1
  BY SegmentSpans DEF Spans
<1>3. \A k \in Int : k < c <=> k * PageSize < e
  <2>1. CeilOf(e, c)
    BY <1>1, Ceiling DEF EndPage
  <2> HIDE DEF c, e
  <2> QED BY <2>1 DEF CeilOf
<1>4. ASSUME NEW a \in Bytes(s) PROVE a \div PageSize \in SegmentPages(s)
  <2>1. a \in Int /\ s.vaddr <= a /\ a < e
    BY <1>1
  <2> DEFINE k == a \div PageSize
  <2>2. k \in Int
    BY <2>1, DivMod, Layout
  <2>3. k * PageSize \in Int /\ k * PageSize <= a
    BY <2>1, <2>2, Quotient, NextMultiple, Layout
  <2>4. b * PageSize \in Int /\ b * PageSize <= s.vaddr
    <3>1. s.vaddr \in Int /\ PageSize \in Divisors
      BY <1>1, Layout
    <3>2. b \in Int /\ b <= s.vaddr \div PageSize
      BY <1>2, <3>1, DivMod DEF FirstPage, PageOf
    <3> HIDE DEF b
    <3>3. b * PageSize <= s.vaddr
      BY <3>1, <3>2, Quotient
    <3> QED BY <3>1, <3>2, <3>3, NextMultiple
  <2>5. b <= k
    <3>1. b * PageSize <= a
      BY <1>1, <2>1, <2>4
    <3> QED BY <1>2, <2>1, <3>1, Quotient, Layout
  <2>6. k < c
    <3> HIDE DEF k
    <3>1. k * PageSize < e
      BY <1>1, <2>1, <2>3
    <3> QED BY <1>3, <2>2, <3>1
  <2> HIDE DEF k
  <2>7. k \in b .. c - 1
    BY <1>2, <2>2, <2>5, <2>6
  <2> QED BY <1>2, <2>7 DEF k
<1>5. ASSUME NEW k \in SegmentPages(s) PROVE \E a \in Bytes(s) : k = a \div PageSize
  <2>1. k \in Int /\ b <= k /\ k < c
    BY <1>2
  <2>2. k * PageSize \in Int /\ k * PageSize < e
    BY <1>3, <2>1, NextMultiple, Layout
  <2>3. CASE k = b
    <3>1. s.vaddr \in Bytes(s)
      BY <1>1 DEF Bytes
    <3> QED BY <2>3, <3>1 DEF FirstPage, PageOf
  <2>4. CASE k # b
    <3>1. ~(k <= s.vaddr \div PageSize)
      BY <1>2, <2>1, <2>4 DEF FirstPage, PageOf
    <3>2. ~(k * PageSize <= s.vaddr)
      BY <1>1, <2>1, <3>1, Quotient, Layout
    <3>3. k * PageSize \in Bytes(s)
      BY <1>1, <2>2, <3>2
    <3>4. (k * PageSize) \div PageSize = k
      BY <2>1, MultipleOfPage DEF PageOf
    <3> QED BY <3>3, <3>4
  <2> QED BY <2>3, <2>4
<1> QED BY <1>4, <1>5

LEMMA OverlapExact ==
  ASSUME NEW s \in Header, s.memsz # 0, InRegion(s),
         NEW t \in Header, t.memsz # 0, InRegion(t)
  PROVE  Overlap(s, t) <=> SegmentPages(s) \cap SegmentPages(t) # {}
<1> DEFINE b == FirstPage(s)
           c == EndPage(s)
           d == FirstPage(t)
           e == EndPage(t)
<1>1. Spans(s) /\ Spans(t)
  BY SegmentSpans
<1>2. /\ b \in Int /\ c \in Int /\ b < c /\ d \in Int /\ e \in Int /\ d < e
      /\ SegmentPages(s) = b .. c - 1 /\ SegmentPages(t) = d .. e - 1
  BY <1>1 DEF Spans
<1>3. Overlap(s, t) <=> b * PageSize < e * PageSize /\ d * PageSize < c * PageSize
  BY <1>1 DEF Overlap, Spans
<1> HIDE DEF b, c, d, e
<1>4. Overlap(s, t) <=> b < e /\ d < c
  BY <1>2, <1>3, PageOrder
<1>5. ASSUME b < e, d < c PROVE \E k : k \in b .. c - 1 /\ k \in d .. e - 1
  <2>1. CASE b <= d
    <3>1. d \in b .. c - 1 /\ d \in d .. e - 1
      BY <1>2, <1>5, <2>1
    <3> QED BY <3>1
  <2>2. CASE d < b
    <3>1. b \in b .. c - 1 /\ b \in d .. e - 1
      BY <1>2, <1>5, <2>2
    <3> QED BY <3>1
  <2>3. b <= d \/ d < b
    BY <1>2
  <2> QED BY <2>1, <2>2, <2>3
<1>6. ASSUME NEW k, k \in b .. c - 1, k \in d .. e - 1 PROVE b < e /\ d < c
  BY <1>2, <1>6
<1> QED BY <1>2, <1>4, <1>5, <1>6

-----------------------------------------------------------------------------
(* Files. *)

LEMMA FileFields ==
  ASSUME NEW f \in ElfFile
  PROVE  /\ f.length \in Nat /\ f.entry \in Nat /\ f.magic \in BOOLEAN
         /\ LoadIndices(f) \subseteq Nat
         /\ \A i \in LoadIndices(f) :
              f.programs[i] \in Header /\ f.programs[i].memsz # 0
<1>1. f.length \in Nat /\ f.entry \in Nat /\ f.magic \in BOOLEAN /\ f.programs \in Seq(Header)
  BY Layout DEF ElfFile, Unsigned
<1>2. \A i \in 1 .. Len(f.programs) : f.programs[i] \in Header
  BY <1>1
<1> QED BY <1>1, <1>2 DEF LoadIndices

\* Every segment would do, and no two of them share a page.
SegmentsFit(f) ==
  \A i \in LoadIndices(f) :
    /\ InRegion(f.programs[i]) /\ FileRange(f, f.programs[i])
    /\ AlignmentOK(f.programs[i])

PagesDisjoint(f) ==
  \A i, j \in LoadIndices(f) :
    i # j => SegmentPages(f.programs[i]) \cap SegmentPages(f.programs[j]) = {}

EntryInside(f) ==
  \E i \in LoadIndices(f) : f.programs[i].x /\ f.entry \in Bytes(f.programs[i])

LEMMA ValidateElfFits ==
  ASSUME NEW f \in ElfFile
  PROVE  ValidateElf(f) <=>
           f.magic /\ SegmentsFit(f) /\ PagesDisjoint(f) /\ EntryInside(f)
<1> DEFINE L == LoadIndices(f)
           P(i) == f.programs[i]
           seg == \A i \in L : SegmentOK(f, P(i))
           sep == \A i, j \in L : j < i => ~Overlap(P(i), P(j))
           ent == \E i \in L : P(i).x /\ f.entry >= P(i).vaddr /\ f.entry < End(P(i))
<1>1. L \subseteq Nat /\ \A i \in L : P(i) \in Header /\ P(i).memsz # 0
  BY FileFields
<1>2. ValidateElf(f) <=> f.magic /\ L # {} /\ seg /\ sep /\ ent
  BY Zenon DEF ValidateElf
<1>3. seg <=> SegmentsFit(f)
  <2>1. \A i \in L : SegmentOK(f, P(i)) <=>
          InRegion(P(i)) /\ FileRange(f, P(i)) /\ AlignmentOK(P(i))
    BY <1>1, FileFields, SegmentExact
  <2> QED BY <2>1, Zenon DEF SegmentsFit
<1>4. ASSUME SegmentsFit(f) PROVE sep <=> PagesDisjoint(f)
  <2> DEFINE G(i) == SegmentPages(P(i))
  <2>1. \A i, j \in L : Overlap(P(i), P(j)) <=> G(i) \cap G(j) # {}
    BY <1>1, <1>4, OverlapExact DEF SegmentsFit
  <2>2. \A i, j \in L : i # j => i < j \/ j < i
    BY <1>1
  <2>3. \A i, j \in L : j < i => i # j
    BY <1>1
  <2>4. sep <=> \A i, j \in L : j < i => G(i) \cap G(j) = {}
    BY <2>1, Zenon
  <2>5. PagesDisjoint(f) <=> \A i, j \in L : i # j => G(i) \cap G(j) = {}
    BY Zenon DEF PagesDisjoint
  <2>6. \A i, j \in L : G(i) \cap G(j) = G(j) \cap G(i)
    OBVIOUS
  <2> HIDE DEF L, G, sep
  <2> QED BY <2>2, <2>3, <2>4, <2>5, <2>6
<1>5. ASSUME SegmentsFit(f) PROVE ent <=> EntryInside(f)
  <2>1. ASSUME NEW i \in L
        PROVE  f.entry >= P(i).vaddr /\ f.entry < End(P(i)) <=> f.entry \in Bytes(P(i))
    <3>1. P(i) \in Header /\ InRegion(P(i))
      BY <1>1, <1>5 DEF SegmentsFit
    <3>2. P(i).vaddr \in Nat /\ P(i).memsz \in Nat /\ f.entry \in Nat
      BY <3>1, HeaderFields, FileFields
    <3>3. End(P(i)) = P(i).vaddr + P(i).memsz
      BY <3>1, <3>2, EndValue, Layout DEF InRegion
    <3> QED BY <3>2, <3>3 DEF Bytes
  <2> QED BY <2>1, Zenon DEF EntryInside
<1>6. EntryInside(f) => L # {}
  BY DEF EntryInside
<1> HIDE DEF L, seg, sep, ent
<1> QED BY <1>2, <1>3, <1>4, <1>5, <1>6

LEMMA LoadableFits ==
  ASSUME NEW f \in ElfFile
  PROVE  Loadable(f) <=>
           f.magic /\ SegmentsFit(f) /\ PagesDisjoint(f) /\ EntryInside(f)
<1> DEFINE L == LoadIndices(f)
           P(i) == f.programs[i]
           B(i) == {a \div PageSize : a \in Bytes(P(i))}
           seg == \A i \in L :
                    /\ Bytes(P(i)) \subseteq ProgramMin .. HeapLimit - 1
                    /\ FileRange(f, P(i)) /\ AlignmentOK(P(i))
           sep == \A i, j \in L : i # j => B(i) \cap B(j) = {}
<1>1. L \subseteq Nat /\ \A i \in L : P(i) \in Header /\ P(i).memsz # 0
  BY FileFields
<1>2. Loadable(f) <=> f.magic /\ seg /\ sep /\ EntryInside(f)
  <2> DEFINE S == {P(i) : i \in L}
             one(s) == /\ Bytes(s) \subseteq ProgramMin .. HeapLimit - 1
                       /\ s.filesz <= s.memsz /\ s.offset + s.filesz <= f.length
                       /\ s.align > 1 => /\ s.align \in {2 ^ k : k \in 0 .. s.align}
                                         /\ (s.vaddr - s.offset) % s.align = 0
             in(s) == s.x /\ f.entry \in Bytes(s)
  <2>1. Loadable(f) <=> f.magic /\ (\A s \in S : one(s)) /\ sep /\ (\E s \in S : in(s))
    BY Zenon DEF Loadable
  <2>2. (\A s \in S : one(s)) <=> seg
    <3>1. \A s : one(s) <=> /\ Bytes(s) \subseteq ProgramMin .. HeapLimit - 1
                            /\ FileRange(f, s) /\ AlignmentOK(s)
      BY Zenon DEF FileRange, AlignmentOK
    <3> HIDE DEF one
    <3>2. (\A s \in S : one(s)) <=> \A i \in L : one(P(i))
      BY Zenon
    <3> QED BY <3>1, <3>2, Zenon
  <2>3. (\E s \in S : in(s)) <=> EntryInside(f)
    BY Zenon DEF EntryInside
  <2> QED BY <2>1, <2>2, <2>3, Zenon
<1>3. seg <=> SegmentsFit(f)
  <2>1. \A i \in L : Bytes(P(i)) \subseteq ProgramMin .. HeapLimit - 1 <=> InRegion(P(i))
    BY <1>1, RegionExact
  <2> QED BY <2>1, Zenon DEF SegmentsFit
<1>4. ASSUME SegmentsFit(f) PROVE sep <=> PagesDisjoint(f)
  <2>1. \A i \in L : B(i) = SegmentPages(P(i))
    BY <1>1, <1>4, PagesOfBytes DEF SegmentsFit
  <2> HIDE DEF B
  <2> QED BY <2>1, Zenon DEF PagesDisjoint
<1> HIDE DEF L, seg, sep
<1> QED BY <1>2, <1>3, <1>4

(***************************************************************************)
(* validate_elf() takes exactly the files whose segments lie in the user   *)
(* region and in the file, share no page and hold the entry point, for     *)
(* every file, whatever its header fields, and every size of page.         *)
(***************************************************************************)
THEOREM ValidateElfExact ==
  ASSUME NEW f \in ElfFile
  PROVE  ValidateElf(f) <=> Loadable(f)
BY ValidateElfFits, LoadableFits, Zenon

-----------------------------------------------------------------------------
(* The heap begins above the image. *)

LEMMA LeastNumber ==
  ASSUME NEW S \in SUBSET Nat, S # {}
  PROVE  \E x \in S : \A y \in S : x <= y
<1>1. PICK x \in S : \A y \in S : ~(<<y, x>> \in OpToRel(<, Nat))
  BY NatLessThanWellFounded, WFMin, Zenon
<1>2. ASSUME NEW y \in S PROVE x <= y
  <2>1. <<y, x>> \in OpToRel(<, Nat) <=> y < x
    BY DEF OpToRel
  <2>2. ~(y < x)
    BY <1>1, <2>1, Zenon
  <2> QED BY <2>2
<1> QED BY <1>2

LEMMA MaxOfBounded ==
  ASSUME NEW S, NEW n \in Nat, S \subseteq 0 .. n, S # {}
  PROVE  Max(S) \in S /\ \A y \in S : y <= Max(S)
<1> DEFINE D == {k \in Nat : n - k \in S}
<1>1. D # {}
  <2>1. PICK y : y \in S
    OBVIOUS
  <2>2. y \in Nat /\ y <= n
    BY <2>1
  <2>3. n - y \in Nat /\ n - (n - y) = y
    BY <2>2
  <2> QED BY <2>1, <2>3
<1>2. PICK k \in D : \A j \in D : k <= j
  <2>1. D \in SUBSET Nat
    OBVIOUS
  <2> HIDE DEF D
  <2> QED BY <1>1, <2>1, LeastNumber
<1>3. n - k \in S /\ k \in Nat
  BY <1>2
<1>4. ASSUME NEW y \in S PROVE n - k >= y
  <2>1. y \in Nat /\ y <= n
    OBVIOUS
  <2>2. n - y \in Nat /\ n - (n - y) = y
    BY <2>1
  <2>3. n - y \in D
    BY <2>2
  <2>4. k <= n - y
    BY <1>2, <2>3
  <2> QED BY <1>3, <2>1, <2>4
<1>5. \E x \in S : \A y \in S : x >= y
  BY <1>3, <1>4
<1>6. Max(S) \in S /\ \A y \in S : Max(S) >= y
  BY <1>5, Zenon DEF Max
<1> QED BY <1>6

\* What a file that validate_elf() took leaves for the heap, and where its pages are.
ImageBelow(f) ==
  /\ HeapStart(f) \in Nat /\ HeapStart(f) % PageSize = 0 /\ HeapStart(f) <= HeapLimit
  /\ \A pg \in ImagePages(f) :
       /\ pg \in Nat /\ pg * PageSize < HeapStart(f)
       /\ SegmentOf(f, pg).w \in BOOLEAN

LEMMA ImageBelowHeap ==
  ASSUME NEW f \in ElfFile, ValidateElf(f)
  PROVE  ImageBelow(f)
<1> DEFINE L == LoadIndices(f)
           P(i) == f.programs[i]
           E == {End(P(i)) : i \in L}
           m == Max(E)
<1>1. \A i \in L : P(i) \in Header /\ P(i).memsz # 0 /\ InRegion(P(i))
  BY FileFields, ValidateElfFits DEF SegmentsFit
<1>2. ASSUME NEW i \in L
      PROVE  /\ End(P(i)) = P(i).vaddr + P(i).memsz
             /\ End(P(i)) \in 0 .. HeapLimit /\ P(i).vaddr \in Nat
  <2>1. P(i) \in Header /\ InRegion(P(i)) /\ P(i).vaddr \in Nat /\ P(i).memsz \in Nat
    BY <1>1, HeaderFields
  <2>2. P(i).vaddr + P(i).memsz \in 0 .. HeapLimit /\ P(i).vaddr + P(i).memsz < Word
    BY <2>1, Layout DEF InRegion
  <2> QED BY <2>1, <2>2, EndValue
<1>3. E # {}
  <2>1. L # {}
    BY ValidateElfFits DEF EntryInside
  <2> QED BY <2>1
<1>4. m \in E /\ \A y \in E : y <= m
  <2>1. E \subseteq 0 .. HeapLimit /\ HeapLimit \in Nat
    BY <1>2, Layout
  <2> HIDE DEF E
  <2> QED BY <1>3, <2>1, MaxOfBounded
<1>5. m \in Nat /\ m <= HeapLimit
  BY <1>2, <1>4, Layout
<1>6. Aligned(m, HeapStart(f))
  <2>1. HeapStart(f) = AlignUp(m)
    BY Zenon DEF HeapStart
  <2> HIDE DEF m
  <2> QED BY <1>5, <2>1, AlignUpProperties
<1>7. ASSUME NEW i \in L, NEW pg \in SegmentPages(P(i))
      PROVE  pg \in Nat /\ pg * PageSize < HeapStart(f)
  <2> DEFINE s == P(i)
             e == s.vaddr + s.memsz
  <2>1. s \in Header /\ s.memsz # 0 /\ InRegion(s)
    BY <1>1
  <2> HIDE DEF s
  <2>2. Spans(s)
    BY <2>1, SegmentSpans
  <2>3. pg \in Int /\ FirstPage(s) <= pg /\ pg < EndPage(s) /\ FirstPage(s) \in Int
    BY <2>2 DEF Spans, s
  <2>4. e \in Nat /\ e <= m /\ s.vaddr \in Nat
    <3>1. End(P(i)) \in E
      OBVIOUS
    <3>2. End(P(i)) = e /\ e \in 0 .. HeapLimit /\ s.vaddr \in Nat
      BY <1>2 DEF s
    <3>3. e <= m
      BY <1>4, <3>1, <3>2
    <3> QED BY <3>2, <3>3
  <2>5. CeilOf(e, EndPage(s))
    BY <2>4, Ceiling DEF EndPage
  <2>6. pg * PageSize < e /\ pg * PageSize \in Int
    BY <2>3, <2>5, NextMultiple, Layout DEF CeilOf
  <2>7. 0 <= FirstPage(s)
    <3>1. 0 * PageSize = 0
      BY Layout
    <3>2. 0 <= s.vaddr \div PageSize
      BY <2>4, <3>1, Quotient, Layout
    <3> QED BY <3>2 DEF FirstPage, PageOf
  <2>8. m <= HeapStart(f) /\ HeapStart(f) \in Nat
    BY <1>6 DEF Aligned
  <2>9. pg \in Nat
    BY <2>3, <2>7
  <2> HIDE DEF m, e
  <2> QED BY <1>5, <2>4, <2>6, <2>8, <2>9
<1>8. ASSUME NEW pg \in ImagePages(f)
      PROVE  pg \in Nat /\ pg * PageSize < HeapStart(f) /\ SegmentOf(f, pg).w \in BOOLEAN
  <2>1. \E i \in L : pg \in SegmentPages(P(i))
    BY DEF ImagePages
  <2>2. pg \in Nat /\ pg * PageSize < HeapStart(f)
    BY <1>7, <2>1
  <2> DEFINE j == CHOOSE i \in L : pg \in SegmentPages(P(i))
  <2>3. j \in L
    BY <2>1
  <2>4. SegmentOf(f, pg) = P(j)
    BY Zenon DEF SegmentOf
  <2> HIDE DEF j
  <2>5. P(j).w \in BOOLEAN
    BY <1>1, <2>3, HeaderFields
  <2> QED BY <2>2, <2>4, <2>5
<1> QED BY <1>6, <1>8 DEF ImageBelow, Aligned
=============================================================================
