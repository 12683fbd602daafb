---------------------------- MODULE KHeapProofs ----------------------------
(***************************************************************************)
(* Proofs about KHeap for every page size, tag size, arena and index       *)
(* length and every set of payload sizes.                                  *)
(***************************************************************************)
EXTENDS KHeap, TLAPS, SequenceTheorems, WellFoundedInduction

-----------------------------------------------------------------------------
(* The inductive invariant. *)

BlockType == [addr : Nat, size : Nat \ {0}, hole : BOOLEAN]
Payload   == [addr : Nat, size : Sizes, align : BOOLEAN]

Covers(b, p) == b.addr <= p /\ p < b.addr + b.size
Holes(B)     == {b \in B : b.hole}
Whole(n)     == \E k \in Nat : n = k * Page

\* Every byte of an arena of n bytes lies in exactly one block of B.
Tiles(B, n) ==
  /\ B \subseteq BlockType
  /\ \A b \in B : b.addr + b.size <= n
  /\ \A p \in Nat : p < n => \E b \in B : Covers(b, p)
  /\ \A b, c \in B : \A p \in Nat : Covers(b, p) /\ Covers(c, p) => b = c

Coalesced(B) == \A b, c \in Holes(B) : b.addr + b.size # c.addr

\* idx lists the addresses of H, each once, by size of the block of B there.
Listed(idx, B, H) ==
  /\ idx \in Seq(Nat)
  /\ \A i \in 1 .. Len(idx) : \E h \in H : h.addr = idx[i]
  /\ \A h \in H : \E i \in 1 .. Len(idx) : h.addr = idx[i]
  /\ \A i, j \in 1 .. Len(idx) :
       i < j => /\ idx[i] # idx[j]
                /\ BlockAt(B, idx[i]).size <= BlockAt(B, idx[j]).size

\* The used blocks of B are those of the allocations O, one each.
Backed(B, O) ==
  /\ O \subseteq Payload
  /\ \A o \in O : /\ o.align => o.addr % Page = 0
                  /\ \E b \in B : /\ b.addr + HeaderSize = o.addr /\ ~b.hole
                                  /\ b.size >= o.size + MinHole
  /\ \A b \in B : ~b.hole => \E o \in O : o.addr = b.addr + HeaderSize
  /\ \A o, q \in O : o.addr = q.addr => o = q

ArenaInv == Whole(length) /\ MinLength <= length /\ length <= MaxLength

(***************************************************************************)
(* While alloc() retries, the hole h at the end of the arena has grown, in *)
(* each try, by a page and by the bytes it needs, over the part of it that *)
(* was there before; without such a part it begins on a page boundary.     *)
(***************************************************************************)
RetryInv ==
  /\ request \in Requests \cup {NoRequest}
  /\ tries \in {0, 1, 2}
  /\ tries = 0 <=> request = NoRequest
  /\ tries = 2 => request.align
  /\ request # NoRequest =>
       \E h \in TailHole : \E before \in Nat :
         /\ (before = 0 /\ Whole(h.addr)) \/ before >= MinHole
         /\ h.size >= before + tries * Page
         /\ h.size >= before + tries * (request.size + MinHole)

IInv ==
  /\ panic \in {"none", "limit", "index", "malformed"}
  /\ ArenaInv
  /\ Tiles(blocks, length)
  /\ panic = "none" => \A b \in blocks : b.size >= MinHole
  /\ Coalesced(blocks)
  /\ Listed(index, blocks, Holes(blocks))
  /\ Backed(blocks, owned)
  /\ RetryInv

-----------------------------------------------------------------------------
(* Arithmetic of pages. *)

LEMMA Geometry ==
  /\ Page \in Nat /\ HeaderSize \in Nat /\ FooterSize \in Nat /\ MinHole \in Nat
  /\ HeaderSize > 0 /\ FooterSize > 0 /\ IndexSize \in Nat
  /\ MinHole = HeaderSize + FooterSize
  /\ Page >= HeaderSize + MinHole /\ Page > MinHole /\ Page > 0
  /\ MinLength \in Nat /\ InitLength \in Nat /\ MaxLength \in Nat
  /\ MinLength > 0 /\ MinLength <= InitLength /\ InitLength <= MaxLength
BY GeometryAssumption DEF MinHole

LEMMA Multiples ==
  ASSUME NEW i \in Int, NEW j \in Int, i <= j
  PROVE  i * Page <= j * Page
BY Geometry

LEMMA DivMod ==
  ASSUME NEW n \in Int
  PROVE  /\ n \div Page \in Int /\ n % Page \in 0 .. Page - 1
         /\ n = (n \div Page) * Page + (n % Page)
BY Geometry

LEMMA WholeMod ==
  ASSUME NEW n \in Nat
  PROVE  Whole(n) <=> n % Page = 0
<1>1. ASSUME n % Page = 0 PROVE Whole(n)
  <2>1. n = (n \div Page) * Page /\ n \div Page \in Int
    BY <1>1, DivMod, Geometry
  <2>2. n \div Page >= 0
    <3>1. ASSUME n \div Page <= -1 PROVE FALSE
      BY <2>1, <3>1, Multiples, Geometry
    <3> QED BY <2>1, <3>1
  <2> QED BY <2>1, <2>2 DEF Whole
<1>2. ASSUME NEW k \in Nat, n = k * Page PROVE n % Page = 0
  <2> DEFINE q == n \div Page
             r == n % Page
  <2>1. q \in Int /\ r \in 0 .. Page - 1 /\ k * Page = q * Page + r
    BY <1>2, DivMod
  <2> HIDE DEF q, r
  <2>2. ASSUME k <= q - 1 PROVE FALSE
    <3>1. k * Page <= (q - 1) * Page
      BY <2>1, <2>2, Multiples
    <3>2. (q - 1) * Page = q * Page - Page
      BY <2>1, Geometry
    <3> QED BY <2>1, <3>1, <3>2, Geometry
  <2>3. ASSUME k >= q + 1 PROVE FALSE
    <3>1. (q + 1) * Page <= k * Page
      BY <2>1, <2>3, Multiples
    <3>2. (q + 1) * Page = q * Page + Page
      BY <2>1, Geometry
    <3> QED BY <2>1, <3>1, <3>2, Geometry
  <2>4. k = q
    BY <2>1, <2>2, <2>3
  <2>5. r = 0
    BY <2>1, <2>4, Geometry
  <2> QED BY <2>5 DEF r
<1> QED BY <1>1, <1>2 DEF Whole

\* Two whole numbers of pages less than a page apart are equal.
LEMMA WholeApart ==
  ASSUME NEW m \in Int, NEW n \in Int, Whole(m), Whole(n), m < n
  PROVE  m + Page <= n
<1>1. PICK i \in Nat : m = i * Page
  BY DEF Whole
<1>2. PICK j \in Nat : n = j * Page
  BY DEF Whole
<1>3. i < j
  <2>1. ASSUME j <= i PROVE FALSE
    BY <1>1, <1>2, <2>1, Multiples
  <2> QED BY <2>1
<1>4. (i + 1) * Page <= j * Page
  BY <1>3, Multiples
<1>5. (i + 1) * Page = i * Page + Page
  BY Geometry
<1> QED BY <1>1, <1>2, <1>4, <1>5

LEMMA WholeSum ==
  ASSUME NEW n \in Nat, Whole(n)
  PROVE  Whole(n + Page)
<1>1. PICK k \in Nat : n = k * Page
  BY DEF Whole
<1>2. n + Page = (k + 1) * Page
  BY <1>1, Geometry
<1> QED BY <1>2 DEF Whole

\* RoundUp() is the least whole number of pages that is not smaller.
LEMMA RoundUpValue ==
  ASSUME NEW n \in Nat
  PROVE  /\ RoundUp(n) \in Nat /\ Whole(RoundUp(n))
         /\ n <= RoundUp(n) /\ RoundUp(n) < n + Page
         /\ \A m \in Nat : Whole(m) /\ n <= m => RoundUp(n) <= m
<1> DEFINE t == n + Page - 1
           q == t \div Page
           r == t % Page
<1>1. t \in Nat /\ q \in Int /\ r \in 0 .. Page - 1 /\ t = q * Page + r
  BY DivMod, Geometry
<1>2. RoundUp(n) = q * Page
  BY DEF RoundUp
<1> HIDE DEF q, r
<1>3. q >= 0
  <2>1. ASSUME q <= -1 PROVE FALSE
    <3>1. q * Page <= (-1) * Page
      BY <1>1, <2>1, Multiples
    <3> DEFINE z == q * Page
    <3>2. z = t - r
      BY <1>1, Geometry
    <3>3. z \in Int /\ z <= - Page
      BY <1>1, <3>1, Geometry
    <3> HIDE DEF z
    <3> QED BY <1>1, <3>2, <3>3, Geometry
  <2> QED BY <1>1, <2>1
<1> DEFINE z == q * Page
<1>4. z \in Nat /\ Whole(z) /\ t = z + r
  BY <1>1, <1>3, Geometry DEF Whole
<1> HIDE DEF z
<1>5. n <= z /\ z < n + Page
  BY <1>1, <1>4, Geometry
<1>6. ASSUME NEW m \in Nat, Whole(m), n <= m PROVE z <= m
  <2>1. ASSUME m < z PROVE FALSE
    <3>1. m + Page <= z
      BY <1>4, <1>6, <2>1, WholeApart
    <3> QED BY <1>5, <1>6, <3>1, <1>4, Geometry
  <2> QED BY <1>4, <2>1
<1> QED BY <1>2, <1>4, <1>5, <1>6 DEF z

\* page_alignment_offset() aligns the payload and leaves no tiny hole.
LEMMA OffsetValue ==
  ASSUME NEW a \in Nat
  PROVE  \E o \in 0 .. Page - 1 :
           /\ Whole(a + HeaderSize + o)
           /\ PageAlignmentOffset(a) = IF o # 0 /\ o < MinHole THEN o + Page ELSE o
<1> DEFINE x == a + HeaderSize
           q == x \div Page
           r == x % Page
           o == (Page - r) % Page
<1>1. x \in Nat /\ q \in Int /\ r \in 0 .. Page - 1 /\ x = q * Page + r
  BY DivMod, Geometry
<1>2. PageAlignmentOffset(a) = IF o # 0 /\ o < MinHole THEN o + Page ELSE o
  BY DEF PageAlignmentOffset
<1>3. o = IF r = 0 THEN 0 ELSE Page - r
  <2>1. CASE r = 0
    BY <2>1, Geometry
  <2>2. CASE r # 0
    <3>1. Page - r \in 1 .. Page - 1
      BY <1>1, <2>2, Geometry
    <3>2. \A y \in 1 .. Page - 1 : y % Page = y
      BY Geometry
    <3> QED BY <2>2, <3>1, <3>2
  <2> QED BY <2>1, <2>2
<1> HIDE DEF q, r, o
<1>4. o \in 0 .. Page - 1
  BY <1>1, <1>3, Geometry
<1>5. Whole(x + o)
  <2> DEFINE z == q * Page
  <2>1. z \in Int /\ x = z + r
    BY <1>1, Geometry
  <2>2. (q + 1) * Page = z + Page
    BY <1>1, Geometry
  <2> HIDE DEF z
  <2>3. CASE r = 0
    <3>1. x % Page = 0
      BY <2>3 DEF r
    <3>2. x + o = x
      BY <1>1, <1>3, <2>3
    <3> QED BY <1>1, <3>1, <3>2, WholeMod
  <2>4. CASE r # 0
    <3>1. x + o = (q + 1) * Page
      BY <1>1, <1>3, <2>1, <2>2, <2>4, Geometry
    <3>2. q + 1 \in Nat
      <4>1. ASSUME q + 1 <= 0 PROVE FALSE
        <5>1. (q + 1) * Page <= 0 * Page
          BY <1>1, <4>1, Multiples
        <5>2. x + o > 0
          BY <1>1, <1>4, Geometry
        <5> DEFINE w == (q + 1) * Page
        <5>3. w \in Int /\ w <= 0
          BY <1>1, <5>1, Geometry
        <5> HIDE DEF w
        <5> QED BY <3>1, <5>2, <5>3 DEF w
      <4> QED BY <1>1, <4>1
    <3> QED BY <3>1, <3>2 DEF Whole
  <2> QED BY <2>3, <2>4
<1> QED BY <1>2, <1>4, <1>5
-----------------------------------------------------------------------------
(* The index as a sequence. *)

LEMMA LeastOfNat ==
  ASSUME NEW S, S \subseteq Nat, S # {}
  PROVE  Min(S) \in S /\ \A y \in S : Min(S) <= y
<1>1. PICK x \in S : \A y \in S : ~(<<y, x>> \in OpToRel(<, Nat))
  BY NatLessThanWellFounded, WFMin, Zenon
<1>2. \A y \in S : x <= y
  <2>1. SUFFICES ASSUME NEW y \in S PROVE x <= y
    OBVIOUS
  <2>2. <<y, x>> \in OpToRel(<, Nat) <=> y < x
    BY DEF OpToRel
  <2>3. ~(y < x)
    BY <1>1, <2>2, Zenon
  <2>4. x \in Nat /\ y \in Nat
    OBVIOUS
  <2> QED BY <2>3, <2>4
<1> QED BY <1>2 DEF Min

LEMMA RemoveAtValue ==
  ASSUME NEW s \in Seq(Nat), NEW i \in 1 .. Len(s)
  PROVE  /\ RemoveAt(s, i) \in Seq(Nat) /\ Len(RemoveAt(s, i)) = Len(s) - 1
         /\ \A j \in 1 .. Len(s) - 1 : RemoveAt(s, i)[j] = IF j < i THEN s[j] ELSE s[j + 1]
<1> DEFINE f == SubSeq(s, 1, i - 1)
           g == SubSeq(s, i + 1, Len(s))
<1>1. \A j \in 1 .. Len(s) : s[j] \in Nat
  BY ElementOfSeq
<1>2. Len(s) \in Nat /\ i \in Int
  BY LenProperties
<1>3. /\ f \in Seq(Nat) /\ Len(f) = i - 1
      /\ \A j \in 1 .. i - 1 : f[j] = s[j]
  <2>1. \A j \in 1 .. i - 1 : s[j] \in Nat
    BY <1>1, <1>2
  <2>2. /\ f \in Seq(Nat) /\ Len(f) = IF 1 <= i - 1 THEN i - 1 - 1 + 1 ELSE 0
        /\ \A j \in 1 .. i - 1 - 1 + 1 : f[j] = s[1 + j - 1]
    BY <1>2, <2>1, SubSeqProperties, SMTT(30)
  <2> HIDE DEF f
  <2>3. (IF 1 <= i - 1 THEN i - 1 - 1 + 1 ELSE 0) = i - 1 /\ i - 1 - 1 + 1 = i - 1
    BY <1>2
  <2>4. \A j \in 1 .. i - 1 : 1 + j - 1 = j
    BY <1>2
  <2> QED BY <2>2, <2>3, <2>4
<1>4. /\ g \in Seq(Nat) /\ Len(g) = Len(s) - i
      /\ \A j \in 1 .. Len(s) - i : g[j] = s[i + j]
  <2>1. \A j \in i + 1 .. Len(s) : s[j] \in Nat
    BY <1>1, <1>2
  <2>2. /\ g \in Seq(Nat) /\ Len(g) = IF i + 1 <= Len(s) THEN Len(s) - (i + 1) + 1 ELSE 0
        /\ \A j \in 1 .. Len(s) - (i + 1) + 1 : g[j] = s[i + 1 + j - 1]
    <3>1. Len(s) \in Int /\ i + 1 \in Int /\ 1 <= i + 1
      BY <1>2
    <3> QED BY <2>1, <3>1, SubSeqProperties
  <2> HIDE DEF g
  <2>3. \A j \in 1 .. Len(s) - i : i + 1 + j - 1 = i + j /\ j \in 1 .. Len(s) - (i + 1) + 1
    BY <1>2
  <2> QED BY <1>2, <2>2, <2>3
<1>5. RemoveAt(s, i) = f \o g
  BY DEF RemoveAt
<1> HIDE DEF f, g
<1>6. /\ f \o g \in Seq(Nat) /\ Len(f \o g) = Len(s) - 1
      /\ \A j \in 1 .. Len(s) - 1 : (f \o g)[j] = IF j <= i - 1 THEN f[j] ELSE g[j - (i - 1)]
  <2>1. /\ f \o g \in Seq(Nat) /\ Len(f \o g) = Len(f) + Len(g)
        /\ \A j \in 1 .. Len(f) + Len(g) :
             (f \o g)[j] = IF j <= Len(f) THEN f[j] ELSE g[j - Len(f)]
    BY <1>3, <1>4, ConcatProperties
  <2>2. Len(f) + Len(g) = Len(s) - 1
    BY <1>2, <1>3, <1>4
  <2> QED BY <1>3, <2>1, <2>2
<1>7. ASSUME NEW j \in 1 .. Len(s) - 1
      PROVE  (f \o g)[j] = IF j < i THEN s[j] ELSE s[j + 1]
  <2>1. CASE j < i
    BY <1>2, <1>3, <1>6, <2>1
  <2>2. CASE j >= i
    <3>1. j - (i - 1) \in 1 .. Len(s) - i /\ i + (j - (i - 1)) = j + 1 /\ ~(j <= i - 1) /\ ~(j < i)
      BY <1>2, <2>2
    <3> QED BY <1>4, <1>6, <3>1
  <2>3. j < i \/ j >= i
    BY <1>2
  <2> QED BY <2>1, <2>2, <2>3
<1> QED BY <1>5, <1>6, <1>7

\* t is the sequence s with e put in at position i.
Inserted(t, s, i, e) ==
  /\ t \in Seq(Nat) /\ Len(t) = Len(s) + 1
  /\ \A j \in 1 .. i - 1 : t[j] = s[j]
  /\ t[i] = e
  /\ \A j \in i + 1 .. Len(s) + 1 : t[j] = s[j - 1]

LEMMA InsertAtValue ==
  ASSUME NEW s \in Seq(Nat), NEW i \in 1 .. Len(s) + 1, NEW e \in Nat
  PROVE  Inserted(InsertAt(s, i, e), s, i, e)
<1> DEFINE f == SubSeq(s, 1, i - 1)
           g == SubSeq(s, i, Len(s))
           d == <<e>>
<1>1. \A j \in 1 .. Len(s) : s[j] \in Nat
  BY ElementOfSeq
<1>2. Len(s) \in Nat /\ i \in Int
  BY LenProperties
<1>3. /\ f \in Seq(Nat) /\ Len(f) = i - 1
      /\ \A j \in 1 .. i - 1 : f[j] = s[j]
  <2>1. \A j \in 1 .. i - 1 : s[j] \in Nat
    BY <1>1, <1>2
  <2>2. /\ f \in Seq(Nat) /\ Len(f) = IF 1 <= i - 1 THEN i - 1 - 1 + 1 ELSE 0
        /\ \A j \in 1 .. i - 1 - 1 + 1 : f[j] = s[1 + j - 1]
    BY <1>2, <2>1, SubSeqProperties, SMTT(30)
  <2> HIDE DEF f
  <2>3. (IF 1 <= i - 1 THEN i - 1 - 1 + 1 ELSE 0) = i - 1 /\ i - 1 - 1 + 1 = i - 1
    BY <1>2
  <2>4. \A j \in 1 .. i - 1 : 1 + j - 1 = j
    BY <1>2
  <2> QED BY <2>2, <2>3, <2>4
<1>4. /\ g \in Seq(Nat) /\ Len(g) = Len(s) - i + 1
      /\ \A j \in 1 .. Len(s) - i + 1 : g[j] = s[i + j - 1]
  <2>1. \A j \in i .. Len(s) : s[j] \in Nat
    BY <1>1, <1>2
  <2>2. /\ g \in Seq(Nat) /\ Len(g) = IF i <= Len(s) THEN Len(s) - i + 1 ELSE 0
        /\ \A j \in 1 .. Len(s) - i + 1 : g[j] = s[i + j - 1]
    <3>1. Len(s) \in Int /\ i \in Int
      BY <1>2
    <3> QED BY <2>1, <3>1, SubSeqProperties, SMTT(30)
  <2> HIDE DEF g
  <2>3. (IF i <= Len(s) THEN Len(s) - i + 1 ELSE 0) = Len(s) - i + 1
    BY <1>2
  <2> QED BY <2>2, <2>3
<1>5. InsertAt(s, i, e) = (f \o d) \o g
  BY DEF InsertAt
<1>d. d \in Seq(Nat) /\ Len(d) = 1 /\ d[1] = e
  OBVIOUS
<1> HIDE DEF f, g, d
<1> DEFINE u == f \o d
<1>6. /\ u \in Seq(Nat) /\ Len(u) = i
      /\ \A j \in 1 .. i : u[j] = IF j <= i - 1 THEN f[j] ELSE d[j - (i - 1)]
  <2>1. /\ u \in Seq(Nat) /\ Len(u) = Len(f) + Len(d)
        /\ \A j \in 1 .. Len(f) + Len(d) :
             u[j] = IF j <= Len(f) THEN f[j] ELSE d[j - Len(f)]
    BY <1>3, <1>d, ConcatProperties
  <2> HIDE DEF u
  <2>2. Len(f) + Len(d) = i
    BY <1>2, <1>3, <1>d
  <2> QED BY <1>3, <2>1, <2>2
<1> HIDE DEF u
<1>7. /\ u \o g \in Seq(Nat) /\ Len(u \o g) = Len(s) + 1
      /\ \A j \in 1 .. Len(s) + 1 : (u \o g)[j] = IF j <= i THEN u[j] ELSE g[j - i]
  <2>1. /\ u \o g \in Seq(Nat) /\ Len(u \o g) = Len(u) + Len(g)
        /\ \A j \in 1 .. Len(u) + Len(g) :
             (u \o g)[j] = IF j <= Len(u) THEN u[j] ELSE g[j - Len(u)]
    BY <1>4, <1>6, ConcatProperties
  <2>2. Len(u) + Len(g) = Len(s) + 1
    BY <1>2, <1>4, <1>6
  <2> QED BY <1>6, <2>1, <2>2
<1>8. ASSUME NEW j \in 1 .. i - 1 PROVE (u \o g)[j] = s[j]
  <2>1. j \in 1 .. Len(s) + 1 /\ j <= i /\ j \in 1 .. i /\ j <= i - 1
    BY <1>2
  <2> QED BY <1>3, <1>6, <1>7, <2>1
<1>9. (u \o g)[i] = e
  <2>1. i - (i - 1) = 1 /\ ~(i <= i - 1) /\ i \in 1 .. i /\ i <= i
    BY <1>2
  <2> QED BY <1>6, <1>7, <2>1, <1>d
<1>10. ASSUME NEW j \in i + 1 .. Len(s) + 1 PROVE (u \o g)[j] = s[j - 1]
  <2>1. /\ j - i \in 1 .. Len(s) - i + 1 /\ i + (j - i) - 1 = j - 1
        /\ ~(j <= i) /\ j \in 1 .. Len(s) + 1
    BY <1>2
  <2> QED BY <1>4, <1>7, <2>1
<1> QED BY <1>5, <1>7, <1>8, <1>9, <1>10 DEF u, Inserted
-----------------------------------------------------------------------------
(* The index as a list of holes. *)

Addressed(B) == B \subseteq BlockType /\ \A b, c \in B : b.addr = c.addr => b = c

LEMMA BlockAtValue ==
  ASSUME NEW B, Addressed(B), NEW b \in B
  PROVE  BlockAt(B, b.addr) = b /\ b \in BlockType /\ b.addr \in Nat /\ b.size \in Nat
BY DEF Addressed, BlockAt, BlockType

LEMMA ListedSizes ==
  ASSUME NEW B, Addressed(B), NEW H, H \subseteq B, NEW idx, Listed(idx, B, H),
         NEW i \in 1 .. Len(idx)
  PROVE  BlockAt(B, idx[i]) \in H /\ BlockAt(B, idx[i]).addr = idx[i]
         /\ BlockAt(B, idx[i]).size \in Nat /\ idx[i] \in Nat
<1>1. PICK h \in H : h.addr = idx[i]
  BY DEF Listed
<1>2. BlockAt(B, h.addr) = h /\ h.addr \in Nat /\ h.size \in Nat
  BY BlockAtValue
<1> QED BY <1>1, <1>2

\* A set of blocks that agrees on the holes listed may take the other's place.
LEMMA ListedSame ==
  ASSUME NEW B, NEW C, Addressed(B), Addressed(C), NEW H, H \subseteq B, H \subseteq C,
         NEW idx, Listed(idx, B, H)
  PROVE  Listed(idx, C, H)
<1>1. ASSUME NEW i \in 1 .. Len(idx) PROVE BlockAt(C, idx[i]) = BlockAt(B, idx[i])
  <2>1. BlockAt(B, idx[i]) \in H /\ BlockAt(B, idx[i]).addr = idx[i]
    BY ListedSizes
  <2> QED BY <2>1, BlockAtValue
<1> QED BY <1>1 DEF Listed

\* insert_ordered_array() finds the place that keeps the index ordered.
LEMMA InsertHolePlace ==
  ASSUME NEW B, Addressed(B), NEW H, H \subseteq B, NEW idx, Listed(idx, B, H), NEW h \in B
  PROVE  \E n \in 0 .. Len(idx) :
           /\ InsertHole(idx, B, h) = InsertAt(idx, n + 1, h.addr)
           /\ \A i \in 1 .. n : BlockAt(B, idx[i]).size < h.size
           /\ \A i \in n + 1 .. Len(idx) : BlockAt(B, idx[i]).size >= h.size
<1> DEFINE L == Len(idx)
           sz(i) == BlockAt(B, idx[i]).size
           smaller(n) == \A i \in 1 .. n : sz(i) < h.size
           Place(n) == smaller(n) /\ (n < L => ~smaller(n + 1))
<1>1. idx \in Seq(Nat) /\ L \in Nat /\ h.size \in Nat
  BY LenProperties, BlockAtValue DEF Listed
<1>2. \A i \in 1 .. L : sz(i) \in Nat
  BY ListedSizes
<1>3. \A i, j \in 1 .. L : i < j => sz(i) <= sz(j)
  BY DEF Listed
<1> HIDE DEF L, sz
<1>4. \E n \in 0 .. L : Place(n)
  <2> DEFINE S == {m \in 0 .. L : m = L \/ sz(m + 1) >= h.size}
  <2>1. S \subseteq Nat /\ S # {}
    <3>1. L \in S
      BY <1>1
    <3> QED BY <3>1
  <2> DEFINE n == Min(S)
  <2>2. n \in S /\ \A y \in S : n <= y
    BY <2>1, LeastOfNat
  <2> HIDE DEF n
  <2>3. n \in 0 .. L /\ (n = L \/ sz(n + 1) >= h.size)
    BY <2>2
  <2>4. ASSUME NEW i \in 1 .. n PROVE sz(i) < h.size
    <3>1. i - 1 \in 0 .. L /\ i - 1 < n /\ i - 1 # L /\ (i - 1) + 1 = i /\ i \in 1 .. L
      BY <1>1, <2>3
    <3>2. ~(i - 1 \in S)
      BY <2>2, <2>3, <3>1
    <3>3. ~(sz(i) >= h.size)
      BY <3>1, <3>2
    <3> QED BY <1>1, <1>2, <3>1, <3>3
  <2>5. ASSUME n < L PROVE ~smaller(n + 1)
    <3>1. sz(n + 1) >= h.size /\ n + 1 \in 1 .. n + 1 /\ n + 1 \in 1 .. L
      BY <1>1, <2>3, <2>5
    <3>2. ~(sz(n + 1) < h.size)
      BY <1>1, <1>2, <3>1
    <3> QED BY <3>1, <3>2
  <2> QED BY <2>3, <2>4, <2>5
<1> DEFINE n == CHOOSE m \in 0 .. L : Place(m)
<1>5. n \in 0 .. L /\ Place(n)
  BY <1>4
<1>6. InsertHole(idx, B, h) = InsertAt(idx, n + 1, h.addr)
  BY DEF InsertHole, L, sz
<1> HIDE DEF n
<1>7. ASSUME NEW i \in n + 1 .. L PROVE sz(i) >= h.size
  <2>1. n < L /\ n + 1 \in 1 .. L /\ i \in 1 .. L
    BY <1>1, <1>5
  <2>2. PICK j \in 1 .. n + 1 : ~(sz(j) < h.size)
    BY <1>5, <2>1
  <2>3. j = n + 1
    BY <1>5, <2>2
  <2>4. sz(n + 1) >= h.size
    BY <1>1, <1>2, <2>1, <2>2, <2>3
  <2>5. sz(n + 1) <= sz(i)
    <3>1. CASE i = n + 1
      BY <1>2, <2>1, <3>1
    <3>2. CASE n + 1 < i
      BY <1>3, <2>1, <3>2
    <3>3. i = n + 1 \/ n + 1 < i
      BY <1>5
    <3> QED BY <3>1, <3>2, <3>3
  <2> QED BY <1>1, <1>2, <2>1, <2>4, <2>5
<1>8. \A i \in 1 .. n : sz(i) < h.size
  BY <1>5
<1> QED BY <1>5, <1>6, <1>7, <1>8 DEF L, sz

LEMMA InsertHoleListed ==
  ASSUME NEW B, Addressed(B), NEW H, H \subseteq B, NEW idx, Listed(idx, B, H),
         NEW h \in B, h \notin H
  PROVE  /\ Listed(InsertHole(idx, B, h), B, H \cup {h})
         /\ Len(InsertHole(idx, B, h)) = Len(idx) + 1
<1> DEFINE L == Len(idx)
           sz(a) == BlockAt(B, a).size
<1>1. /\ idx \in Seq(Nat) /\ L \in Nat
      /\ h.addr \in Nat /\ h.size \in Nat /\ sz(h.addr) = h.size
  BY LenProperties, BlockAtValue DEF Listed
<1>2. PICK n \in 0 .. L :
           /\ InsertHole(idx, B, h) = InsertAt(idx, n + 1, h.addr)
           /\ \A i \in 1 .. n : sz(idx[i]) < h.size
           /\ \A i \in n + 1 .. L : sz(idx[i]) >= h.size
  BY InsertHolePlace
<1>3. \A i \in 1 .. L : idx[i] \in Nat /\ sz(idx[i]) \in Nat /\ \E x \in H : x.addr = idx[i]
  BY ListedSizes DEF Listed
<1>4. /\ \A i, j \in 1 .. L : i < j => idx[i] # idx[j] /\ sz(idx[i]) <= sz(idx[j])
      /\ \A x \in H : \E i \in 1 .. L : x.addr = idx[i]
  BY DEF Listed
<1>5. \A i \in 1 .. L : idx[i] # h.addr
  BY <1>3 DEF Addressed
<1> DEFINE new == InsertAt(idx, n + 1, h.addr)
<1>6. /\ new \in Seq(Nat) /\ Len(new) = L + 1
      /\ \A j \in 1 .. n : new[j] = idx[j]
      /\ new[n + 1] = h.addr
      /\ \A j \in n + 2 .. L + 1 : new[j] = idx[j - 1]
  <2> DEFINE m == n + 1
  <2>1. m \in 1 .. Len(idx) + 1 /\ m - 1 = n /\ m + 1 = n + 2
    BY <1>1
  <2>2. idx \in Seq(Nat) /\ h.addr \in Nat
    BY <1>1
  <2>3. new = InsertAt(idx, m, h.addr)
    OBVIOUS
  <2> HIDE DEF m, new
  <2>4. Inserted(new, idx, m, h.addr)
    BY <2>1, <2>2, <2>3, InsertAtValue
  <2> QED BY <2>1, <2>4 DEF m, Inserted
<1> HIDE DEF new, L, sz
<1>7. ASSUME NEW j \in 1 .. L + 1 PROVE \E x \in H \cup {h} : x.addr = new[j]
  <2>1. CASE j < n + 1
    <3>1. j \in 1 .. L /\ new[j] = idx[j]
      BY <1>1, <1>6, <2>1
    <3> QED BY <1>3, <3>1
  <2>2. CASE j = n + 1
    <3>1. new[j] = h.addr
      BY <1>1, <1>6, <2>2
    <3> QED BY <3>1
  <2>3. CASE j > n + 1
    <3>1. j - 1 \in 1 .. L /\ new[j] = idx[j - 1]
      BY <1>1, <1>6, <2>3
    <3> QED BY <1>3, <3>1
  <2>4. j < n + 1 \/ j = n + 1 \/ j > n + 1
    BY <1>1
  <2> QED BY <2>1, <2>2, <2>3, <2>4
<1>8. ASSUME NEW x \in H \cup {h} PROVE \E j \in 1 .. L + 1 : x.addr = new[j]
  <2>1. CASE x = h
    <3>1. n + 1 \in 1 .. L + 1 /\ new[n + 1] = h.addr
      BY <1>1, <1>6
    <3> QED BY <2>1, <3>1
  <2>2. CASE x \in H
    <3>1. PICK i \in 1 .. L : x.addr = idx[i]
      BY <1>4, <2>2
    <3>2. CASE i < n + 1
      <4>1. i \in 1 .. L + 1 /\ new[i] = idx[i]
        BY <1>1, <1>6, <3>2
      <4> QED BY <3>1, <4>1
    <3>3. CASE i >= n + 1
      <4>1. i + 1 \in 1 .. L + 1 /\ ~(i + 1 < n + 1) /\ i + 1 # n + 1 /\ (i + 1) - 1 = i
        BY <1>1, <3>3
      <4>2. new[i + 1] = idx[i]
        BY <1>6, <4>1
      <4> QED BY <3>1, <4>1, <4>2
    <3>4. i < n + 1 \/ i >= n + 1
      BY <1>1
    <3> QED BY <3>2, <3>3, <3>4
  <2> QED BY <2>1, <2>2
<1>9. ASSUME NEW i \in 1 .. L + 1, NEW j \in 1 .. L + 1, i < j
      PROVE  new[i] # new[j] /\ sz(new[i]) <= sz(new[j])
  <2>1. CASE j < n + 1
    <3>1. i \in 1 .. L /\ j \in 1 .. L /\ new[i] = idx[i] /\ new[j] = idx[j]
      BY <1>1, <1>6, <1>9, <2>1
    <3> QED BY <1>4, <1>9, <3>1
  <2>2. CASE j = n + 1
    <3>1. i \in 1 .. n /\ i \in 1 .. L /\ new[i] = idx[i] /\ new[j] = h.addr
      BY <1>1, <1>6, <1>9, <2>2
    <3>2. idx[i] # h.addr /\ sz(idx[i]) < h.size /\ sz(idx[i]) \in Nat
      BY <1>2, <1>3, <1>5, <3>1
    <3>3. sz(idx[i]) <= h.size
      BY <1>1, <3>2
    <3> QED BY <1>1, <3>1, <3>2, <3>3
  <2>3. CASE i < n + 1 /\ j > n + 1
    <3>1. /\ i \in 1 .. L /\ j - 1 \in 1 .. L /\ i < j - 1
          /\ i \in 1 .. n /\ j \in n + 2 .. L + 1
      BY <1>1, <2>3
    <3> HIDE DEF new
    <3>2. new[i] = idx[i] /\ new[j] = idx[j - 1]
      BY <1>6, <3>1, Zenon
    <3> QED BY <1>4, <3>1, <3>2
  <2>4. CASE i = n + 1
    <3>1. j - 1 \in n + 1 .. L /\ j - 1 \in 1 .. L /\ new[i] = h.addr /\ new[j] = idx[j - 1]
      BY <1>1, <1>6, <1>9, <2>4
    <3>2. idx[j - 1] # h.addr /\ sz(idx[j - 1]) >= h.size /\ sz(idx[j - 1]) \in Nat
      BY <1>2, <1>3, <1>5, <3>1
    <3>3. h.size <= sz(idx[j - 1])
      BY <1>1, <3>2
    <3> QED BY <1>1, <3>1, <3>2, <3>3
  <2>5. CASE i > n + 1
    <3>1. /\ i - 1 \in 1 .. L /\ j - 1 \in 1 .. L /\ i - 1 < j - 1
          /\ ~(i < n + 1) /\ i # n + 1 /\ ~(j < n + 1) /\ j # n + 1
      BY <1>1, <1>9, <2>5
    <3>2. new[i] = idx[i - 1] /\ new[j] = idx[j - 1]
      BY <1>6, <3>1
    <3> QED BY <1>4, <3>1, <3>2
  <2>6. j < n + 1 \/ j = n + 1 \/ (i < n + 1 /\ j > n + 1) \/ i = n + 1 \/ i > n + 1
    BY <1>1, <1>9
  <2> QED BY <2>1, <2>2, <2>3, <2>4, <2>5, <2>6
<1>10. Listed(new, B, H \cup {h})
  BY <1>6, <1>7, <1>8, <1>9 DEF Listed, sz
<1> QED BY <1>2, <1>6, <1>10 DEF new, L
\* remove_ordered_array() at a position takes the hole there off the list.
LEMMA RemoveAtListed ==
  ASSUME NEW B, Addressed(B), NEW H, H \subseteq B, NEW idx, Listed(idx, B, H),
         NEW i \in 1 .. Len(idx), NEW h \in H, h.addr = idx[i]
  PROVE  /\ Listed(RemoveAt(idx, i), B, H \ {h})
         /\ Len(RemoveAt(idx, i)) = Len(idx) - 1
<1> DEFINE L == Len(idx)
           sz(a) == BlockAt(B, a).size
           new == RemoveAt(idx, i)
<1>1. idx \in Seq(Nat) /\ L \in Nat
  BY LenProperties DEF Listed
<1>2. /\ \A j \in 1 .. L : \E x \in H : x.addr = idx[j]
      /\ \A x \in H : \E j \in 1 .. L : x.addr = idx[j]
      /\ \A j, k \in 1 .. L : j < k => idx[j] # idx[k] /\ sz(idx[j]) <= sz(idx[k])
  BY DEF Listed
<1>3. /\ new \in Seq(Nat) /\ Len(new) = L - 1
      /\ \A j \in 1 .. L - 1 : new[j] = IF j < i THEN idx[j] ELSE idx[j + 1]
  BY <1>1, RemoveAtValue
<1>4. i \in 1 .. L
  OBVIOUS
<1> HIDE DEF new, L, sz
<1>5. ASSUME NEW j \in 1 .. L, j # i PROVE idx[j] # h.addr
  <2>1. j < i \/ i < j
    BY <1>5, <1>4
  <2> QED BY <1>2, <1>4, <2>1
<1> DEFINE at(j) == IF j < i THEN j ELSE j + 1
<1>6. ASSUME NEW j \in 1 .. L - 1
      PROVE  at(j) \in 1 .. L /\ at(j) # i /\ new[j] = idx[at(j)]
  <2>1. at(j) \in 1 .. L /\ at(j) # i
    BY <1>1, <1>4
  <2> QED BY <1>3, <2>1
<1>7. \A j, k \in 1 .. L - 1 : j < k => at(j) < at(k)
  BY <1>1, <1>4
<1>8. ASSUME NEW k \in 1 .. L, k # i PROVE \E j \in 1 .. L - 1 : at(j) = k
  <2>1. CASE k < i
    <3>1. k \in 1 .. L - 1 /\ at(k) = k
      BY <1>1, <1>4, <2>1
    <3> QED BY <3>1
  <2>2. CASE k > i
    <3>1. k - 1 \in 1 .. L - 1 /\ at(k - 1) = k
      BY <1>1, <1>4, <2>2
    <3> QED BY <3>1
  <2>3. k < i \/ k > i
    BY <1>4, <1>8
  <2> QED BY <2>1, <2>2, <2>3
<1> HIDE DEF at
<1>9. \A j \in 1 .. L - 1 : \E x \in H \ {h} : x.addr = new[j]
  BY <1>2, <1>5, <1>6
<1>10. ASSUME NEW x \in H \ {h} PROVE \E j \in 1 .. L - 1 : x.addr = new[j]
  <2>1. PICK k \in 1 .. L : x.addr = idx[k]
    BY <1>2
  <2>2. k # i
    <3>1. x \in B /\ h \in B /\ x # h
      OBVIOUS
    <3> QED BY <2>1, <3>1 DEF Addressed
  <2> QED BY <1>6, <1>8, <2>1, <2>2
<1>11. ASSUME NEW j \in 1 .. L - 1, NEW k \in 1 .. L - 1, j < k
       PROVE  new[j] # new[k] /\ sz(new[j]) <= sz(new[k])
  BY <1>2, <1>6, <1>7, <1>11
<1>12. Listed(new, B, H \ {h})
  BY <1>3, <1>9, <1>10, <1>11 DEF Listed, sz
<1> QED BY <1>3, <1>12 DEF new, L

\* Nothing is removed when there is no such hole, the hole when there is one.
LEMMA UnlistListed ==
  ASSUME NEW B, Addressed(B), NEW H, H \subseteq B, NEW idx, Listed(idx, B, H),
         NEW G, G \subseteq H, \A x, y \in G : x = y
  PROVE  /\ Listed(Unlist(idx, G), B, H \ G)
         /\ Len(Unlist(idx, G)) <= Len(idx)
<1> DEFINE at == {i \in 1 .. Len(idx) : \E h \in G : h.addr = idx[i]}
<1>1. idx \in Seq(Nat) /\ Len(idx) \in Nat
  BY LenProperties DEF Listed
<1>2. Unlist(idx, G) = IF at = {} THEN idx ELSE RemoveAt(idx, Min(at))
  BY DEF Unlist
<1>3. CASE G = {}
  <2>1. at = {} /\ H \ G = H
    BY <1>3
  <2>2. Unlist(idx, G) = idx
    BY <1>2, <2>1
  <2>3. Len(idx) <= Len(idx)
    BY <1>1
  <2> QED BY <2>1, <2>2, <2>3
<1>4. CASE G # {}
  <2>1. PICK h \in G : TRUE
    BY <1>4
  <2>2. PICK i \in 1 .. Len(idx) : h.addr = idx[i]
    BY DEF Listed
  <2>3. at # {} /\ at \subseteq Nat
    BY <1>1, <2>1, <2>2
  <2>4. Min(at) \in at
    BY <2>3, LeastOfNat
  <2>5. Min(at) \in 1 .. Len(idx) /\ h.addr = idx[Min(at)] /\ h \in H
    BY <2>1, <2>4
  <2>6. G = {h}
    BY <2>1
  <2>7. /\ Listed(RemoveAt(idx, Min(at)), B, H \ {h})
        /\ Len(RemoveAt(idx, Min(at))) = Len(idx) - 1
    <3> DEFINE m == Min(at)
    <3>1. m \in 1 .. Len(idx) /\ h.addr = idx[m] /\ h \in H
      BY <2>5
    <3> HIDE DEF m
    <3>2. Listed(RemoveAt(idx, m), B, H \ {h}) /\ Len(RemoveAt(idx, m)) = Len(idx) - 1
      <4>1. \A j \in 1 .. Len(idx) : h.addr = idx[j] =>
              /\ Listed(RemoveAt(idx, j), B, H \ {h})
              /\ Len(RemoveAt(idx, j)) = Len(idx) - 1
        BY <3>1, RemoveAtListed
      <4> QED BY <3>1, <4>1
    <3> QED BY <3>2 DEF m
  <2>8. Unlist(idx, G) = RemoveAt(idx, Min(at))
    BY <1>2, <2>3
  <2>9. Len(idx) - 1 <= Len(idx)
    BY <1>1
  <2> HIDE DEF at
  <2> QED BY <2>6, <2>7, <2>8, <2>9
<1> QED BY <1>3, <1>4
-----------------------------------------------------------------------------
(* Tilings of the arena. *)

LEMMA BlockFields ==
  ASSUME NEW b \in BlockType
  PROVE  b.addr \in Nat /\ b.size \in Nat /\ b.size > 0 /\ b.hole \in BOOLEAN
         /\ Covers(b, b.addr) /\ b.addr + b.size - 1 \in Nat /\ Covers(b, b.addr + b.size - 1)
BY DEF BlockType, Covers

LEMMA NewBlock ==
  ASSUME NEW a \in Nat, NEW n \in Nat, n > 0
  PROVE  /\ Hole(a, n) \in BlockType /\ Hole(a, n).addr = a /\ Hole(a, n).size = n /\ Hole(a, n).hole
         /\ Block(a, n) \in BlockType /\ Block(a, n).addr = a /\ Block(a, n).size = n
         /\ ~Block(a, n).hole
BY DEF Hole, Block, BlockType

LEMMA TilesAddressed ==
  ASSUME NEW B, NEW n \in Nat, Tiles(B, n)
  PROVE  Addressed(B)
<1>1. ASSUME NEW b \in B, NEW c \in B, b.addr = c.addr PROVE b = c
  <2>1. b.addr \in Nat /\ Covers(b, b.addr) /\ Covers(c, b.addr)
    BY <1>1, BlockFields DEF Tiles
  <2> QED BY <2>1 DEF Tiles
<1> QED BY <1>1 DEF Tiles, Addressed

LEMMA TilesDisjoint ==
  ASSUME NEW B, NEW n \in Nat, Tiles(B, n), NEW b \in B, NEW c \in B, b # c
  PROVE  b.addr + b.size <= c.addr \/ c.addr + c.size <= b.addr
<1>1. /\ b.addr \in Nat /\ c.addr \in Nat /\ b.size \in Nat /\ c.size \in Nat
      /\ ~(Covers(b, b.addr) /\ Covers(c, b.addr)) /\ ~(Covers(b, c.addr) /\ Covers(c, c.addr))
      /\ b.size > 0 /\ c.size > 0
  BY BlockFields DEF Tiles
<1> QED BY <1>1 DEF Covers

\* A block that reaches into another one is that block.
LEMMA TilesSame ==
  ASSUME NEW B, NEW n \in Nat, Tiles(B, n), NEW b \in B, NEW c \in B,
         b.addr < c.addr + c.size, c.addr < b.addr + b.size
  PROVE  b = c
<1>1. b.addr \in Nat /\ c.addr \in Nat /\ b.size \in Nat /\ c.size \in Nat
  BY BlockFields DEF Tiles
<1>2. ~(b.addr + b.size <= c.addr \/ c.addr + c.size <= b.addr)
  BY <1>1
<1> QED BY <1>2, TilesDisjoint

LEMMA TilesNext ==
  ASSUME NEW B, NEW n \in Nat, Tiles(B, n), NEW b \in B
  PROVE  b.addr + b.size = n \/ \E c \in B : c.addr = b.addr + b.size
<1> DEFINE e == b.addr + b.size
<1>1. b.addr \in Nat /\ b.size \in Nat /\ b.size > 0 /\ e \in Nat /\ e <= n
  BY BlockFields DEF Tiles
<1>2. SUFFICES ASSUME e < n PROVE \E c \in B : c.addr = e
  BY <1>1
<1>3. PICK c \in B : Covers(c, e)
  BY <1>1, <1>2 DEF Tiles
<1>4. c.addr \in Nat /\ c.size \in Nat /\ c.addr <= e /\ e < c.addr + c.size
  BY <1>3, BlockFields DEF Tiles, Covers
<1>5. ASSUME c.addr < e PROVE FALSE
  <2>1. b = c
    <3>1. b.addr < c.addr + c.size /\ c.addr < b.addr + b.size
      BY <1>1, <1>4, <1>5
    <3> QED BY <3>1, TilesSame
  <2> QED BY <1>1, <1>4, <2>1
<1> QED BY <1>1, <1>4, <1>5

LEMMA TilesFirst ==
  ASSUME NEW B, NEW n \in Nat, Tiles(B, n), n > 0
  PROVE  \E b \in B : b.addr = 0
<1>1. PICK b \in B : Covers(b, 0)
  BY DEF Tiles
<1>2. b.addr \in Nat /\ b.addr <= 0
  BY <1>1, BlockFields DEF Tiles, Covers
<1> QED BY <1>2

\* The blocks N fill what the blocks K leave of m bytes.
Fills(K, N, m) ==
  /\ N \subseteq BlockType
  /\ \A b \in K \cup N : b.addr + b.size <= m
  /\ \A p \in Nat : p < m => \E b \in K \cup N : Covers(b, p)
  /\ \A x, y \in N : \A p \in Nat : Covers(x, p) /\ Covers(y, p) => x = y
  /\ \A b \in K : \A x \in N : \A p \in Nat : ~(Covers(b, p) /\ Covers(x, p))

LEMMA Replacement ==
  ASSUME NEW B, NEW n \in Nat, Tiles(B, n), NEW M, NEW N, NEW m \in Nat, Fills(B \ M, N, m)
  PROVE  Tiles((B \ M) \cup N, m)
<1> DEFINE C == (B \ M) \cup N
<1>1. C \subseteq BlockType
  BY DEF Tiles, Fills
<1>2. ASSUME NEW b \in C, NEW c \in C, NEW p \in Nat, Covers(b, p), Covers(c, p)
      PROVE  b = c
  <2>1. CASE b \in B \ M /\ c \in B \ M
    BY <1>2, <2>1 DEF Tiles
  <2>2. CASE b \in N /\ c \in N
    BY <1>2, <2>2 DEF Fills
  <2>3. ~(b \in B \ M /\ c \in N) /\ ~(b \in N /\ c \in B \ M)
    BY <1>2 DEF Fills
  <2> QED BY <2>1, <2>2, <2>3
<1> QED BY <1>1, <1>2 DEF Tiles, Fills

\* alloc() cuts a hole into a leading hole, a used block and a rest.
Pieces(h, lead, room, new) ==
  {Block(h.addr + lead, new)}
    \cup (IF lead # 0 THEN {Hole(h.addr, lead)} ELSE {})
    \cup (IF room # new THEN {Hole(h.addr + lead + new, room - new)} ELSE {})

LEMMA SplitTiles ==
  ASSUME NEW B, NEW n \in Nat, Tiles(B, n), NEW h \in B,
         NEW lead \in Nat, NEW room \in Nat, NEW new \in Nat,
         lead + room = h.size, 0 < new, new <= room
  PROVE  Tiles((B \ {h}) \cup Pieces(h, lead, room, new), n)
<1> DEFINE N == Pieces(h, lead, room, new)
<1>1. h.addr \in Nat /\ h.size \in Nat /\ h.addr + h.size <= n /\ h \in BlockType
  BY BlockFields DEF Tiles
<1> DEFINE b == Block(h.addr + lead, new)
           f == Hole(h.addr, lead)
           r == Hole(h.addr + lead + new, room - new)
<1>2. b \in BlockType /\ b.addr = h.addr + lead /\ b.size = new
  BY <1>1, NewBlock
<1>3. lead # 0 => f \in BlockType /\ f.addr = h.addr /\ f.size = lead
  BY <1>1, NewBlock
<1>4. room # new => r \in BlockType /\ r.addr = h.addr + lead + new /\ r.size = room - new
  BY <1>1, NewBlock
<1>5. /\ b \in N /\ (lead # 0 => f \in N) /\ (room # new => r \in N)
      /\ \A x \in N : x = b \/ (lead # 0 /\ x = f) \/ (room # new /\ x = r)
  BY DEF Pieces
<1> HIDE DEF b, f, r, N
<1>6. N \subseteq BlockType
  BY <1>2, <1>3, <1>4, <1>5
<1>7. ASSUME NEW x \in N PROVE h.addr <= x.addr /\ x.addr + x.size <= h.addr + h.size
  BY <1>1, <1>2, <1>3, <1>4, <1>5
<1>8. ASSUME NEW x \in N, NEW p \in Nat, Covers(x, p) PROVE Covers(h, p)
  <2>1. x.addr \in Nat /\ x.size \in Nat
    BY <1>6, BlockFields
  <2> QED BY <1>1, <1>7, <1>8, <2>1 DEF Covers
<1>9. ASSUME NEW p \in Nat, Covers(h, p) PROVE \E x \in N : Covers(x, p)
  <2>1. h.addr <= p /\ p < h.addr + h.size
    BY <1>9 DEF Covers
  <2>2. CASE p < h.addr + lead
    <3>1. lead # 0 /\ Covers(f, p)
      BY <1>1, <1>3, <2>1, <2>2 DEF Covers
    <3> QED BY <1>5, <3>1
  <2>3. CASE h.addr + lead <= p /\ p < h.addr + lead + new
    <3>1. Covers(b, p)
      BY <1>2, <2>3 DEF Covers
    <3> QED BY <1>5, <3>1
  <2>4. CASE h.addr + lead + new <= p
    <3>1. room # new /\ Covers(r, p)
      BY <1>1, <1>4, <2>1, <2>4 DEF Covers
    <3> QED BY <1>5, <3>1
  <2>5. p < h.addr + lead \/ (h.addr + lead <= p /\ p < h.addr + lead + new) \/ h.addr + lead + new <= p
    BY <1>1
  <2> QED BY <2>2, <2>3, <2>4, <2>5
<1>10. ASSUME NEW x \in N, NEW y \in N, NEW p \in Nat, Covers(x, p), Covers(y, p) PROVE x = y
  BY <1>1, <1>2, <1>3, <1>4, <1>5, <1>10 DEF Covers
<1>11. ASSUME NEW c \in B \ {h}, NEW x \in N, NEW p \in Nat PROVE ~(Covers(c, p) /\ Covers(x, p))
  BY <1>8 DEF Tiles
<1>12. \A p \in Nat : p < n => \E c \in (B \ {h}) \cup N : Covers(c, p)
  BY <1>9 DEF Tiles
<1>13. ASSUME NEW c \in (B \ {h}) \cup N PROVE c.addr + c.size <= n
  <2>1. CASE c \in N
    <3>1. c.addr \in Nat /\ c.size \in Nat
      BY <1>6, <2>1, BlockFields
    <3> QED BY <1>1, <1>7, <2>1, <3>1
  <2>2. CASE c \in B \ {h}
    BY <2>2 DEF Tiles
  <2> QED BY <2>1, <2>2
<1>14. Fills(B \ {h}, N, n)
  BY <1>6, <1>10, <1>11, <1>12, <1>13 DEF Fills
<1> QED BY <1>14, Replacement DEF N
-----------------------------------------------------------------------------
(* free(): the hole that takes the place of a block and its neighbours. *)

Gone(b) == {b} \cup LeftHole(b) \cup RightHole(b)

LEMMA Neighbours ==
  ASSUME length \in Nat, Tiles(blocks, length), NEW b \in blocks
  PROVE  /\ \A x, y \in LeftHole(b) : x = y
         /\ \A x, y \in RightHole(b) : x = y
         /\ Gone(b) \subseteq blocks
<1>1. \A x \in blocks : x.addr \in Nat /\ x.size \in Nat /\ x.size > 0
  BY BlockFields DEF Tiles
<1>2. ASSUME NEW x \in LeftHole(b), NEW y \in LeftHole(b) PROVE x = y
  <2>1. x \in blocks /\ y \in blocks /\ x.addr + x.size = b.addr /\ y.addr + y.size = b.addr
    BY DEF LeftHole
  <2>2. x.addr < y.addr + y.size /\ y.addr < x.addr + x.size
    BY <1>1, <2>1
  <2> QED BY <2>1, <2>2, TilesSame
<1>3. ASSUME NEW x \in RightHole(b), NEW y \in RightHole(b) PROVE x = y
  <2>1. x \in blocks /\ y \in blocks /\ x.addr = b.addr + b.size /\ y.addr = b.addr + b.size
    BY DEF RightHole
  <2>2. x.addr < y.addr + y.size /\ y.addr < x.addr + x.size
    BY <1>1, <2>1
  <2> QED BY <2>1, <2>2, TilesSame
<1> QED BY <1>2, <1>3 DEF Gone, LeftHole, RightHole

LEMMA MergedValue ==
  ASSUME length \in Nat, Tiles(blocks, length), NEW b \in blocks
  PROVE  /\ Merged(b) \in BlockType /\ Merged(b).hole
         /\ Merged(b).addr + Merged(b).size <= length
         /\ \/ LeftHole(b) = {} /\ Merged(b).addr = b.addr
            \/ \E l \in LeftHole(b) : Merged(b).addr = l.addr
         /\ \/ RightHole(b) = {} /\ Merged(b).addr + Merged(b).size = b.addr + b.size
            \/ \E r \in RightHole(b) : Merged(b).addr + Merged(b).size = r.addr + r.size
         /\ \A p \in Nat : Covers(Merged(b), p) <=> \E x \in Gone(b) : Covers(x, p)
<1> DEFINE L == LeftHole(b)
           R == RightHole(b)
           l == CHOOSE x \in L : TRUE
           r == CHOOSE x \in R : TRUE
           from == IF L = {} THEN b.addr ELSE l.addr
           upto == IF R = {} THEN b.addr + b.size ELSE r.addr + r.size
<1>1. \A x \in blocks : /\ x.addr \in Nat /\ x.size \in Nat /\ x.size > 0
                        /\ x.addr + x.size <= length
  BY BlockFields DEF Tiles
<1>2. L # {} => l \in L /\ l \in blocks /\ l.addr + l.size = b.addr
  BY DEF LeftHole
<1>3. R # {} => r \in R /\ r \in blocks /\ r.addr = b.addr + b.size
  BY DEF RightHole
<1>4. Merged(b) = Hole(from, upto - from)
  BY DEF Merged
<1>5. \A x \in Gone(b) : x = b \/ (L # {} /\ x = l) \/ (R # {} /\ x = r)
  <2>1. \A x \in L : L # {} /\ x = l
    BY <1>2, Neighbours
  <2>2. \A x \in R : R # {} /\ x = r
    BY <1>3, Neighbours
  <2> QED BY <2>1, <2>2 DEF Gone
<1>6. b \in Gone(b) /\ (L # {} => l \in Gone(b)) /\ (R # {} => r \in Gone(b))
  BY <1>2, <1>3 DEF Gone
<1> HIDE DEF L, R, l, r
<1>7. /\ from \in Nat /\ upto \in Nat /\ from <= b.addr /\ b.addr + b.size <= upto
      /\ upto <= length /\ upto - from \in Nat /\ upto - from > 0
  BY <1>1, <1>2, <1>3
<1> DEFINE h == Hole(from, upto - from)
<1>8. h \in BlockType /\ h.hole /\ h.addr = from /\ h.size = upto - from /\ h.addr + h.size = upto
  <2> HIDE DEF from, upto
  <2>1. h \in BlockType /\ h.hole /\ h.addr = from /\ h.size = upto - from
    BY <1>7, NewBlock
  <2> QED BY <1>7, <2>1
<1> HIDE DEF h
<1>9. ASSUME NEW p \in Nat PROVE Covers(h, p) <=> \E x \in Gone(b) : Covers(x, p)
  <2>1. Covers(h, p) <=> from <= p /\ p < upto
    <3> HIDE DEF from, upto
    <3> QED BY <1>8 DEF Covers
  <2>2. ASSUME from <= p, p < upto PROVE \E x \in Gone(b) : Covers(x, p)
    <3>1. CASE p < b.addr
      <4>1. L # {} /\ Covers(l, p)
        BY <1>1, <1>2, <2>2, <3>1 DEF Covers
      <4> QED BY <1>6, <4>1
    <3>2. CASE b.addr <= p /\ p < b.addr + b.size
      <4>1. Covers(b, p)
        BY <3>2 DEF Covers
      <4> QED BY <1>6, <4>1
    <3>3. CASE b.addr + b.size <= p
      <4>1. R # {} /\ Covers(r, p)
        BY <1>1, <1>3, <2>2, <3>3 DEF Covers
      <4> QED BY <1>6, <4>1
    <3>4. p < b.addr \/ (b.addr <= p /\ p < b.addr + b.size) \/ b.addr + b.size <= p
      BY <1>1
    <3> QED BY <3>1, <3>2, <3>3, <3>4
  <2>3. ASSUME NEW x \in Gone(b), Covers(x, p) PROVE from <= p /\ p < upto
    <3>1. x.addr <= p /\ p < x.addr + x.size
      BY <2>3 DEF Covers
    <3>2. CASE x = b
      BY <1>1, <1>7, <3>1, <3>2
    <3>3. CASE L # {} /\ x = l
      BY <1>1, <1>2, <1>7, <3>1, <3>3
    <3>4. CASE R # {} /\ x = r
      BY <1>1, <1>3, <1>7, <3>1, <3>4
    <3> QED BY <1>5, <3>2, <3>3, <3>4
  <2> QED BY <2>1, <2>2, <2>3
<1>10. (L = {} /\ h.addr = b.addr) \/ (\E x \in L : h.addr = x.addr)
  BY <1>2, <1>8
<1>11. (R = {} /\ h.addr + h.size = b.addr + b.size) \/ (\E x \in R : h.addr + h.size = x.addr + x.size)
  BY <1>3, <1>8
<1>12. Merged(b) = h
  BY <1>4 DEF h
<1>13. h.addr + h.size <= length
  BY <1>7, <1>8
<1> QED BY <1>8, <1>9, <1>10, <1>11, <1>12, <1>13 DEF L, R

\* The blocks of K that are not in M lie beside a block h that covers M.
LEMMA Beside ==
  ASSUME NEW B, NEW n \in Nat, Tiles(B, n), NEW M, M \subseteq B,
         NEW h \in BlockType, \A p \in Nat : Covers(h, p) <=> \E x \in M : Covers(x, p),
         NEW x \in B \ M
  PROVE  x.addr + x.size <= h.addr \/ h.addr + h.size <= x.addr
<1>1. /\ x.addr \in Nat /\ x.size \in Nat /\ x.size > 0 /\ Covers(x, x.addr)
      /\ h.addr \in Nat /\ h.size \in Nat /\ h.size > 0 /\ Covers(h, h.addr)
  BY BlockFields DEF Tiles
<1>2. ASSUME NEW p \in Nat PROVE ~(Covers(x, p) /\ Covers(h, p))
  BY DEF Tiles
<1>3. ~Covers(h, x.addr) /\ ~Covers(x, h.addr)
  BY <1>1, <1>2
<1> QED BY <1>1, <1>3 DEF Covers

\* The arena after free(): cut to k bytes, which end in or at the new hole.
LEMMA ContractTiles ==
  ASSUME NEW B, NEW n \in Nat, Tiles(B, n), NEW M, M \subseteq B,
         NEW h \in BlockType, h.addr + h.size <= n,
         \A p \in Nat : Covers(h, p) <=> \E x \in M : Covers(x, p),
         NEW k \in Nat, k <= n, k = n \/ (h.addr + h.size = n /\ h.addr <= k),
         NEW s \in Int, s = h.size - (n - k)
  PROVE  /\ s <= 0 => Tiles(B \ M, k)
         /\ s > 0 => Tiles((B \ M) \cup {Hole(h.addr, s)}, k)
<1>1. h.addr \in Nat /\ h.size \in Nat /\ h.size > 0
  BY BlockFields
<1>2. \A b \in B : b.addr \in Nat /\ b.size \in Nat /\ b.size > 0 /\ b.addr + b.size <= n
  BY BlockFields DEF Tiles
<1>3. ASSUME NEW x \in B \ M PROVE x.addr + x.size <= k
  <2>1. x.addr + x.size <= h.addr \/ h.addr + h.size <= x.addr
    BY Beside
  <2> QED BY <1>1, <1>2, <2>1
<1>4. ASSUME NEW p \in Nat, p < k, ~\E x \in B \ M : Covers(x, p)
      PROVE  h.addr <= p /\ p < h.addr + h.size
  <2>1. PICK x \in B : Covers(x, p)
    <3>1. p < n
      BY <1>4
    <3> QED BY <3>1 DEF Tiles
  <2>2. Covers(h, p)
    BY <1>4, <2>1
  <2> QED BY <2>2 DEF Covers
<1>5. ASSUME s <= 0 PROVE Fills(B \ M, {}, k)
  <2>1. \A p \in Nat : p < k => \E x \in B \ M : Covers(x, p)
    BY <1>1, <1>4, <1>5
  <2> QED BY <1>3, <2>1 DEF Fills
<1>6. ASSUME s > 0 PROVE Fills(B \ M, {Hole(h.addr, s)}, k)
  <2> DEFINE c == Hole(h.addr, s)
  <2>1. c \in BlockType /\ c.addr = h.addr /\ c.size = s
    BY <1>1, <1>6, NewBlock
  <2> HIDE DEF c
  <2>2. c.addr + c.size <= k /\ c.addr + c.size <= h.addr + h.size
    BY <1>1, <2>1
  <2>3. ASSUME NEW p \in Nat, p < k PROVE \E x \in (B \ M) \cup {c} : Covers(x, p)
    <3>1. CASE ~\E x \in B \ M : Covers(x, p)
      <4>1. h.addr <= p /\ p < h.addr + h.size
        BY <1>4, <2>3, <3>1
      <4>2. Covers(c, p)
        BY <1>1, <2>1, <2>3, <4>1 DEF Covers
      <4> QED BY <4>2
    <3> QED BY <3>1
  <2>4. ASSUME NEW x \in B \ M, NEW p \in Nat PROVE ~(Covers(x, p) /\ Covers(c, p))
    <3>1. x.addr + x.size <= h.addr \/ h.addr + h.size <= x.addr
      BY Beside
    <3>2. x.addr \in Nat /\ x.size \in Nat
      BY <1>2
    <3> QED BY <1>1, <2>1, <2>2, <3>1, <3>2 DEF Covers
  <2> QED BY <1>3, <2>1, <2>2, <2>3, <2>4 DEF Fills, c
<1>7. s <= 0 => Tiles((B \ M) \cup {}, k)
  BY <1>5, Replacement
<1>8. s > 0 => Tiles((B \ M) \cup {Hole(h.addr, s)}, k)
  BY <1>6, Replacement
<1>9. (B \ M) \cup {} = B \ M
  OBVIOUS
<1> QED BY <1>7, <1>8, <1>9

\* expand() adds pages to the hole M that ends the arena, or to none.
LEMMA ExpandTiles ==
  ASSUME NEW B, NEW n \in Nat, Tiles(B, n), NEW M, M \subseteq B, NEW m \in Nat, n < m,
         NEW start \in Nat,
         \/ M = {} /\ start = n
         \/ \E t \in B : M = {t} /\ start = t.addr /\ t.addr + t.size = n
  PROVE  Tiles((B \ M) \cup {Hole(start, m - start)}, m)
<1> DEFINE c == Hole(start, m - start)
<1>1. \A b \in B : b.addr \in Nat /\ b.size \in Nat /\ b.size > 0 /\ b.addr + b.size <= n
  BY BlockFields DEF Tiles
<1>2. start <= n
  BY <1>1
<1>3. c \in BlockType /\ c.addr = start /\ c.size = m - start /\ c.addr + c.size = m
  <2>1. m - start \in Nat /\ m - start > 0 /\ start + (m - start) = m
    BY <1>2
  <2> QED BY <2>1, NewBlock
<1> HIDE DEF c
<1>4. ASSUME NEW x \in B \ M PROVE x.addr + x.size <= start
  <2>1. CASE start = n
    BY <1>1, <2>1
  <2>2. ASSUME NEW t \in B, M = {t}, start = t.addr, t.addr + t.size = n
        PROVE  x.addr + x.size <= start
    <3>1. x.addr + x.size <= t.addr \/ t.addr + t.size <= x.addr
      BY <2>2, TilesDisjoint
    <3> QED BY <1>1, <2>2, <3>1
  <2> QED BY <2>1, <2>2
<1>5. ASSUME NEW p \in Nat, p < m PROVE \E x \in (B \ M) \cup {c} : Covers(x, p)
  <2>1. CASE start <= p
    <3>1. Covers(c, p)
      BY <1>3, <1>5, <2>1 DEF Covers
    <3> QED BY <3>1
  <2>2. CASE p < start
    <3>1. PICK x \in B : Covers(x, p)
      <4>1. p < n
        BY <1>2, <2>2
      <4> QED BY <4>1 DEF Tiles
    <3>2. x \notin M
      BY <1>1, <2>2, <3>1 DEF Covers
    <3> QED BY <3>1, <3>2
  <2> QED BY <2>1, <2>2
<1>6. ASSUME NEW x \in B \ M, NEW p \in Nat PROVE ~(Covers(x, p) /\ Covers(c, p))
  BY <1>1, <1>3, <1>4 DEF Covers
<1>7. ASSUME NEW x \in (B \ M) \cup {c} PROVE x.addr + x.size <= m
  BY <1>1, <1>2, <1>3, <1>4
<1>8. Fills(B \ M, {c}, m)
  BY <1>3, <1>5, <1>6, <1>7 DEF Fills
<1> QED BY <1>8, Replacement DEF c
-----------------------------------------------------------------------------
(* alloc(): padding, and the hole that two expansions are sure to give. *)

LEMMA LeadValue ==
  ASSUME NEW h \in BlockType, NEW align \in BOOLEAN
  PROVE  /\ Lead(h, align) \in Nat
         /\ Lead(h, align) # 0 => Lead(h, align) >= MinHole
         /\ align => (h.addr + Lead(h, align) + HeaderSize) % Page = 0
<1>1. h.addr \in Nat
  BY BlockFields
<1>2. CASE ~align
  BY <1>2 DEF Lead
<1>3. CASE align
  <2> DEFINE a == h.addr
             d == PageAlignmentOffset(a)
  <2>1. PICK o \in 0 .. Page - 1 :
           /\ Whole(a + HeaderSize + o)
           /\ d = IF o # 0 /\ o < MinHole THEN o + Page ELSE o
    BY <1>1, OffsetValue
  <2>2. Lead(h, align) = d
    BY <1>3 DEF Lead
  <2> HIDE DEF d, a
  <2>3. a \in Nat
    BY <1>1 DEF a
  <2>4. d \in Nat /\ (d # 0 => d >= MinHole) /\ (d = o \/ d = o + Page)
    BY <2>1, Geometry
  <2>5. Whole(a + d + HeaderSize)
    <3>1. CASE d = o
      <4>1. a + d + HeaderSize = a + HeaderSize + o
        BY <2>3, <3>1, Geometry
      <4> QED BY <2>1, <4>1
    <3>2. CASE d = o + Page
      <4>1. a + d + HeaderSize = (a + HeaderSize + o) + Page /\ a + HeaderSize + o \in Nat
        BY <2>3, <3>2, Geometry
      <4> QED BY <2>1, <4>1, WholeSum
    <3> QED BY <2>4, <3>1, <3>2
  <2>6. (a + d + HeaderSize) % Page = 0
    <3>1. a + d + HeaderSize \in Nat
      BY <2>3, <2>4, Geometry
    <3> QED BY <2>5, <3>1, WholeMod
  <2> QED BY <2>2, <2>4, <2>6 DEF a
<1> QED BY <1>2, <1>3

LEMMA GrownFits ==
  ASSUME NEW h \in BlockType, NEW before \in Nat, NEW s \in Nat,
         (before = 0 /\ Whole(h.addr)) \/ before >= MinHole,
         h.size >= before + 2 * Page, h.size >= before + 2 * (s + MinHole)
  PROVE  Fits(h, s, TRUE)
<1> DEFINE a == h.addr
<1>1. a \in Nat /\ h.size \in Nat
  BY BlockFields
<1>2. PICK o \in 0 .. Page - 1 :
         /\ Whole(a + HeaderSize + o)
         /\ PageAlignmentOffset(a) = IF o # 0 /\ o < MinHole THEN o + Page ELSE o
  BY <1>1, OffsetValue
<1>3. Lead(h, TRUE) = PageAlignmentOffset(a)
  BY DEF Lead
<1> DEFINE d == PageAlignmentOffset(a)
<1>4. d \in Nat /\ d <= before + Page
  <2>1. CASE before >= MinHole
    BY <1>2, <2>1, Geometry
  <2>2. CASE before = 0 /\ Whole(a)
    <3>1. a < a + HeaderSize + o /\ a + HeaderSize + o \in Nat
      BY <1>1, Geometry
    <3>2. a + Page <= a + HeaderSize + o
      BY <1>1, <1>2, <2>2, <3>1, WholeApart
    <3>3. o >= MinHole
      BY <1>1, <3>2, Geometry
    <3> QED BY <1>2, <2>2, <3>3, Geometry
  <2> QED BY <2>1, <2>2
<1> HIDE DEF d
<1>5. h.size >= s + MinHole + d
  BY <1>1, <1>4, Geometry
<1> QED BY <1>3, <1>5 DEF Fits, d

LEMMA ListedFits ==
  ASSUME Addressed(blocks), Listed(index, blocks, Holes(blocks)),
         NEW h \in Holes(blocks), NEW s, NEW align, Fits(h, s, align)
  PROVE  Suitable(s, align) # {}
<1>1. PICK i \in 1 .. Len(index) : h.addr = index[i]
  BY DEF Listed
<1>2. BlockAt(blocks, h.addr) = h
  BY BlockAtValue DEF Holes
<1> QED BY <1>1, <1>2 DEF Suitable

-----------------------------------------------------------------------------
(* Neighbouring holes. *)

LEMMA SplitCoalesced ==
  ASSUME NEW B, NEW n \in Nat, Tiles(B, n), Coalesced(B), NEW h \in B, h.hole,
         NEW N, N \subseteq BlockType,
         \A x \in N : h.addr <= x.addr /\ x.addr + x.size <= h.addr + h.size,
         \A x, y \in Holes(N) : x.addr + x.size # y.addr
  PROVE  Coalesced((B \ {h}) \cup N)
<1>1. \A b \in B : b.addr \in Nat /\ b.size \in Nat /\ b.size > 0
  BY BlockFields DEF Tiles
<1>2. \A x \in N : x.addr \in Nat /\ x.size \in Nat /\ x.size > 0
  BY BlockFields
<1>3. ASSUME NEW c \in B \ {h}, c.hole, NEW x \in N
      PROVE  c.addr + c.size # x.addr /\ x.addr + x.size # c.addr
  <2>1. c.addr + c.size <= h.addr \/ h.addr + h.size <= c.addr
    BY TilesDisjoint
  <2>2. c.addr + c.size # h.addr /\ h.addr + h.size # c.addr
    BY <1>3 DEF Coalesced, Holes
  <2> QED BY <1>1, <1>2, <2>1, <2>2
<1>4. ASSUME NEW c \in Holes((B \ {h}) \cup N), NEW d \in Holes((B \ {h}) \cup N)
      PROVE  c.addr + c.size # d.addr
  <2>1. CASE c \in N /\ d \in N
    BY <1>4, <2>1 DEF Holes
  <2>2. CASE c \in B \ {h} /\ d \in B \ {h}
    BY <1>4, <2>2 DEF Holes, Coalesced
  <2>3. CASE c \in B \ {h} /\ d \in N
    BY <1>3, <1>4, <2>3 DEF Holes
  <2>4. CASE c \in N /\ d \in B \ {h}
    BY <1>3, <1>4, <2>4 DEF Holes
  <2> QED BY <1>4, <2>1, <2>2, <2>3, <2>4 DEF Holes
<1> QED BY <1>4 DEF Coalesced

LEMMA MergeCoalesced ==
  ASSUME length \in Nat, Tiles(blocks, length), Coalesced(blocks), NEW b \in blocks,
         NEW s \in Nat, s > 0, s <= Merged(b).size
  PROVE  Coalesced((blocks \ Gone(b)) \cup {Hole(Merged(b).addr, s)})
<1> DEFINE h == Merged(b)
           M == Gone(b)
           c == Hole(h.addr, s)
<1>1. \A x \in blocks : x.addr \in Nat /\ x.size \in Nat /\ x.size > 0
  BY BlockFields DEF Tiles
<1>2. /\ h \in BlockType
      /\ (LeftHole(b) = {} /\ h.addr = b.addr) \/ (\E l \in LeftHole(b) : h.addr = l.addr)
      /\ \/ RightHole(b) = {} /\ h.addr + h.size = b.addr + b.size
         \/ \E r \in RightHole(b) : h.addr + h.size = r.addr + r.size
      /\ \A p \in Nat : Covers(h, p) <=> \E x \in M : Covers(x, p)
  BY MergedValue
<1>3. M \subseteq blocks
  BY Neighbours
<1>4. h.addr \in Nat /\ h.size \in Nat /\ h.size > 0
  BY <1>2, BlockFields
<1>5. c.addr = h.addr /\ c.size = s
  BY <1>4, NewBlock
<1> HIDE DEF h, c
<1>6. ASSUME NEW x \in blocks \ M, x.hole
      PROVE  x.addr + x.size # c.addr /\ c.addr + c.size # x.addr
  <2>1. x.addr + x.size <= h.addr \/ h.addr + h.size <= x.addr
    BY <1>2, <1>3, Beside
  <2>2. x \notin LeftHole(b) /\ x \notin RightHole(b)
    BY DEF Gone
  <2>3. x.addr + x.size # h.addr
    <3>1. CASE LeftHole(b) = {} /\ h.addr = b.addr
      BY <1>6, <2>2, <3>1 DEF LeftHole
    <3>2. ASSUME NEW l \in LeftHole(b), h.addr = l.addr PROVE x.addr + x.size # h.addr
      BY <1>6, <3>2 DEF LeftHole, Coalesced, Holes
    <3> QED BY <1>2, <3>1, <3>2
  <2>4. h.addr + h.size # x.addr
    <3>1. CASE RightHole(b) = {} /\ h.addr + h.size = b.addr + b.size
      BY <1>6, <2>2, <3>1 DEF RightHole
    <3>2. ASSUME NEW r \in RightHole(b), h.addr + h.size = r.addr + r.size
          PROVE  h.addr + h.size # x.addr
      BY <1>6, <3>2 DEF RightHole, Coalesced, Holes
    <3> QED BY <1>2, <3>1, <3>2
  <2>5. s <= h.size
    BY DEF h
  <2> QED BY <1>1, <1>4, <1>5, <2>1, <2>3, <2>4, <2>5
<1>7. c.addr + c.size # c.addr
  BY <1>4, <1>5
<1>8. ASSUME NEW x \in Holes((blocks \ M) \cup {c}), NEW y \in Holes((blocks \ M) \cup {c})
      PROVE  x.addr + x.size # y.addr
  <2>1. CASE x = c /\ y = c
    BY <1>7, <2>1
  <2>2. CASE x = c /\ y \in blocks \ M
    BY <1>6, <1>8, <2>2 DEF Holes
  <2>3. CASE x \in blocks \ M /\ y = c
    BY <1>6, <1>8, <2>3 DEF Holes
  <2>4. CASE x \in blocks \ M /\ y \in blocks \ M
    BY <1>8, <2>4 DEF Holes, Coalesced
  <2> QED BY <1>8, <2>1, <2>2, <2>3, <2>4 DEF Holes
<1> QED BY <1>8 DEF Coalesced, c, h

LEMMA ExpandCoalesced ==
  ASSUME length \in Nat, Tiles(blocks, length), Coalesced(blocks),
         NEW start \in Nat, NEW m \in Nat, length < m,
         \/ TailHole = {} /\ start = length
         \/ \E t \in TailHole : TailHole = {t} /\ start = t.addr
  PROVE  Coalesced((blocks \ TailHole) \cup {Hole(start, m - start)})
<1> DEFINE c == Hole(start, m - start)
<1>1. \A x \in blocks : x.addr \in Nat /\ x.size \in Nat /\ x.size > 0 /\ x.addr + x.size <= length
  BY BlockFields DEF Tiles
<1>2. start <= length
  BY <1>1 DEF TailHole
<1>3. c.addr = start /\ c.size = m - start /\ c.addr + c.size = m
  <2>1. m - start \in Nat /\ m - start > 0 /\ start + (m - start) = m
    BY <1>2
  <2> QED BY <2>1, NewBlock
<1> HIDE DEF c
<1>4. ASSUME NEW x \in blocks \ TailHole, x.hole
      PROVE  x.addr + x.size # c.addr /\ c.addr + c.size # x.addr
  <2>1. x.addr + x.size # start
    <3>1. CASE start = length
      BY <1>4, <3>1 DEF TailHole
    <3>2. ASSUME NEW t \in TailHole, start = t.addr PROVE x.addr + x.size # start
      BY <1>4, <3>2 DEF TailHole, Coalesced, Holes
    <3> QED BY <3>1, <3>2
  <2>2. x.addr < m
    BY <1>1
  <2> QED BY <1>1, <1>3, <2>1, <2>2
<1>5. c.addr + c.size # c.addr
  BY <1>2, <1>3
<1>6. ASSUME NEW x \in Holes((blocks \ TailHole) \cup {c}), NEW y \in Holes((blocks \ TailHole) \cup {c})
      PROVE  x.addr + x.size # y.addr
  <2>1. CASE x = c /\ y = c
    BY <1>5, <2>1
  <2>2. CASE x = c /\ y \in blocks \ TailHole
    BY <1>4, <1>6, <2>2 DEF Holes
  <2>3. CASE x \in blocks \ TailHole /\ y = c
    BY <1>4, <1>6, <2>3 DEF Holes
  <2>4. CASE x \in blocks \ TailHole /\ y \in blocks \ TailHole
    BY <1>6, <2>4 DEF Holes, Coalesced
  <2> QED BY <1>6, <2>1, <2>2, <2>3, <2>4 DEF Holes
<1> QED BY <1>6 DEF Coalesced, c
-----------------------------------------------------------------------------
(* What callers hold. *)

LEMMA BackedHoles ==
  ASSUME NEW B, NEW C, NEW O, Backed(B, O), \A x : ~x.hole => (x \in B <=> x \in C)
  PROVE  Backed(C, O)
BY DEF Backed

LEMMA BackedAlloc ==
  ASSUME NEW B, NEW n \in Nat, Tiles(B, n), NEW O, Backed(B, O), NEW h \in Holes(B),
         NEW N, N \subseteq BlockType, NEW b \in N, ~b.hole, \A x \in N : x # b => x.hole,
         \A x \in N : h.addr <= x.addr /\ x.addr + x.size <= h.addr + h.size,
         NEW r \in Requests, b.size >= r.size + MinHole,
         r.align => (b.addr + HeaderSize) % Page = 0
  PROVE  Backed((B \ {h}) \cup N,
                O \cup {[addr |-> b.addr + HeaderSize, size |-> r.size, align |-> r.align]})
<1> DEFINE C == (B \ {h}) \cup N
           new == [addr |-> b.addr + HeaderSize, size |-> r.size, align |-> r.align]
<1>1. /\ b.addr \in Nat /\ b.size \in Nat /\ b.size > 0
      /\ \A x \in B : x.addr \in Nat /\ x.size \in Nat /\ x.size > 0
      /\ h \in B /\ h.hole
  BY BlockFields DEF Tiles, Holes
<1>2. new \in Payload /\ new.addr = b.addr + HeaderSize /\ new.size = r.size /\ new.align = r.align
  BY <1>1, Geometry DEF Requests, Payload
<1> HIDE DEF new
<1>3. ASSUME NEW x \in B, ~x.hole PROVE x \in B \ {h} /\ x.addr # b.addr
  <2>1. x # h
    BY <1>1, <1>3
  <2>2. x.addr + x.size <= h.addr \/ h.addr + h.size <= x.addr
    BY <1>1, <2>1, TilesDisjoint
  <2>3. h.addr <= b.addr /\ b.addr + b.size <= h.addr + h.size
    OBVIOUS
  <2> QED BY <1>1, <2>1, <2>2, <2>3
<1>4. O \cup {new} \subseteq Payload
  BY <1>2 DEF Backed
<1>5. ASSUME NEW o \in O \cup {new}
      PROVE  /\ o.align => o.addr % Page = 0
             /\ \E x \in C : x.addr + HeaderSize = o.addr /\ ~x.hole /\ x.size >= o.size + MinHole
  <2>1. CASE o = new
    BY <1>2, <2>1
  <2>2. CASE o \in O
    <3>1. PICK x \in B : x.addr + HeaderSize = o.addr /\ ~x.hole /\ x.size >= o.size + MinHole
      BY <2>2 DEF Backed
    <3>2. x \in C
      BY <1>3, <3>1
    <3> QED BY <2>2, <3>1, <3>2 DEF Backed
  <2> QED BY <1>5, <2>1, <2>2
<1>6. ASSUME NEW x \in C, ~x.hole PROVE \E o \in O \cup {new} : o.addr = x.addr + HeaderSize
  <2>1. CASE x = b
    BY <1>2, <2>1
  <2>2. CASE x \in B
    BY <1>6, <2>2 DEF Backed
  <2> QED BY <1>6, <2>1, <2>2
<1>7. ASSUME NEW o \in O PROVE o.addr # new.addr
  <2>1. PICK x \in B : x.addr + HeaderSize = o.addr /\ ~x.hole
    BY DEF Backed
  <2>2. x.addr # b.addr /\ x.addr \in Nat
    BY <1>1, <1>3, <2>1
  <2> QED BY <1>1, <1>2, <2>1, <2>2, Geometry
<1>8. \A o, q \in O \cup {new} : o.addr = q.addr => o = q
  BY <1>7 DEF Backed
<1>9. Backed(C, O \cup {new})
  BY <1>4, <1>5, <1>6, <1>8 DEF Backed
<1> QED BY <1>9 DEF new

LEMMA BackedFree ==
  ASSUME length \in Nat, Tiles(blocks, length), Backed(blocks, owned),
         NEW o \in owned, NEW b \in blocks, b.addr + HeaderSize = o.addr,
         NEW N, \A x \in N : x.hole
  PROVE  Backed((blocks \ Gone(b)) \cup N, owned \ {o})
<1> DEFINE C == (blocks \ Gone(b)) \cup N
<1>1. /\ \A x \in blocks : x.addr \in Nat
      /\ \A p \in owned : p.addr \in Nat
  BY BlockFields DEF Tiles, Backed, Payload
<1>2. ASSUME NEW x \in blocks, ~x.hole, x # b PROVE x \in C
  BY <1>2 DEF Gone, LeftHole, RightHole
<1>3. ASSUME NEW p \in owned \ {o}
      PROVE  /\ p.align => p.addr % Page = 0
             /\ \E x \in C : x.addr + HeaderSize = p.addr /\ ~x.hole /\ x.size >= p.size + MinHole
  <2>1. PICK x \in blocks : x.addr + HeaderSize = p.addr /\ ~x.hole /\ x.size >= p.size + MinHole
    BY DEF Backed
  <2>2. p.addr # o.addr
    BY DEF Backed
  <2>3. x \in C
    BY <1>2, <2>1, <2>2
  <2> QED BY <2>1, <2>3 DEF Backed
<1>4. ASSUME NEW x \in C, ~x.hole PROVE \E p \in owned \ {o} : p.addr = x.addr + HeaderSize
  <2>1. x \in blocks /\ x # b
    BY <1>4 DEF Gone
  <2>2. PICK p \in owned : p.addr = x.addr + HeaderSize
    BY <1>4, <2>1 DEF Backed
  <2>3. Addressed(blocks)
    BY TilesAddressed
  <2>4. x.addr # b.addr
    BY <2>1, <2>3 DEF Addressed
  <2>5. p.addr # o.addr
    BY <1>1, <2>1, <2>2, <2>4, Geometry
  <2> QED BY <2>2, <2>5
<1>5. /\ owned \ {o} \subseteq Payload
      /\ \A p, q \in owned \ {o} : p.addr = q.addr => p = q
  BY DEF Backed
<1> QED BY <1>3, <1>4, <1>5 DEF Backed
-----------------------------------------------------------------------------
(* Every operation preserves the invariant. *)

LEMMA Typing ==
  ASSUME IInv
  PROVE  /\ length \in Nat /\ length > 0 /\ length <= MaxLength /\ Tiles(blocks, length)
         /\ Addressed(blocks) /\ \A b \in blocks : b \in BlockType
<1>1. length \in Nat /\ length > 0 /\ length <= MaxLength
  <2>1. PICK k \in Nat : length = k * Page
    BY DEF IInv, ArenaInv, Whole
  <2>2. length \in Nat
    BY <2>1, Geometry
  <2> QED BY <2>2, Geometry DEF IInv, ArenaInv
<1>2. Tiles(blocks, length)
  BY DEF IInv
<1> QED BY <1>1, <1>2, TilesAddressed DEF Tiles

LEMMA RequestType ==
  ASSUME NEW r \in Requests
  PROVE  r.size \in Nat /\ r.size > 0 /\ r.align \in BOOLEAN /\ r # NoRequest
<1>1. r.size \in Sizes
  BY DEF Requests
<1>2. r.align \in BOOLEAN
  BY DEF Requests
<1>3. r.size \in Nat /\ r.size > 0
  <2> DEFINE n == r.size
  <2>1. n \in Nat \ {0}
    BY <1>1, SizesAssumption, Zenon
  <2> HIDE DEF n
  <2>2. n \in Nat /\ n > 0
    BY <2>1
  <2> QED BY <2>2 DEF n
<1>4. r # NoRequest
  BY <1>3 DEF NoRequest
<1> QED BY <1>2, <1>3, <1>4, Zenon

LEMMA AllocFromHoleStep ==
  ASSUME IInv, NEW r \in Requests, AllocFromHole(r)
  PROVE  IInv'
<1> DEFINE i    == Min(Suitable(r.size, r.align))
           h    == BlockAt(blocks, index[i])
           lead == Lead(h, r.align)
           room == h.size - lead
           need == r.size + MinHole
           new  == IF room - need < MinHole THEN room ELSE need
           b    == Block(h.addr + lead, new)
           rest == Hole(b.addr + new, room - new)
           front == Hole(h.addr, lead)
           F    == IF lead # 0 THEN {front} ELSE {}
           R    == IF room # new THEN {rest} ELSE {}
           B    == (blocks \ {h}) \cup {b} \cup F \cup R
           idx0 == RemoveAt(index, i)
           idx1 == IF lead # 0 THEN InsertHole(idx0, B, front) ELSE idx0
           idx2 == IF room # new THEN InsertHole(idx1, B, rest) ELSE idx1
           o    == [addr |-> b.addr + HeaderSize, size |-> r.size, align |-> r.align]
<1>1. /\ panic = "none" /\ Suitable(r.size, r.align) # {}
      /\ \/ panic' = "index" /\ UNCHANGED <<blocks, index, owned>>
         \/ blocks' = B /\ index' = idx2 /\ owned' = owned \cup {o} /\ panic' = panic
      /\ request' = NoRequest /\ tries' = 0 /\ length' = length
  BY DEF AllocFromHole
<1>2. r.size \in Nat /\ r.size > 0 /\ r.align \in BOOLEAN
  BY RequestType
<1>3. /\ length \in Nat /\ Tiles(blocks, length) /\ Addressed(blocks)
      /\ Holes(blocks) \subseteq blocks /\ Listed(index, blocks, Holes(blocks))
      /\ index \in Seq(Nat) /\ Len(index) \in Nat
  BY Typing, LenProperties DEF IInv, Listed, Holes
<1>4. /\ i \in 1 .. Len(index) /\ Fits(h, r.size, r.align)
      /\ h \in Holes(blocks) /\ h \in blocks /\ h.hole /\ h.addr = index[i] /\ h \in BlockType
      /\ h.addr \in Nat /\ h.size \in Nat
  <2>1. Suitable(r.size, r.align) \subseteq Nat
    BY <1>3 DEF Suitable
  <2>2. i \in Suitable(r.size, r.align)
    BY <1>1, <2>1, LeastOfNat
  <2>3. i \in 1 .. Len(index) /\ Fits(h, r.size, r.align)
    BY <2>2 DEF Suitable
  <2> HIDE DEF i
  <2>4. h \in Holes(blocks) /\ h.addr = index[i]
    BY <1>3, <2>3, ListedSizes
  <2>5. h \in BlockType
    BY <2>4, Typing DEF Holes
  <2> QED BY <2>3, <2>4, <2>5, BlockFields DEF Holes
<1> HIDE DEF i, h
<1>5. /\ lead \in Nat /\ (lead # 0 => lead >= MinHole)
      /\ r.align => (h.addr + lead + HeaderSize) % Page = 0
      /\ h.size >= r.size + MinHole + lead
  BY <1>2, <1>4, LeadValue DEF Fits
<1> HIDE DEF lead
<1>6. /\ room \in Nat /\ lead + room = h.size /\ new \in Nat /\ 0 < new /\ new <= room
      /\ new >= r.size + MinHole /\ (room # new => room - new >= MinHole /\ room - new \in Nat)
  <2>1. room \in Nat /\ need \in Nat /\ need > 0 /\ room >= need /\ lead + room = h.size
    BY <1>2, <1>4, <1>5, Geometry
  <2>2. need = r.size + MinHole /\ MinHole \in Nat
    BY Geometry
  <2> HIDE DEF room, need
  <2>3. CASE room - need < MinHole
    BY <2>1, <2>2, <2>3
  <2>4. CASE ~(room - need < MinHole)
    BY <2>1, <2>2, <2>4
  <2> QED BY <2>3, <2>4
<1> HIDE DEF room, new
<1>7. /\ b \in BlockType /\ b.addr = h.addr + lead /\ b.size = new /\ ~b.hole
      /\ lead # 0 => /\ front \in BlockType /\ front.addr = h.addr /\ front.size = lead /\ front.hole
      /\ room # new => /\ rest \in BlockType /\ rest.addr = h.addr + lead + new
                       /\ rest.size = room - new /\ rest.hole
  <2>1. b \in BlockType /\ b.addr = h.addr + lead /\ b.size = new /\ ~b.hole
    BY <1>4, <1>5, <1>6, NewBlock
  <2>2. lead # 0 => front \in BlockType /\ front.addr = h.addr /\ front.size = lead /\ front.hole
    BY <1>4, <1>5, NewBlock
  <2>3. ASSUME room # new
        PROVE  rest \in BlockType /\ rest.addr = h.addr + lead + new /\ rest.size = room - new /\ rest.hole
    <3>1. b.addr + new \in Nat /\ room - new \in Nat /\ room - new > 0
      BY <1>4, <1>5, <1>6, <2>1, <2>3
    <3> HIDE DEF b
    <3>2. rest \in BlockType /\ rest.addr = b.addr + new /\ rest.size = room - new /\ rest.hole
      BY <3>1, NewBlock
    <3> QED BY <2>1, <3>2
  <2> QED BY <2>1, <2>2, <2>3
<1> DEFINE N == {b} \cup F \cup R
<1>8. B = (blocks \ {h}) \cup N
  OBVIOUS
<1>9. N = Pieces(h, lead, room, new)
  <2>1. rest = Hole(h.addr + lead + new, room - new)
    BY <1>7
  <2> HIDE DEF rest
  <2> QED BY <2>1 DEF Pieces
<1>10. Tiles(B, length)
  <2> HIDE DEF N, B
  <2> QED BY <1>3, <1>4, <1>5, <1>6, <1>8, <1>9, SplitTiles
<1> HIDE DEF b, front, rest
<1>11. /\ N \subseteq BlockType /\ b \in N
       /\ \A x \in N : x = b \/ (lead # 0 /\ x = front) \/ (room # new /\ x = rest)
       /\ lead # 0 => front \in N
       /\ room # new => rest \in N
  BY <1>7
<1>12. ASSUME NEW x \in N
       PROVE  h.addr <= x.addr /\ x.addr + x.size <= h.addr + h.size /\ x.size >= MinHole
  <2>1. CASE x = b
    <3>1. h.addr \in Nat /\ r.size \in Nat /\ MinHole \in Nat /\ lead \in Nat
      BY <1>2, <1>4, <1>5, Geometry
    <3>2. x.addr = h.addr + lead /\ x.size = new
      BY <1>7, <2>1
    <3> QED BY <1>6, <3>1, <3>2
  <2>2. CASE lead # 0 /\ x = front
    BY <1>4, <1>5, <1>6, <1>7, <2>2
  <2>3. CASE room # new /\ x = rest
    BY <1>4, <1>5, <1>6, <1>7, <2>3
  <2> HIDE DEF N
  <2> QED BY <1>11, <2>1, <2>2, <2>3
<1> HIDE DEF N
<1>13. Coalesced(B)
  <2>1. \A x, y \in Holes(N) : x.addr + x.size # y.addr
    BY <1>4, <1>5, <1>6, <1>7, <1>11 DEF Holes
  <2>2. Coalesced(blocks)
    BY DEF IInv
  <2> HIDE DEF B
  <2> QED BY <1>3, <1>4, <1>8, <1>11, <1>12, <2>1, <2>2, SplitCoalesced
<1>14. Backed(B, owned \cup {o})
  <2>1. b.size >= r.size + MinHole /\ (r.align => (b.addr + HeaderSize) % Page = 0)
    BY <1>5, <1>6, <1>7
  <2>2. \A x \in N : x # b => x.hole
    BY <1>7, <1>11
  <2>3. Backed(blocks, owned)
    BY DEF IInv
  <2>4. ~b.hole
    BY <1>7
  <2> HIDE DEF B
  <2> QED BY <1>3, <1>4, <1>8, <1>11, <1>12, <2>1, <2>2, <2>3, <2>4, BackedAlloc
<1>15. Listed(idx2, B, Holes(B))
  <2> DEFINE H0 == Holes(blocks) \ {h}
             H1 == H0 \cup F
  <2>1. Addressed(B)
    BY <1>3, <1>10, TilesAddressed
  <2>2. H0 \subseteq B /\ H0 \subseteq blocks
    BY <1>8 DEF Holes
  <2>3. Listed(idx0, blocks, H0)
    BY <1>3, <1>4, RemoveAtListed
  <2>4. Listed(idx0, B, H0)
    BY <1>3, <2>1, <2>2, <2>3, ListedSame
  <2>5. ASSUME NEW x \in N PROVE x \notin blocks \ {h} /\ x \in B
    <3>1. x.addr \in Nat /\ Covers(x, x.addr) /\ Covers(h, x.addr)
      <4>1. x.addr \in Nat /\ x.size \in Nat /\ x.size > 0 /\ Covers(x, x.addr)
        BY <1>11, BlockFields
      <4> QED BY <1>4, <1>12, <4>1 DEF Covers
    <3>2. x \in blocks => x = h
      BY <1>3, <1>4, <3>1 DEF Tiles
    <3> QED BY <1>8, <3>2
  <2> HIDE DEF B
  <2>6. Listed(idx1, B, H1) /\ H1 \subseteq B
    <3>1. CASE lead = 0
      BY <2>2, <2>4, <3>1
    <3>2. CASE lead # 0
      <4>1. front \in B /\ front \notin H0
        BY <1>11, <2>5, <3>2 DEF Holes
      <4>2. Listed(InsertHole(idx0, B, front), B, H0 \cup {front})
        BY <2>1, <2>2, <2>4, <4>1, InsertHoleListed
      <4>3. H1 = H0 \cup {front} /\ idx1 = InsertHole(idx0, B, front)
        BY <3>2
      <4> QED BY <2>2, <4>1, <4>2, <4>3
    <3> QED BY <3>1, <3>2
  <2>7. Listed(idx2, B, H1 \cup R)
    <3>1. CASE room = new
      BY <2>6, <3>1
    <3>2. CASE room # new
      <4>1. rest \in B /\ rest \notin H1
        <5>1. rest \in B /\ rest \notin H0
          BY <1>11, <2>5, <3>2 DEF Holes
        <5>2. lead # 0 => rest # front
          BY <1>4, <1>5, <1>6, <1>7, <3>2
        <5> QED BY <5>1, <5>2
      <4> HIDE DEF H1
      <4>2. Listed(InsertHole(idx1, B, rest), B, H1 \cup {rest})
        BY <2>1, <2>6, <4>1, InsertHoleListed
      <4>3. H1 \cup R = H1 \cup {rest} /\ idx2 = InsertHole(idx1, B, rest)
        BY <3>2
      <4> QED BY <4>2, <4>3
    <3> QED BY <3>1, <3>2
  <2>8. H1 \cup R = Holes(B)
    <3>1. Holes(B) = Holes(blocks \ {h}) \cup Holes(N)
      BY <1>8 DEF Holes
    <3>2. Holes(N) = F \cup R
      BY <1>7 DEF Holes, N
    <3>3. Holes(blocks \ {h}) = H0
      BY DEF Holes
    <3> QED BY <3>1, <3>2, <3>3
  <2> QED BY <2>7, <2>8
<1>16. \A x \in B : x.size >= MinHole
  BY <1>1, <1>8, <1>12 DEF IInv
<1>17. RetryInv'
  BY <1>1 DEF RetryInv
<1>18. ArenaInv'
  BY <1>1 DEF IInv, ArenaInv
<1> HIDE DEF B, idx2, o
<1>19. CASE blocks' = B /\ index' = idx2 /\ owned' = owned \cup {o} /\ panic' = panic
  BY <1>1, <1>10, <1>13, <1>14, <1>15, <1>16, <1>17, <1>18, <1>19 DEF IInv
<1>20. CASE panic' = "index" /\ UNCHANGED <<blocks, index, owned>>
  <2>1. /\ Tiles(blocks', length') /\ Coalesced(blocks') /\ Listed(index', blocks', Holes(blocks'))
        /\ Backed(blocks', owned')
    BY <1>1, <1>20 DEF IInv
  <2> QED BY <1>17, <1>18, <1>20, <2>1 DEF IInv
<1> QED BY <1>1, <1>19, <1>20
LEMMA TailHoleValue ==
  ASSUME IInv
  PROVE  /\ \A x, y \in TailHole : x = y
         /\ TailHole \subseteq Holes(blocks)
<1>1. length \in Nat /\ Tiles(blocks, length)
  BY Typing
<1>2. \A x \in blocks : x.addr \in Nat /\ x.size \in Nat /\ x.size > 0
  BY <1>1, BlockFields DEF Tiles
<1>3. ASSUME NEW x \in TailHole, NEW y \in TailHole PROVE x = y
  <2>1. x \in blocks /\ y \in blocks /\ x.addr + x.size = length /\ y.addr + y.size = length
    BY DEF TailHole
  <2>2. x.addr < y.addr + y.size /\ y.addr < x.addr + x.size
    BY <1>2, <2>1
  <2> QED BY <1>1, <2>1, <2>2, TilesSame
<1> QED BY <1>3 DEF TailHole, Holes

\* A hole that has grown twice, or once for an unaligned request, is found.
LEMMA RetryBound ==
  ASSUME IInv, NEW r \in Requests, Asks(r), Suitable(r.size, r.align) = {}
  PROVE  tries = 0 \/ (tries = 1 /\ r.align /\ request = r)
<1>1. tries \in {0, 1, 2} /\ (tries = 0 <=> request = NoRequest)
  BY DEF IInv, RetryInv
<1>2. SUFFICES ASSUME tries # 0 PROVE tries = 1 /\ r.align /\ request = r
  OBVIOUS
<1>3. request = r /\ r # NoRequest
  BY <1>1, <1>2, RequestType DEF Asks
<1>4. r.size \in Nat /\ r.size > 0
  BY RequestType
<1>5. PICK h \in TailHole, before \in Nat :
         /\ (before = 0 /\ Whole(h.addr)) \/ before >= MinHole
         /\ h.size >= before + tries * Page
         /\ h.size >= before + tries * (r.size + MinHole)
  BY <1>3 DEF IInv, RetryInv
<1>6. h \in Holes(blocks) /\ h \in BlockType /\ Addressed(blocks)
      /\ Listed(index, blocks, Holes(blocks)) /\ h.size \in Nat
  <2>1. h \in Holes(blocks)
    BY TailHoleValue
  <2>2. h \in BlockType
    BY <2>1, Typing DEF Holes
  <2> QED BY <2>1, <2>2, Typing, BlockFields DEF IInv
<1>7. ASSUME tries = 2 PROVE FALSE
  <2>1. h.size >= before + 2 * Page /\ h.size >= before + 2 * (r.size + MinHole)
    BY <1>5, <1>7
  <2>2. Fits(h, r.size, TRUE)
    BY <1>4, <1>5, <1>6, <2>1, GrownFits
  <2>3. r.align = TRUE
    <3>1. r.align
      BY <1>3, <1>7 DEF IInv, RetryInv
    <3> QED BY <3>1, RequestType, Zenon
  <2>4. Suitable(r.size, TRUE) # {}
    BY <1>6, <2>2, ListedFits
  <2> QED BY <2>3, <2>4
<1>8. tries = 1
  BY <1>1, <1>2, <1>7
<1>9. ASSUME ~r.align PROVE FALSE
  <2>1. Lead(h, r.align) = 0
    BY <1>9 DEF Lead
  <2>2. h.size >= r.size + MinHole
    BY <1>4, <1>5, <1>6, <1>8, Geometry
  <2>3. Fits(h, r.size, r.align)
    <3>1. r.size + MinHole + 0 = r.size + MinHole
      BY <1>4, Geometry
    <3> QED BY <2>1, <2>2, <3>1 DEF Fits
  <2> QED BY <1>6, <2>3, ListedFits
<1> QED BY <1>3, <1>8, <1>9

LEMMA AllocExpandStep ==
  ASSUME IInv, NEW r \in Requests, AllocExpand(r)
  PROVE  IInv'
<1> DEFINE need  == r.size + MinHole
           grown == RoundUp(length + r.size + MinHole)
           start == IF TailHole = {} THEN length ELSE (CHOOSE x \in TailHole : TRUE).addr
           h     == Hole(start, grown - start)
           B     == (blocks \ TailHole) \cup {h}
           idx0  == Unlist(index, TailHole)
           idx   == InsertHole(idx0, B, h)
<1>1. /\ panic = "none" /\ Asks(r) /\ Suitable(r.size, r.align) = {} /\ owned' = owned
      /\ \/ panic' \in {"limit", "index"} /\ UNCHANGED <<blocks, index, length, request, tries>>
         \/ /\ ~(grown > MaxLength)
            /\ blocks' = B /\ index' = idx /\ length' = grown
            /\ request' = r /\ tries' = tries + 1 /\ panic' = panic
  BY DEF AllocExpand
<1>2. CASE panic' \in {"limit", "index"} /\ UNCHANGED <<blocks, index, length, request, tries>>
  <2>1. /\ Tiles(blocks', length') /\ Coalesced(blocks') /\ Listed(index', blocks', Holes(blocks'))
        /\ Backed(blocks', owned') /\ ArenaInv'
    BY <1>1, <1>2 DEF IInv, ArenaInv
  <2>2. RetryInv'
    BY <1>2 DEF IInv, RetryInv, TailHole
  <2> QED BY <1>2, <2>1, <2>2 DEF IInv
<1>3. CASE /\ ~(grown > MaxLength)
           /\ blocks' = B /\ index' = idx /\ length' = grown
           /\ request' = r /\ tries' = tries + 1 /\ panic' = panic
  <2>1. /\ length \in Nat /\ Tiles(blocks, length) /\ Addressed(blocks)
        /\ Listed(index, blocks, Holes(blocks)) /\ Coalesced(blocks) /\ Backed(blocks, owned)
        /\ Whole(length) /\ MinLength <= length
    BY Typing DEF IInv, ArenaInv
  <2>2. r.size \in Nat /\ r.size > 0
    BY RequestType
  <2>3. /\ grown \in Nat /\ Whole(grown) /\ length < grown
        /\ length + Page <= grown /\ length + need <= grown
    <3> DEFINE n == length + r.size + MinHole
    <3>1. n \in Nat /\ length < n /\ n = length + need
      BY <2>1, <2>2, Geometry
    <3>2. grown = RoundUp(n)
      OBVIOUS
    <3> HIDE DEF n, grown, need
    <3>3. grown \in Nat /\ Whole(grown) /\ n <= grown
      BY <3>1, <3>2, RoundUpValue
    <3>4. length < grown /\ length + need <= grown
      BY <2>1, <3>1, <3>3
    <3>5. length + Page <= grown
      BY <2>1, <3>3, <3>4, WholeApart
    <3> QED BY <3>3, <3>4, <3>5
  <2> HIDE DEF grown
  <2>4. \/ TailHole = {} /\ start = length
        \/ \E t \in TailHole : TailHole = {t} /\ start = t.addr
    BY TailHoleValue
  <2>5. \A t \in TailHole : /\ t \in blocks /\ t.addr + t.size = length /\ t.hole /\ t \in BlockType
                            /\ t.addr \in Nat /\ t.size \in Nat /\ t.size > 0 /\ t.size >= MinHole
    <3>1. \A t \in TailHole : /\ t \in blocks /\ t.addr + t.size = length /\ t.hole /\ t \in BlockType
      BY Typing DEF TailHole
    <3> QED BY <1>1, <3>1, BlockFields DEF IInv
  <2> HIDE DEF start
  <2>6. start \in Nat /\ start <= length
    BY <2>1, <2>4, <2>5
  <2>7. h \in BlockType /\ h.addr = start /\ h.size = grown - start /\ h.hole /\ h.addr + h.size = grown
    <3>1. grown - start \in Nat /\ grown - start > 0 /\ start + (grown - start) = grown
      BY <2>1, <2>3, <2>6
    <3> QED BY <2>6, <3>1, NewBlock
  <2>8. Tiles(B, grown)
    <3>1. \/ TailHole = {} /\ start = length
          \/ \E t \in blocks : TailHole = {t} /\ start = t.addr /\ t.addr + t.size = length
      BY <2>4, <2>5
    <3>2. TailHole \subseteq blocks
      BY <2>5
    <3> HIDE DEF TailHole
    <3> QED BY <2>1, <2>3, <2>6, <3>1, <3>2, ExpandTiles
  <2>9. Coalesced(B)
    BY <2>1, <2>3, <2>4, <2>6, ExpandCoalesced
  <2> HIDE DEF h
  <2>10. Backed(B, owned)
    <3>1. \A x : ~x.hole => (x \in blocks <=> x \in B)
      BY <2>5, <2>7
    <3> HIDE DEF B
    <3> QED BY <2>1, <3>1, BackedHoles
  <2>11. Listed(idx, B, Holes(B))
    <3> DEFINE H0 == Holes(blocks) \ TailHole
    <3>1. Addressed(B)
      BY <2>3, <2>8, TilesAddressed
    <3>2. H0 \subseteq blocks /\ H0 \subseteq B /\ Holes(B) = H0 \cup {h} /\ h \in B
      BY <2>7 DEF Holes
    <3>3. Holes(blocks) \subseteq blocks
      BY DEF Holes
    <3>4. Listed(idx0, blocks, H0)
      BY <2>1, <3>3, TailHoleValue, UnlistListed
    <3> HIDE DEF idx0, B
    <3>5. Listed(idx0, B, H0)
      BY <2>1, <3>1, <3>2, <3>4, ListedSame
    <3>6. h \notin H0
      <4>1. \A x \in blocks : x.addr + x.size <= length
        BY <2>1 DEF Tiles
      <4>2. ~(grown <= length)
        BY <2>1, <2>3
      <4> QED BY <2>7, <3>2, <4>1, <4>2
    <3> HIDE DEF H0
    <3>7. Listed(InsertHole(idx0, B, h), B, H0 \cup {h})
      BY <3>1, <3>2, <3>5, <3>6, InsertHoleListed
    <3> QED BY <3>2, <3>7
  <2>12. \A x \in B : x.size >= MinHole
    <3>1. h.size >= MinHole
      BY <2>1, <2>2, <2>3, <2>6, <2>7, Geometry
    <3> QED BY <1>1, <3>1 DEF IInv
  <2>13. ArenaInv'
    <3>1. MinLength <= grown /\ grown <= MaxLength
      BY <1>3, <2>1, <2>3, Geometry
    <3> QED BY <1>3, <2>3, <3>1 DEF ArenaInv
  <2>14. RetryInv'
    <3>1. tries = 0 \/ (tries = 1 /\ r.align /\ request = r)
      BY <1>1, RetryBound
    <3>2. h \in TailHole'
      BY <1>3, <2>7 DEF TailHole
    <3>3. \E before \in Nat :
            /\ (before = 0 /\ Whole(h.addr)) \/ before >= MinHole
            /\ h.size >= before + (tries + 1) * Page
            /\ h.size >= before + (tries + 1) * need
      <4>1. CASE tries = 0 /\ TailHole = {}
        <5>1. start = length
          BY <2>4, <4>1
        <5>2. h.size >= 0 + (0 + 1) * Page /\ h.size >= 0 + (0 + 1) * need
          BY <2>1, <2>2, <2>3, <2>7, <5>1, Geometry
        <5> QED BY <2>1, <2>7, <4>1, <5>1, <5>2
      <4>2. CASE tries = 0 /\ TailHole # {}
        <5>1. PICK t \in TailHole : start = t.addr
          BY <2>4, <4>2
        <5>2. /\ t.size \in Nat /\ t.size >= MinHole
              /\ h.size >= t.size + (0 + 1) * Page /\ h.size >= t.size + (0 + 1) * need
          BY <2>1, <2>2, <2>3, <2>5, <2>7, <5>1, Geometry
        <5> QED BY <4>2, <5>2
      <4>3. CASE tries = 1 /\ request = r
        <5>1. PICK t \in TailHole, before \in Nat :
                 /\ (before = 0 /\ Whole(t.addr)) \/ before >= MinHole
                 /\ t.size >= before + 1 * Page
                 /\ t.size >= before + 1 * need
          BY <4>3, RequestType DEF IInv, RetryInv
        <5>2. start = t.addr
          BY <2>4, TailHoleValue
        <5>3. h.size >= before + (1 + 1) * Page /\ h.size >= before + (1 + 1) * need
          BY <2>1, <2>2, <2>3, <2>5, <2>7, <5>1, <5>2, Geometry
        <5> QED BY <2>7, <4>3, <5>1, <5>2, <5>3
      <4> QED BY <3>1, <4>1, <4>2, <4>3
    <3>4. tries + 1 \in {1, 2} /\ (tries + 1 = 2 => r.align) /\ r # NoRequest
      BY <3>1, RequestType
    <3> QED BY <1>3, <3>2, <3>3, <3>4 DEF RetryInv
  <2> HIDE DEF B, idx
  <2> QED BY <1>1, <1>3, <2>8, <2>9, <2>10, <2>11, <2>12, <2>13, <2>14 DEF IInv
<1> QED BY <1>1, <1>2, <1>3
LEMMA ContractedValue ==
  ASSUME NEW a \in Nat
  PROVE  /\ Contracted(a) \in Nat /\ Whole(Contracted(a))
         /\ a <= Contracted(a) /\ MinLength <= Contracted(a)
         /\ \A n \in Nat : Whole(n) /\ a <= n /\ MinLength <= n => Contracted(a) <= n
<1>1. Whole(MinLength)
  <2>1. MinLength % Page = 0 /\ MinLength \in Nat
    BY GeometryAssumption
  <2> QED BY <2>1, WholeMod
<1> DEFINE t == RoundUp(a)
<1>2. t \in Nat /\ Whole(t) /\ a <= t /\ \A m \in Nat : Whole(m) /\ a <= m => t <= m
  BY RoundUpValue
<1>3. Contracted(a) = IF t < MinLength THEN MinLength ELSE t
  BY DEF Contracted
<1> HIDE DEF t
<1> QED BY <1>1, <1>2, <1>3, Geometry

LEMMA FreeStep ==
  ASSUME IInv, NEW o \in owned, Free(o)
  PROVE  IInv'
<1> DEFINE b    == BlockAt(blocks, o.addr - HeaderSize)
           h    == Merged(b)
           kept == IF h.addr + h.size = length THEN Contracted(h.addr) ELSE length
           size == h.size - (length - kept)
           B    == blocks \ ({b} \cup LeftHole(b) \cup RightHole(b))
           idx0 == Unlist(index, LeftHole(b))
           idx  == Unlist(idx0, RightHole(b))
           cut  == Hole(h.addr, size)
<1>1. /\ panic = "none" /\ request = NoRequest /\ length' = kept
      /\ \/ size <= 0 /\ blocks' = B /\ index' = idx /\ panic' = panic
         \/ /\ ~(size <= 0) /\ blocks' = B \cup {cut}
            /\ index' = InsertHole(idx, blocks', cut)
            /\ panic' = IF size < MinHole THEN "malformed"
                        ELSE IF Len(idx) = IndexSize THEN "index" ELSE panic
      /\ owned' = owned \ {o} /\ request' = request /\ tries' = tries
  BY DEF Free
<1>2. /\ length \in Nat /\ Tiles(blocks, length) /\ Addressed(blocks)
      /\ Listed(index, blocks, Holes(blocks)) /\ Coalesced(blocks) /\ Backed(blocks, owned)
      /\ Whole(length) /\ MinLength <= length /\ length <= MaxLength
  BY Typing DEF IInv, ArenaInv
<1>3. b \in blocks /\ b.addr + HeaderSize = o.addr /\ ~b.hole
  <2>1. PICK x \in blocks : x.addr + HeaderSize = o.addr /\ ~x.hole
    BY <1>2 DEF Backed
  <2>2. BlockAt(blocks, x.addr) = x /\ x.addr \in Nat
    BY <1>2, BlockAtValue
  <2>3. o.addr - HeaderSize = x.addr
    BY <2>1, <2>2, Geometry
  <2> QED BY <2>1, <2>2, <2>3
<1> HIDE DEF b
<1>4. /\ h \in BlockType /\ h.hole /\ h.addr + h.size <= length
      /\ \A p \in Nat : Covers(h, p) <=> \E x \in Gone(b) : Covers(x, p)
      /\ h.addr \in Nat /\ h.size \in Nat /\ h.size > 0
  <2>1. /\ h \in BlockType /\ h.hole /\ h.addr + h.size <= length
        /\ \A p \in Nat : Covers(h, p) <=> \E x \in Gone(b) : Covers(x, p)
    BY <1>2, <1>3, MergedValue
  <2> HIDE DEF h
  <2> QED BY <2>1, BlockFields
<1>5. /\ Gone(b) \subseteq blocks /\ B = blocks \ Gone(b)
      /\ \A x, y \in LeftHole(b) : x = y
      /\ \A x, y \in RightHole(b) : x = y
  BY <1>2, <1>3, Neighbours DEF Gone
<1> HIDE DEF h, B
<1>6. /\ kept \in Nat /\ Whole(kept) /\ kept <= length /\ MinLength <= kept
      /\ kept = length \/ (h.addr + h.size = length /\ h.addr <= kept)
  <2>1. h.addr <= length
    BY <1>2, <1>4
  <2>2. /\ Contracted(h.addr) \in Nat /\ Whole(Contracted(h.addr))
        /\ h.addr <= Contracted(h.addr) /\ MinLength <= Contracted(h.addr)
        /\ Contracted(h.addr) <= length
    BY <1>2, <1>4, <2>1, ContractedValue
  <2>3. CASE h.addr + h.size = length
    <3>1. kept = Contracted(h.addr)
      BY <2>3
    <3> HIDE DEF kept
    <3> QED BY <2>2, <2>3, <3>1
  <2>4. CASE h.addr + h.size # length
    <3>1. kept = length
      BY <2>4
    <3>2. length <= length
      BY <1>2
    <3> HIDE DEF kept
    <3> QED BY <1>2, <3>1, <3>2
  <2> QED BY <2>3, <2>4
<1> HIDE DEF kept
<1>7. size \in Int /\ size <= h.size /\ size = h.size - (length - kept)
  BY <1>2, <1>4, <1>6
<1> HIDE DEF size
<1>8. /\ size <= 0 => Tiles(B, kept)
      /\ size > 0 => Tiles(B \cup {cut}, kept)
  <2>1. /\ size <= 0 => Tiles(blocks \ Gone(b), kept)
        /\ size > 0 => Tiles((blocks \ Gone(b)) \cup {Hole(h.addr, size)}, kept)
    BY <1>2, <1>4, <1>5, <1>6, <1>7, ContractTiles
  <2> QED BY <1>5, <2>1
<1>9. /\ Coalesced(B)
      /\ size > 0 => Coalesced(B \cup {cut})
  <2>1. Coalesced(B)
    BY <1>2, <1>5 DEF Coalesced, Holes
  <2>2. ASSUME size > 0 PROVE Coalesced((blocks \ Gone(b)) \cup {Hole(h.addr, size)})
    <3>1. size \in Nat
      BY <1>7, <2>2
    <3> QED BY <1>2, <1>3, <1>7, <2>2, <3>1, MergeCoalesced DEF h
  <2> QED BY <1>5, <2>1, <2>2
<1>10. size > 0 => cut \in BlockType /\ cut.addr = h.addr /\ cut.size = size /\ cut.hole
  <2>1. size > 0 => size \in Nat
    BY <1>7
  <2> QED BY <1>4, <2>1, NewBlock
<1> HIDE DEF cut
<1>11. /\ Backed(B, owned \ {o})
       /\ size > 0 => Backed(B \cup {cut}, owned \ {o})
  <2>1. Backed((blocks \ Gone(b)) \cup {}, owned \ {o})
    BY <1>2, <1>3, BackedFree
  <2>2. (blocks \ Gone(b)) \cup {} = B
    BY <1>5
  <2>3. size > 0 => Backed((blocks \ Gone(b)) \cup {cut}, owned \ {o})
    <3>1. size > 0 => \A x \in {cut} : x.hole
      BY <1>10
    <3> QED BY <1>2, <1>3, <3>1, BackedFree
  <2> QED BY <1>5, <2>1, <2>2, <2>3
<1>12. Listed(idx, blocks, Holes(B)) /\ Holes(B) \subseteq blocks /\ Holes(B) \subseteq B
  <2> DEFINE H0 == Holes(blocks) \ LeftHole(b)
  <2>1. Holes(blocks) \subseteq blocks /\ LeftHole(b) \subseteq Holes(blocks)
    BY DEF Holes, LeftHole
  <2>2. Listed(idx0, blocks, H0)
    BY <1>2, <1>5, <2>1, UnlistListed
  <2>3. H0 \subseteq blocks /\ RightHole(b) \subseteq H0
    <3>1. \A x \in blocks : x.addr \in Nat /\ x.size \in Nat /\ x.size > 0
      BY <1>2, BlockFields DEF Tiles
    <3>2. ASSUME NEW x \in RightHole(b) PROVE x \notin LeftHole(b)
      <4>1. x \in blocks /\ x.addr = b.addr + b.size
        BY DEF RightHole
      <4>2. x.addr + x.size # b.addr
        BY <1>3, <3>1, <4>1
      <4> QED BY <4>2 DEF LeftHole
    <3> QED BY <2>1, <3>2 DEF Holes, RightHole
  <2> HIDE DEF idx0, H0
  <2>4. Listed(idx, blocks, H0 \ RightHole(b))
    BY <1>2, <1>5, <2>2, <2>3, UnlistListed
  <2>5. Holes(B) = H0 \ RightHole(b)
    BY <1>3, <1>5 DEF Holes, Gone, H0
  <2> QED BY <1>5, <2>4, <2>5 DEF Holes
<1> HIDE DEF idx
<1>13. size <= 0 => Listed(idx, B, Holes(B))
  <2>1. ASSUME size <= 0 PROVE Addressed(B)
    BY <1>6, <1>8, <2>1, TilesAddressed
  <2> QED BY <1>2, <1>12, <2>1, ListedSame
<1>14. ASSUME size > 0 PROVE Listed(InsertHole(idx, B \cup {cut}, cut), B \cup {cut}, Holes(B \cup {cut}))
  <2> DEFINE C == B \cup {cut}
  <2>1. Addressed(C)
    BY <1>6, <1>8, <1>14, TilesAddressed
  <2>2. Holes(B) \subseteq C /\ cut \in C /\ Holes(C) = Holes(B) \cup {cut}
    BY <1>10, <1>14 DEF Holes
  <2>3. cut \notin Holes(B)
    <3>1. ASSUME cut \in B PROVE FALSE
      <4>1. cut \in blocks \ Gone(b)
        BY <1>5, <3>1
      <4>2. cut.addr + cut.size <= h.addr \/ h.addr + h.size <= cut.addr
        BY <1>2, <1>4, <1>5, <4>1, Beside
      <4> QED BY <1>4, <1>7, <1>10, <1>14, <4>2
    <3> QED BY <3>1 DEF Holes
  <2> HIDE DEF C
  <2>4. Listed(idx, C, Holes(B))
    BY <1>2, <1>12, <2>1, <2>2, ListedSame
  <2>5. Listed(InsertHole(idx, C, cut), C, Holes(B) \cup {cut})
    BY <2>1, <2>2, <2>3, <2>4, InsertHoleListed
  <2> QED BY <2>2, <2>5 DEF C
<1>15. \A x \in B : x.size >= MinHole
  BY <1>1, <1>5 DEF IInv
<1>16. ArenaInv'
  BY <1>1, <1>2, <1>6, Geometry DEF ArenaInv
<1>17. RetryInv'
  <2>1. request' = NoRequest /\ tries' = 0
    BY <1>1 DEF IInv, RetryInv
  <2> QED BY <2>1 DEF RetryInv
<1>18. CASE size <= 0 /\ blocks' = B /\ index' = idx /\ panic' = panic
  BY <1>1, <1>8, <1>9, <1>11, <1>13, <1>15, <1>16, <1>17, <1>18 DEF IInv
<1>19. CASE /\ ~(size <= 0) /\ blocks' = B \cup {cut}
            /\ index' = InsertHole(idx, blocks', cut)
            /\ panic' = IF size < MinHole THEN "malformed"
                        ELSE IF Len(idx) = IndexSize THEN "index" ELSE panic
  <2>1. size > 0
    BY <1>7, <1>19
  <2>2. /\ Tiles(blocks', length') /\ Coalesced(blocks') /\ Backed(blocks', owned')
        /\ Listed(index', blocks', Holes(blocks'))
    BY <1>1, <1>8, <1>9, <1>11, <1>14, <1>19, <2>1
  <2>3. panic' \in {"none", "limit", "index", "malformed"}
    BY <1>1, <1>19
  <2>4. panic' = "none" => \A x \in blocks' : x.size >= MinHole
    <3>1. panic' = "none" => ~(size < MinHole)
      BY <1>19
    <3>2. ~(size < MinHole) => cut.size >= MinHole
      BY <1>7, <1>10, <2>1, Geometry
    <3> QED BY <1>15, <1>19, <3>1, <3>2
  <2> QED BY <1>16, <1>17, <2>2, <2>3, <2>4 DEF IInv
<1> QED BY <1>1, <1>18, <1>19
-----------------------------------------------------------------------------
(* The theorems. *)

LEMMA InitInv == Init => IInv
<1> SUFFICES ASSUME Init PROVE IInv
  OBVIOUS
<1> DEFINE h == Hole(0, InitLength)
<1>1. h \in BlockType /\ h.addr = 0 /\ h.size = InitLength /\ h.hole
  BY Geometry, NewBlock
<1>2. /\ blocks = {h} /\ index = <<0>> /\ length = InitLength /\ owned = {}
      /\ request = NoRequest /\ tries = 0 /\ panic = "none"
  BY DEF Init
<1> HIDE DEF h
<1>3. ArenaInv
  <2>1. InitLength % Page = 0 /\ InitLength \in Nat
    BY GeometryAssumption
  <2>2. Whole(InitLength)
    BY <2>1, WholeMod
  <2> QED BY <1>2, <2>2, Geometry DEF ArenaInv
<1>4. Tiles(blocks, length)
  BY <1>1, <1>2, Geometry DEF Tiles, Covers
<1>5. h.size >= MinHole
  <2>1. Whole(InitLength) /\ Whole(0) /\ 0 < InitLength
    BY <1>2, <1>3, Geometry DEF ArenaInv, Whole
  <2>2. 0 + Page <= InitLength
    BY <2>1, Geometry, WholeApart
  <2> QED BY <1>1, <2>2, Geometry
<1>6. Coalesced(blocks)
  BY <1>1, <1>2, Geometry DEF Coalesced, Holes
<1>7. Listed(index, blocks, Holes(blocks))
  <2>1. index \in Seq(Nat) /\ Len(index) = 1 /\ index[1] = 0
    BY <1>2
  <2>2. Holes(blocks) = {h}
    BY <1>1, <1>2 DEF Holes
  <2> QED BY <1>1, <2>1, <2>2 DEF Listed
<1>8. Backed(blocks, owned)
  BY <1>1, <1>2 DEF Backed
<1>9. RetryInv
  BY <1>2 DEF RetryInv
<1> QED BY <1>2, <1>3, <1>4, <1>5, <1>6, <1>7, <1>8, <1>9 DEF IInv

LEMMA StepInv == IInv /\ [Next]_vars => IInv'
<1> SUFFICES ASSUME IInv, [Next]_vars PROVE IInv'
  OBVIOUS
<1>1. CASE UNCHANGED vars
  BY <1>1 DEF vars, IInv, ArenaInv, RetryInv, TailHole
<1>2. ASSUME NEW r \in Requests, AllocFromHole(r) PROVE IInv'
  BY <1>2, AllocFromHoleStep
<1>3. ASSUME NEW r \in Requests, AllocExpand(r) PROVE IInv'
  BY <1>3, AllocExpandStep
<1>4. ASSUME NEW o \in owned, Free(o) PROVE IInv'
  BY <1>4, FreeStep
<1> QED BY <1>1, <1>2, <1>3, <1>4 DEF Next

LEMMA HeapInv == Spec => []IInv
BY InitInv, StepInv, PTL DEF Spec

LEMMA InvTypes == IInv => TypeOK
<1> SUFFICES ASSUME IInv PROVE TypeOK
  OBVIOUS
<1>1. length \in Nat /\ length > 0 /\ length <= MaxLength /\ Tiles(blocks, length)
  BY Typing
<1>2. blocks \subseteq [addr : Addresses, size : 1 .. MaxLength, hole : BOOLEAN]
  <2>1. SUFFICES ASSUME NEW b \in blocks
                 PROVE  b \in [addr : Addresses, size : 1 .. MaxLength, hole : BOOLEAN]
    OBVIOUS
  <2>2. b \in BlockType /\ b.addr + b.size <= length
    BY <1>1 DEF Tiles
  <2>3. b.addr \in Nat /\ b.size \in Nat /\ b.size > 0
    BY <2>2, BlockFields
  <2>4. b.addr \in Addresses /\ b.size \in 1 .. MaxLength
    BY <1>1, <2>2, <2>3, Geometry DEF Addresses
  <2> QED BY <2>2, <2>4 DEF BlockType
<1>3. index \in Seq(Addresses)
  <2>1. /\ index \in Seq(Nat)
        /\ \A i \in 1 .. Len(index) : \E h \in Holes(blocks) : h.addr = index[i]
    BY DEF IInv, Listed
  <2>2. \A i \in 1 .. Len(index) : index[i] \in Addresses
    BY <1>2, <2>1 DEF Holes
  <2>3. index \in [1 .. Len(index) -> Addresses] /\ Len(index) \in Nat
    BY <2>1, <2>2, LenProperties
  <2> QED BY <2>3
<1>4. length \in {k * Page : k \in 1 .. MaxLength \div Page}
  <2>1. PICK k \in Nat : length = k * Page
    BY DEF IInv, ArenaInv, Whole
  <2>2. k >= 1
    BY <1>1, <2>1, Geometry
  <2>3. k <= MaxLength \div Page
    <3> DEFINE q == MaxLength \div Page
               m == MaxLength % Page
    <3>1. q \in Int /\ m \in 0 .. Page - 1 /\ MaxLength = q * Page + m
      BY DivMod, Geometry
    <3> HIDE DEF q, m
    <3>2. ASSUME q + 1 <= k PROVE FALSE
      <4>1. (q + 1) * Page <= k * Page
        BY <3>1, <3>2, Multiples
      <4>2. (q + 1) * Page = q * Page + Page
        BY <3>1, Geometry
      <4> DEFINE z == q * Page
      <4>3. z \in Int /\ z + Page <= length /\ MaxLength = z + m
        BY <2>1, <3>1, <4>1, <4>2, Geometry
      <4> HIDE DEF z
      <4> QED BY <1>1, <3>1, <4>3, Geometry
    <3>3. k <= q
      BY <3>1, <3>2
    <3> QED BY <3>3 DEF q
  <2>4. MaxLength \div Page \in Int
    BY DivMod, Geometry
  <2> QED BY <2>1, <2>2, <2>3, <2>4
<1>5. owned \subseteq [addr : Addresses, size : Sizes, align : BOOLEAN]
  <2>1. SUFFICES ASSUME NEW o \in owned
                 PROVE  o \in [addr : Addresses, size : Sizes, align : BOOLEAN]
    OBVIOUS
  <2>2. o \in Payload
    BY DEF IInv, Backed
  <2>3. PICK b \in blocks : b.addr + HeaderSize = o.addr /\ b.size >= o.size + MinHole
    BY DEF IInv, Backed
  <2>4. b.addr \in Nat /\ b.size \in Nat /\ b.addr + b.size <= length
    BY <1>1, BlockFields DEF Tiles
  <2>5. o.size \in Nat
    <3>1. o.size \in Sizes
      BY <2>2 DEF Payload
    <3> QED BY <3>1, SizesAssumption
  <2>6. o.addr \in Addresses
    BY <1>1, <2>3, <2>4, <2>5, Geometry DEF Addresses
  <2> QED BY <2>2, <2>6 DEF Payload
<1>6. /\ request \in Requests \cup {NoRequest} /\ tries \in Nat
      /\ panic \in {"none", "limit", "index", "malformed"}
  BY DEF IInv, RetryInv
<1> QED BY <1>2, <1>3, <1>4, <1>5, <1>6 DEF TypeOK

LEMMA InvTile == IInv => BlocksTileArena
<1> SUFFICES ASSUME IInv, panic = "none" PROVE BlocksTileArena
  BY DEF BlocksTileArena
<1>1. length \in Nat /\ length > 0 /\ length <= MaxLength /\ Tiles(blocks, length)
  BY Typing
<1>2. \E b \in blocks : b.addr = 0
  BY <1>1, TilesFirst
<1>3. ASSUME NEW b \in blocks
      PROVE  /\ b.size >= MinHole
             /\ b.addr + b.size = length \/ \E c \in blocks : c.addr = b.addr + b.size
             /\ \A c \in blocks : b # c => b.addr + b.size <= c.addr \/ c.addr + c.size <= b.addr
  <2>1. b.size >= MinHole
    BY DEF IInv
  <2>2. b.addr + b.size = length \/ \E c \in blocks : c.addr = b.addr + b.size
    BY <1>1, TilesNext
  <2>3. \A c \in blocks : b # c => b.addr + b.size <= c.addr \/ c.addr + c.size <= b.addr
    BY <1>1, TilesDisjoint
  <2> QED BY <2>1, <2>2, <2>3
<1> QED BY <1>1, <1>2, <1>3 DEF BlocksTileArena, IInv, ArenaInv

LEMMA InvLists == IInv => IndexListsHoles
BY DEF IInv, Listed, IndexListsHoles, Holes

LEMMA InvCoalesced == IInv => HolesCoalesced
BY DEF IInv, Coalesced, HolesCoalesced, Holes

LEMMA InvOwned == IInv => OwnedIntact
<1> SUFFICES ASSUME IInv PROVE OwnedIntact
  OBVIOUS
<1>1. length \in Nat /\ Tiles(blocks, length)
  BY Typing
<1>2. ASSUME NEW o \in owned
      PROVE  \E b \in blocks : /\ b.addr = o.addr - HeaderSize /\ ~b.hole
                               /\ b.size >= o.size + MinHole /\ b.addr + b.size <= length
  <2>1. PICK b \in blocks : b.addr + HeaderSize = o.addr /\ ~b.hole /\ b.size >= o.size + MinHole
    BY DEF IInv, Backed
  <2>2. b.addr \in Nat /\ b.addr + b.size <= length
    BY <1>1, BlockFields DEF Tiles
  <2>3. b.addr = o.addr - HeaderSize
    BY <2>1, <2>2, Geometry
  <2> QED BY <2>1, <2>2, <2>3
<1> QED BY <1>2 DEF OwnedIntact, IInv, Backed

\* Types of the allocator's state, for arenas and indexes of every size.
THEOREM HeapTypes == Spec => []TypeOK
BY HeapInv, InvTypes, PTL

(***************************************************************************)
(* heap_validate()'s walk of the arena never fails while no ASSERT has:    *)
(* alloc(), free(), expand() and contract() leave blocks that tile it.     *)
(***************************************************************************)
THEOREM HeapTiled == Spec => []BlocksTileArena
BY HeapInv, InvTile, PTL

(***************************************************************************)
(* The ordered array lists each hole once, smallest first, whatever the    *)
(* order of splits, merges, expansions and contractions.                   *)
(***************************************************************************)
THEOREM IndexExact == Spec => []IndexListsHoles
BY HeapInv, InvLists, PTL

\* free() leaves no two holes side by side, and nothing else makes them.
THEOREM NoFragments == Spec => []HolesCoalesced
BY HeapInv, InvCoalesced, PTL

(***************************************************************************)
(* No sequence of kmalloc() and kfree() calls moves, cuts, unmaps or hands *)
(* out again memory a caller holds, and aligned payloads are aligned.      *)
(***************************************************************************)
THEOREM AllocationsIntact == Spec => []OwnedIntact
BY HeapInv, InvOwned, PTL

(***************************************************************************)
(* alloc() recurses at most twice: two expansions make a hole that any     *)
(* request, aligned or not, fits into.                                     *)
(***************************************************************************)
THEOREM RecursionBounded == Spec => []RetriesBounded
<1>1. IInv => RetriesBounded
  BY DEF IInv, RetryInv, RetriesBounded
<1> QED BY <1>1, HeapInv, PTL
=============================================================================
