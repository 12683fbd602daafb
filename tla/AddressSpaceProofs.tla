------------------------- MODULE AddressSpaceProofs -------------------------
(***************************************************************************)
(* Proofs about AddressSpace for every number of frames and processes,     *)
(* every layout of the user region and every set of programs.              *)
(***************************************************************************)
EXTENDS AddressSpace, ElfProofs, FiniteSetTheorems

-----------------------------------------------------------------------------
(* The inductive invariant. *)

PageEntry == [frame : Frames, rw : BOOLEAN]

Fields(t) ==
  [state |-> t.state, parent_id |-> t.parent_id, pages |-> t.pages,
   heap_start |-> t.heap_start, heap_break |-> t.heap_break,
   heap_mapped_end |-> t.heap_mapped_end]

PagesOK(m) == DOMAIN m \subseteq Pages /\ \A pg \in DOMAIN m : m[pg] \in PageEntry

ProcOK(t) ==
  /\ t = Fields(t)
  /\ t.state \in {"free", "runnable", "zombie"} /\ t.parent_id \in 0 .. MaxPid
  /\ PagesOK(t.pages)
  /\ {t.heap_start, t.heap_break, t.heap_mapped_end} \subseteq 0 .. HeapLimit
  /\ t.state = "free" => DOMAIN t.pages = {}

(***************************************************************************)
(* The heap of t, by addresses.  Between heap_start and the limit a page   *)
(* is present exactly below heap_mapped_end; from heap_start up every page *)
(* that is present, the stack's too, is writable.                          *)
(***************************************************************************)
HeapPages(m, from, to) ==
  /\ \A pg \in Pages : from <= pg * PageSize /\ pg * PageSize < HeapLimit
       => (pg \in DOMAIN m <=> pg * PageSize < to)
  /\ \A pg \in DOMAIN m : from <= pg * PageSize => m[pg].rw
  /\ StackPages \subseteq DOMAIN m

HeapOK(t) ==
  /\ t.heap_start % PageSize = 0 /\ t.heap_mapped_end % PageSize = 0
  /\ t.heap_start <= t.heap_break /\ t.heap_break <= t.heap_mapped_end
  /\ HeapPages(t.pages, t.heap_start, t.heap_mapped_end)

\* The frames F in use are the kernel's and, one for each page, those of the processes P.
Owned(F, P) ==
  /\ KernelFrames \subseteq F
  /\ \A p \in Pids : \A pg \in DOMAIN P[p].pages :
       P[p].pages[pg].frame \in F /\ P[p].pages[pg].frame \notin KernelFrames
  /\ \A f \in F : f \in KernelFrames \/ \E p \in Pids : f \in FramesOf(P[p].pages)
  /\ \A p, q \in Pids : \A pg \in DOMAIN P[p].pages, pg2 \in DOMAIN P[q].pages :
       P[p].pages[pg].frame = P[q].pages[pg2].frame => p = q /\ pg = pg2

Held(P) == UNION {{p} \X BlocksOf(P[p]) : p \in Pids}

IInv ==
  /\ frames \subseteq Frames
  /\ content \in [Frames -> Contents]
  /\ proc = [p \in Pids |-> proc[p]]
  /\ \A p \in Pids : ProcOK(proc[p]) /\ (proc[p].state # "free" => HeapOK(proc[p]))
  /\ next_pid \in 2 .. MaxPid + 1
  /\ \A p \in Pids : p >= next_pid => proc[p].state = "free"
  /\ panic \in {"none", "frames", "overwritten"}
  /\ Owned(frames, proc)
  /\ blocks = Cardinality(Held(proc))

-----------------------------------------------------------------------------
(* The sets the constants give. *)

LEMMA Space ==
  /\ NFrames \in Nat /\ NFrames > 0 /\ PagesPerTable \in Divisors /\ MaxPid \in Nat /\ MaxPid > 0
  /\ KernelFrames \subseteq Frames /\ HeapBase \in Nat /\ HeapBase % PageSize = 0
  /\ HeapBase < HeapLimit /\ Files \subseteq ElfFile
  /\ Increments \subseteq Int
<1>1. Increments \subseteq Int
  <2>1. Word \div 2 \in Int
    BY Layout
  <2>2. Increments \subseteq -(Word \div 2) .. Word \div 2 - 1
    BY SpaceAssumption
  <2> QED BY <2>1, <2>2
<1> QED BY <1>1, SpaceAssumption DEF Frames, Divisors

LEMMA FiniteFrames ==
  Frames \subseteq Nat /\ IsFiniteSet(Frames)
<1>1. 0 \in Int /\ NFrames - 1 \in Int
  BY Space
<1> QED BY <1>1, FS_Interval, Space DEF Frames

LEMMA FinitePages ==
  /\ Pages \subseteq Nat /\ IsFiniteSet(Pages)
  /\ \A pg \in Nat : pg \in Pages <=> pg * PageSize < Word
<1>1. PageOf(Word) \in Int /\ Word = PageOf(Word) * PageSize
  BY WholePages, Layout
<1>2. Pages = 0 .. PageOf(Word) - 1
  BY Zenon DEF Pages, PageOf
<1> DEFINE w == PageOf(Word)
<1> HIDE DEF w
<1>3. w \in Int /\ Word = w * PageSize /\ Pages = 0 .. w - 1 /\ 0 \in Int /\ w - 1 \in Int
  BY <1>1, <1>2 DEF w
<1>4. IsFiniteSet(Pages) /\ Pages \subseteq Nat
  BY <1>3, FS_Interval
<1>5. ASSUME NEW pg \in Nat PROVE pg \in Pages <=> pg * PageSize < Word
  <2>1. pg < w <=> pg * PageSize < w * PageSize
    BY <1>3, PageOrder
  <2>2. pg \in Pages <=> pg < w
    BY <1>3
  <2> QED BY <1>3, <2>1, <2>2
<1> QED BY <1>4, <1>5

LEMMA PageAddress ==
  ASSUME NEW pg \in Pages
  PROVE  pg \in Nat /\ pg * PageSize \in Int
<1>1. pg \in Nat
  BY FinitePages
<1> QED BY <1>1, Layout

\* The stack lies above the heap.
LEMMA StackAbove ==
  /\ StackPages \subseteq Pages
  /\ \A pg \in StackPages : HeapLimit <= pg * PageSize
<1> DEFINE h == PageOf(HeapLimit)
<1>1. h \in Int /\ HeapLimit = h * PageSize
  BY WholePages, Layout
<1>2. 0 <= h
  <2>1. 0 * PageSize <= HeapLimit
    BY Layout
  <2> QED BY <2>1, Quotient, Layout DEF PageOf
<1>3. StackPages \subseteq h .. PageOf(Word) - 1
  BY SpaceAssumption DEF PageOf
<1>4. PageOf(Word) \in Int
  BY WholePages, Layout
<1> HIDE DEF h
<1>5. StackPages \subseteq Pages
  BY <1>1, <1>2, <1>3, <1>4 DEF Pages, PageOf
<1>6. ASSUME NEW pg \in StackPages PROVE HeapLimit <= pg * PageSize
  <2>1. pg \in Int /\ h <= pg
    BY <1>1, <1>3, <1>4
  <2> QED BY <1>1, <2>1, Multiples, Layout
<1> QED BY <1>5, <1>6

-----------------------------------------------------------------------------
(* Handing out frames. *)

Below(x, S) == {y \in S : y < x}

LEMMA BelowFinite ==
  ASSUME NEW S, IsFiniteSet(S), NEW x
  PROVE  IsFiniteSet(Below(x, S)) /\ Rank(x, S) = Cardinality(Below(x, S)) /\ Rank(x, S) \in Nat
<1>1. Below(x, S) \in SUBSET S
  BY DEF Below
<1>2. IsFiniteSet(Below(x, S))
  BY <1>1, FS_Subset
<1>3. Rank(x, S) = Cardinality(Below(x, S))
  BY DEF Rank, Below
<1> QED BY <1>2, <1>3, FS_CardinalityType

LEMMA RankOfMember ==
  ASSUME NEW S, S \subseteq Nat, IsFiniteSet(S), NEW x \in S
  PROVE  Rank(x, S) < Cardinality(S)
<1>1. Below(x, S) \in SUBSET (S \ {x})
  BY DEF Below
<1>2. IsFiniteSet(S \ {x}) /\ Cardinality(S \ {x}) = Cardinality(S) - 1
  BY FS_RemoveElement
<1>3. Cardinality(Below(x, S)) <= Cardinality(S \ {x})
  BY <1>1, <1>2, FS_Subset
<1>4. Cardinality(S) \in Nat
  BY FS_CardinalityType
<1> QED BY <1>2, <1>3, <1>4, BelowFinite

LEMMA RankIncreases ==
  ASSUME NEW S, S \subseteq Nat, IsFiniteSet(S), NEW x \in S, NEW y \in S, x < y
  PROVE  Rank(x, S) < Rank(y, S)
<1>1. Below(x, S) \cup {x} \in SUBSET Below(y, S)
  <2>1. \A z \in S : z < x => z < y
    <3> SUFFICES ASSUME NEW z \in S, z < x PROVE z < y
      OBVIOUS
    <3>1. x \in Nat /\ y \in Nat /\ z \in Nat
      OBVIOUS
    <3> QED BY <3>1
  <2> QED BY <2>1, Zenon DEF Below
<1>2. x \notin Below(x, S)
  BY DEF Below
<1>3. IsFiniteSet(Below(x, S)) /\ IsFiniteSet(Below(y, S))
  BY BelowFinite
<1>4. Cardinality(Below(x, S) \cup {x}) = Cardinality(Below(x, S)) + 1
  BY <1>2, <1>3, FS_AddElement
<1>5. Cardinality(Below(x, S) \cup {x}) <= Cardinality(Below(y, S))
  BY <1>1, <1>3, FS_Subset
<1> QED BY <1>4, <1>5, BelowFinite

\* Some element of S has exactly r elements of S below it.
LEMMA RankExists ==
  ASSUME NEW S, NEW n \in Nat, S \subseteq 0 .. n - 1, IsFiniteSet(S),
         NEW r \in Nat, r < Cardinality(S)
  PROVE  \E x \in S : Rank(x, S) = r
<1> DEFINE K == {k \in Nat : Rank(k, S) > r}
<1>1. n \in K
  <2>0. \A y \in S : y < n
    OBVIOUS
  <2>1. Below(n, S) = S
    BY <2>0, Zenon DEF Below
  <2> QED BY <2>1, BelowFinite
<1>2. PICK k \in K : \A j \in K : k <= j
  <2>1. K \in SUBSET Nat /\ K # {}
    BY <1>1
  <2> HIDE DEF K
  <2> QED BY <2>1, LeastNumber
<1>3. k \in Nat /\ Rank(k, S) > r
  BY <1>2
<1>4. k # 0
  <2>0. \A y \in S : ~(y < 0)
    OBVIOUS
  <2>1. Below(0, S) = {}
    BY <2>0, Zenon DEF Below
  <2>2. Rank(0, S) = 0
    BY <2>1, BelowFinite, FS_EmptySet
  <2> QED BY <1>3, <2>2
<1> DEFINE j == k - 1
<1>5. j \in Nat /\ j < k
  BY <1>3, <1>4
<1>6. ~(Rank(j, S) > r)
  BY <1>2, <1>3, <1>5
<1> DEFINE B == Below(j, S)
<1>7. IsFiniteSet(B) /\ Rank(j, S) = Cardinality(B) /\ Rank(j, S) \in Nat
  BY BelowFinite
<1>a. \A y \in S : y < k <=> y < j \/ y = j
  BY <1>3, <1>5
<1>b. ~(j < j)
  BY <1>5
<1>8. j \in S
  <2>1. ASSUME j \notin S PROVE Below(k, S) = B
    <3> HIDE DEF j
    <3> QED BY <1>a, <2>1, Zenon DEF Below
  <2> QED BY <1>3, <1>6, <1>7, <2>1, BelowFinite
<1>9. Below(k, S) = B \cup {j} /\ j \notin B
  <2> HIDE DEF j
  <2> QED BY <1>a, <1>b, <1>8, Zenon DEF Below
<1>10. Rank(k, S) = Rank(j, S) + 1
  <2> HIDE DEF j, B
  <2>1. Cardinality(B \cup {j}) = Cardinality(B) + 1
    BY <1>7, <1>9, FS_AddElement
  <2> QED BY <1>7, <1>9, <2>1, BelowFinite
<1>11. Rank(j, S) = r
  BY <1>3, <1>6, <1>7, <1>10
<1> QED BY <1>8, <1>11

\* a maps S into frames outside U, one for each page.
Fresh(a, S, U) ==
  /\ DOMAIN a = S
  /\ \A pg \in S : a[pg] \in Frames /\ a[pg] \notin U
  /\ \A pg, pg2 \in S : a[pg] = a[pg2] => pg = pg2

LEMMA AssignFresh ==
  ASSUME NEW S, S \subseteq Pages, NEW U, ~OutOfFrames(S, U)
  PROVE  Fresh(Assign(S, U), S, U)
<1> DEFINE free == Frames \ U
           a == Assign(S, U)
<1>1. IsFiniteSet(free) /\ free \subseteq 0 .. NFrames - 1 /\ Cardinality(free) \in Nat
  <2>1. free \in SUBSET Frames
    OBVIOUS
  <2> HIDE DEF free
  <2> QED BY <2>1, FiniteFrames, FS_Subset, FS_CardinalityType DEF Frames
<1>2. IsFiniteSet(S) /\ S \subseteq Nat /\ Cardinality(S) \in Nat
  <2>1. S \in SUBSET Pages
    OBVIOUS
  <2> QED BY <2>1, FinitePages, FS_Subset, FS_CardinalityType
<1>3. Cardinality(S) <= Cardinality(free)
  BY <1>1, <1>2 DEF OutOfFrames
<1>4. a = [pg \in S |-> CHOOSE f \in free : Rank(f, free) = Rank(pg, S)]
  BY Zenon DEF Assign
<1> HIDE DEF free, a
<1>5. ASSUME NEW pg \in S PROVE a[pg] \in free /\ Rank(a[pg], free) = Rank(pg, S)
  <2>1. Rank(pg, S) \in Nat /\ Rank(pg, S) < Cardinality(S)
    BY <1>2, RankOfMember, BelowFinite
  <2>2. Rank(pg, S) < Cardinality(free)
    BY <1>1, <1>2, <1>3, <2>1
  <2>3. \E f \in free : Rank(f, free) = Rank(pg, S)
    BY <1>1, <2>1, <2>2, RankExists, Space
  <2>4. a[pg] = CHOOSE f \in free : Rank(f, free) = Rank(pg, S)
    BY <1>4
  <2> QED BY <2>3, <2>4
<1>6. ASSUME NEW pg \in S, NEW pg2 \in S, a[pg] = a[pg2] PROVE pg = pg2
  <2>1. Rank(pg, S) = Rank(pg2, S) /\ Rank(pg, S) \in Nat
    BY <1>2, <1>5, <1>6, BelowFinite
  <2>2. ~(pg < pg2) /\ ~(pg2 < pg)
    <3>1. pg < pg2 => Rank(pg, S) < Rank(pg2, S)
      BY <1>2, RankIncreases
    <3>2. pg2 < pg => Rank(pg2, S) < Rank(pg, S)
      BY <1>2, RankIncreases
    <3> QED BY <2>1, <3>1, <3>2
  <2> QED BY <1>2, <2>2
<1> QED BY <1>4, <1>5, <1>6 DEF Fresh, free, a

-----------------------------------------------------------------------------
(* Replacing one process. *)

Injective(m) == \A pg, pg2 \in DOMAIN m : m[pg].frame = m[pg2].frame => pg = pg2

LEMMA UpdateValue ==
  ASSUME NEW P, P = [p \in Pids |-> P[p]], NEW q \in Pids, NEW t, NEW P2, P2 = [P EXCEPT ![q] = t]
  PROVE  /\ P2 = [p \in Pids |-> P2[p]]
         /\ P2[q] = t
         /\ \A p \in Pids : p # q => P2[p] = P[p]
OBVIOUS

(***************************************************************************)
(* A process gives up the frames of its pages and gets those of t: each    *)
(* one it had or one that was free.                                        *)
(***************************************************************************)
LEMMA OwnedUpdate ==
  ASSUME NEW P, P = [p \in Pids |-> P[p]], NEW F, Owned(F, P), NEW q \in Pids,
         NEW t, Injective(t.pages),
         \A f \in FramesOf(t.pages) : f \in FramesOf(P[q].pages) \/ f \notin F,
         NEW P2, P2 = [P EXCEPT ![q] = t],
         NEW F2, F2 = (F \ FramesOf(P[q].pages)) \cup FramesOf(t.pages)
  PROVE  Owned(F2, P2)
<1> DEFINE m == P[q].pages
           n == t.pages
<1>1. P2[q] = t /\ \A p \in Pids : p # q => P2[p] = P[p]
  BY UpdateValue
<1>2. \A f : f \in FramesOf(m) <=> \E pg \in DOMAIN m : f = m[pg].frame
  BY DEF FramesOf
<1>3. \A f : f \in FramesOf(n) <=> \E pg \in DOMAIN n : f = n[pg].frame
  BY DEF FramesOf
<1>4. \A p \in Pids : \A pg \in DOMAIN P[p].pages :
        P[p].pages[pg].frame \in F /\ P[p].pages[pg].frame \notin KernelFrames
  BY DEF Owned
<1>5. \A p \in Pids, r \in Pids : \A pg \in DOMAIN P[p].pages, pg2 \in DOMAIN P[r].pages :
        P[p].pages[pg].frame = P[r].pages[pg2].frame => p = r /\ pg = pg2
  BY DEF Owned
<1>6. KernelFrames \subseteq F
  BY DEF Owned
<1>7. KernelFrames \subseteq F2
  BY <1>2, <1>4, <1>6
<1>8. \A f \in FramesOf(n) : f \in F2 /\ f \notin KernelFrames
  BY <1>2, <1>4, <1>6
<1>9. ASSUME NEW p \in Pids, p # q, NEW pg \in DOMAIN P[p].pages
      PROVE  P[p].pages[pg].frame \in F \ FramesOf(m)
  BY <1>2, <1>4, <1>5, <1>9
<1>10. ASSUME NEW p \in Pids, NEW pg \in DOMAIN P2[p].pages
       PROVE  P2[p].pages[pg].frame \in F2 /\ P2[p].pages[pg].frame \notin KernelFrames
  <2>1. CASE p = q
    BY <1>1, <1>3, <1>8, <2>1
  <2>2. CASE p # q
    BY <1>1, <1>4, <1>9, <2>2
  <2> QED BY <2>1, <2>2
<1>11. ASSUME NEW f \in F2, f \notin KernelFrames
       PROVE  \E p \in Pids : f \in FramesOf(P2[p].pages)
  <2>1. CASE f \in FramesOf(n)
    BY <1>1, <2>1
  <2>2. CASE f \in F /\ f \notin FramesOf(m)
    <3>1. PICK p \in Pids : f \in FramesOf(P[p].pages)
      BY <1>11, <2>2 DEF Owned
    <3>2. p # q
      BY <2>2, <3>1
    <3> QED BY <1>1, <3>1, <3>2
  <2> QED BY <2>1, <2>2
<1>12. ASSUME NEW p \in Pids, NEW r \in Pids,
              NEW pg \in DOMAIN P2[p].pages, NEW pg2 \in DOMAIN P2[r].pages,
              P2[p].pages[pg].frame = P2[r].pages[pg2].frame
       PROVE  p = r /\ pg = pg2
  <2>0. \A f \in FramesOf(n) : f \notin F \ FramesOf(m)
    OBVIOUS
  <2>1. CASE p = q /\ r = q
    BY <1>1, <1>12, <2>1 DEF Injective
  <2>2. CASE p # q /\ r # q
    BY <1>1, <1>5, <1>12, <2>2
  <2>3. CASE p = q /\ r # q
    <3>1. P2[p].pages[pg].frame \in FramesOf(n)
      BY <1>1, <1>3, <2>3
    <3>2. P2[r].pages[pg2].frame \in F \ FramesOf(m)
      BY <1>1, <1>9, <2>3
    <3> QED BY <1>12, <2>0, <3>1, <3>2
  <2>4. CASE p # q /\ r = q
    <3>1. P2[r].pages[pg2].frame \in FramesOf(n)
      BY <1>1, <1>3, <2>4
    <3>2. P2[p].pages[pg].frame \in F \ FramesOf(m)
      BY <1>1, <1>9, <2>4
    <3> QED BY <1>12, <2>0, <3>1, <3>2
  <2> QED BY <2>1, <2>2, <2>3, <2>4
<1> QED BY <1>7, <1>10, <1>11, <1>12 DEF Owned

\* The frames of a process are in use, each for one page.
LEMMA OwnedProcess ==
  ASSUME NEW P, NEW F, Owned(F, P), NEW q \in Pids
  PROVE  FramesOf(P[q].pages) \subseteq F /\ Injective(P[q].pages)
BY DEF Owned, FramesOf, Injective

-----------------------------------------------------------------------------
(* Counting kernel heap blocks. *)

LEMMA TablesFinite ==
  ASSUME NEW S, S \subseteq Pages
  PROVE  TablesOf(S) \subseteq Pages /\ IsFiniteSet(TablesOf(S)) /\ Cardinality(TablesOf(S)) \in Nat
<1>1. ASSUME NEW pg \in S PROVE TableOf(pg) \in Pages
  <2> DEFINE k == pg \div PagesPerTable
  <2>1. pg \in Nat /\ pg \in Pages /\ Word \div PageSize \in Int
    BY FinitePages, DivMod, Layout
  <2>2. k \in Int
    BY <2>1, DivMod, Space
  <2>3. 0 <= k
    <3>1. 0 * PagesPerTable <= pg
      BY <2>1, Space DEF Divisors
    <3> QED BY <2>1, <3>1, Quotient, Space
  <2>4. k <= pg
    <3>1. k * PagesPerTable <= pg
      BY <2>1, <2>2, Quotient, Space
    <3> HIDE DEF k
    <3>2. PagesPerTable \in Int /\ 1 <= PagesPerTable /\ k \in Nat
      BY <2>2, <2>3, Space DEF Divisors
    <3>3. k <= k * PagesPerTable
      BY <3>2
    <3>4. k * PagesPerTable \in Int
      BY <3>2
    <3> QED BY <2>1, <3>1, <3>2, <3>3, <3>4
  <2> HIDE DEF k
  <2>5. k \in Pages
    BY <2>1, <2>2, <2>3, <2>4 DEF Pages
  <2> QED BY <2>5 DEF TableOf, k
<1>2. TablesOf(S) \in SUBSET Pages
  BY <1>1 DEF TablesOf
<1> QED BY <1>2, FinitePages, FS_Subset, FS_CardinalityType

LEMMA BlocksForType ==
  ASSUME NEW S, S \subseteq Pages
  PROVE  BlocksFor(S) = Cardinality(TablesOf(S)) + 3 /\ BlocksFor(S) \in Nat
BY TablesFinite DEF BlocksFor

BlockNames == Pages \cup {-1, -2, -3}

LEMMA BlockNamesFinite == IsFiniteSet(BlockNames) /\ IsFiniteSet(Pids \X BlockNames)
<1>1. IsFiniteSet(Pages \cup {-1} \cup {-2} \cup {-3})
  BY FinitePages, FS_AddElement
<1>2. BlockNames = Pages \cup {-1} \cup {-2} \cup {-3}
  BY DEF BlockNames
<1>3. IsFiniteSet(Pids)
  BY FS_Interval, Space DEF Pids
<1> QED BY <1>1, <1>2, <1>3, FS_Product

LEMMA BlocksOfCount ==
  ASSUME NEW t, PagesOK(t.pages)
  PROVE  /\ BlocksOf(t) \subseteq BlockNames /\ IsFiniteSet(BlocksOf(t))
         /\ Cardinality(BlocksOf(t)) =
              IF t.state = "free" THEN 0 ELSE BlocksFor(DOMAIN t.pages)
<1> DEFINE D == DOMAIN t.pages
           T == TablesOf(D)
<1>1. D \subseteq Pages
  BY DEF PagesOK
<1>2. T \subseteq Pages /\ T \subseteq Nat /\ IsFiniteSet(T) /\ Cardinality(T) \in Nat
  BY <1>1, TablesFinite, FinitePages
<1>3. CASE t.state = "free"
  <2>1. BlocksOf(t) = {}
    BY <1>3 DEF BlocksOf
  <2> QED BY <1>3, <2>1, FS_EmptySet
<1>4. CASE t.state # "free"
  <2>1. BlocksOf(t) = ((T \cup {-1}) \cup {-2}) \cup {-3}
    BY <1>4 DEF BlocksOf
  <2>2. -1 \notin T /\ -2 \notin T \cup {-1} /\ -3 \notin (T \cup {-1}) \cup {-2}
    BY <1>2
  <2> HIDE DEF T
  <2>3. IsFiniteSet(T \cup {-1}) /\ Cardinality(T \cup {-1}) = Cardinality(T) + 1
    BY <1>2, <2>2, FS_AddElement
  <2> DEFINE U == T \cup {-1}
  <2>4. IsFiniteSet(U \cup {-2}) /\ Cardinality(U \cup {-2}) = Cardinality(U) + 1
    BY <2>2, <2>3, FS_AddElement
  <2> DEFINE V == U \cup {-2}
  <2>5. IsFiniteSet(V \cup {-3}) /\ Cardinality(V \cup {-3}) = Cardinality(V) + 1
    BY <2>2, <2>4, FS_AddElement
  <2>6. Cardinality(BlocksOf(t)) = Cardinality(T) + 3
    BY <1>2, <2>1, <2>3, <2>4, <2>5
  <2>7. BlocksOf(t) \subseteq BlockNames
    BY <1>2, <2>1 DEF BlockNames
  <2>8. BlocksFor(D) = Cardinality(T) + 3
    BY <1>1, BlocksForType DEF T
  <2> QED BY <1>4, <2>1, <2>5, <2>6, <2>7, <2>8
<1> QED BY <1>3, <1>4

LEMMA HeldUpdate ==
  ASSUME NEW P, P = [p \in Pids |-> P[p]], \A p \in Pids : PagesOK(P[p].pages),
         NEW q \in Pids, NEW t, PagesOK(t.pages), NEW P2, P2 = [P EXCEPT ![q] = t]
  PROVE  /\ Cardinality(Held(P)) \in Nat /\ Cardinality(Held(P2)) \in Nat
         /\ Cardinality(Held(P2)) =
              Cardinality(Held(P)) - Cardinality(BlocksOf(P[q])) + Cardinality(BlocksOf(t))
<1> DEFINE R == UNION {{p} \X BlocksOf(P[p]) : p \in Pids \ {q}}
           X == {q} \X BlocksOf(P[q])
           Y == {q} \X BlocksOf(t)
<1>1. P2[q] = t /\ \A p \in Pids : p # q => P2[p] = P[p]
  BY UpdateValue
<1>2. Held(P) = R \cup X
  BY DEF Held
<1>3. Held(P2) = R \cup Y
  BY <1>1 DEF Held
<1>4. R \cap X = {} /\ R \cap Y = {}
  OBVIOUS
<1>5. R \in SUBSET (Pids \X BlockNames)
  <2>1. \A p \in Pids : BlocksOf(P[p]) \subseteq BlockNames
    BY BlocksOfCount
  <2> QED BY <2>1
<1>6. IsFiniteSet(R)
  BY <1>5, BlockNamesFinite, FS_Subset
<1>7. IsFiniteSet(X) /\ Cardinality(X) = Cardinality(BlocksOf(P[q]))
  <2>1. IsFiniteSet({q}) /\ Cardinality({q}) = 1 /\ IsFiniteSet(BlocksOf(P[q]))
    BY FS_Singleton, BlocksOfCount
  <2>2. Cardinality(BlocksOf(P[q])) \in Nat
    BY <2>1, FS_CardinalityType
  <2>3. Cardinality(X) = Cardinality({q}) * Cardinality(BlocksOf(P[q])) /\ IsFiniteSet(X)
    BY <2>1, FS_Product
  <2> QED BY <2>1, <2>2, <2>3
<1>8. IsFiniteSet(Y) /\ Cardinality(Y) = Cardinality(BlocksOf(t))
  <2>1. IsFiniteSet({q}) /\ Cardinality({q}) = 1 /\ IsFiniteSet(BlocksOf(t))
    BY FS_Singleton, BlocksOfCount
  <2>2. Cardinality(BlocksOf(t)) \in Nat
    BY <2>1, FS_CardinalityType
  <2>3. Cardinality(Y) = Cardinality({q}) * Cardinality(BlocksOf(t)) /\ IsFiniteSet(Y)
    BY <2>1, FS_Product
  <2> QED BY <2>1, <2>2, <2>3
<1> HIDE DEF R, X, Y
<1>9. Cardinality(R) \in Nat /\ Cardinality(X) \in Nat /\ Cardinality(Y) \in Nat
  BY <1>6, <1>7, <1>8, FS_CardinalityType
<1>10. /\ Cardinality(R \cup X) = Cardinality(R) + Cardinality(X) - Cardinality(R \cap X)
       /\ Cardinality(R \cup Y) = Cardinality(R) + Cardinality(Y) - Cardinality(R \cap Y)
  BY <1>6, <1>7, <1>8, FS_Union
<1>11. Cardinality(R \cap X) = 0 /\ Cardinality(R \cap Y) = 0
  BY <1>4, FS_EmptySet
<1> DEFINE k == Cardinality(R)
           x == Cardinality(X)
           y == Cardinality(Y)
<1>12. /\ k \in Nat /\ x \in Nat /\ y \in Nat
       /\ x = Cardinality(BlocksOf(P[q])) /\ y = Cardinality(BlocksOf(t))
  BY <1>7, <1>8, <1>9
<1>13. Cardinality(Held(P)) = k + x - 0 /\ Cardinality(Held(P2)) = k + y - 0
  BY <1>2, <1>3, <1>10, <1>11
<1> HIDE DEF k, x, y
<1>14. k + x - 0 = k + x /\ k + y - 0 = k + y /\ k + y = (k + x) - x + y
       /\ k + x \in Nat /\ k + y \in Nat
  BY <1>12
<1> QED BY <1>12, <1>13, <1>14, Zenon

-----------------------------------------------------------------------------
(* Heaps. *)

\* The pages between two page boundaries.
LEMMA PageRange ==
  ASSUME NEW a \in Int, NEW b \in Int, a % PageSize = 0, b % PageSize = 0
  PROVE  /\ PageOf(a) \in Int /\ PageOf(b) \in Int
         /\ \A pg \in Int : /\ pg * PageSize \in Int
                            /\ PageOf(a) <= pg <=> a <= pg * PageSize
                            /\ pg < PageOf(b) <=> pg * PageSize < b
<1>1. PageOf(a) \in Int /\ a = PageOf(a) * PageSize /\ PageOf(b) \in Int /\ b = PageOf(b) * PageSize
  BY WholePages
<1> DEFINE i == PageOf(a)
           j == PageOf(b)
<1> HIDE DEF i, j
<1>2. ASSUME NEW pg \in Int
      PROVE  pg * PageSize \in Int /\ (i <= pg <=> a <= pg * PageSize)
             /\ (pg < j <=> pg * PageSize < b)
  <2>1. pg * PageSize \in Int
    BY NextMultiple, Layout
  <2>2. pg < i <=> pg * PageSize < i * PageSize
    BY <1>1, PageOrder DEF i
  <2>3. pg < j <=> pg * PageSize < j * PageSize
    BY <1>1, PageOrder DEF j
  <2>4. i \in Int /\ j \in Int /\ a = i * PageSize /\ b = j * PageSize
    BY <1>1 DEF i, j
  <2>5. i <= pg <=> a <= pg * PageSize
    BY <2>1, <2>2, <2>4
  <2> QED BY <2>1, <2>3, <2>4, <2>5
<1> QED BY <1>1, <1>2 DEF i, j

LEMMA ProcFields ==
  ASSUME NEW t, ProcOK(t)
  PROVE  /\ t.heap_start \in Nat /\ t.heap_break \in Nat /\ t.heap_mapped_end \in Nat
         /\ t.heap_start <= HeapLimit /\ t.heap_break <= HeapLimit
         /\ t.heap_mapped_end <= HeapLimit
         /\ DOMAIN t.pages \subseteq Pages
         /\ \A pg \in DOMAIN t.pages :
              t.pages[pg].frame \in Frames /\ t.pages[pg].rw \in BOOLEAN
<1>1. {t.heap_start, t.heap_break, t.heap_mapped_end} \subseteq 0 .. HeapLimit
  BY Zenon DEF ProcOK
<1>2. PagesOK(t.pages)
  BY Zenon DEF ProcOK
<1> QED BY <1>1, <1>2, Layout DEF PagesOK, PageEntry

LEMMA HeapPagesCopy ==
  ASSUME NEW m, NEW n, NEW from, NEW to, HeapPages(m, from, to), DOMAIN n = DOMAIN m,
         \A pg \in DOMAIN m : n[pg].rw = m[pg].rw
  PROVE  HeapPages(n, from, to)
BY Zenon DEF HeapPages

\* A heap that has just been laid out over the stack and the pages of an image.
LEMMA HeapPagesEmpty ==
  ASSUME NEW m, DOMAIN m \subseteq Pages, StackPages \subseteq DOMAIN m,
         NEW from \in Nat,
         \A pg \in DOMAIN m : pg \in StackPages \/ pg * PageSize < from,
         \A pg \in StackPages : m[pg].rw
  PROVE  HeapPages(m, from, from)
<1>1. ASSUME NEW pg \in Pages, from <= pg * PageSize, pg * PageSize < HeapLimit
      PROVE  pg \in DOMAIN m <=> pg * PageSize < from
  <2>1. pg * PageSize \in Int /\ HeapLimit \in Int
    BY FinitePages, NextMultiple, Layout
  <2>2. ~(pg * PageSize < from)
    BY <1>1, <2>1
  <2>3. pg \notin StackPages
    BY <1>1, <2>1, StackAbove
  <2> QED BY <2>2, <2>3
<1>2. ASSUME NEW pg \in DOMAIN m, from <= pg * PageSize PROVE m[pg].rw
  <2>1. pg * PageSize \in Int
    BY PageAddress
  <2>2. ~(pg * PageSize < from)
    BY <1>2, <2>1
  <2> QED BY <2>2
<1> QED BY <1>1, <1>2, Zenon DEF HeapPages

\* What task_sbrk() does to the pages of a process.
SbrkEffect(t, S, required, m) ==
  /\ S \subseteq Pages /\ S \cap DOMAIN t.pages = {}
  /\ MappedEnd(t, required) \in 0 .. HeapLimit /\ MappedEnd(t, required) % PageSize = 0
  /\ required <= MappedEnd(t, required)
  /\ HeapPages(m, t.heap_start, MappedEnd(t, required))
  /\ \A pg \in S : t.heap_start <= pg * PageSize

LEMMA SbrkHeap ==
  ASSUME NEW t, ProcOK(t), HeapOK(t),
         NEW required \in Nat, required % PageSize = 0, required <= HeapLimit,
         NEW S, S = SbrkPages(t, required), NEW a
  PROVE  SbrkEffect(t, S, required, AddPages(t.pages, S, a))
<1> DEFINE b == t.heap_mapped_end
           e == MappedEnd(t, required)
           D == DOMAIN t.pages
           n == AddPages(t.pages, S, a)
<1>1. /\ b \in Nat /\ b <= HeapLimit /\ b % PageSize = 0 /\ t.heap_start \in Nat
      /\ t.heap_start <= b /\ D \subseteq Pages
  BY ProcFields DEF HeapOK
<1>2. e = IF required > b THEN required ELSE b
  BY Zenon DEF MappedEnd
<1>3. e \in 0 .. HeapLimit /\ e % PageSize = 0 /\ required <= e
  BY <1>1, <1>2
<1>4. S = PageOf(b) .. PageOf(required) - 1
  BY DEF SbrkPages, PageOf
<1>5. PageOf(b) \in Int /\ PageOf(required) \in Int
  BY <1>1, PageRange
<1>6. \A pg \in Int : pg \in S <=> b <= pg * PageSize /\ pg * PageSize < required
  <2>1. \A pg \in Int : PageOf(b) <= pg <=> b <= pg * PageSize
    BY <1>1, PageRange
  <2>2. \A pg \in Int : pg < PageOf(required) <=> pg * PageSize < required
    BY <1>1, PageRange
  <2>3. \A pg \in Int : pg \in S <=> PageOf(b) <= pg /\ pg < PageOf(required)
    BY <1>4, <1>5
  <2> QED BY <2>1, <2>2, <2>3, Zenon
<1>7. S \subseteq Int
  BY <1>4, <1>5
<1>8. ASSUME NEW pg \in S
      PROVE  pg \in Pages /\ b <= pg * PageSize /\ pg * PageSize < required
             /\ pg * PageSize \in Int
  <2>1. pg \in Int /\ b <= pg * PageSize /\ pg * PageSize < required /\ pg * PageSize \in Int
    BY <1>6, <1>7, NextMultiple, Layout
  <2>2. 0 <= pg
    <3>1. pg < 0 <=> pg * PageSize < 0 * PageSize
      BY <2>1, PageOrder
    <3>2. 0 * PageSize = 0
      BY Layout
    <3> QED BY <1>1, <2>1, <3>1, <3>2
  <2>3. pg * PageSize < Word
    BY <2>1, Layout
  <2> QED BY <2>1, <2>2, <2>3, FinitePages
<1>9. ASSUME NEW pg \in Pages, t.heap_start <= pg * PageSize, pg * PageSize < HeapLimit
      PROVE  pg \in D <=> pg * PageSize < b
  BY <1>9 DEF HeapOK, HeapPages
<1>10. ASSUME NEW pg \in S PROVE pg \notin D /\ t.heap_start <= pg * PageSize
  <2>1. t.heap_start <= pg * PageSize /\ pg * PageSize < HeapLimit /\ ~(pg * PageSize < b)
    BY <1>1, <1>8, Layout
  <2> QED BY <1>8, <1>9, <2>1
<1>11. DOMAIN n = S \cup D /\ \A pg \in S \cup D :
         n[pg] = IF pg \in S THEN [frame |-> a[pg], rw |-> TRUE] ELSE t.pages[pg]
  BY DEF AddPages
<1>12. HeapPages(n, t.heap_start, e)
  <2>1. ASSUME NEW pg \in Pages, t.heap_start <= pg * PageSize, pg * PageSize < HeapLimit
        PROVE  pg \in DOMAIN n <=> pg * PageSize < e
    <3>1. pg * PageSize \in Int /\ pg \in Int
      BY FinitePages, NextMultiple, Layout
    <3>2. pg \in S <=> b <= pg * PageSize /\ pg * PageSize < required
      BY <1>6, <3>1
    <3>3. pg \in D <=> pg * PageSize < b
      BY <1>9, <2>1
    <3>4. pg * PageSize < e <=> pg * PageSize < b \/ (b <= pg * PageSize /\ pg * PageSize < required)
      BY <1>1, <1>2, <3>1
    <3> QED BY <1>11, <3>2, <3>3, <3>4
  <2>2. ASSUME NEW pg \in DOMAIN n, t.heap_start <= pg * PageSize PROVE n[pg].rw
    <3>1. CASE pg \in S
      <4>1. n[pg] = [frame |-> a[pg], rw |-> TRUE]
        BY <1>11, <3>1, Zenon
      <4> HIDE DEF n
      <4>2. n[pg].rw = TRUE
        BY <4>1
      <4> QED BY <4>2, Zenon
    <3>2. CASE pg \notin S
      <4>1. pg \in D /\ n[pg] = t.pages[pg]
        BY <1>11, <3>2
      <4> QED BY <2>2, <4>1 DEF HeapOK, HeapPages
    <3> QED BY <3>1, <3>2
  <2>3. StackPages \subseteq DOMAIN n
    BY <1>11 DEF HeapOK, HeapPages
  <2> QED BY <2>1, <2>2, <2>3, Zenon DEF HeapPages
<1> QED BY <1>3, <1>8, <1>10, <1>12 DEF SbrkEffect

\* HeapOK says of a process what HeapMapped does.
LEMMA HeapOKMapped ==
  ASSUME NEW t, ProcOK(t), HeapOK(t), NEW heap,
         heap = {pg \in DOMAIN t.pages :
                   t.heap_start <= pg * PageSize /\ pg * PageSize < HeapLimit}
  PROVE  /\ t.heap_start <= t.heap_break /\ t.heap_break <= t.heap_mapped_end
         /\ heap = t.heap_start \div PageSize .. t.heap_mapped_end \div PageSize - 1
         /\ \A pg \in heap \cup StackPages : pg \in DOMAIN t.pages /\ t.pages[pg].rw
<1> DEFINE b == t.heap_start
           e == t.heap_mapped_end
           D == DOMAIN t.pages
<1>1. /\ b \in Nat /\ e \in Nat /\ e <= HeapLimit /\ b % PageSize = 0 /\ e % PageSize = 0
      /\ D \subseteq Pages /\ b <= HeapLimit
  BY ProcFields DEF HeapOK
<1>2. PageOf(b) \in Int /\ PageOf(e) \in Int
  BY <1>1, PageRange
<1>3. \A pg \in Pages : b <= pg * PageSize /\ pg * PageSize < HeapLimit
         => (pg \in D <=> pg * PageSize < e)
  BY DEF HeapOK, HeapPages
<1>4. ASSUME NEW pg PROVE pg \in heap <=> pg \in PageOf(b) .. PageOf(e) - 1
  <2>1. ASSUME pg \in Int
        PROVE  pg \in PageOf(b) .. PageOf(e) - 1 <=> b <= pg * PageSize /\ pg * PageSize < e
    <3>1. (PageOf(b) <= pg <=> b <= pg * PageSize) /\ (pg < PageOf(e) <=> pg * PageSize < e)
      BY <1>1, <2>1, PageRange
    <3>2. pg \in PageOf(b) .. PageOf(e) - 1 <=> PageOf(b) <= pg /\ pg < PageOf(e)
      BY <1>2, <2>1
    <3> QED BY <3>1, <3>2
  <2>2. ASSUME pg \in heap PROVE pg \in PageOf(b) .. PageOf(e) - 1
    <3>0. pg \in D /\ b <= pg * PageSize /\ pg * PageSize < HeapLimit
      BY <2>2, Zenon
    <3>1. pg \in Pages /\ pg \in D /\ b <= pg * PageSize /\ pg * PageSize < HeapLimit /\ pg \in Int
      BY <1>1, <3>0, PageAddress
    <3> QED BY <1>3, <2>1, <3>1
  <2>3. ASSUME pg \in PageOf(b) .. PageOf(e) - 1 PROVE pg \in heap
    <3>1. pg \in Int
      BY <1>2, <2>3
    <3>2. b <= pg * PageSize /\ pg * PageSize < e /\ pg * PageSize \in Int
      BY <2>1, <2>3, <3>1, NextMultiple, Layout
    <3>3. pg * PageSize < HeapLimit /\ pg * PageSize < Word
      BY <1>1, <3>2, Layout
    <3>4. 0 <= pg
      <4>1. pg < 0 <=> pg * PageSize < 0 * PageSize
        BY <3>1, PageOrder
      <4>2. 0 * PageSize = 0
        BY Layout
      <4> QED BY <1>1, <3>1, <3>2, <4>1, <4>2
    <3>5. pg \in Pages
      BY <3>1, <3>3, <3>4, FinitePages
    <3> QED BY <1>3, <3>2, <3>3, <3>5
  <2> QED BY <2>2, <2>3
<1>5. heap = PageOf(b) .. PageOf(e) - 1
  BY <1>4
<1>6. ASSUME NEW pg \in heap \cup StackPages PROVE pg \in D /\ t.pages[pg].rw
  <2>1. pg \in D
    BY DEF HeapOK, HeapPages
  <2>2. b <= pg * PageSize
    <3>1. CASE pg \in heap
      BY <3>1
    <3>2. CASE pg \in StackPages
      <4>1. HeapLimit <= pg * PageSize /\ pg * PageSize \in Int
        BY <1>1, <2>1, <3>2, StackAbove, PageAddress
      <4> QED BY <1>1, <4>1, Layout
    <3> QED BY <3>1, <3>2
  <2> QED BY <2>1, <2>2 DEF HeapOK, HeapPages
<1> QED BY <1>5, <1>6 DEF HeapOK, PageOf

-----------------------------------------------------------------------------
(* The invariant at boot. *)

LEMMA NoProcOK ==
  ProcOK(NoProc) /\ NoProc.state = "free" /\ DOMAIN NoProc.pages = {} /\ FramesOf(NoProc.pages) = {}
  /\ BlocksOf(NoProc) = {}
<1>1. DOMAIN NoProc.pages = {}
  BY DEF NoProc
<1>2. NoProc = Fields(NoProc) /\ NoProc.state = "free" /\ NoProc.parent_id = 0
      /\ NoProc.heap_start = 0 /\ NoProc.heap_break = 0 /\ NoProc.heap_mapped_end = 0
  BY DEF NoProc, Fields
<1>3. 0 \in 0 .. MaxPid /\ 0 \in 0 .. HeapLimit
  BY Space, Layout
<1>4. PagesOK(NoProc.pages)
  BY <1>1 DEF PagesOK
<1>5. {NoProc.heap_start, NoProc.heap_break, NoProc.heap_mapped_end} \subseteq 0 .. HeapLimit
  BY <1>2, <1>3
<1> QED BY <1>1, <1>2, <1>3, <1>4, <1>5, Zenon DEF ProcOK, FramesOf, BlocksOf

LEMMA InitIInv ==
  Init => IInv
<1> SUFFICES ASSUME Init PROVE IInv
  OBVIOUS
<1> DEFINE a == Assign(StackPages, KernelFrames)
           m == [pg \in StackPages |-> [frame |-> a[pg], rw |-> TRUE]]
           t == [state |-> "runnable", parent_id |-> 0, pages |-> m,
                 heap_start |-> HeapBase, heap_break |-> HeapBase,
                 heap_mapped_end |-> HeapBase]
<1>1. /\ frames = KernelFrames \cup Range(a)
      /\ content = [f \in Frames |-> "zero"]
      /\ proc = [p \in Pids |-> IF p = 1 THEN t ELSE NoProc]
      /\ next_pid = 2 /\ blocks = BlocksFor(StackPages) /\ panic = "none"
  BY DEF Init
<1>2. Fresh(a, StackPages, KernelFrames)
  <2>1. ~OutOfFrames(StackPages, KernelFrames)
    <3>1. Cardinality(StackPages) <= Cardinality(Frames \ KernelFrames)
      BY SpaceAssumption DEF Frames
    <3>2. IsFiniteSet(StackPages) /\ IsFiniteSet(Frames \ KernelFrames)
      BY StackAbove, FinitePages, FiniteFrames, FS_Subset
    <3>3. Cardinality(StackPages) \in Nat /\ Cardinality(Frames \ KernelFrames) \in Nat
      BY <3>2, FS_CardinalityType
    <3> QED BY <3>1, <3>3 DEF OutOfFrames
  <2> QED BY <2>1, AssignFresh, StackAbove
<1> HIDE DEF a
<1>3. DOMAIN m = StackPages /\ \A pg \in StackPages : m[pg].frame = a[pg] /\ m[pg].rw = TRUE
  OBVIOUS
<1>4. PagesOK(m)
  <2>1. \A pg \in StackPages : m[pg] \in PageEntry
    BY <1>2 DEF Fresh, PageEntry
  <2> QED BY <1>3, <2>1, StackAbove DEF PagesOK
<1>5. FramesOf(m) = Range(a) /\ Injective(m)
  BY <1>2, <1>3 DEF FramesOf, Range, Fresh, Injective
<1>6. HeapPages(m, HeapBase, HeapBase)
  <2>1. \A pg \in StackPages : m[pg].rw
    BY <1>3, Zenon
  <2> HIDE DEF m
  <2> QED BY <1>3, <2>1, HeapPagesEmpty, StackAbove, Space
<1> HIDE DEF m
<1>7. t = Fields(t) /\ t.state = "runnable" /\ t.parent_id = 0 /\ t.pages = m
      /\ t.heap_start = HeapBase /\ t.heap_break = HeapBase /\ t.heap_mapped_end = HeapBase
  BY DEF Fields
<1> HIDE DEF t
<1>8. ProcOK(t)
  <2>1. 0 \in 0 .. MaxPid /\ HeapBase \in 0 .. HeapLimit
    BY Space, Layout
  <2> QED BY <1>4, <1>7, <2>1 DEF ProcOK
<1>9. HeapOK(t)
  <2>1. HeapBase <= HeapBase
    BY Space
  <2> QED BY <1>6, <1>7, <2>1, Space DEF HeapOK
<1>10. 1 \in Pids /\ 2 \in 2 .. MaxPid + 1
  BY Space DEF Pids
<1>11. proc[1] = t /\ \A p \in Pids : p # 1 => proc[p] = NoProc
  BY <1>1, <1>10
<1>12. proc = [p \in Pids |-> proc[p]]
  BY <1>1
<1>13. \A p \in Pids : ProcOK(proc[p]) /\ (proc[p].state # "free" => HeapOK(proc[p]))
  BY <1>8, <1>9, <1>11, NoProcOK
<1>14. \A p \in Pids : p >= next_pid => proc[p].state = "free"
  <2>1. ASSUME NEW p \in Pids, p >= 2 PROVE p # 1
    BY <2>1
  <2> QED BY <1>1, <1>11, <2>1, NoProcOK
<1>15. frames \subseteq Frames /\ content \in [Frames -> Contents]
  BY <1>1, <1>2, Space DEF Fresh, Range, Contents
<1>16. Owned(frames, proc)
  <2>1. FramesOf(m) \cap KernelFrames = {} /\ FramesOf(m) \subseteq frames
    BY <1>1, <1>2, <1>5 DEF Fresh, Range
  <2>2. \A p \in Pids : \A pg \in DOMAIN proc[p].pages : p = 1
    BY <1>11, NoProcOK
  <2>3. \A pg \in DOMAIN m : m[pg].frame \in FramesOf(m)
    BY DEF FramesOf
  <2>4. ASSUME NEW p \in Pids, NEW pg \in DOMAIN proc[p].pages
        PROVE  proc[p].pages[pg].frame \in frames /\ proc[p].pages[pg].frame \notin KernelFrames
    BY <1>7, <1>11, <2>1, <2>2, <2>3
  <2>5. \A f \in frames : f \in KernelFrames \/ \E p \in Pids : f \in FramesOf(proc[p].pages)
    BY <1>1, <1>5, <1>7, <1>10, <1>11
  <2>6. ASSUME NEW p \in Pids, NEW q \in Pids,
               NEW pg \in DOMAIN proc[p].pages, NEW pg2 \in DOMAIN proc[q].pages,
               proc[p].pages[pg].frame = proc[q].pages[pg2].frame
        PROVE  p = q /\ pg = pg2
    <3>1. p = 1 /\ q = 1
      BY <2>2
    <3> QED BY <1>5, <1>7, <1>11, <2>6, <3>1 DEF Injective
  <2> QED BY <1>1, <2>4, <2>5, <2>6 DEF Owned
<1>17. blocks = Cardinality(Held(proc))
  <2>1. Held(proc) = {1} \X BlocksOf(t)
    <3>1. \A p \in Pids : p # 1 => BlocksOf(proc[p]) = {}
      BY <1>11, NoProcOK
    <3> QED BY <1>10, <1>11, <3>1 DEF Held
  <2>2. IsFiniteSet(BlocksOf(t)) /\ Cardinality(BlocksOf(t)) = BlocksFor(StackPages)
    <3>1. PagesOK(t.pages) /\ t.state # "free" /\ DOMAIN t.pages = StackPages
      BY <1>3, <1>4, <1>7
    <3> QED BY <3>1, BlocksOfCount
  <2>3. IsFiniteSet({1}) /\ Cardinality({1}) = 1
    BY FS_Singleton
  <2>4. Cardinality(Held(proc)) = Cardinality({1}) * Cardinality(BlocksOf(t))
    BY <2>1, <2>2, <2>3, FS_Product
  <2>5. BlocksFor(StackPages) \in Nat
    BY StackAbove, BlocksForType
  <2> QED BY <1>1, <2>2, <2>3, <2>4, <2>5
<1> QED BY <1>1, <1>10, <1>12, <1>13, <1>14, <1>15, <1>16, <1>17 DEF IInv

-----------------------------------------------------------------------------
(* The invariant after a call that replaces the process q by t. *)

BlocksHeld(t) == IF t.state = "free" THEN 0 ELSE BlocksFor(DOMAIN t.pages)

LEMMA ReplaceIInv ==
  ASSUME IInv, NEW q \in Pids, NEW t, ProcOK(t), t.state # "free" => HeapOK(t),
         Injective(t.pages),
         \A f \in FramesOf(t.pages) : f \in FramesOf(proc[q].pages) \/ f \notin frames,
         proc' = [proc EXCEPT ![q] = t],
         frames' = (frames \ FramesOf(proc[q].pages)) \cup FramesOf(t.pages),
         content' \in [Frames -> Contents],
         next_pid' \in 2 .. MaxPid + 1,
         \A p \in Pids : p >= next_pid' => proc'[p].state = "free",
         blocks' = blocks - BlocksHeld(proc[q]) + BlocksHeld(t),
         panic' = panic
  PROVE  IInv'
<1> DEFINE P2 == proc'
           F2 == frames'
<1>1. proc = [p \in Pids |-> proc[p]] /\ Owned(frames, proc) /\ frames \subseteq Frames
      /\ \A p \in Pids : ProcOK(proc[p]) /\ (proc[p].state # "free" => HeapOK(proc[p]))
  BY DEF IInv
<1>2. P2 = [p \in Pids |-> P2[p]] /\ P2[q] = t /\ \A p \in Pids : p # q => P2[p] = proc[p]
  BY <1>1, UpdateValue
<1>3. Owned(F2, P2)
  BY <1>1, OwnedUpdate
<1>4. F2 \subseteq Frames
  <2>1. FramesOf(t.pages) \subseteq Frames
    BY ProcFields DEF FramesOf
  <2> QED BY <1>1, <2>1
<1>5. \A p \in Pids : ProcOK(P2[p]) /\ (P2[p].state # "free" => HeapOK(P2[p]))
  <2> TAKE p \in Pids
  <2>1. CASE p = q
    BY <1>2, <2>1
  <2>2. CASE p # q
    BY <1>1, <1>2, <2>2
  <2> QED BY <2>1, <2>2
<1>6. blocks' = Cardinality(Held(P2))
  <2>1. \A p \in Pids : PagesOK(proc[p].pages)
    BY <1>1 DEF ProcOK
  <2>2. PagesOK(t.pages)
    BY DEF ProcOK
  <2>3. Cardinality(Held(P2)) =
          Cardinality(Held(proc)) - Cardinality(BlocksOf(proc[q])) + Cardinality(BlocksOf(t))
    BY <1>1, <2>1, <2>2, HeldUpdate
  <2>4. Cardinality(BlocksOf(proc[q])) = BlocksHeld(proc[q])
    BY <2>1, BlocksOfCount DEF BlocksHeld
  <2>5. Cardinality(BlocksOf(t)) = BlocksHeld(t)
    BY <2>2, BlocksOfCount DEF BlocksHeld
  <2>6. blocks = Cardinality(Held(proc))
    BY DEF IInv
  <2> QED BY <2>3, <2>4, <2>5, <2>6
<1>7. panic' \in {"none", "frames", "overwritten"}
  BY DEF IInv
<1> QED BY <1>2, <1>3, <1>4, <1>5, <1>6, <1>7 DEF IInv

-----------------------------------------------------------------------------
(* Each call preserves the invariant. *)

\* The pages of u are private: frames that were not in use, one for each page.
Private(m, U) ==
  /\ PagesOK(m) /\ Injective(m)
  /\ \A f \in FramesOf(m) : f \in Frames /\ f \notin U

LEMMA CloneIsPrivate ==
  ASSUME NEW m, PagesOK(m), NEW U, ~OutOfFrames(DOMAIN m, U), NEW copy,
         copy = CloneDirectory(m, U)
  PROVE  /\ Private(copy, U) /\ DOMAIN copy = DOMAIN m
         /\ \A pg \in DOMAIN m : copy[pg].rw = m[pg].rw
<1> DEFINE a == Assign(DOMAIN m, U)
<1>1. Fresh(a, DOMAIN m, U)
  BY AssignFresh DEF PagesOK
<1> HIDE DEF a
<1>2. copy = [pg \in DOMAIN m |-> [frame |-> a[pg], rw |-> m[pg].rw]]
  BY DEF CloneDirectory, a
<1>3. DOMAIN copy = DOMAIN m
  BY <1>2
<1>4. ASSUME NEW pg \in DOMAIN m
      PROVE  copy[pg].frame = a[pg] /\ copy[pg].rw = m[pg].rw /\ copy[pg] \in PageEntry
  <2>1. m[pg].rw \in BOOLEAN
    BY DEF PagesOK, PageEntry
  <2>2. a[pg] \in Frames
    BY <1>1 DEF Fresh
  <2>3. copy[pg] = [frame |-> a[pg], rw |-> m[pg].rw]
    BY <1>2
  <2> QED BY <2>1, <2>2, <2>3 DEF PageEntry
<1>5. PagesOK(copy)
  BY <1>3, <1>4 DEF PagesOK
<1>6. Injective(copy)
  BY <1>1, <1>3, <1>4 DEF Injective, Fresh
<1>7. \A f \in FramesOf(copy) : f \in Frames /\ f \notin U
  BY <1>1, <1>3, <1>4 DEF FramesOf, Fresh
<1> QED BY <1>3, <1>4, <1>5, <1>6, <1>7 DEF Private

\* The task of a child k of t with the pages m.
Child(t, k, m) == [t EXCEPT !.parent_id = k, !.pages = m]

LEMMA ForkRecord ==
  ASSUME NEW t, ProcOK(t), HeapOK(t), t.state = "runnable", NEW k \in Pids,
         NEW U, NEW m, Private(m, U), DOMAIN m = DOMAIN t.pages,
         \A pg \in DOMAIN m : m[pg].rw = t.pages[pg].rw,
         NEW u, u = Child(t, k, m)
  PROVE  ProcOK(u) /\ HeapOK(u) /\ u.state = "runnable" /\ u.pages = m
<1>1. t = Fields(t)
  BY DEF ProcOK
<1>2. u = [state |-> t.state, parent_id |-> k, pages |-> m,
           heap_start |-> t.heap_start, heap_break |-> t.heap_break,
           heap_mapped_end |-> t.heap_mapped_end]
  <2> DEFINE s == t.state
             o == t.parent_id
             g == t.pages
             b == t.heap_start
             c == t.heap_break
             d == t.heap_mapped_end
  <2>1. t = [state |-> s, parent_id |-> o, pages |-> g, heap_start |-> b,
             heap_break |-> c, heap_mapped_end |-> d]
    BY <1>1 DEF Fields
  <2> HIDE DEF s, o, g, b, c, d
  <2>2. u = [state |-> s, parent_id |-> k, pages |-> m, heap_start |-> b,
             heap_break |-> c, heap_mapped_end |-> d]
    BY <2>1 DEF Child
  <2> QED BY <2>2 DEF s, b, c, d
<1>3. /\ u.state = t.state /\ u.parent_id = k /\ u.pages = m
      /\ u.heap_start = t.heap_start /\ u.heap_break = t.heap_break
      /\ u.heap_mapped_end = t.heap_mapped_end /\ u = Fields(u)
  BY <1>2 DEF Fields
<1>4. k \in 0 .. MaxPid
  BY Space DEF Pids
<1>5. ProcOK(u)
  BY <1>3, <1>4 DEF ProcOK, Private
<1>6. HeapPages(m, t.heap_start, t.heap_mapped_end)
  BY HeapPagesCopy DEF HeapOK
<1>7. HeapOK(u)
  BY <1>3, <1>6 DEF HeapOK
<1> QED BY <1>3, <1>5, <1>7

LEMMA PanicIInv ==
  ASSUME IInv, Panics
  PROVE  IInv'
BY DEF IInv, Panics, Owned, ProcOK, HeapOK, Held, HeapPages, PagesOK, FramesOf, Fields,
       BlocksOf, TablesOf

LEMMA BlocksType ==
  ASSUME IInv
  PROVE  blocks \in Nat /\ \A p \in Pids : BlocksHeld(proc[p]) \in Nat
<1>1. /\ proc = [p \in Pids |-> proc[p]] /\ blocks = Cardinality(Held(proc))
      /\ \A p \in Pids : PagesOK(proc[p].pages)
  BY DEF IInv, ProcOK
<1>2. 1 \in Pids
  BY Space DEF Pids
<1>3. proc = [proc EXCEPT ![1] = proc[1]]
  BY <1>1, <1>2
<1>4. Cardinality(Held(proc)) \in Nat
  BY <1>1, <1>2, <1>3, HeldUpdate
<1>5. \A p \in Pids : BlocksFor(DOMAIN proc[p].pages) \in Nat
  BY <1>1, BlocksForType DEF PagesOK
<1>6. ASSUME NEW p \in Pids PROVE BlocksHeld(proc[p]) \in Nat
  <2>1. BlocksHeld(proc[p]) = 0 \/ BlocksHeld(proc[p]) = BlocksFor(DOMAIN proc[p].pages)
    BY Zenon DEF BlocksHeld
  <2> QED BY <1>5, <2>1
<1>7. blocks \in Nat
  BY <1>1, <1>4, Zenon
<1> QED BY <1>6, <1>7

\* What fork() does when the frames last.
ForkEffect(p, copy) ==
  /\ Private(copy, frames) /\ DOMAIN copy = DOMAIN proc[p].pages
  /\ next_pid \in Pids /\ next_pid # p /\ proc[next_pid].state = "free"
  /\ frames' = frames \cup FramesOf(copy)
  /\ content' = [f \in Frames |->
       IF \E pg \in DOMAIN copy : copy[pg].frame = f
       THEN content[proc[p].pages[CHOOSE pg \in DOMAIN copy : copy[pg].frame = f].frame]
       ELSE content[f]]
  /\ proc' = [proc EXCEPT ![next_pid] = Child(proc[p], p, copy)]
  /\ next_pid' = next_pid + 1
  /\ blocks' = blocks + BlocksFor(DOMAIN proc[p].pages)
  /\ panic' = panic
  /\ \A pg \in DOMAIN copy : copy[pg].rw = proc[p].pages[pg].rw

LEMMA ForkSteps ==
  ASSUME IInv, NEW p \in Pids, Fork(p)
  PROVE  Panics \/ \E copy : ForkEffect(p, copy)
<1> DEFINE old == proc[p].pages
           copy == CloneDirectory(old, frames)
<1>1. CASE OutOfFrames(DOMAIN old, frames)
  BY <1>1, Zenon DEF Fork
<1>2. CASE ~OutOfFrames(DOMAIN old, frames)
  <2>1. PagesOK(old)
    BY DEF IInv, ProcOK
  <2>2. /\ Private(copy, frames) /\ DOMAIN copy = DOMAIN old
        /\ \A pg \in DOMAIN old : copy[pg].rw = old[pg].rw
    BY <1>2, <2>1, CloneIsPrivate
  <2>3. next_pid \in Pids /\ proc[next_pid].state = "free" /\ proc[p].state = "runnable"
    <3>1. next_pid \in 2 .. MaxPid + 1 /\ next_pid <= MaxPid
      BY DEF IInv, Fork
    <3>2. next_pid \in Pids /\ next_pid >= next_pid
      BY <3>1, Space DEF Pids
    <3> QED BY <3>2 DEF IInv, Fork, Runs
  <2>4. next_pid # p
    BY <2>3
  <2>5. ForkEffect(p, copy)
    BY <1>2, <2>2, <2>3, <2>4, Zenon DEF Fork, ForkEffect, Child
  <2> QED BY <2>5
<1> QED BY <1>1, <1>2

LEMMA ForkIInv ==
  ASSUME IInv, NEW p \in Pids, Fork(p)
  PROVE  IInv'
<1>1. CASE Panics
  BY <1>1, PanicIInv
<1>2. ASSUME NEW copy, ForkEffect(p, copy) PROVE IInv'
  <2> DEFINE q == next_pid
             old == proc[p].pages
             t == Child(proc[p], p, copy)
  <2>1. ProcOK(proc[p]) /\ HeapOK(proc[p]) /\ proc[p].state = "runnable"
    BY DEF IInv, Fork, Runs
  <2>2. ProcOK(t) /\ HeapOK(t) /\ t.state = "runnable" /\ t.pages = copy
    <3>1. /\ Private(copy, frames) /\ DOMAIN copy = DOMAIN old
          /\ \A pg \in DOMAIN copy : copy[pg].rw = old[pg].rw
      BY <1>2, Zenon DEF ForkEffect
    <3> QED BY <2>1, <3>1, ForkRecord
  <2> HIDE DEF t
  <2>3. q \in Pids /\ proc[q].state = "free" /\ DOMAIN proc[q].pages = {}
        /\ FramesOf(proc[q].pages) = {}
    BY <1>2 DEF ForkEffect, IInv, ProcOK, FramesOf
  <2>4. proc' = [proc EXCEPT ![q] = t]
        /\ frames' = (frames \ FramesOf(proc[q].pages)) \cup FramesOf(t.pages)
    BY <1>2, <2>2, <2>3 DEF ForkEffect, t
  <2>5. Injective(t.pages) /\ \A f \in FramesOf(t.pages) : f \notin frames
    BY <1>2, <2>2 DEF ForkEffect, Private
  <2>6. content' \in [Frames -> Contents]
    <3>1. content \in [Frames -> Contents] /\ \A pg \in DOMAIN old : old[pg].frame \in Frames
      BY <2>1, ProcFields DEF IInv
    <3>2. ASSUME NEW f \in Frames PROVE content'[f] \in Contents
      <4>1. CASE \E pg \in DOMAIN copy : copy[pg].frame = f
        <5> DEFINE g == CHOOSE pg \in DOMAIN copy : copy[pg].frame = f
        <5>1. g \in DOMAIN old
          BY <1>2, <4>1 DEF ForkEffect
        <5>2. content'[f] = content[old[g].frame]
          BY <1>2, <4>1, Zenon DEF ForkEffect
        <5> HIDE DEF g
        <5> QED BY <3>1, <5>1, <5>2
      <4>2. CASE ~\E pg \in DOMAIN copy : copy[pg].frame = f
        BY <1>2, <3>1, <4>2 DEF ForkEffect
      <4> QED BY <4>1, <4>2
    <3>3. content' = [f \in Frames |-> content'[f]]
      BY <1>2 DEF ForkEffect
    <3> QED BY <3>2, <3>3
  <2>7. next_pid' \in 2 .. MaxPid + 1
    BY <1>2, <2>3, Space DEF ForkEffect, IInv, Pids
  <2>8. \A r \in Pids : r >= next_pid' => proc'[r].state = "free"
    <3> TAKE r \in Pids
    <3> HAVE r >= next_pid'
    <3>1. next_pid' = q + 1 /\ q \in Int /\ r \in Int
      BY <1>2, <2>3 DEF ForkEffect, Pids
    <3>2. r # q /\ r >= q
      BY <3>1
    <3> QED BY <2>3, <2>4, <3>2 DEF IInv
  <2>9. blocks' = blocks - BlocksHeld(proc[q]) + BlocksHeld(t)
    <3>1. BlocksHeld(proc[q]) = 0 /\ BlocksHeld(t) = BlocksFor(DOMAIN old)
      BY <1>2, <2>2, <2>3 DEF BlocksHeld, ForkEffect
    <3>2. blocks' = blocks + BlocksFor(DOMAIN old)
      BY <1>2 DEF ForkEffect
    <3>3. blocks \in Nat /\ BlocksFor(DOMAIN old) \in Nat
      BY <2>1, BlocksType, BlocksForType, ProcFields
    <3> QED BY <3>1, <3>2, <3>3
  <2>10. panic' = panic
    BY <1>2 DEF ForkEffect
  <2> QED BY <2>2, <2>3, <2>4, <2>5, <2>6, <2>7, <2>8, <2>9, <2>10, ReplaceIInv
<1> QED BY <1>1, <1>2, ForkSteps

LEMMA ExitIInv ==
  ASSUME IInv, NEW p \in Pids, Exit(p)
  PROVE  IInv'
<1> DEFINE u == proc[p]
           t == [u EXCEPT !.state = "zombie"]
<1>1. ProcOK(u) /\ HeapOK(u) /\ u.state = "runnable"
  BY DEF IInv, Exit, Runs
<1>2. t.state = "zombie" /\ t.parent_id = u.parent_id /\ t.pages = u.pages
      /\ t.heap_start = u.heap_start /\ t.heap_break = u.heap_break
      /\ t.heap_mapped_end = u.heap_mapped_end /\ t = Fields(t)
  <2>1. u = Fields(u)
    BY <1>1 DEF ProcOK
  <2> HIDE DEF u
  <2> QED BY <2>1 DEF Fields
<1>3. proc' = [proc EXCEPT ![p] = t]
  BY DEF Exit
<1> HIDE DEF t, u
<1>4. ProcOK(t) /\ HeapOK(t)
  BY <1>1, <1>2 DEF ProcOK, HeapOK
<1>5. u = proc[p] /\ Injective(t.pages) /\ FramesOf(t.pages) \subseteq frames
  BY <1>2, OwnedProcess DEF IInv, u
<1>6. /\ frames' = (frames \ FramesOf(proc[p].pages)) \cup FramesOf(t.pages)
      /\ \A f \in FramesOf(t.pages) : f \in FramesOf(proc[p].pages)
  BY <1>2, <1>5 DEF Exit
<1>7. blocks' = blocks - BlocksHeld(proc[p]) + BlocksHeld(t)
  <2>1. BlocksHeld(t) = BlocksHeld(proc[p])
    BY <1>1, <1>2, <1>5 DEF BlocksHeld
  <2>2. blocks \in Nat /\ BlocksHeld(proc[p]) \in Nat /\ blocks' = blocks
    BY BlocksType DEF Exit
  <2> QED BY <2>1, <2>2
<1>8. /\ content' \in [Frames -> Contents] /\ next_pid' \in 2 .. MaxPid + 1 /\ panic' = panic
      /\ next_pid' = next_pid
  BY DEF IInv, Exit
<1>9. \A r \in Pids : r >= next_pid' => proc'[r].state = "free"
  <2> TAKE r \in Pids
  <2> HAVE r >= next_pid'
  <2>1. proc[r].state = "free"
    BY <1>8 DEF IInv
  <2>2. r # p
    BY <1>1, <1>5, <2>1
  <2> QED BY <1>3, <2>1, <2>2 DEF IInv
<1> QED BY <1>3, <1>4, <1>5, <1>6, <1>7, <1>8, <1>9, ReplaceIInv

LEMMA WaitpidIInv ==
  ASSUME IInv, NEW p \in Pids, NEW c \in Pids, Waitpid(p, c)
  PROVE  IInv'
<1>1. ProcOK(proc[c]) /\ proc[c].state = "zombie"
  BY DEF IInv, Waitpid
<1>2. proc' = [proc EXCEPT ![c] = NoProc]
  BY DEF Waitpid
<1>3. Injective(NoProc.pages)
  BY NoProcOK DEF Injective
<1>4. frames' = (frames \ FramesOf(proc[c].pages)) \cup FramesOf(NoProc.pages)
  BY NoProcOK DEF Waitpid, DestroyDirectory
<1>5. blocks' = blocks - BlocksHeld(proc[c]) + BlocksHeld(NoProc)
  <2>1. BlocksHeld(NoProc) = 0 /\ BlocksHeld(proc[c]) = BlocksFor(DOMAIN proc[c].pages)
    BY <1>1, NoProcOK DEF BlocksHeld
  <2>2. blocks' = blocks - BlocksFor(DOMAIN proc[c].pages)
    BY DEF Waitpid, ReapedBlocks
  <2>3. blocks \in Nat /\ BlocksFor(DOMAIN proc[c].pages) \in Nat
    BY <1>1, BlocksType, BlocksForType, ProcFields
  <2> QED BY <2>1, <2>2, <2>3
<1>6. /\ content' \in [Frames -> Contents] /\ next_pid' \in 2 .. MaxPid + 1 /\ panic' = panic
      /\ next_pid' = next_pid
  BY DEF IInv, Waitpid
<1>7. \A r \in Pids : r >= next_pid' => proc'[r].state = "free"
  BY <1>2, <1>6, NoProcOK DEF IInv
<1> QED BY <1>2, <1>3, <1>4, <1>5, <1>6, <1>7, NoProcOK, ReplaceIInv

LEMMA QuietIInv ==
  ASSUME IInv, content' \in [Frames -> Contents],
         panic' \in {"none", "frames", "overwritten"},
         UNCHANGED <<frames, proc, next_pid, blocks>>
  PROVE  IInv'
BY DEF IInv, Owned, ProcOK, HeapOK, Held, HeapPages, PagesOK, FramesOf, Fields,
       BlocksOf, TablesOf

LEMMA WriteIInv ==
  ASSUME IInv, NEW p \in Pids, NEW pg \in Pages, Write(p, pg)
  PROVE  IInv'
<1>1. content' \in [Frames -> Contents]
  BY DEF IInv, Write, Contents
<1> QED BY <1>1, QuietIInv DEF Write, IInv

LEMMA WriteKernelIInv ==
  ASSUME IInv, NEW p \in Pids, WriteKernel(p)
  PROVE  IInv'
<1>1. content' \in [Frames -> Contents]
  BY DEF IInv, WriteKernel, Contents
<1> QED BY <1>1, QuietIInv DEF WriteKernel

\* kfree(request) gives back what kmalloc() took, whatever else came or went.
LEMMA RequestFreed ==
  ASSUME IInv
  PROVE  /\ KfreeRequest(KmallocRequest(blocks)) = blocks
         /\ \A i, j \in Nat : KfreeRequest(KmallocRequest(blocks) + i - j) = blocks + i - j
BY BlocksType DEF KfreeRequest, KmallocRequest

LEMMA ExecveRefusedIInv ==
  ASSUME IInv, NEW p \in Pids, ExecveRefused(p)
  PROVE  IInv'
<1>1. content' \in [Frames -> Contents]
  BY DEF IInv, ExecveRefused
<1>2. blocks' = blocks
  BY RequestFreed DEF ExecveRefused
<1> QED BY <1>1, <1>2, QuietIInv DEF ExecveRefused, IInv

-----------------------------------------------------------------------------
(* sbrk *)

LEMMA TargetType ==
  ASSUME NEW old \in Nat, NEW inc \in Int
  PROVE  Target(old, inc) \in Int
<1> DEFINE k == (0 - inc) % Word
<1>1. k \in Int
  <2>0. 0 - inc \in Int /\ Word \in Divisors /\ Word \in Nat
    BY Layout
  <2>1. k \in 0 .. Word - 1 /\ Word \in Nat
    BY <2>0, DivMod
  <2> HIDE DEF k
  <2> QED BY <2>1
<1>2. Target(old, inc) = IF inc >= 0 THEN IF inc > Word - 1 - old THEN -1 ELSE old + inc
                         ELSE IF k > old THEN -1 ELSE old - k
  BY Zenon DEF Target
<1> HIDE DEF k
<1> QED BY <1>1, <1>2

\* The task after the break has moved to n.
Grown(t, m, e, n) == [t EXCEPT !.pages = m, !.heap_mapped_end = e, !.heap_break = n]

LEMMA GrownRecord ==
  ASSUME NEW t, ProcOK(t), HeapOK(t), t.state = "runnable", NEW m, PagesOK(m),
         NEW e \in 0 .. HeapLimit, e % PageSize = 0, HeapPages(m, t.heap_start, e),
         NEW n \in Nat, t.heap_start <= n, n <= e,
         NEW u, u = Grown(t, m, e, n)
  PROVE  ProcOK(u) /\ HeapOK(u) /\ u.state = "runnable" /\ u.pages = m
         /\ u.heap_start = t.heap_start
<1>1. u = [state |-> t.state, parent_id |-> t.parent_id, pages |-> m,
           heap_start |-> t.heap_start, heap_break |-> n, heap_mapped_end |-> e]
  <2> DEFINE s == t.state
             o == t.parent_id
             g == t.pages
             b == t.heap_start
             c == t.heap_break
             d == t.heap_mapped_end
  <2>1. t = [state |-> s, parent_id |-> o, pages |-> g, heap_start |-> b,
             heap_break |-> c, heap_mapped_end |-> d]
    BY DEF ProcOK, Fields
  <2> HIDE DEF s, o, g, b, c, d
  <2>2. u = [state |-> s, parent_id |-> o, pages |-> m, heap_start |-> b,
             heap_break |-> n, heap_mapped_end |-> e]
    BY <2>1 DEF Grown
  <2> QED BY <2>2 DEF s, o, b
<1>2. /\ u.state = t.state /\ u.parent_id = t.parent_id /\ u.pages = m
      /\ u.heap_start = t.heap_start /\ u.heap_break = n /\ u.heap_mapped_end = e
      /\ u = Fields(u)
  BY <1>1 DEF Fields
<1>3. n \in 0 .. HeapLimit
  BY Layout
<1>4. ProcOK(u)
  BY <1>2, <1>3 DEF ProcOK
<1>5. HeapOK(u)
  BY <1>2 DEF HeapOK
<1> QED BY <1>2, <1>4, <1>5

\* What sbrk() does when it moves the break to n over the new pages S.
SbrkDone(p, n, S, a) ==
  /\ n \in Nat /\ n <= HeapLimit /\ proc[p].heap_start <= n
  /\ S = SbrkPages(proc[p], AlignUp(n))
  /\ Fresh(a, S, frames)
  /\ frames' = frames \cup Range(a)
  /\ content' = [f \in Frames |-> IF f \in Range(a) THEN "zero" ELSE content[f]]
  /\ proc' = [proc EXCEPT ![p] =
       Grown(proc[p], AddPages(proc[p].pages, S, a), MappedEnd(proc[p], AlignUp(n)), n)]
  /\ blocks' = blocks + Cardinality(TablesOf(S) \ TablesOf(DOMAIN proc[p].pages))
  /\ UNCHANGED <<next_pid, panic>>

LEMMA SbrkSteps ==
  ASSUME IInv, NEW p \in Pids, NEW inc \in Increments, Sbrk(p, inc)
  PROVE  /\ last'.pid = p
         /\ \/ UNCHANGED <<frames, content, proc, next_pid, blocks, panic>>
            \/ last'.ok /\ (Panics \/ \E n, S, a : SbrkDone(p, n, S, a))
<1> DEFINE t        == proc[p]
           new      == Target(t.heap_break, inc)
           refused  == new = -1 \/ SbrkLimit(t, new)
           S        == SbrkPages(t, AlignUp(new))
           a        == Assign(S, frames)
<1>1. ProcOK(t) /\ HeapOK(t)
  BY DEF IInv, Sbrk, Program, Runs
<1>2. last' = [pid |-> p, ok |-> ~refused]
  BY Zenon DEF Sbrk, Called
<1>3. last'.pid = p
  <2> DEFINE b == ~refused
  <2>1. last' = [pid |-> p, ok |-> b]
    BY <1>2
  <2> HIDE DEF b
  <2> QED BY <2>1
<1>4. CASE refused
  BY <1>3, <1>4, Zenon DEF Sbrk
<1>5. CASE ~refused
  <2>1. last'.ok
    <3> DEFINE b == ~refused
    <3>1. last' = [pid |-> p, ok |-> b] /\ b
      BY <1>2, <1>5
    <3> HIDE DEF b
    <3>2. last'.ok = b
      BY <3>1
    <3> QED BY <3>1, <3>2, Zenon
  <2>2. new \in Int /\ t.heap_start \in Nat
    BY <1>1, ProcFields, TargetType, Space
  <2>3. new \in Nat /\ new <= HeapLimit /\ t.heap_start <= new
    <3>1. ~(new < t.heap_start) /\ ~(new > HeapLimit)
      BY <1>5, Zenon DEF SbrkLimit
    <3> HIDE DEF new
    <3> QED BY <2>2, <3>1, Layout
  <2>4. CASE OutOfFrames(S, frames)
    <3>1. Panics
      BY <1>5, <2>4, Zenon DEF Sbrk
    <3> QED BY <1>3, <2>1, <3>1
  <2>5. CASE ~OutOfFrames(S, frames)
    <3>1. Aligned(new, AlignUp(new))
      <4> HIDE DEF new
      <4> QED BY <2>3, AlignUpProperties
    <3>2. S \subseteq Pages
      <4> HIDE DEF new, t
      <4> QED BY <1>1, <3>1, SbrkHeap DEF Aligned, SbrkEffect
    <3>3. Fresh(a, S, frames)
      <4> HIDE DEF S
      <4> QED BY <2>5, <3>2, AssignFresh
    <3>4. SbrkDone(p, new, S, a)
      BY <1>5, <2>3, <2>5, <3>3, Zenon DEF Sbrk, SbrkDone, SbrkContent, Grown
    <3> QED BY <1>3, <2>1, <3>4
  <2> QED BY <2>4, <2>5
<1> QED BY <1>4, <1>5

\* The pages n of a process whose heap has grown from m over S.
Added(m, S, U, a, n) ==
  /\ PagesOK(n) /\ Injective(n) /\ DOMAIN n = S \cup DOMAIN m
  /\ FramesOf(n) = FramesOf(m) \cup Range(a)
  /\ \A f \in Range(a) : f \in Frames /\ f \notin U
  /\ \A pg \in DOMAIN m : n[pg] = m[pg]
  /\ \A pg \in S : n[pg].frame = a[pg]

LEMMA AddedPages ==
  ASSUME NEW m, PagesOK(m), Injective(m), NEW S, S \subseteq Pages, S \cap DOMAIN m = {},
         NEW U, FramesOf(m) \subseteq U, NEW a, Fresh(a, S, U), NEW n, n = AddPages(m, S, a)
  PROVE  Added(m, S, U, a, n)
<1>1. n = [pg \in S \cup DOMAIN m |->
             IF pg \in S THEN [frame |-> a[pg], rw |-> TRUE] ELSE m[pg]]
  BY Zenon DEF AddPages
<1>2. DOMAIN n = S \cup DOMAIN m
  BY <1>1
<1>3. ASSUME NEW pg \in S PROVE n[pg] = [frame |-> a[pg], rw |-> TRUE] /\ n[pg].frame = a[pg]
  BY <1>1
<1>4. \A pg \in DOMAIN m : n[pg] = m[pg]
  BY <1>1
<1>5. PagesOK(n)
  <2>1. ASSUME NEW pg \in S PROVE n[pg] \in PageEntry
    <3>1. a[pg] \in Frames
      BY DEF Fresh
    <3>2. [frame |-> a[pg], rw |-> TRUE] \in PageEntry
      BY <3>1 DEF PageEntry
    <3>3. n[pg] = [frame |-> a[pg], rw |-> TRUE]
      BY <1>3
    <3> QED BY <3>2, <3>3, Zenon
  <2>2. \A pg \in DOMAIN m : n[pg] \in PageEntry
    BY <1>4 DEF PagesOK
  <2> QED BY <1>2, <2>1, <2>2 DEF PagesOK
<1>6. \A f \in Range(a) : f \in Frames /\ f \notin U
  BY DEF Range, Fresh
<1>7. FramesOf(n) = FramesOf(m) \cup Range(a)
  BY <1>2, <1>3, <1>4 DEF FramesOf, Range, Fresh
<1>8. ASSUME NEW pg \in DOMAIN n, NEW pg2 \in DOMAIN n, n[pg].frame = n[pg2].frame
      PROVE  pg = pg2
  <2>1. \A x \in DOMAIN m : n[x].frame \in U
    BY <1>4 DEF FramesOf
  <2>2. \A x \in S : n[x].frame \notin U
    BY <1>3 DEF Fresh
  <2>3. CASE pg \in S /\ pg2 \in S
    <3>1. n[pg].frame = a[pg] /\ n[pg2].frame = a[pg2]
      BY <1>3, <2>3
    <3> QED BY <1>8, <2>3, <3>1, Zenon DEF Fresh
  <2>4. CASE pg \in DOMAIN m /\ pg2 \in DOMAIN m
    BY <1>4, <1>8, <2>4 DEF Injective
  <2> QED BY <1>2, <1>8, <2>1, <2>2, <2>3, <2>4
<1> QED BY <1>2, <1>3, <1>4, <1>5, <1>6, <1>7, <1>8 DEF Injective, Added

LEMMA TablesAdded ==
  ASSUME NEW S, S \subseteq Pages, NEW D, D \subseteq Pages
  PROVE  /\ Cardinality(TablesOf(S) \ TablesOf(D)) \in Nat
         /\ BlocksFor(S \cup D) = BlocksFor(D) + Cardinality(TablesOf(S) \ TablesOf(D))
<1> DEFINE X == TablesOf(D)
           Y == TablesOf(S) \ TablesOf(D)
<1>1. TablesOf(S \cup D) = X \cup Y
  BY DEF TablesOf
<1>2. IsFiniteSet(X) /\ IsFiniteSet(TablesOf(S)) /\ X \cap Y = {}
  BY TablesFinite
<1>3. IsFiniteSet(Y)
  BY <1>2, FS_Difference
<1> HIDE DEF X, Y
<1>4. Cardinality(X \cup Y) = Cardinality(X) + Cardinality(Y) - 0
  BY <1>2, <1>3, FS_Union, FS_EmptySet
<1>5. Cardinality(X) \in Nat /\ Cardinality(Y) \in Nat
  BY <1>2, <1>3, FS_CardinalityType
<1>6. BlocksFor(D) = Cardinality(X) + 3
  BY BlocksForType DEF X
<1>7. S \cup D \subseteq Pages
  OBVIOUS
<1>8. BlocksFor(S \cup D) = Cardinality(X \cup Y) + 3
  BY <1>1, <1>7, BlocksForType
<1>9. BlocksFor(S \cup D) = BlocksFor(D) + Cardinality(Y)
  BY <1>4, <1>5, <1>6, <1>8
<1> QED BY <1>5, <1>9 DEF Y

LEMMA SbrkDoneIInv ==
  ASSUME IInv, NEW p \in Pids, proc[p].state = "runnable",
         NEW n, NEW S, NEW a, SbrkDone(p, n, S, a)
  PROVE  IInv'
<1> DEFINE t == proc[p]
           m == t.pages
           required == AlignUp(n)
           e == MappedEnd(t, required)
           w == AddPages(m, S, a)
           u == Grown(t, w, e, n)
<1>1. ProcOK(t) /\ HeapOK(t) /\ PagesOK(m) /\ DOMAIN m \subseteq Pages
  BY DEF IInv, ProcOK, PagesOK
<1>2. n \in Nat /\ n <= HeapLimit /\ t.heap_start <= n /\ S = SbrkPages(t, required)
      /\ Fresh(a, S, frames)
  BY DEF SbrkDone
<1>3. required \in Nat /\ required % PageSize = 0 /\ required <= HeapLimit /\ n <= required
  BY <1>2, AlignUpProperties DEF Aligned
<1> HIDE DEF t, required
<1>4. SbrkEffect(t, S, required, w)
  BY <1>1, <1>2, <1>3, SbrkHeap
<1> HIDE DEF w, e
<1>5. FramesOf(m) \subseteq frames /\ Injective(m)
  BY OwnedProcess DEF IInv, t
<1>6. /\ PagesOK(w) /\ Injective(w) /\ DOMAIN w = S \cup DOMAIN m
      /\ FramesOf(w) = FramesOf(m) \cup Range(a)
      /\ \A f \in Range(a) : f \in Frames /\ f \notin frames
  <2>1. S \subseteq Pages /\ S \cap DOMAIN m = {}
    BY <1>4 DEF SbrkEffect
  <2>2. w = AddPages(m, S, a)
    BY DEF w
  <2> HIDE DEF m
  <2>3. Added(m, S, frames, a, w)
    BY <1>1, <1>2, <1>5, <2>1, <2>2, AddedPages
  <2> QED BY <2>3, Zenon DEF Added
<1>7. e \in 0 .. HeapLimit /\ e % PageSize = 0 /\ HeapPages(w, t.heap_start, e) /\ n <= e
  <2>1. e \in 0 .. HeapLimit /\ e % PageSize = 0 /\ HeapPages(w, t.heap_start, e) /\ required <= e
    BY <1>4 DEF SbrkEffect, e
  <2> QED BY <1>2, <1>3, <2>1, Layout
<1>8. ProcOK(u) /\ HeapOK(u) /\ u.state = "runnable" /\ u.pages = w
  <2>1. t.state = "runnable"
    BY DEF t
  <2> QED BY <1>1, <1>2, <1>6, <1>7, <2>1, GrownRecord
<1>9. proc' = [proc EXCEPT ![p] = u] /\ frames' = frames \cup Range(a)
      /\ blocks' = blocks + Cardinality(TablesOf(S) \ TablesOf(DOMAIN m))
      /\ next_pid' = next_pid /\ panic' = panic
  BY DEF SbrkDone, t, e, w, required
<1> HIDE DEF u
<1>10. frames' = (frames \ FramesOf(proc[p].pages)) \cup FramesOf(u.pages)
  BY <1>5, <1>6, <1>8, <1>9 DEF t
<1>11. \A f \in FramesOf(u.pages) : f \in FramesOf(proc[p].pages) \/ f \notin frames
  BY <1>6, <1>8 DEF t
<1>12. content' \in [Frames -> Contents]
  BY DEF SbrkDone, IInv, Contents
<1>13. next_pid' \in 2 .. MaxPid + 1
  BY <1>9 DEF IInv
<1>14. \A r \in Pids : r >= next_pid' => proc'[r].state = "free"
  <2> TAKE r \in Pids
  <2> HAVE r >= next_pid'
  <2>1. proc[r].state = "free"
    BY <1>9 DEF IInv
  <2>2. r # p
    BY <2>1
  <2> QED BY <1>9, <2>1, <2>2 DEF IInv
<1>15. blocks' = blocks - BlocksHeld(proc[p]) + BlocksHeld(u)
  <2> DEFINE d == Cardinality(TablesOf(S) \ TablesOf(DOMAIN m))
             k == BlocksFor(DOMAIN m)
  <2>1. d \in Nat /\ BlocksFor(S \cup DOMAIN m) = k + d /\ k \in Nat
    BY <1>1, <1>4, TablesAdded, BlocksForType DEF SbrkEffect
  <2>2. BlocksHeld(proc[p]) = k /\ BlocksHeld(u) = BlocksFor(S \cup DOMAIN m)
    BY <1>6, <1>8 DEF BlocksHeld, t
  <2>3. blocks \in Nat /\ blocks' = blocks + d
    BY <1>9, BlocksType
  <2> HIDE DEF d, k
  <2> QED BY <2>1, <2>2, <2>3
<1> QED BY <1>6, <1>8, <1>9, <1>10, <1>11, <1>12, <1>13, <1>14, <1>15, ReplaceIInv

LEMMA SbrkIInv ==
  ASSUME IInv, NEW p \in Pids, NEW inc \in Increments, Sbrk(p, inc)
  PROVE  IInv'
<1>1. CASE UNCHANGED <<frames, content, proc, next_pid, blocks, panic>>
  <2>1. content' \in [Frames -> Contents] /\ panic' \in {"none", "frames", "overwritten"}
    BY <1>1 DEF IInv
  <2> QED BY <1>1, <2>1, QuietIInv
<1>2. CASE Panics
  BY <1>2, PanicIInv
<1>3. ASSUME NEW n, NEW S, NEW a, SbrkDone(p, n, S, a) PROVE IInv'
  <2>1. proc[p].state = "runnable"
    BY DEF Sbrk, Program, Runs
  <2> QED BY <1>3, <2>1, SbrkDoneIInv
<1> QED BY <1>1, <1>2, <1>3, SbrkSteps

-----------------------------------------------------------------------------
(* execve *)

LEMMA ImageIsPrivate ==
  ASSUME NEW f \in ElfFile, ValidateElf(f), NEW U,
         ~OutOfFrames(ImagePages(f) \cup StackPages, U), NEW new,
         new = NewImage(f, Assign(ImagePages(f) \cup StackPages, U))
  PROVE  /\ Private(new, U) /\ DOMAIN new = ImagePages(f) \cup StackPages
         /\ ImagePages(f) \subseteq Pages
         /\ HeapPages(new, HeapStart(f), HeapStart(f))
<1> DEFINE S == ImagePages(f) \cup StackPages
           a == Assign(S, U)
<1>1. ImageBelow(f)
  BY ImageBelowHeap
<1>2. ImagePages(f) \subseteq Pages
  <2>1. ASSUME NEW pg \in ImagePages(f) PROVE pg \in Pages
    <3>1. pg \in Nat /\ pg * PageSize < HeapStart(f) /\ HeapStart(f) \in Nat
          /\ HeapStart(f) <= HeapLimit
      BY <1>1 DEF ImageBelow
    <3>2. pg * PageSize < Word
      <4>1. pg * PageSize \in Int
        BY <3>1, NextMultiple, Layout
      <4> QED BY <3>1, <4>1, Layout
    <3> QED BY <3>1, <3>2, FinitePages
  <2> QED BY <2>1
<1>3. S \subseteq Pages
  BY <1>2, StackAbove
<1>4. Fresh(a, S, U)
  <2> HIDE DEF S
  <2> QED BY <1>3, AssignFresh DEF S
<1> HIDE DEF a
<1>5. new = [pg \in S |-> [frame |-> a[pg],
                           rw |-> IF pg \in StackPages THEN TRUE ELSE SegmentOf(f, pg).w]]
  BY Zenon DEF NewImage, a
<1>6. ASSUME NEW pg \in S
      PROVE  /\ new[pg].frame = a[pg] /\ new[pg] \in PageEntry
             /\ pg \in StackPages => new[pg].rw = TRUE
  <2> DEFINE b == IF pg \in StackPages THEN TRUE ELSE SegmentOf(f, pg).w
  <2>1. b \in BOOLEAN
    <3>1. pg \notin StackPages => SegmentOf(f, pg).w \in BOOLEAN
      BY <1>1 DEF ImageBelow
    <3> QED BY <3>1, Zenon
  <2>2. pg \in StackPages => b = TRUE
    BY Zenon
  <2>3. new[pg] = [frame |-> a[pg], rw |-> b]
    BY <1>5, Zenon
  <2>4. a[pg] \in Frames
    BY <1>4 DEF Fresh
  <2> HIDE DEF b
  <2> QED BY <2>1, <2>2, <2>3, <2>4 DEF PageEntry
<1>7. DOMAIN new = S
  BY <1>5, Zenon
<1>8. PagesOK(new) /\ Injective(new) /\ \A x \in FramesOf(new) : x \in Frames /\ x \notin U
  <2> HIDE DEF S
  <2>1. PagesOK(new)
    BY <1>3, <1>6, <1>7 DEF PagesOK
  <2>2. \A pg \in S : new[pg].frame = a[pg]
    BY <1>6
  <2>3. Injective(new)
    <3>1. \A pg, pg2 \in S : a[pg] = a[pg2] => pg = pg2
      BY <1>4 DEF Fresh
    <3>2. ASSUME NEW pg \in S, NEW pg2 \in S, new[pg].frame = new[pg2].frame
          PROVE  pg = pg2
      <4>1. a[pg] = a[pg2]
        BY <2>2, <3>2
      <4> QED BY <3>1, <4>1
    <3> QED BY <1>7, <3>2, Zenon DEF Injective
  <2>4. \A x \in FramesOf(new) : x \in Frames /\ x \notin U
    BY <1>4, <1>7, <2>2 DEF FramesOf, Fresh
  <2> QED BY <2>1, <2>3, <2>4
<1>9. HeapPages(new, HeapStart(f), HeapStart(f))
  <2>1. \A pg \in DOMAIN new : pg \in StackPages \/ pg * PageSize < HeapStart(f)
    BY <1>1, <1>7 DEF ImageBelow
  <2>2. \A pg \in StackPages : new[pg].rw
    BY <1>6, Zenon
  <2>3. HeapStart(f) \in Nat
    BY <1>1 DEF ImageBelow
  <2> QED BY <1>3, <1>7, <2>1, <2>2, <2>3, HeapPagesEmpty
<1> QED BY <1>2, <1>7, <1>8, <1>9 DEF Private

\* The task with a new image m and an empty heap at b.
Replaced(t, m, b) ==
  [t EXCEPT !.pages = m, !.heap_start = b, !.heap_break = b, !.heap_mapped_end = b]

LEMMA ReplacedRecord ==
  ASSUME NEW t, ProcOK(t), t.state = "runnable", NEW m, PagesOK(m),
         NEW b \in Nat, b <= HeapLimit, b % PageSize = 0, HeapPages(m, b, b),
         NEW u, u = Replaced(t, m, b)
  PROVE  ProcOK(u) /\ HeapOK(u) /\ u.state = "runnable" /\ u.pages = m /\ u.heap_start = b
<1>1. u = [state |-> t.state, parent_id |-> t.parent_id, pages |-> m,
           heap_start |-> b, heap_break |-> b, heap_mapped_end |-> b]
  <2> DEFINE s == t.state
             o == t.parent_id
             g == t.pages
             x == t.heap_start
             c == t.heap_break
             d == t.heap_mapped_end
  <2>1. t = [state |-> s, parent_id |-> o, pages |-> g, heap_start |-> x,
             heap_break |-> c, heap_mapped_end |-> d]
    BY DEF ProcOK, Fields
  <2> HIDE DEF s, o, g, x, c, d
  <2>2. u = [state |-> s, parent_id |-> o, pages |-> m, heap_start |-> b,
             heap_break |-> b, heap_mapped_end |-> b]
    BY <2>1 DEF Replaced
  <2> QED BY <2>2 DEF s, o
<1>2. /\ u.state = t.state /\ u.parent_id = t.parent_id /\ u.pages = m
      /\ u.heap_start = b /\ u.heap_break = b /\ u.heap_mapped_end = b
      /\ u = Fields(u)
  BY <1>1 DEF Fields
<1>3. b \in 0 .. HeapLimit /\ b <= b
  BY Layout
<1>4. ProcOK(u)
  BY <1>2, <1>3 DEF ProcOK
<1>5. HeapOK(u)
  BY <1>2, <1>3 DEF HeapOK
<1> QED BY <1>2, <1>4, <1>5

\* What execve() builds before it commits to the new image.
ImageBuilt(f, new) ==
  /\ f \in ElfFile /\ ValidateElf(f)
  /\ Private(new, frames) /\ DOMAIN new = ImagePages(f) \cup StackPages
  /\ ImagePages(f) \subseteq Pages
  /\ HeapPages(new, HeapStart(f), HeapStart(f))
  /\ content' = NewContent(f, new)

ExecveCommits(p, f, new) ==
  /\ ImageBuilt(f, new)
  /\ proc' = [proc EXCEPT ![p] = Replaced(proc[p], new, HeapStart(f))]
  /\ frames' = (frames \cup FramesOf(new)) \ FramesOf(proc[p].pages)
  /\ blocks' = blocks + BlocksFor(DOMAIN new) - BlocksFor(DOMAIN proc[p].pages)
  /\ UNCHANGED <<next_pid, panic>>

ExecveAbandons(f, new) ==
  /\ ImageBuilt(f, new)
  /\ UNCHANGED <<frames, proc, next_pid, blocks, panic>>

LEMMA ExecveSteps ==
  ASSUME IInv, NEW p \in Pids, NEW f \in Files, Execve(p, f)
  PROVE  /\ last'.pid = p
         /\ \/ last'.ok /\ (Panics \/ \E new : ExecveCommits(p, f, new))
            \/ \E new : ExecveAbandons(f, new)
<1> DEFINE S   == ImagePages(f) \cup StackPages
           new == NewImage(f, Assign(S, frames))
           old == proc[p].pages
<1>1. f \in ElfFile /\ ValidateElf(f)
  BY Space DEF Execve
<1>2. CASE OutOfFrames(S, frames)
  <2>1. Panics /\ last' = [pid |-> p, ok |-> TRUE]
    BY <1>2, Zenon DEF Execve, Called
  <2>2. last'.pid = p /\ last'.ok = TRUE
    BY <2>1
  <2> QED BY <2>1, <2>2, Zenon
<1>3. CASE ~OutOfFrames(S, frames)
  <2>1. /\ Private(new, frames) /\ DOMAIN new = S /\ ImagePages(f) \subseteq Pages
        /\ HeapPages(new, HeapStart(f), HeapStart(f))
    BY <1>1, <1>3, ImageIsPrivate
  <2>2. content' = NewContent(f, new) /\ next_pid' = next_pid /\ panic' = panic
        /\ last' = [pid |-> p, ok |-> HeapFits(f)]
    BY <1>3, Zenon DEF Execve, Called
  <2>3. ImageBuilt(f, new)
    BY <1>1, <2>1, <2>2, Zenon DEF ImageBuilt
  <2>4. last'.pid = p /\ last'.ok = HeapFits(f)
    <3> DEFINE b == HeapFits(f)
    <3>1. last' = [pid |-> p, ok |-> b]
      BY <2>2, Zenon
    <3> HIDE DEF b
    <3>2. last'.pid = p /\ last'.ok = b
      BY <3>1
    <3> QED BY <3>2, Zenon DEF b
  <2>5. CASE HeapFits(f)
    <3>1. ExecveCommits(p, f, new)
      <4>1. proc' = [proc EXCEPT ![p] = Replaced(proc[p], new, HeapStart(f))]
        BY <1>3, <2>5, Zenon DEF Execve, Replaced
      <4>2. /\ frames' = (frames \cup FramesOf(new)) \ DestroyDirectory(old)
            /\ blocks' = KfreeRequest(KmallocRequest(blocks) + BlocksFor(S) - BlocksFor(DOMAIN old))
        BY <1>3, <2>5, Zenon DEF Execve
      <4>3. BlocksFor(S) \in Nat /\ BlocksFor(DOMAIN old) \in Nat
        <5>1. S \subseteq Pages /\ DOMAIN old \subseteq Pages
          BY <2>1 DEF Private, PagesOK, IInv, ProcOK
        <5> QED BY <5>1, BlocksForType
      <4>4. blocks' = blocks + BlocksFor(S) - BlocksFor(DOMAIN old)
        BY <4>2, <4>3, RequestFreed
      <4> QED BY <2>1, <2>2, <2>3, <4>1, <4>2, <4>4, Zenon DEF ExecveCommits, DestroyDirectory
    <3> QED BY <2>4, <2>5, <3>1, Zenon
  <2>6. CASE ~HeapFits(f)
    <3>1. proc' = proc /\ frames' = AbandonImage(new) /\ blocks' = blocks
      BY <1>3, <2>6, RequestFreed, Zenon DEF Execve
    <3>2. frames' = frames
      <4> HIDE DEF new
      <4>1. FramesOf(new) \cap frames = {}
        BY <2>1 DEF Private
      <4> QED BY <3>1, <4>1 DEF AbandonImage, DestroyDirectory
    <3>3. ExecveAbandons(f, new)
      BY <2>2, <2>3, <3>1, <3>2, Zenon DEF ExecveAbandons
    <3> QED BY <2>4, <3>3, Zenon
  <2> QED BY <2>5, <2>6
<1> QED BY <1>2, <1>3

LEMMA NewContentType ==
  ASSUME IInv, NEW f, NEW new
  PROVE  NewContent(f, new) \in [Frames -> Contents]
<1>1. content \in [Frames -> Contents]
  BY DEF IInv
<1>2. ASSUME NEW fr \in Frames PROVE NewContent(f, new)[fr] \in Contents
  <2>1. CASE fr \notin FramesOf(new)
    <3>1. NewContent(f, new)[fr] = content[fr]
      BY <2>1, Zenon DEF NewContent
    <3> QED BY <1>1, <3>1
  <2>2. CASE fr \in FramesOf(new)
    <3>1. NewContent(f, new)[fr] \in {"image", "args", "zero"}
      BY <2>2, Zenon DEF NewContent
    <3> QED BY <3>1 DEF Contents
  <2> QED BY <2>1, <2>2
<1>3. NewContent(f, new) = [fr \in Frames |-> NewContent(f, new)[fr]]
  BY Zenon DEF NewContent
<1> QED BY <1>2, <1>3

LEMMA ExecveIInv ==
  ASSUME IInv, NEW p \in Pids, NEW f \in Files, Execve(p, f)
  PROVE  IInv'
<1>1. CASE Panics
  BY <1>1, PanicIInv
<1>2. ASSUME NEW new, ExecveAbandons(f, new) PROVE IInv'
  <2>1. content' \in [Frames -> Contents]
    BY <1>2, NewContentType DEF ExecveAbandons, ImageBuilt
  <2> QED BY <1>2, <2>1, QuietIInv DEF ExecveAbandons, IInv
<1>3. ASSUME NEW new, ExecveCommits(p, f, new) PROVE IInv'
  <2> DEFINE t == proc[p]
             b == HeapStart(f)
             u == Replaced(t, new, b)
  <2>1. ProcOK(t) /\ t.state = "runnable"
    BY DEF IInv, Execve, Program, Runs
  <2>2. ImageBuilt(f, new)
    BY <1>3 DEF ExecveCommits
  <2>3. PagesOK(new) /\ Injective(new) /\ HeapPages(new, b, b)
        /\ \A x \in FramesOf(new) : x \in Frames /\ x \notin frames
    BY <2>2 DEF ImageBuilt, Private
  <2>4. b \in Nat /\ b <= HeapLimit /\ b % PageSize = 0
    BY <2>2, ImageBelowHeap DEF ImageBuilt, ImageBelow
  <2> HIDE DEF b
  <2>5. ProcOK(u) /\ HeapOK(u) /\ u.state = "runnable" /\ u.pages = new
    BY <2>1, <2>3, <2>4, ReplacedRecord
  <2>6. proc' = [proc EXCEPT ![p] = u] /\ next_pid' = next_pid /\ panic' = panic
        /\ frames' = (frames \cup FramesOf(new)) \ FramesOf(proc[p].pages)
        /\ blocks' = blocks + BlocksFor(DOMAIN new) - BlocksFor(DOMAIN proc[p].pages)
    BY <1>3, Zenon DEF ExecveCommits, b
  <2> HIDE DEF u
  <2>7. frames' = (frames \ FramesOf(proc[p].pages)) \cup FramesOf(u.pages)
        /\ \A x \in FramesOf(u.pages) : x \notin frames
    <3>1. FramesOf(proc[p].pages) \subseteq frames
      BY OwnedProcess DEF IInv
    <3> QED BY <2>3, <2>5, <2>6, <3>1
  <2>8. content' \in [Frames -> Contents] /\ next_pid' \in 2 .. MaxPid + 1
    BY <2>2, <2>6, NewContentType DEF ImageBuilt, IInv
  <2>9. \A r \in Pids : r >= next_pid' => proc'[r].state = "free"
    <3> TAKE r \in Pids
    <3> HAVE r >= next_pid'
    <3>1. proc[r].state = "free"
      BY <2>6 DEF IInv
    <3>2. r # p
      BY <2>1, <3>1
    <3> QED BY <2>6, <3>1, <3>2 DEF IInv
  <2>10. blocks' = blocks - BlocksHeld(proc[p]) + BlocksHeld(u)
    <3>1. BlocksHeld(proc[p]) = BlocksFor(DOMAIN proc[p].pages) /\ BlocksHeld(u) = BlocksFor(DOMAIN new)
      BY <2>1, <2>5 DEF BlocksHeld
    <3>2. BlocksFor(DOMAIN proc[p].pages) \in Nat /\ BlocksFor(DOMAIN new) \in Nat /\ blocks \in Nat
      BY <2>1, <2>3, BlocksForType, BlocksType DEF ProcOK, PagesOK
    <3> QED BY <2>6, <3>1, <3>2
  <2> QED BY <2>3, <2>5, <2>6, <2>7, <2>8, <2>9, <2>10, ReplaceIInv
<1> QED BY <1>1, <1>2, <1>3, ExecveSteps

-----------------------------------------------------------------------------
(* The invariants of the runs. *)

LEMMA NextIInv ==
  IInv /\ [Next]_vars => IInv'
<1> SUFFICES ASSUME IInv, [Next]_vars PROVE IInv'
  OBVIOUS
<1>1. CASE UNCHANGED vars
  <2>1. content' \in [Frames -> Contents]
    BY <1>1 DEF IInv, vars
  <2> QED BY <1>1, <2>1, QuietIInv DEF vars, IInv
<1>2. ASSUME NEW p \in Pids, Fork(p) PROVE IInv'
  BY <1>2, ForkIInv
<1>3. ASSUME NEW p \in Pids, Exit(p) PROVE IInv'
  BY <1>3, ExitIInv
<1>4. ASSUME NEW p \in Pids, NEW c \in Pids, Waitpid(p, c) PROVE IInv'
  BY <1>4, WaitpidIInv
<1>5. ASSUME NEW p \in Pids, NEW inc \in Increments, Sbrk(p, inc) PROVE IInv'
  BY <1>5, SbrkIInv
<1>6. ASSUME NEW p \in Pids, ExecveRefused(p) PROVE IInv'
  BY <1>6, ExecveRefusedIInv
<1>7. ASSUME NEW p \in Pids, NEW f \in Files, Execve(p, f) PROVE IInv'
  BY <1>7, ExecveIInv
<1>8. ASSUME NEW p \in Pids, NEW pg \in Pages, Write(p, pg) PROVE IInv'
  BY <1>8, WriteIInv
<1>9. ASSUME NEW p \in Pids, WriteKernel(p) PROVE IInv'
  BY <1>9, WriteKernelIInv
<1> QED BY <1>1, <1>2, <1>3, <1>4, <1>5, <1>6, <1>7, <1>8, <1>9 DEF Next

LEMMA AlwaysIInv ==
  Spec => []IInv
BY InitIInv, NextIInv, PTL DEF Spec

LEMMA IInvTypes ==
  IInv => TypeOK
<1> SUFFICES ASSUME IInv PROVE TypeOK
  OBVIOUS
<1>1. ASSUME NEW p \in Pids
      PROVE  /\ proc[p].state \in {"free", "runnable", "zombie"} /\ proc[p].parent_id \in 0 .. MaxPid
             /\ DOMAIN proc[p].pages \subseteq Pages
             /\ \A pg \in DOMAIN proc[p].pages :
                  proc[p].pages[pg] \in [frame : Frames, rw : BOOLEAN]
             /\ {proc[p].heap_start, proc[p].heap_break, proc[p].heap_mapped_end}
                  \subseteq 0 .. HeapLimit
  <2>1. ProcOK(proc[p])
    BY DEF IInv
  <2> QED BY <2>1, Zenon DEF ProcOK, PagesOK, PageEntry
<1>2. blocks \in Nat
  BY BlocksType
<1> QED BY <1>1, <1>2, Zenon DEF TypeOK, IInv

LEMMA IInvOwned ==
  IInv => FramesOwnedOnce
<1> SUFFICES ASSUME IInv PROVE FramesOwnedOnce
  OBVIOUS
<1> DEFINE owners == {o \in Pids \X Pages : o[2] \in DOMAIN proc[o[1]].pages}
           frame(o) == proc[o[1]].pages[o[2]].frame
<1>1. Owned(frames, proc)
  BY DEF IInv
<1>2. ASSUME NEW o \in owners
      PROVE  /\ o[1] \in Pids /\ o[2] \in DOMAIN proc[o[1]].pages /\ o = <<o[1], o[2]>>
             /\ frame(o) \in frames /\ frame(o) \notin KernelFrames
  <2>1. o \in Pids \X Pages /\ o[2] \in DOMAIN proc[o[1]].pages
    BY Zenon
  <2>2. o[1] \in Pids /\ o = <<o[1], o[2]>>
    BY <2>1
  <2> QED BY <1>1, <2>1, <2>2 DEF Owned
<1>3. ASSUME NEW f \in frames, f \notin KernelFrames PROVE \E o \in owners : f = frame(o)
  <2>1. PICK p \in Pids : f \in FramesOf(proc[p].pages)
    BY <1>1, <1>3 DEF Owned
  <2>2. PICK pg \in DOMAIN proc[p].pages : f = proc[p].pages[pg].frame
    BY <2>1 DEF FramesOf
  <2>3. pg \in Pages
    BY <2>2 DEF IInv, ProcOK, PagesOK
  <2>4. <<p, pg>> \in owners /\ frame(<<p, pg>>) = f
    BY <2>2, <2>3
  <2> QED BY <2>4
<1>4. frames = KernelFrames \cup {frame(o) : o \in owners}
  <2>1. KernelFrames \subseteq frames
    BY <1>1 DEF Owned
  <2> HIDE DEF owners
  <2>2. \A f : f \in frames <=> f \in KernelFrames \/ \E o \in owners : f = frame(o)
    BY <1>2, <1>3, <2>1
  <2> HIDE DEF frame
  <2> QED BY <2>2, Zenon
<1>5. ASSUME NEW o \in owners, NEW o2 \in owners, frame(o) = frame(o2) PROVE o = o2
  <2>1. o[1] = o2[1] /\ o[2] = o2[2]
    BY <1>1, <1>2, <1>5 DEF Owned
  <2> QED BY <1>2, <2>1
<1>6. \A o \in owners : frame(o) \notin KernelFrames
  BY <1>2
<1> QED BY <1>4, <1>5, <1>6, Zenon DEF FramesOwnedOnce

LEMMA IInvHeap ==
  IInv => HeapMapped
<1> SUFFICES ASSUME IInv PROVE HeapMapped
  OBVIOUS
<1>1. ASSUME NEW p \in Pids, proc[p].state # "free"
      PROVE  LET t == proc[p]
                 heap == {pg \in DOMAIN t.pages :
                            t.heap_start <= pg * PageSize /\ pg * PageSize < HeapLimit}
             IN  /\ t.heap_start <= t.heap_break /\ t.heap_break <= t.heap_mapped_end
                 /\ heap = t.heap_start \div PageSize .. t.heap_mapped_end \div PageSize - 1
                 /\ \A pg \in heap \cup StackPages : pg \in DOMAIN t.pages /\ t.pages[pg].rw
  <2>1. ProcOK(proc[p]) /\ HeapOK(proc[p])
    BY <1>1 DEF IInv
  <2> QED BY <2>1, HeapOKMapped, Zenon
<1> QED BY <1>1, Zenon DEF HeapMapped

(***************************************************************************)
(* Page tables name existing frames and pages, and no heap bound passes    *)
(* USER_HEAP_LIMIT, whatever the sizes and however long the system runs.   *)
(***************************************************************************)
THEOREM SpaceTypes == Spec => []TypeOK
BY AlwaysIInv, IInvTypes, PTL

(***************************************************************************)
(* The frame bitmap and the page tables agree: each frame in use is the    *)
(* kernel's or belongs to one page of one process.                         *)
(***************************************************************************)
THEOREM FramesExact == Spec => []FramesOwnedOnce
BY AlwaysIInv, IInvOwned, PTL

(***************************************************************************)
(* The kernel heap blocks held are those of the live and zombie processes: *)
(* fork, execve, sbrk and waitpid allocate and free the same ones.         *)
(***************************************************************************)
THEOREM BlocksExact == Spec => []BlocksAccounted
<1>1. IInv => BlocksAccounted
  BY Zenon DEF IInv, BlocksAccounted, Held
<1> QED BY <1>1, AlwaysIInv, PTL

(***************************************************************************)
(* The heap of every process is mapped, writable and contiguous up to its  *)
(* mapped end, and nothing else lies below USER_HEAP_LIMIT above it.       *)
(***************************************************************************)
THEOREM HeapsMapped == Spec => []HeapMapped
BY AlwaysIInv, IInvHeap, PTL

(***************************************************************************)
(* validate_elf() agrees with Loadable on every file of the comparison.    *)
(***************************************************************************)
THEOREM ElfChecked == Spec => []ElfCheckExact
<1>1. \A f \in Headers : ValidateElf(f) <=> Loadable(f)
  BY ValidateElfExact, HeadersAssumption
<1>2. ElfCheckExact
  BY <1>1, Zenon DEF ElfCheckExact
<1> QED BY <1>2, PTL

-----------------------------------------------------------------------------
(* What a call does to memory. *)

\* Every frame in use holds what it held.
ContentKept == \A f \in frames : content'[f] = content[f]

LEMMA ViewKept ==
  ASSUME IInv, NEW q \in Pids, ContentKept, NEW m, m = proc[q].pages
  PROVE  View(m, content') = View(m, content)
<1>1. \A pg \in DOMAIN m : m[pg].frame \in frames
  BY DEF IInv, Owned
<1>2. \A pg \in DOMAIN m : content'[m[pg].frame] = content[m[pg].frame]
  BY <1>1 DEF ContentKept
<1> QED BY <1>2 DEF View

LEMMA QuietKept ==
  ASSUME content' = content
  PROVE  ContentKept
BY DEF ContentKept

LEMMA ForkKept ==
  ASSUME IInv, NEW p \in Pids, NEW copy, ForkEffect(p, copy)
  PROVE  ContentKept
<1>1. ASSUME NEW f \in frames PROVE content'[f] = content[f]
  <2>1. f \in Frames
    BY DEF IInv
  <2>2. ~\E pg \in DOMAIN copy : copy[pg].frame = f
    BY DEF ForkEffect, Private, FramesOf
  <2> QED BY <2>1, <2>2 DEF ForkEffect
<1> QED BY <1>1 DEF ContentKept

LEMMA SbrkKept ==
  ASSUME IInv, NEW p \in Pids, NEW n, NEW S, NEW a, SbrkDone(p, n, S, a)
  PROVE  ContentKept
<1>1. ASSUME NEW f \in frames PROVE content'[f] = content[f]
  <2>1. f \in Frames
    BY DEF IInv
  <2>2. f \notin Range(a)
    BY DEF SbrkDone, Fresh, Range
  <2> QED BY <2>1, <2>2 DEF SbrkDone
<1> QED BY <1>1 DEF ContentKept

LEMMA ImageKept ==
  ASSUME IInv, NEW f, NEW new, ImageBuilt(f, new)
  PROVE  ContentKept
<1>1. ASSUME NEW fr \in frames PROVE content'[fr] = content[fr]
  <2>1. fr \in Frames
    BY DEF IInv
  <2>2. fr \notin FramesOf(new)
    BY DEF ImageBuilt, Private
  <2>3. content' = NewContent(f, new)
    BY DEF ImageBuilt
  <2> QED BY <2>1, <2>2, <2>3, Zenon DEF NewContent
<1> QED BY <1>1 DEF ContentKept

-----------------------------------------------------------------------------
(* Failed calls. *)

FailedStep ==
  ~last'.ok => /\ frames' = frames /\ proc' = proc /\ blocks' = blocks
               /\ \A p \in Pids :
                    View(proc[p].pages, content') = View(proc[p].pages, content)

LEMMA CallSucceeds ==
  ASSUME NEW p, Called(p, TRUE)
  PROVE  last'.ok /\ last'.pid = p
<1>1. last' = [pid |-> p, ok |-> TRUE]
  BY DEF Called
<1>2. last'.ok = TRUE /\ last'.pid = p
  BY <1>1
<1> QED BY <1>2, Zenon

LEMMA FailedQuiet ==
  ASSUME IInv, ContentKept, UNCHANGED <<frames, proc, blocks>>
  PROVE  FailedStep
<1>1. \A p \in Pids : View(proc[p].pages, content') = View(proc[p].pages, content)
  BY ViewKept
<1> QED BY <1>1, Zenon DEF FailedStep

LEMMA NextFailed ==
  ASSUME IInv, Next
  PROVE  FailedStep
<1>1. ASSUME NEW p \in Pids, Called(p, TRUE) PROVE FailedStep
  BY <1>1, CallSucceeds, Zenon DEF FailedStep
<1>2. ASSUME NEW p \in Pids, Fork(p) PROVE FailedStep
  BY <1>1, <1>2, Zenon DEF Fork
<1>3. ASSUME NEW p \in Pids, Exit(p) PROVE FailedStep
  BY <1>1, <1>3, Zenon DEF Exit
<1>4. ASSUME NEW p \in Pids, NEW c \in Pids, Waitpid(p, c) PROVE FailedStep
  BY <1>1, <1>4, Zenon DEF Waitpid
<1>5. ASSUME NEW p \in Pids, NEW inc \in Increments, Sbrk(p, inc) PROVE FailedStep
  <2>1. CASE UNCHANGED <<frames, content, proc, next_pid, blocks, panic>>
    BY <2>1, QuietKept, FailedQuiet
  <2>2. CASE last'.ok
    BY <2>2, Zenon DEF FailedStep
  <2> QED BY <1>5, <2>1, <2>2, SbrkSteps
<1>6. ASSUME NEW p \in Pids, ExecveRefused(p) PROVE FailedStep
  <2>1. UNCHANGED <<frames, content, proc, blocks>>
    BY <1>6, RequestFreed DEF ExecveRefused
  <2> QED BY <2>1, QuietKept, FailedQuiet
<1>7. ASSUME NEW p \in Pids, NEW f \in Files, Execve(p, f) PROVE FailedStep
  <2>1. ASSUME NEW new, ExecveAbandons(f, new) PROVE FailedStep
    <3>1. ImageBuilt(f, new) /\ UNCHANGED <<frames, proc, blocks>>
      BY <2>1 DEF ExecveAbandons
    <3> QED BY <3>1, ImageKept, FailedQuiet
  <2>2. CASE last'.ok
    BY <2>2, Zenon DEF FailedStep
  <2> QED BY <1>7, <2>1, <2>2, ExecveSteps
<1>8. ASSUME NEW p \in Pids, NEW pg \in Pages, Write(p, pg) PROVE FailedStep
  BY <1>1, <1>8, Zenon DEF Write
<1>9. ASSUME NEW p \in Pids, WriteKernel(p) PROVE FailedStep
  BY <1>1, <1>9, Zenon DEF WriteKernel
<1> QED BY <1>2, <1>3, <1>4, <1>5, <1>6, <1>7, <1>8, <1>9 DEF Next

(***************************************************************************)
(* A call that fails leaves the process, the bitmap and the contents of    *)
(* every process's memory as they were: process_execve() keeps the running *)
(* image until the new one is complete.                                    *)
(***************************************************************************)
THEOREM FailuresHarmless == Spec => FailedCallsChangeNothing
<1>1. IInv /\ [Next]_vars => [FailedStep]_vars
  BY NextFailed
<1> QED BY <1>1, AlwaysIInv, PTL DEF Spec, FailedCallsChangeNothing, FailedStep

-----------------------------------------------------------------------------
(* Private pages. *)

Others(p) ==
  \A q \in Pids : q # p /\ proc[q].state # "free" /\ proc'[q].state # "free"
    => View(proc'[q].pages, content') = View(proc[q].pages, content)

LEMMA OthersKept ==
  ASSUME IInv, ContentKept, NEW p \in Pids,
         \A q \in Pids : q # p /\ proc[q].state # "free" /\ proc'[q].state # "free"
           => proc'[q] = proc[q]
  PROVE  Others(p)
<1>1. ASSUME NEW q \in Pids, q # p, proc[q].state # "free", proc'[q].state # "free"
      PROVE  View(proc'[q].pages, content') = View(proc[q].pages, content)
  <2>1. proc'[q].pages = proc[q].pages
    BY <1>1
  <2>2. View(proc[q].pages, content') = View(proc[q].pages, content)
    BY ViewKept
  <2> QED BY <2>1, <2>2, Zenon
<1> QED BY <1>1, Zenon DEF Others

LEMMA PanicOthers ==
  ASSUME IInv, Panics, NEW p \in Pids
  PROVE  Others(p)
BY QuietKept, OthersKept DEF Panics

LEMMA ForkOthers ==
  ASSUME IInv, NEW p \in Pids, Fork(p)
  PROVE  Others(p) /\ last'.pid = p
<1>1. last'.pid = p
  BY CallSucceeds DEF Fork
<1>2. ASSUME NEW copy, ForkEffect(p, copy) PROVE Others(p)
  <2>1. proc = [r \in Pids |-> proc[r]] /\ next_pid \in Pids /\ proc[next_pid].state = "free"
    BY <1>2 DEF IInv, ForkEffect
  <2> DEFINE u == Child(proc[p], p, copy)
  <2>2. proc' = [proc EXCEPT ![next_pid] = u]
    BY <1>2 DEF ForkEffect
  <2> HIDE DEF u
  <2>3. \A q \in Pids : q # p /\ proc[q].state # "free" /\ proc'[q].state # "free"
          => proc'[q] = proc[q]
    BY <2>1, <2>2
  <2> QED BY <1>2, <2>3, ForkKept, OthersKept
<1> QED BY <1>1, <1>2, ForkSteps, PanicOthers

LEMMA ExitOthers ==
  ASSUME IInv, NEW p \in Pids, Exit(p)
  PROVE  Others(p) /\ last'.pid = p
<1>1. last'.pid = p
  BY CallSucceeds DEF Exit
<1>2. \A q \in Pids : q # p => proc'[q] = proc[q]
  BY DEF Exit, IInv
<1>3. ContentKept
  BY QuietKept DEF Exit
<1> QED BY <1>1, <1>2, <1>3, OthersKept

LEMMA WaitpidOthers ==
  ASSUME IInv, NEW p \in Pids, NEW c \in Pids, Waitpid(p, c)
  PROVE  Others(p) /\ last'.pid = p
<1>1. last'.pid = p
  BY CallSucceeds DEF Waitpid
<1>2. \A q \in Pids : proc'[q].state # "free" => proc'[q] = proc[q]
  BY NoProcOK DEF Waitpid, IInv
<1>3. ContentKept
  BY QuietKept DEF Waitpid
<1> QED BY <1>1, <1>2, <1>3, OthersKept

LEMMA SbrkOthers ==
  ASSUME IInv, NEW p \in Pids, NEW inc \in Increments, Sbrk(p, inc)
  PROVE  Others(p) /\ last'.pid = p
<1>1. CASE UNCHANGED <<frames, content, proc, next_pid, blocks, panic>>
  BY <1>1, QuietKept, OthersKept, SbrkSteps
<1>2. CASE Panics
  BY <1>2, PanicOthers, SbrkSteps
<1>3. ASSUME NEW n, NEW S, NEW a, SbrkDone(p, n, S, a) PROVE Others(p)
  <2> DEFINE u == Grown(proc[p], AddPages(proc[p].pages, S, a), MappedEnd(proc[p], AlignUp(n)), n)
  <2>1. proc' = [proc EXCEPT ![p] = u] /\ proc = [r \in Pids |-> proc[r]]
    BY <1>3 DEF SbrkDone, IInv
  <2> HIDE DEF u
  <2>2. \A q \in Pids : q # p => proc'[q] = proc[q]
    BY <2>1
  <2> QED BY <1>3, <2>2, SbrkKept, OthersKept
<1> QED BY <1>1, <1>2, <1>3, SbrkSteps

LEMMA ExecveOthers ==
  ASSUME IInv, NEW p \in Pids, NEW f \in Files, Execve(p, f)
  PROVE  Others(p) /\ last'.pid = p
<1>1. CASE Panics
  BY <1>1, PanicOthers, ExecveSteps
<1>2. ASSUME NEW new, ExecveAbandons(f, new) PROVE Others(p)
  <2>1. proc' = proc /\ ImageBuilt(f, new)
    BY <1>2 DEF ExecveAbandons
  <2> QED BY <2>1, ImageKept, OthersKept
<1>3. ASSUME NEW new, ExecveCommits(p, f, new) PROVE Others(p)
  <2> DEFINE u == Replaced(proc[p], new, HeapStart(f))
  <2>1. proc' = [proc EXCEPT ![p] = u] /\ proc = [r \in Pids |-> proc[r]] /\ ImageBuilt(f, new)
    BY <1>3 DEF ExecveCommits, IInv
  <2> HIDE DEF u
  <2>2. \A q \in Pids : q # p => proc'[q] = proc[q]
    BY <2>1
  <2> QED BY <2>1, <2>2, ImageKept, OthersKept
<1> QED BY <1>1, <1>2, <1>3, ExecveSteps

\* A store goes to a frame of the process that makes it, and that is no other's.
LEMMA WriteOthers ==
  ASSUME IInv, NEW p \in Pids, NEW pg \in Pages, Write(p, pg)
  PROVE  Others(p) /\ last'.pid = p
<1>1. last'.pid = p
  BY CallSucceeds DEF Write
<1>2. proc' = proc /\ pg \in DOMAIN proc[p].pages
      /\ content' = [content EXCEPT ![proc[p].pages[pg].frame] = "data"]
  BY DEF Write
<1>3. ASSUME NEW q \in Pids, q # p
      PROVE  View(proc'[q].pages, content') = View(proc[q].pages, content)
  <2> DEFINE m == proc[q].pages
             x == proc[p].pages[pg].frame
  <2>1. \A g \in DOMAIN m : m[g].frame # x
    BY <1>2, <1>3 DEF IInv, Owned
  <2>2. \A g \in DOMAIN m : m[g].frame \in Frames
    BY ProcFields DEF IInv
  <2>3. content = [f \in Frames |-> content[f]]
    BY DEF IInv
  <2> HIDE DEF m, x
  <2>4. content' = [content EXCEPT ![x] = "data"] /\ proc'[q].pages = m
    BY <1>2 DEF m, x
  <2>5. \A g \in DOMAIN m : content'[m[g].frame] = content[m[g].frame]
    BY <2>1, <2>2, <2>3, <2>4
  <2>6. View(m, content') = View(m, content)
    BY <2>5 DEF View
  <2> QED BY <2>4, <2>6, Zenon DEF m
<1> QED BY <1>1, <1>3, Zenon DEF Others

LEMMA NextOthers ==
  ASSUME IInv, Next, panic' # "overwritten"
  PROVE  Others(last'.pid) /\ last'.pid \in Pids
<1>1. ASSUME NEW p \in Pids, Others(p), last'.pid = p
      PROVE  Others(last'.pid) /\ last'.pid \in Pids
  BY <1>1, Zenon
<1>2. PICK p \in Pids :
        \/ Fork(p) \/ Exit(p) \/ ExecveRefused(p)
        \/ \E c \in Pids : Waitpid(p, c)
        \/ \E inc \in Increments : Sbrk(p, inc)
        \/ \E f \in Files : Execve(p, f)
        \/ \E pg \in Pages : Write(p, pg)
  BY Zenon DEF Next, WriteKernel
<1>3. ASSUME ExecveRefused(p) PROVE Others(p) /\ last'.pid = p
  <2>1. last' = [pid |-> p, ok |-> FALSE] /\ proc' = proc /\ content' = content
    BY <1>3 DEF ExecveRefused, Called
  <2>2. last'.pid = p
    BY <2>1
  <2>3. Others(p)
    BY <2>1, QuietKept, OthersKept
  <2> QED BY <2>2, <2>3
<1>4. Others(p) /\ last'.pid = p
  BY <1>2, <1>3, ForkOthers, ExitOthers, WaitpidOthers, SbrkOthers, ExecveOthers, WriteOthers
<1> QED BY <1>1, <1>4

(***************************************************************************)
(* Private pages are private: neither a call of one process nor a store to *)
(* its own pages changes what another one sees in its pages, for every     *)
(* memory size, program and sequence of calls, as long as no process has   *)
(* stored through the kernel mappings that ring 3 can write.               *)
(***************************************************************************)
THEOREM PrivatePages == Spec => PrivatePagesKept
<1>1. IInv /\ [Next]_vars => [panic' = "overwritten" \/ Others(last'.pid)]_vars
  BY NextOthers
<1> QED BY <1>1, AlwaysIInv, PTL DEF Spec, PrivatePagesKept, Others

-----------------------------------------------------------------------------
(* Fresh memory. *)

\* The pages of p that are new, or have a new frame.
Got(p) ==
  {pg \in DOMAIN proc'[p].pages :
     \/ pg \notin DOMAIN proc[p].pages
     \/ proc'[p].pages[pg].frame # proc[p].pages[pg].frame}

FreshStep(p) ==
  /\ \A pg \in Got(p) :
       \/ content'[proc'[p].pages[pg].frame] = "zero"
       \/ content'[proc'[p].pages[pg].frame] = "image" /\ pg * PageSize < proc'[p].heap_start
       \/ content'[proc'[p].pages[pg].frame] = "args" /\ pg = ArgumentPage
  /\ next_pid' # next_pid
       => View(proc'[next_pid].pages, content') = View(proc[p].pages, content)

LEMMA FreshQuiet ==
  ASSUME NEW p \in Pids, proc'[p].pages = proc[p].pages, next_pid' = next_pid
  PROVE  FreshStep(p)
<1>1. Got(p) = {}
  BY DEF Got
<1> QED BY <1>1 DEF FreshStep

LEMMA ForkFresh ==
  ASSUME IInv, NEW p \in Pids, proc[p].state = "runnable", NEW copy, ForkEffect(p, copy)
  PROVE  FreshStep(p)
<1> DEFINE u == Child(proc[p], p, copy)
           old == proc[p].pages
<1>1. /\ next_pid \in Pids /\ next_pid # p /\ Injective(copy) /\ DOMAIN copy = DOMAIN old
      /\ Private(copy, frames)
      /\ \A f \in FramesOf(copy) : f \in Frames
  BY DEF ForkEffect, Private
<1>2. proc' = [proc EXCEPT ![next_pid] = u] /\ proc = [r \in Pids |-> proc[r]]
  BY DEF ForkEffect, IInv
<1>3. u.pages = copy
  <2>1. ProcOK(proc[p]) /\ HeapOK(proc[p]) /\ \A pg \in DOMAIN copy : copy[pg].rw = old[pg].rw
    BY DEF IInv, ForkEffect
  <2> QED BY <1>1, <2>1, ForkRecord
<1> HIDE DEF u
<1>4. proc'[p] = proc[p] /\ proc'[next_pid].pages = copy
  BY <1>1, <1>2, <1>3
<1>5. Got(p) = {}
  BY <1>4 DEF Got
<1>6. ASSUME NEW pg \in DOMAIN copy PROVE content'[copy[pg].frame] = content[old[pg].frame]
  <2> DEFINE x == copy[pg].frame
             g == CHOOSE h \in DOMAIN copy : copy[h].frame = x
  <2>1. x \in Frames /\ \E h \in DOMAIN copy : copy[h].frame = x
    BY <1>1 DEF FramesOf
  <2>2. content'[x] = content[old[g].frame]
    BY <2>1, Zenon DEF ForkEffect
  <2>3. g \in DOMAIN copy /\ copy[g].frame = x
    BY <2>1, Zenon
  <2>4. g = pg
    BY <1>1, <2>3 DEF Injective
  <2> QED BY <2>2, <2>4, Zenon
<1>7. View(copy, content') = View(old, content)
  BY <1>1, <1>6 DEF View
<1> QED BY <1>4, <1>5, <1>7 DEF FreshStep

LEMMA GrownPages ==
  ASSUME NEW t, t = Fields(t), NEW m, NEW e, NEW n, NEW u, u = Grown(t, m, e, n)
  PROVE  u.pages = m
<1> DEFINE s == t.state
           o == t.parent_id
           g == t.pages
           b == t.heap_start
           c == t.heap_break
           d == t.heap_mapped_end
<1>1. t = [state |-> s, parent_id |-> o, pages |-> g, heap_start |-> b,
           heap_break |-> c, heap_mapped_end |-> d]
  BY DEF Fields
<1> HIDE DEF s, o, g, b, c, d
<1>2. u = [state |-> s, parent_id |-> o, pages |-> m, heap_start |-> b,
           heap_break |-> n, heap_mapped_end |-> e]
  BY <1>1 DEF Grown
<1> QED BY <1>2

LEMMA SbrkFresh ==
  ASSUME IInv, NEW p \in Pids, proc[p].state = "runnable",
         NEW n, NEW S, NEW a, SbrkDone(p, n, S, a)
  PROVE  FreshStep(p)
<1> DEFINE t == proc[p]
           m == t.pages
           w == AddPages(m, S, a)
           u == Grown(t, w, MappedEnd(t, AlignUp(n)), n)
<1>1. ProcOK(t) /\ HeapOK(t) /\ PagesOK(m) /\ t = Fields(t)
  BY DEF IInv, ProcOK
<1>2. Fresh(a, S, frames) /\ next_pid' = next_pid
      /\ content' = [f \in Frames |-> IF f \in Range(a) THEN "zero" ELSE content[f]]
  BY DEF SbrkDone
<1>3. proc' = [proc EXCEPT ![p] = u] /\ proc = [r \in Pids |-> proc[r]]
  BY DEF SbrkDone, IInv
<1>4. u.pages = w
  <2> HIDE DEF t, w
  <2> QED BY <1>1, GrownPages
<1> HIDE DEF u
<1>5. proc'[p].pages = w
  BY <1>3, <1>4
<1>6. DOMAIN w = S \cup DOMAIN m /\ \A pg \in S \cup DOMAIN m :
        w[pg] = IF pg \in S THEN [frame |-> a[pg], rw |-> TRUE] ELSE m[pg]
  BY DEF AddPages
<1> HIDE DEF w
<1>7. ASSUME NEW pg \in Got(p) PROVE content'[w[pg].frame] = "zero"
  <2>1. pg \in DOMAIN w /\ (pg \notin DOMAIN m \/ w[pg].frame # m[pg].frame)
    BY <1>5 DEF Got
  <2>2. pg \in S
    BY <1>6, <2>1
  <2>3. w[pg].frame = a[pg]
    <3>1. w[pg] = [frame |-> a[pg], rw |-> TRUE]
      BY <1>6, <2>2, Zenon
    <3> QED BY <3>1
  <2>4. a[pg] \in Frames /\ a[pg] \in Range(a)
    BY <1>2, <2>2 DEF Fresh, Range
  <2> QED BY <1>2, <2>3, <2>4
<1> QED BY <1>2, <1>5, <1>7 DEF FreshStep

LEMMA ExecveFresh ==
  ASSUME IInv, NEW p \in Pids, proc[p].state = "runnable",
         NEW f, NEW new, ExecveCommits(p, f, new)
  PROVE  FreshStep(p)
<1> DEFINE b == HeapStart(f)
           u == Replaced(proc[p], new, b)
<1>1. ImageBuilt(f, new) /\ next_pid' = next_pid
  BY DEF ExecveCommits
<1>2. /\ PagesOK(new) /\ Injective(new) /\ HeapPages(new, b, b)
      /\ DOMAIN new = ImagePages(f) \cup StackPages /\ content' = NewContent(f, new)
      /\ \A x \in FramesOf(new) : x \in Frames
  BY <1>1 DEF ImageBuilt, Private
<1>3. ImageBelow(f)
  BY <1>1, ImageBelowHeap DEF ImageBuilt
<1>4. u.pages = new /\ u.heap_start = b
  <2>1. ProcOK(proc[p]) /\ b \in Nat /\ b <= HeapLimit /\ b % PageSize = 0
    BY <1>3 DEF IInv, ImageBelow
  <2> HIDE DEF b
  <2> QED BY <1>2, <2>1, ReplacedRecord
<1>5. proc' = [proc EXCEPT ![p] = u] /\ proc = [r \in Pids |-> proc[r]]
  BY DEF ExecveCommits, IInv
<1> HIDE DEF u
<1>6. proc'[p].pages = new /\ proc'[p].heap_start = b
  BY <1>4, <1>5
<1>7. ASSUME NEW pg \in DOMAIN new
      PROVE  content'[new[pg].frame] =
               IF pg \in ImagePages(f) /\ HasFileBytes(SegmentOf(f, pg), pg)
               THEN "image" ELSE IF pg = ArgumentPage THEN "args" ELSE "zero"
  <2> DEFINE x == new[pg].frame
             g == CHOOSE h \in DOMAIN new : new[h].frame = x
  <2>1. x \in FramesOf(new) /\ x \in Frames /\ \E h \in DOMAIN new : new[h].frame = x
    BY <1>2 DEF FramesOf
  <2>2. content'[x] = IF g \in ImagePages(f) /\ HasFileBytes(SegmentOf(f, g), g)
                      THEN "image" ELSE IF g = ArgumentPage THEN "args" ELSE "zero"
    BY <1>2, <2>1, Zenon DEF NewContent
  <2>3. g \in DOMAIN new /\ new[g].frame = x
    BY <2>1, Zenon
  <2>4. g = pg
    BY <1>2, <2>3 DEF Injective
  <2> QED BY <2>2, <2>4, Zenon
<1>8. ASSUME NEW pg \in Got(p)
      PROVE  \/ content'[new[pg].frame] = "zero"
             \/ content'[new[pg].frame] = "image" /\ pg * PageSize < b
             \/ content'[new[pg].frame] = "args" /\ pg = ArgumentPage
  <2>1. pg \in DOMAIN new
    BY <1>6 DEF Got
  <2>2. ASSUME pg \in ImagePages(f) PROVE pg * PageSize < b
    <3>1. pg \in Pages
      BY <1>2, <2>1 DEF PagesOK
    <3> QED BY <1>3, <2>2, <3>1 DEF ImageBelow
  <2> QED BY <1>7, <2>1, <2>2, Zenon
<1> QED BY <1>1, <1>6, <1>8 DEF FreshStep

LEMMA NextFresh ==
  ASSUME IInv, Next, panic' = "none"
  PROVE  FreshStep(last'.pid)
<1>0. ~Panics
  BY DEF Panics
<1>1. PICK p \in Pids :
        \/ Fork(p) \/ Exit(p) \/ ExecveRefused(p)
        \/ \E c \in Pids : Waitpid(p, c)
        \/ \E inc \in Increments : Sbrk(p, inc)
        \/ \E f \in Files : Execve(p, f)
        \/ \E pg \in Pages : Write(p, pg)
  BY Zenon DEF Next, WriteKernel
<1>2. last'.pid = p
  <2>1. ASSUME ExecveRefused(p) PROVE last'.pid = p
    <3>1. last' = [pid |-> p, ok |-> FALSE]
      BY <2>1 DEF ExecveRefused, Called
    <3> QED BY <3>1
  <2> QED BY <1>1, <2>1, ForkOthers, ExitOthers, WaitpidOthers, SbrkOthers, ExecveOthers, WriteOthers
<1>3. proc[p].state = "runnable"
  BY <1>1 DEF Fork, Exit, ExecveRefused, Waitpid, Sbrk, Execve, Write, Program, Runs
<1>4. ASSUME Fork(p) PROVE FreshStep(p)
  BY <1>0, <1>3, <1>4, ForkSteps, ForkFresh
<1>5. ASSUME Exit(p) PROVE FreshStep(p)
  <2>1. proc' = [proc EXCEPT ![p].state = "zombie"] /\ next_pid' = next_pid
        /\ proc = [r \in Pids |-> proc[r]] /\ proc[p] = Fields(proc[p])
    BY <1>5 DEF Exit, IInv, ProcOK
  <2>2. proc'[p].pages = proc[p].pages
    BY <2>1 DEF Fields
  <2> QED BY <2>1, <2>2, FreshQuiet
<1>6. ASSUME ExecveRefused(p) PROVE FreshStep(p)
  BY <1>6, FreshQuiet DEF ExecveRefused
<1>7. ASSUME NEW c \in Pids, Waitpid(p, c) PROVE FreshStep(p)
  <2>1. proc[c].state = "zombie" /\ proc' = [proc EXCEPT ![c] = NoProc] /\ next_pid' = next_pid
    BY <1>7 DEF Waitpid
  <2>2. proc'[p] = proc[p]
    BY <1>3, <2>1 DEF IInv
  <2> QED BY <2>1, <2>2, FreshQuiet
<1>8. ASSUME NEW inc \in Increments, Sbrk(p, inc) PROVE FreshStep(p)
  <2>1. CASE UNCHANGED <<frames, content, proc, next_pid, blocks, panic>>
    BY <2>1, FreshQuiet
  <2>2. ASSUME NEW n, NEW S, NEW a, SbrkDone(p, n, S, a) PROVE FreshStep(p)
    BY <1>3, <2>2, SbrkFresh
  <2> QED BY <1>0, <1>8, <2>1, <2>2, SbrkSteps
<1>9. ASSUME NEW f \in Files, Execve(p, f) PROVE FreshStep(p)
  <2>1. ASSUME NEW new, ExecveCommits(p, f, new) PROVE FreshStep(p)
    BY <1>3, <2>1, ExecveFresh
  <2>2. ASSUME NEW new, ExecveAbandons(f, new) PROVE FreshStep(p)
    BY <2>2, FreshQuiet DEF ExecveAbandons
  <2> QED BY <1>0, <1>9, <2>1, <2>2, ExecveSteps
<1>10. ASSUME NEW pg \in Pages, Write(p, pg) PROVE FreshStep(p)
  BY <1>10, FreshQuiet DEF Write
<1> QED BY <1>1, <1>2, <1>4, <1>5, <1>6, <1>7, <1>8, <1>9, <1>10

\* The step as FreshMemory writes it.
FreshCall ==
  panic' = "none" =>
     LET p      == last'.pid
         before == View(proc[p].pages, content)
         after  == View(proc'[p].pages, content')
         got    == {pg \in DOMAIN after : pg \notin DOMAIN before
                      \/ proc'[p].pages[pg].frame # proc[p].pages[pg].frame}
     IN  /\ \A pg \in got : \/ after[pg] = "zero"
                            \/ after[pg] = "image" /\ pg * PageSize < proc'[p].heap_start
                            \/ after[pg] = "args" /\ pg = ArgumentPage
         /\ next_pid' # next_pid => View(proc'[next_pid].pages, content') = before

LEMMA FreshStepCall ==
  ASSUME NEW p, last'.pid = p, FreshStep(p)
  PROVE  FreshCall
<1> DEFINE before == View(proc[p].pages, content)
           after  == View(proc'[p].pages, content')
           got    == {pg \in DOMAIN after : pg \notin DOMAIN before
                        \/ proc'[p].pages[pg].frame # proc[p].pages[pg].frame}
<1>1. DOMAIN before = DOMAIN proc[p].pages /\ DOMAIN after = DOMAIN proc'[p].pages
      /\ \A pg \in DOMAIN after : after[pg] = content'[proc'[p].pages[pg].frame]
  BY DEF View
<1> HIDE DEF after, before
<1>2. got = Got(p)
  BY <1>1 DEF Got
<1>3. \A pg \in got : pg \in DOMAIN after
  BY Zenon
<1> HIDE DEF got
<1>4. \A pg \in got : \/ after[pg] = "zero"
                      \/ after[pg] = "image" /\ pg * PageSize < proc'[p].heap_start
                      \/ after[pg] = "args" /\ pg = ArgumentPage
  BY <1>1, <1>2, <1>3, Zenon DEF FreshStep
<1>5. next_pid' # next_pid => View(proc'[next_pid].pages, content') = before
  BY Zenon DEF FreshStep, before
<1> QED BY <1>4, <1>5, Zenon DEF FreshCall, got, after, before

(***************************************************************************)
(* No call hands a process memory with another's data in it: new pages     *)
(* hold file bytes below the heap, the process's own arguments at the top  *)
(* of its stack, or zeros, and a forked child starts with exactly what its *)
(* parent saw.                                                             *)
(***************************************************************************)
THEOREM MemoryFresh == Spec => FreshMemory
<1>1. IInv /\ [Next]_vars => [FreshCall]_vars
  <2>1. ASSUME IInv, Next PROVE FreshCall
    <3>1. CASE panic' = "none"
      BY <2>1, <3>1, NextFresh, FreshStepCall
    <3>2. CASE panic' # "none"
      BY <3>2, Zenon DEF FreshCall
    <3> QED BY <3>1, <3>2
  <2> QED BY <2>1
<1> QED BY <1>1, AlwaysIInv, PTL DEF Spec, FreshMemory, FreshCall
=============================================================================
