--------------------------- MODULE FileTreeProofs ---------------------------
(***************************************************************************)
(* The node tree of fs.c and initrd.c and the mounting of the archive, for *)
(* every tree, path and archive.                                           *)
(*                                                                         *)
(* What a walk along a path or along the headers computes is proved by     *)
(* induction on its length.  An induction is on a set, of the positions up *)
(* to which the fact holds, so it is a first-order theorem.                *)
(***************************************************************************)
EXTENDS Initrd, TLAPS, SequenceTheorems, WellFoundedInduction

-----------------------------------------------------------------------------
(* Numbers: least elements, induction and iteration. *)

LEMMA LeastNumber ==
  ASSUME NEW S, S \subseteq Nat, S # {}
  PROVE  \E x \in S : \A y \in S : x <= y
<1>1. PICK x \in S : \A y \in S : ~(<<y, x>> \in OpToRel(<, Nat))
  BY NatLessThanWellFounded, WFMin, Zenon
<1>2. ASSUME NEW y \in S PROVE x <= y
  <2>1. <<y, x>> \in OpToRel(<, Nat) <=> y < x
    BY DEF OpToRel
  <2>2. ~(y < x)
    BY <1>1, <2>1, Zenon
  <2> QED BY <2>2
<1> QED BY <1>2

LEMMA MinOfNat ==
  ASSUME NEW S, S \subseteq Nat, S # {}
  PROVE  Min(S) \in S /\ \A y \in S : Min(S) <= y
BY LeastNumber DEF Min

\* What holds at 0 and is kept from k - 1 to k holds up to n.
LEMMA Induction ==
  ASSUME NEW n \in Nat, NEW G, 0 \in G,
         \A k \in 1 .. n : k - 1 \in G => k \in G
  PROVE  \A k \in 0 .. n : k \in G
<1> DEFINE B == {k \in 0 .. n : k \notin G}
<1>1. SUFFICES ASSUME B # {} PROVE FALSE
  OBVIOUS
<1>2. B \subseteq Nat
  OBVIOUS
<1>3. PICK x \in B : \A y \in B : x <= y
  <2> HIDE DEF B
  <2> QED BY <1>1, <1>2, LeastNumber
<1>4. x \in 1 .. n /\ x \notin G
  BY <1>3
<1>5. x - 1 \in 0 .. n /\ x - 1 \notin B
  BY <1>3, <1>4
<1> QED BY <1>4, <1>5

Iterates(f, S, s0, n, step) ==
  f \in [0 .. n -> S] /\ f[0] = s0 /\ \A k \in 1 .. n : f[k] = step[<<f[k - 1], k>>]

\* A step function on S can be iterated n times.
LEMMA Iteration ==
  ASSUME NEW S, NEW s0 \in S, NEW n \in Nat, NEW step \in [S \X (1 .. n) -> S]
  PROVE  \E f : Iterates(f, S, s0, n, step)
<1> DEFINE Ok(f, m) == f[0] = s0 /\ \A k \in 1 .. m : f[k] = step[<<f[k - 1], k>>]
           G == {m \in 0 .. n : \E f \in [0 .. m -> S] : Ok(f, m)}
<1>1. 0 \in G
  <2> DEFINE f == [k \in 0 .. 0 |-> s0]
  <2>1. f \in [0 .. 0 -> S] /\ Ok(f, 0)
    OBVIOUS
  <2> HIDE DEF f
  <2> QED BY <2>1
<1>2. ASSUME NEW m \in 1 .. n, m - 1 \in G PROVE m \in G
  <2>1. PICK f \in [0 .. m - 1 -> S] : Ok(f, m - 1)
    BY <1>2
  <2> DEFINE v == step[<<f[m - 1], m>>]
             g == [k \in 0 .. m |-> IF k = m THEN v ELSE f[k]]
  <2>2. f[m - 1] \in S /\ v \in S
    OBVIOUS
  <2>3. /\ g \in [0 .. m -> S] /\ g[m] = v
        /\ \A k \in 0 .. m - 1 : g[k] = f[k]
    <3> HIDE DEF v
    <3> QED BY <2>2
  <2>4. g[0] = s0
    BY <2>1, <2>3
  <2>5. ASSUME NEW k \in 1 .. m PROVE g[k] = step[<<g[k - 1], k>>]
    <3>1. g[k - 1] = f[k - 1] /\ k \in 1 .. n
      BY <2>3
    <3>2. CASE k = m
      <4> HIDE DEF g
      <4> QED BY <2>3, <3>1, <3>2
    <3>3. CASE k # m
      <4>1. k \in 1 .. m - 1 /\ k \in 0 .. m - 1
        BY <3>3
      <4> HIDE DEF g, v
      <4> QED BY <4>1, <2>1, <2>3, <3>1
    <3> QED BY <3>2, <3>3
  <2> HIDE DEF g
  <2>6. Ok(g, m)
    BY <2>4, <2>5
  <2> QED BY <2>3, <2>6
<1>3. \A k \in 0 .. n : k \in G
  <2> HIDE DEF G
  <2> QED BY <1>1, <1>2, Induction
<1>4. \E f \in [0 .. n -> S] : Ok(f, n)
  BY <1>3, SMTT(30)
<1> QED BY <1>4 DEF Iterates

-----------------------------------------------------------------------------
(* Well-formed trees. *)

Types == {"directory", "regular"}

Names == STRING \cup {"initrd", Dev, Empty}

Nodes ==
  [name : Names, type : Types, parent : Nat, kids : Seq(Nat), inode : Nat, length : Nat]

Reserved == {Dot, DotDot, Empty, Long}

\* Every node but the root is in the list of its parent, an older directory.
Linked(t) ==
  \A n \in 2 .. Len(t) :
    /\ t[n].parent \in 1 .. n - 1
    /\ t[t[n].parent].type = "directory"
    /\ \E i \in 1 .. Len(t[t[n].parent].kids) : t[t[n].parent].kids[i] = n
    /\ t[n].name \notin Reserved

\* A list holds nodes of its directory.
ListsOwn(t) ==
  \A d \in 1 .. Len(t) : \A i \in 1 .. Len(t[d].kids) :
    t[d].kids[i] \in 2 .. Len(t) /\ t[t[d].kids[i]].parent = d

\* No two of them have the same name.
NamesUnique(t) ==
  \A d \in 1 .. Len(t) : \A i, j \in 1 .. Len(t[d].kids) :
    t[t[d].kids[i]].name = t[t[d].kids[j]].name => i = j

WellFormed(t) ==
  /\ t \in Seq(Nodes) /\ Len(t) >= 1
  /\ t[Root].parent = Null /\ t[Root].type = "directory"
  /\ Linked(t) /\ ListsOwn(t) /\ NamesUnique(t)

LEMMA NodeType ==
  ASSUME NEW t \in Seq(Nodes), NEW n \in 1 .. Len(t)
  PROVE  /\ t[n] \in Nodes /\ t[n].name \in Names /\ t[n].type \in Types
         /\ t[n].parent \in Nat /\ t[n].kids \in Seq(Nat)
         /\ t[n].inode \in Nat /\ t[n].length \in Nat /\ Len(t[n].kids) \in Nat
         /\ \A i \in 1 .. Len(t[n].kids) : t[n].kids[i] \in Nat
<1>1. t[n] \in Nodes
  BY ElementOfSeq
<1>2. t[n].kids \in Seq(Nat)
  BY <1>1 DEF Nodes
<1>3. Len(t[n].kids) \in Nat /\ \A i \in 1 .. Len(t[n].kids) : t[n].kids[i] \in Nat
  BY <1>2, ElementOfSeq, LenProperties
<1> QED BY <1>1, <1>2, <1>3 DEF Nodes

\* What attach_child() changes, as facts about the old and the new tree.
Attached(t, u, parent, node) ==
  /\ u \in Seq(Nodes) /\ Len(u) = Len(t) + 1
  /\ \A n \in 1 .. Len(t) :
       /\ u[n].name = t[n].name /\ u[n].type = t[n].type /\ u[n].parent = t[n].parent
       /\ u[n].inode = t[n].inode /\ u[n].length = t[n].length
       /\ n # parent => u[n].kids = t[n].kids
  /\ Len(u[parent].kids) = Len(t[parent].kids) + 1
  /\ u[parent].kids[1] = Len(t) + 1
  /\ \A i \in 1 .. Len(t[parent].kids) : u[parent].kids[i + 1] = t[parent].kids[i]
  /\ u[Len(t) + 1].name = node.name /\ u[Len(t) + 1].type = node.type
  /\ u[Len(t) + 1].inode = node.inode /\ u[Len(t) + 1].length = node.length
  /\ u[Len(t) + 1].parent = parent /\ u[Len(t) + 1].kids = <<>>

LEMMA NewNodeType ==
  ASSUME NEW name \in Names, NEW type \in Types, NEW inode \in Nat, NEW length \in Nat
  PROVE  /\ NewNode(name, type, inode, length) \in Nodes
         /\ NewNode(name, type, inode, length).kids = <<>>
         /\ NewNode(name, type, inode, length).name = name
         /\ NewNode(name, type, inode, length).type = type
         /\ NewNode(name, type, inode, length).inode = inode
         /\ NewNode(name, type, inode, length).length = length
<1>1. <<>> \in Seq(Nat)
  OBVIOUS
<1> QED BY <1>1 DEF NewNode, Nodes, Null

LEMMA PushFront ==
  ASSUME NEW s \in Seq(Nat), NEW x \in Nat
  PROVE  /\ <<x>> \o s \in Seq(Nat) /\ Len(<<x>> \o s) = Len(s) + 1
         /\ (<<x>> \o s)[1] = x
         /\ \A i \in 1 .. Len(s) : (<<x>> \o s)[i + 1] = s[i]
<1>1. <<x>> \in Seq(Nat) /\ Len(<<x>>) = 1 /\ <<x>>[1] = x /\ Len(s) \in Nat
  BY LenProperties
<1> QED BY <1>1, ConcatProperties

LEMMA AttachChildFacts ==
  ASSUME NEW t \in Seq(Nodes), NEW parent \in 1 .. Len(t),
         NEW node \in Nodes, node.kids = <<>>
  PROVE  Attached(t, AttachChild(t, parent, node), parent, node)
<1> DEFINE old  == t[parent]
           list == <<Len(t) + 1>> \o old.kids
           dir  == [old EXCEPT !.kids = list]
           v    == [t EXCEPT ![parent] = dir]
           last == [node EXCEPT !.parent = parent]
           u    == Append(v, last)
<1>1. Len(t) \in Nat /\ old \in Nodes /\ old.kids \in Seq(Nat)
  BY NodeType, LenProperties
<1>2. /\ list \in Seq(Nat) /\ Len(list) = Len(old.kids) + 1 /\ list[1] = Len(t) + 1
      /\ \A i \in 1 .. Len(old.kids) : list[i + 1] = old.kids[i]
  <2> HIDE DEF old
  <2> QED BY <1>1, PushFront, SMTT(30)
<1>3. /\ dir \in Nodes /\ dir.kids = list
      /\ dir.name = old.name /\ dir.type = old.type /\ dir.parent = old.parent
      /\ dir.inode = old.inode /\ dir.length = old.length
  <2> HIDE DEF list, old
  <2> QED BY <1>1, <1>2 DEF Nodes
<1>4. /\ last \in Nodes /\ last.kids = <<>> /\ last.parent = parent
      /\ last.name = node.name /\ last.type = node.type
      /\ last.inode = node.inode /\ last.length = node.length
  <2>1. parent \in Nat
    BY <1>1
  <2> QED BY <2>1 DEF Nodes
<1>5. /\ v \in Seq(Nodes) /\ Len(v) = Len(t) /\ v[parent] = dir
      /\ \A n \in 1 .. Len(t) : n # parent => v[n] = t[n]
  <2> HIDE DEF dir
  <2> QED BY <1>3, ExceptSeq
<1>6. /\ u \in Seq(Nodes) /\ Len(u) = Len(v) + 1 /\ u[Len(v) + 1] = last
      /\ \A n \in 1 .. Len(v) : u[n] = v[n]
  <2> HIDE DEF v, last
  <2> QED BY <1>4, <1>5, AppendProperties
<1>7. AttachChild(t, parent, node) = u
  BY DEF AttachChild
<1> HIDE DEF u, v, dir, list, last
<1>8. /\ u \in Seq(Nodes) /\ Len(u) = Len(t) + 1 /\ u[Len(t) + 1] = last
      /\ u[parent] = dir /\ \A n \in 1 .. Len(t) : n # parent => u[n] = t[n]
  BY <1>1, <1>5, <1>6
<1>9. Attached(t, u, parent, node)
  BY <1>1, <1>2, <1>3, <1>4, <1>8 DEF Attached
<1> QED BY <1>7, <1>9

-----------------------------------------------------------------------------
(* Children by name. *)

IsChild(t, d, name, c) == c \in 2 .. Len(t) /\ t[c].parent = d /\ t[c].name = name

\* Siblings with one name are one node.
LEMMA ChildUnique ==
  ASSUME NEW t, WellFormed(t), NEW d, NEW name, NEW b, NEW c,
         IsChild(t, d, name, b), IsChild(t, d, name, c)
  PROVE  b = c
<1>1. /\ d \in 1 .. b - 1 /\ b \in 2 .. Len(t) /\ c \in 2 .. Len(t)
      /\ \E i \in 1 .. Len(t[d].kids) : t[d].kids[i] = b
      /\ \E i \in 1 .. Len(t[d].kids) : t[d].kids[i] = c
  BY DEF WellFormed, Linked, IsChild
<1>2. PICK i \in 1 .. Len(t[d].kids) : t[d].kids[i] = b
  BY <1>1
<1>3. PICK j \in 1 .. Len(t[d].kids) : t[d].kids[j] = c
  BY <1>1
<1>4. d \in 1 .. Len(t)
  BY <1>1, LenProperties DEF WellFormed
<1>5. t[t[d].kids[i]].name = t[t[d].kids[j]].name
  BY <1>2, <1>3 DEF IsChild
<1>6. i = j
  BY <1>4, <1>5 DEF WellFormed, NamesUnique
<1> QED BY <1>2, <1>3, <1>6

\* find_child() returns the child of that name, and null when there is none.
LEMMA FindChildExact ==
  ASSUME NEW t, WellFormed(t), NEW d \in 1 .. Len(t), NEW name
  PROVE  /\ FindChild(t, d, name) = Null \/ IsChild(t, d, name, FindChild(t, d, name))
         /\ \A c : IsChild(t, d, name, c) => FindChild(t, d, name) = c
<1> DEFINE kids  == t[d].kids
           found == {i \in 1 .. Len(kids) : t[kids[i]].name = name}
           r     == FindChild(t, d, name)
<1>1. r = IF found = {} THEN Null ELSE kids[Min(found)]
  BY DEF FindChild
<1>2. Len(kids) \in Nat
  BY NodeType DEF WellFormed
<1>3. CASE found = {}
  <2>1. ASSUME NEW c, IsChild(t, d, name, c) PROVE FALSE
    <3>1. \E i \in 1 .. Len(kids) : kids[i] = c
      BY <2>1 DEF IsChild, WellFormed, Linked
    <3>2. PICK i \in 1 .. Len(kids) : kids[i] = c
      BY <3>1
    <3>3. i \in found
      BY <2>1, <3>2 DEF IsChild
    <3> QED BY <3>3, <1>3
  <2>2. r = Null
    BY <1>1, <1>3
  <2> QED BY <2>1, <2>2, Zenon
<1>4. CASE found # {}
  <2> DEFINE m == Min(found)
  <2>1. m \in found
    <3>1. found \subseteq Nat
      BY <1>2
    <3> HIDE DEF found
    <3> QED BY <1>4, <3>1, MinOfNat
  <2>2. m \in 1 .. Len(kids) /\ t[kids[m]].name = name /\ r = kids[m]
    BY <1>1, <1>4, <2>1
  <2>3. kids[m] \in 2 .. Len(t) /\ t[kids[m]].parent = d
    BY <2>2 DEF WellFormed, ListsOwn
  <2> HIDE DEF m, r, kids
  <2>4. IsChild(t, d, name, r)
    BY <2>2, <2>3 DEF IsChild
  <2>5. \A c : IsChild(t, d, name, c) => r = c
    BY <2>4, ChildUnique
  <2> QED BY <2>4, <2>5, Zenon DEF r
<1> QED BY <1>3, <1>4

LEMMA FindChildType ==
  ASSUME NEW t, WellFormed(t), NEW d \in 1 .. Len(t), NEW name
  PROVE  FindChild(t, d, name) \in 0 .. Len(t)
<1>1. Len(t) \in Nat
  BY LenProperties DEF WellFormed
<1> QED BY <1>1, FindChildExact DEF IsChild, Null

\* A new name in a directory keeps the tree well-formed.
LEMMA AttachKeepsWellFormed ==
  ASSUME NEW t, NEW u, NEW parent \in 1 .. Len(t), NEW node,
         WellFormed(t), Attached(t, u, parent, node),
         t[parent].type = "directory", node.name \notin Reserved,
         \A c : ~IsChild(t, parent, node.name, c)
  PROVE  WellFormed(u)
<1> DEFINE N == Len(t)
<1>1. /\ N \in Nat /\ N >= 1 /\ Len(u) = N + 1 /\ u \in Seq(Nodes)
  BY LenProperties DEF WellFormed, Attached
<1>2. ASSUME NEW n \in 1 .. N
      PROVE  /\ u[n].name = t[n].name /\ u[n].type = t[n].type /\ u[n].parent = t[n].parent
             /\ n # parent => u[n].kids = t[n].kids
  BY DEF Attached
<1>3. /\ Len(u[parent].kids) = Len(t[parent].kids) + 1
      /\ u[parent].kids[1] = N + 1
      /\ \A i \in 1 .. Len(t[parent].kids) : u[parent].kids[i + 1] = t[parent].kids[i]
  BY DEF Attached
<1>4. /\ u[N + 1].name = node.name /\ u[N + 1].parent = parent
      /\ u[N + 1].kids = <<>>
  BY DEF Attached
<1>5. /\ \A d \in 1 .. N : Len(t[d].kids) \in Nat
      /\ \A d \in 1 .. N : \A i \in 1 .. Len(t[d].kids) :
           t[d].kids[i] \in 2 .. N /\ t[t[d].kids[i]].parent = d
  BY NodeType DEF WellFormed, ListsOwn
<1>6. u[Root].parent = Null /\ u[Root].type = "directory"
  BY <1>1, <1>2 DEF WellFormed, Root
<1>7. Linked(u)
  <2>1. SUFFICES ASSUME NEW n \in 2 .. N + 1
                 PROVE  /\ u[n].parent \in 1 .. n - 1
                        /\ u[u[n].parent].type = "directory"
                        /\ \E i \in 1 .. Len(u[u[n].parent].kids) : u[u[n].parent].kids[i] = n
                        /\ u[n].name \notin Reserved
    BY <1>1 DEF Linked
  <2>2. CASE n = N + 1
    <3>1. u[n].parent = parent /\ u[parent].type = "directory" /\ u[n].name \notin Reserved
      BY <2>2, <1>2, <1>4
    <3>2. 1 \in 1 .. Len(u[parent].kids)
      BY <1>3, <1>5
    <3> QED BY <1>1, <1>3, <2>2, <3>1, <3>2
  <2>3. CASE n # N + 1
    <3> DEFINE d == t[n].parent
    <3>1. n \in 2 .. N /\ n \in 1 .. N
      BY <2>3, <1>1
    <3>2. /\ d \in 1 .. n - 1 /\ t[d].type = "directory" /\ t[n].name \notin Reserved
          /\ \E i \in 1 .. Len(t[d].kids) : t[d].kids[i] = n
      BY <3>1 DEF WellFormed, Linked
    <3>3. d \in 1 .. N /\ u[n].parent = d
      BY <3>1, <3>2, <1>1, <1>2
    <3>4. PICK i \in 1 .. Len(t[d].kids) : t[d].kids[i] = n
      BY <3>2
    <3> HIDE DEF d
    <3>5. \E j \in 1 .. Len(u[d].kids) : u[d].kids[j] = n
      <4>1. CASE d = parent
        <5>1. i + 1 \in 1 .. Len(u[d].kids) /\ u[d].kids[i + 1] = n
          BY <1>3, <1>5, <3>3, <3>4, <4>1, SMTT(30)
        <5> QED BY <5>1
      <4>2. CASE d # parent
        BY <1>2, <3>3, <3>4, <4>2
      <4> QED BY <4>1, <4>2
    <3> QED BY <1>2, <3>1, <3>2, <3>3, <3>5
  <2> QED BY <2>2, <2>3
\* The lists of u: their nodes are those of t, after the new one.
<1>8. ASSUME NEW d \in 1 .. N + 1, NEW i \in 1 .. Len(u[d].kids)
      PROVE  \/ d \in 1 .. N /\ d # parent /\ i \in 1 .. Len(t[d].kids)
                /\ u[d].kids[i] = t[d].kids[i]
             \/ d = parent /\ i = 1 /\ u[d].kids[i] = N + 1
             \/ d = parent /\ i - 1 \in 1 .. Len(t[d].kids)
                /\ u[d].kids[i] = t[d].kids[i - 1]
  <2>1. CASE d = N + 1
    <3>1. Len(u[d].kids) = 0
      BY <1>4, <2>1
    <3> QED BY <3>1
  <2>2. CASE d \in 1 .. N /\ d # parent
    BY <1>2, <2>2
  <2>3. CASE d = parent /\ i = 1
    BY <1>3, <2>3
  <2>4. CASE d = parent /\ i # 1
    <3>1. i - 1 \in 1 .. Len(t[d].kids) /\ i = (i - 1) + 1
      BY <1>3, <1>5, <2>4, SMTT(30)
    <3> QED BY <1>3, <2>4, <3>1
  <2> QED BY <1>1, <2>1, <2>2, <2>3, <2>4
<1>9. ListsOwn(u)
  <2>1. SUFFICES ASSUME NEW d \in 1 .. N + 1, NEW i \in 1 .. Len(u[d].kids)
                 PROVE  u[d].kids[i] \in 2 .. N + 1 /\ u[u[d].kids[i]].parent = d
    BY <1>1 DEF ListsOwn
  <2>2. CASE d = parent /\ i = 1 /\ u[d].kids[i] = N + 1
    BY <1>1, <1>4, <2>2
  <2>3. ASSUME NEW j, d \in 1 .. N, j \in 1 .. Len(t[d].kids), u[d].kids[i] = t[d].kids[j]
        PROVE  u[d].kids[i] \in 2 .. N + 1 /\ u[u[d].kids[i]].parent = d
    <3>1. t[d].kids[j] \in 2 .. N /\ t[t[d].kids[j]].parent = d
      BY <1>5, <2>3
    <3>2. t[d].kids[j] \in 1 .. N
      BY <3>1, <1>1
    <3>3. u[t[d].kids[j]].parent = d
      BY <3>1, <3>2, <1>2
    <3> QED BY <2>3, <3>1, <3>3, <1>1
  <2> QED BY <1>8, <2>2, <2>3
<1>10. NamesUnique(u)
  <2>1. SUFFICES ASSUME NEW d \in 1 .. N + 1,
                        NEW i \in 1 .. Len(u[d].kids), NEW j \in 1 .. Len(u[d].kids),
                        u[u[d].kids[i]].name = u[u[d].kids[j]].name
                 PROVE  i = j
    BY <1>1 DEF NamesUnique
  <2>2. ASSUME NEW k, d \in 1 .. N, k \in 1 .. Len(t[d].kids)
        PROVE  /\ t[d].kids[k] \in 2 .. N /\ t[t[d].kids[k]].parent = d
               /\ u[t[d].kids[k]].name = t[t[d].kids[k]].name
    <3>1. t[d].kids[k] \in 2 .. N /\ t[t[d].kids[k]].parent = d
      BY <1>5, <2>2
    <3>2. t[d].kids[k] \in 1 .. N
      BY <3>1, <1>1
    <3> QED BY <3>1, <3>2, <1>2
  <2>3. ASSUME NEW k, NEW l, d \in 1 .. N, k \in 1 .. Len(t[d].kids), l \in 1 .. Len(t[d].kids),
               u[t[d].kids[k]].name = u[t[d].kids[l]].name
        PROVE  k = l
    <3>1. t[t[d].kids[k]].name = t[t[d].kids[l]].name
      BY <2>2, <2>3
    <3> QED BY <2>3, <3>1 DEF WellFormed, NamesUnique
  <2>4. ASSUME NEW k, d = parent, k \in 1 .. Len(t[d].kids), u[t[d].kids[k]].name = node.name
        PROVE  FALSE
    <3>1. IsChild(t, parent, node.name, t[d].kids[k])
      BY <2>2, <2>4 DEF IsChild
    <3> QED BY <3>1
  <2>5. CASE d \in 1 .. N /\ d # parent
    <3>1. /\ i \in 1 .. Len(t[d].kids) /\ u[d].kids[i] = t[d].kids[i]
          /\ j \in 1 .. Len(t[d].kids) /\ u[d].kids[j] = t[d].kids[j]
      BY <1>2, <2>5
    <3> QED BY <2>1, <2>3, <2>5, <3>1
  <2>6. CASE d = parent /\ i = 1 /\ j = 1
    BY <2>6
  <2>7. CASE d = parent /\ i = 1 /\ j # 1
    <3>1. u[d].kids[i] = N + 1 /\ j - 1 \in 1 .. Len(t[d].kids) /\ u[d].kids[j] = t[d].kids[j - 1]
      BY <1>3, <1>8, <2>7
    <3> QED BY <1>4, <2>1, <2>4, <2>7, <3>1
  <2>8. CASE d = parent /\ i # 1 /\ j = 1
    <3>1. u[d].kids[j] = N + 1 /\ i - 1 \in 1 .. Len(t[d].kids) /\ u[d].kids[i] = t[d].kids[i - 1]
      BY <1>3, <1>8, <2>8
    <3> QED BY <1>4, <2>1, <2>4, <2>8, <3>1
  <2>9. CASE d = parent /\ i # 1 /\ j # 1
    <3>1. /\ i - 1 \in 1 .. Len(t[d].kids) /\ u[d].kids[i] = t[d].kids[i - 1]
          /\ j - 1 \in 1 .. Len(t[d].kids) /\ u[d].kids[j] = t[d].kids[j - 1]
      BY <1>8, <2>9
    <3>2. i - 1 = j - 1
      BY <2>1, <2>3, <2>9, <3>1
    <3>3. i \in Int /\ j \in Int
      OBVIOUS
    <3> QED BY <3>2, <3>3
  <2>10. d \in 1 .. N
    <3>1. CASE d = N + 1
      <4>1. Len(u[d].kids) = 0
        BY <1>4, <3>1
      <4> QED BY <4>1
    <3> QED BY <3>1, <1>1
  <2> QED BY <2>5, <2>6, <2>7, <2>8, <2>9, <2>10
<1> QED BY <1>1, <1>6, <1>7, <1>9, <1>10 DEF WellFormed

-----------------------------------------------------------------------------
(* Walks. *)

\* A function of 0 .. n that begins in S and steps inside S stays in S.
LEMMA StaysIn ==
  ASSUME NEW S, NEW n \in Nat, NEW f, f = [k \in 0 .. n |-> f[k]], f[0] \in S,
         \A k \in 1 .. n : f[k - 1] \in S => f[k] \in S
  PROVE  f \in [0 .. n -> S]
<1> DEFINE G == {k \in 0 .. n : f[k] \in S}
<1>1. 0 \in G
  OBVIOUS
<1>2. ASSUME NEW k \in 1 .. n, k - 1 \in G PROVE k \in G
  BY <1>2
<1>3. \A k \in 0 .. n : k \in G
  <2> HIDE DEF G
  <2> QED BY <1>1, <1>2, Induction
<1>4. \A k \in 0 .. n : f[k] \in S
  BY <1>3
<1> QED BY <1>4

LEMMA ParentType ==
  ASSUME NEW t, WellFormed(t), NEW n \in 1 .. Len(t)
  PROVE  t[n].parent \in 0 .. Len(t) /\ (n # Root => t[n].parent \in 1 .. n - 1)
<1>1. Len(t) \in Nat /\ t[1].parent = 0
  BY LenProperties DEF WellFormed, Root, Null
<1>2. CASE n = 1
  BY <1>1, <1>2 DEF Root
<1>3. CASE n # 1
  <2>1. n \in 2 .. Len(t)
    BY <1>1, <1>3
  <2>2. t[n].parent \in 1 .. n - 1
    BY <2>1 DEF WellFormed, Linked
  <2> QED BY <1>1, <2>1, <2>2
<1> QED BY <1>2, <1>3

LEMMA DescendType ==
  ASSUME NEW t, WellFormed(t), NEW n \in 0 .. Len(t), NEW name
  PROVE  Descend(t, n, name) \in 0 .. Len(t)
<1>1. Len(t) \in Nat
  BY LenProperties DEF WellFormed
<1>2. CASE n = 0
  BY <1>1, <1>2 DEF Descend, Null
<1>3. CASE n # 0
  <2>1. n \in 1 .. Len(t)
    BY <1>1, <1>3
  <2>2. t[n].parent \in 0 .. Len(t)
    BY <2>1, ParentType
  <2>3. FindDir(t, n, name) \in 0 .. Len(t)
    <3>1. FindChild(t, n, name) \in 0 .. Len(t)
      BY <2>1, FindChildType
    <3> QED BY <3>1, <1>1 DEF FindDir, Null
  <2> QED BY <1>1, <2>1, <2>2, <2>3 DEF Descend, Null
<1> QED BY <1>2, <1>3

\* resolve_path_fs() goes from node to node.
LEMMA WalkSteps ==
  ASSUME NEW t, WellFormed(t), NEW start \in 0 .. Len(t), NEW names, Len(names) \in Nat
  PROVE  /\ Walk(t, start, names) \in [0 .. Len(names) -> 0 .. Len(t)]
         /\ Walk(t, start, names)[0] = start
         /\ \A k \in 1 .. Len(names) :
              Walk(t, start, names)[k] = Descend(t, Walk(t, start, names)[k - 1], names[k])
<1> DEFINE n    == Len(names)
           S    == 0 .. Len(t)
           E(g) == [k \in 0 .. n |-> IF k = 0 THEN start ELSE Descend(t, g[k - 1], names[k])]
           step == [x \in S \X (1 .. n) |-> Descend(t, x[1], names[x[2]])]
           W    == Walk(t, start, names)
<1>1. \A m \in S : \A name : Descend(t, m, name) \in S
  BY DescendType
<1> HIDE DEF S
<1>2. step \in [S \X (1 .. n) -> S]
  BY <1>1
<1>3. \A m \in S, k \in 1 .. n : step[<<m, k>>] = Descend(t, m, names[k])
  OBVIOUS
<1>4. start \in S /\ n \in Nat
  BY DEF S
<1> HIDE DEF step, n
<1>5. PICK f : Iterates(f, S, start, n, step)
  BY <1>2, <1>4, Iteration
<1>6. \A k \in 1 .. n : f[k] = Descend(t, f[k - 1], names[k])
  <2>1. \A k \in 1 .. n : f[k - 1] \in S
    BY <1>4, <1>5 DEF Iterates
  <2> QED BY <1>3, <1>5, <2>1 DEF Iterates
<1>7. f = E(f)
  BY <1>4, <1>5, <1>6 DEF Iterates
<1>8. W = CHOOSE g : g = E(g)
  BY DEF Walk, n
<1>9. W = E(W)
  <2> HIDE DEF E, W
  <2> QED BY <1>7, <1>8
<1> HIDE DEF W
<1>10. /\ W = [k \in 0 .. n |-> W[k]] /\ W[0] = start
       /\ \A k \in 1 .. n : W[k] = Descend(t, W[k - 1], names[k])
  <2> DEFINE e(k) == Descend(t, W[k - 1], names[k])
  <2>1. W = [k \in 0 .. n |-> IF k = 0 THEN start ELSE e(k)]
    BY <1>9
  <2> HIDE DEF e
  <2>2. /\ W = [k \in 0 .. n |-> W[k]] /\ W[0] = start
        /\ \A k \in 1 .. n : W[k] = e(k)
    BY <1>4, <2>1
  <2> QED BY <2>2 DEF e
<1>11. W \in [0 .. n -> S]
  BY <1>1, <1>4, <1>10, StaysIn
<1> QED BY <1>10, <1>11 DEF W, n, S

LEMMA ResolvePathType ==
  ASSUME NEW t, WellFormed(t), NEW cwd \in 0 .. Len(t), NEW path, Len(path.names) \in Nat
  PROVE  ResolvePath(t, cwd, path) \in 0 .. Len(t)
<1> DEFINE start == Start(cwd, path)
<1>1. start \in 0 .. Len(t)
  BY LenProperties DEF Start, Root, WellFormed
<1> HIDE DEF start
<1>2. Walk(t, start, path.names) \in [0 .. Len(path.names) -> 0 .. Len(t)]
  BY <1>1, WalkSteps
<1>3. Walk(t, start, path.names)[Len(path.names)] \in 0 .. Len(t)
  BY <1>2
<1> QED BY <1>3 DEF ResolvePath, start

LEMMA MkdirDescendType ==
  ASSUME NEW t, WellFormed(t), NEW n \in 0 .. Len(t), NEW name
  PROVE  MkdirDescend(t, n, name) \in 0 .. Len(t)
<1>1. Descend(t, n, name) \in 0 .. Len(t) /\ Len(t) \in Nat
  BY DescendType, LenProperties DEF WellFormed
<1> QED BY <1>1 DEF MkdirDescend, Null

LEMMA MkdirWalkSteps ==
  ASSUME NEW t, WellFormed(t), NEW start \in 0 .. Len(t), NEW names, Len(names) \in Nat
  PROVE  /\ MkdirWalk(t, start, names) \in [0 .. Len(names) -> 0 .. Len(t)]
         /\ MkdirWalk(t, start, names)[0] = start
         /\ \A k \in 1 .. Len(names) : MkdirWalk(t, start, names)[k] =
              MkdirDescend(t, MkdirWalk(t, start, names)[k - 1], names[k])
<1> DEFINE n    == Len(names)
           S    == 0 .. Len(t)
           E(g) == [k \in 0 .. n |->
                     IF k = 0 THEN start ELSE MkdirDescend(t, g[k - 1], names[k])]
           step == [x \in S \X (1 .. n) |-> MkdirDescend(t, x[1], names[x[2]])]
           W    == MkdirWalk(t, start, names)
<1>1. \A m \in S : \A name : MkdirDescend(t, m, name) \in S
  BY MkdirDescendType
<1> HIDE DEF S
<1>2. step \in [S \X (1 .. n) -> S]
  BY <1>1
<1>3. \A m \in S, k \in 1 .. n : step[<<m, k>>] = MkdirDescend(t, m, names[k])
  OBVIOUS
<1>4. start \in S /\ n \in Nat
  BY DEF S
<1> HIDE DEF step, n
<1>5. PICK f : Iterates(f, S, start, n, step)
  BY <1>2, <1>4, Iteration
<1>6. \A k \in 1 .. n : f[k] = MkdirDescend(t, f[k - 1], names[k])
  <2>1. \A k \in 1 .. n : f[k - 1] \in S
    BY <1>4, <1>5 DEF Iterates
  <2> QED BY <1>3, <1>5, <2>1 DEF Iterates
<1>7. f = E(f)
  BY <1>4, <1>5, <1>6 DEF Iterates
<1>8. W = CHOOSE g : g = E(g)
  BY DEF MkdirWalk, n
<1>9. W = E(W)
  <2> HIDE DEF E, W
  <2> QED BY <1>7, <1>8
<1> HIDE DEF W
<1>10. /\ W = [k \in 0 .. n |-> W[k]] /\ W[0] = start
       /\ \A k \in 1 .. n : W[k] = MkdirDescend(t, W[k - 1], names[k])
  <2> DEFINE e(k) == MkdirDescend(t, W[k - 1], names[k])
  <2>1. W = [k \in 0 .. n |-> IF k = 0 THEN start ELSE e(k)]
    BY <1>9
  <2> HIDE DEF e
  <2>2. /\ W = [k \in 0 .. n |-> W[k]] /\ W[0] = start
        /\ \A k \in 1 .. n : W[k] = e(k)
    BY <1>4, <2>1
  <2> QED BY <2>2 DEF e
<1>11. W \in [0 .. n -> S]
  BY <1>1, <1>4, <1>10, StaysIn
<1> QED BY <1>10, <1>11 DEF W, n, S

-----------------------------------------------------------------------------
(* mkdir. *)

\* u is t with a directory of a new name.
Grows(t, u) ==
  \E parent \in 1 .. Len(t), name \in Names :
    /\ Attached(t, u, parent, NewDirectory(name))
    /\ t[parent].type = "directory" /\ name \notin Reserved
    /\ \A c : ~IsChild(t, parent, name, c)

LEMMA NewDirectoryType ==
  ASSUME NEW name \in Names
  PROVE  /\ NewDirectory(name) \in Nodes /\ NewDirectory(name).kids = <<>>
         /\ NewDirectory(name).name = name /\ NewDirectory(name).type = "directory"
         /\ NewDirectory(name).inode = 0 /\ NewDirectory(name).length = 0
<1>1. "directory" \in Types
  BY DEF Types
<1> QED BY <1>1, NewNodeType DEF NewDirectory

LEMMA GrowsKeepsWellFormed ==
  ASSUME NEW t, NEW u, WellFormed(t), Grows(t, u)
  PROVE  WellFormed(u)
<1>1. PICK parent \in 1 .. Len(t), name \in Names :
        /\ Attached(t, u, parent, NewDirectory(name))
        /\ t[parent].type = "directory" /\ name \notin Reserved
        /\ \A c : ~IsChild(t, parent, name, c)
  BY DEF Grows
<1>2. NewDirectory(name).name = name
  BY NewDirectoryType
<1> QED BY <1>1, <1>2, AttachKeepsWellFormed

\* mkdir_path_fs() adds one directory, or nothing.
LEMMA MkdirPathGrows ==
  ASSUME NEW t, WellFormed(t), NEW cwd \in 1 .. Len(t),
         NEW path, path.names \in Seq(STRING \ {Empty})
  PROVE  MkdirPath(t, cwd, path) = t \/ Grows(t, MkdirPath(t, cwd, path))
<1> DEFINE names  == path.names
           name   == Last(names)
           start  == Start(cwd, path)
           parent == MkdirParent(t, cwd, path)
           u      == MkdirPath(t, cwd, path)
<1>1. SUFFICES ASSUME names # <<>>, name \notin {Dot, DotDot, Long},
                      MkdirSucceeds(t, parent, name),
                      u = AttachChild(t, parent, NewDirectory(name))
               PROVE  Grows(t, u)
  BY DEF MkdirPath
<1>2. Len(names) \in Nat /\ Len(names) >= 1 /\ name \in Names /\ name # Empty
  <2>1. Len(names) \in Nat /\ Len(names) # 0
    BY <1>1, LenProperties, EmptySeq
  <2>2. names[Len(names)] \in STRING \ {Empty}
    BY <2>1, ElementOfSeq
  <2> QED BY <2>1, <2>2 DEF Last, Names
<1>3. parent \in 0 .. Len(t)
  <2>1. start \in 0 .. Len(t)
    BY LenProperties DEF Start, Root, WellFormed
  <2> HIDE DEF start, names
  <2>2. MkdirWalk(t, start, names) \in [0 .. Len(names) -> 0 .. Len(t)]
    BY <1>2, <2>1, MkdirWalkSteps
  <2>3. MkdirWalk(t, start, names)[Len(names) - 1] \in 0 .. Len(t)
    BY <1>2, <2>2
  <2> QED BY <2>3 DEF MkdirParent, start, names
<1> HIDE DEF parent, name, u, names
<1>4. parent \in 1 .. Len(t) /\ t[parent].type = "directory" /\ FindChild(t, parent, name) = Null
  BY <1>1, <1>3 DEF MkdirSucceeds, IsDir, Null
<1>5. \A c : ~IsChild(t, parent, name, c)
  <2>1. SUFFICES ASSUME NEW c, IsChild(t, parent, name, c) PROVE FALSE
    OBVIOUS
  <2>2. FindChild(t, parent, name) = c
    BY <1>4, <2>1, FindChildExact
  <2> QED BY <1>4, <2>1, <2>2 DEF IsChild, Null
<1>6. Attached(t, u, parent, NewDirectory(name))
  <2>1. t \in Seq(Nodes)
    BY DEF WellFormed
  <2>2. NewDirectory(name) \in Nodes /\ NewDirectory(name).kids = <<>>
    BY <1>2, NewDirectoryType
  <2>3. Attached(t, AttachChild(t, parent, NewDirectory(name)), parent, NewDirectory(name))
    BY <1>4, <2>1, <2>2, AttachChildFacts
  <2> QED BY <1>1, <2>3
<1>7. name \notin Reserved
  BY <1>1, <1>2 DEF Reserved
<1> QED BY <1>2, <1>4, <1>5, <1>6, <1>7 DEF Grows

-----------------------------------------------------------------------------
(* Mounting: every state of initialise_initrd() holds a well-formed tree. *)

ArchiveName == Seq(STRING \ {Long})

ArchiveHeader == [name : ArchiveName, length : Nat, offset : Nat]

\* A file knows its header and its length; a directory has none.
FilesOf(t, hs) ==
  \A n \in 1 .. Len(t) :
    IF t[n].type = "regular"
    THEN t[n].inode \in 1 .. Len(hs) /\ t[n].length = hs[t[n].inode].length
    ELSE t[n].inode = 0 /\ t[n].length = 0

MountRecords == [tree : Seq(Nodes), dir : Nat, ok : BOOLEAN]

MountState(s, hs) ==
  /\ s \in MountRecords
  /\ WellFormed(s.tree) /\ FilesOf(s.tree, hs) /\ s.dir \in 1 .. Len(s.tree)
  /\ s.ok = TRUE => s.tree[s.dir].type = "directory"

LEMMA RecordExcept ==
  ASSUME NEW s \in MountRecords, NEW x
  PROVE  /\ [s EXCEPT !.tree = x] = [tree |-> x, dir |-> s.dir, ok |-> s.ok]
         /\ [s EXCEPT !.dir = x] = [tree |-> s.tree, dir |-> x, ok |-> s.ok]
         /\ [s EXCEPT !.ok = x] = [tree |-> s.tree, dir |-> s.dir, ok |-> x]
<1> DEFINE A == Seq(Nodes)
           B == BOOLEAN
<1>1. s \in [tree : A, dir : Nat, ok : B]
  BY DEF MountRecords
<1> HIDE DEF A, B
<1> QED BY <1>1

LEMMA MountStateIntro ==
  ASSUME NEW hs, NEW t, WellFormed(t), FilesOf(t, hs), NEW d \in 1 .. Len(t),
         NEW ok \in BOOLEAN, ok = TRUE => t[d].type = "directory"
  PROVE  MountState([tree |-> t, dir |-> d, ok |-> ok], hs)
<1>1. t \in Seq(Nodes) /\ d \in Nat
  BY LenProperties DEF WellFormed
<1> DEFINE s == [tree |-> t, dir |-> d, ok |-> ok]
<1>2. s \in MountRecords
  BY <1>1 DEF MountRecords
<1>3. s.tree = t /\ s.dir = d /\ s.ok = ok
  BY Zenon
<1> HIDE DEF s
<1>4. MountState(s, hs)
  BY <1>2, <1>3 DEF MountState
<1> QED BY <1>4 DEF s

LEMMA AttachKeepsFiles ==
  ASSUME NEW hs, NEW t, WellFormed(t), FilesOf(t, hs), NEW u, NEW parent \in 1 .. Len(t),
         NEW node, Attached(t, u, parent, node), node.type \in Types,
         IF node.type = "regular"
         THEN node.inode \in 1 .. Len(hs) /\ node.length = hs[node.inode].length
         ELSE node.inode = 0 /\ node.length = 0
  PROVE  FilesOf(u, hs)
<1> DEFINE N == Len(t)
<1>1. N \in Nat /\ Len(u) = N + 1
  BY LenProperties DEF WellFormed, Attached
<1>2. SUFFICES ASSUME NEW n \in 1 .. N + 1
               PROVE  IF u[n].type = "regular"
                      THEN u[n].inode \in 1 .. Len(hs) /\ u[n].length = hs[u[n].inode].length
                      ELSE u[n].inode = 0 /\ u[n].length = 0
  BY <1>1 DEF FilesOf
<1>3. CASE n = N + 1
  <2>1. /\ u[n].type = node.type /\ u[n].inode = node.inode /\ u[n].length = node.length
    BY <1>3 DEF Attached
  <2> QED BY <2>1
<1>4. CASE n \in 1 .. N
  <2>1. /\ u[n].type = t[n].type /\ u[n].inode = t[n].inode /\ u[n].length = t[n].length
    BY <1>4 DEF Attached
  <2> QED BY <2>1, <1>4 DEF FilesOf
<1> QED BY <1>1, <1>3, <1>4

\* A tree with one more node under d, d being a directory without that name.
LEMMA AttachNode ==
  ASSUME NEW hs, NEW t, WellFormed(t), FilesOf(t, hs), NEW d \in 1 .. Len(t),
         t[d].type = "directory", NEW node \in Nodes, node.kids = <<>>,
         node.name \notin Reserved, FindChild(t, d, node.name) = Null,
         IF node.type = "regular"
         THEN node.inode \in 1 .. Len(hs) /\ node.length = hs[node.inode].length
         ELSE node.inode = 0 /\ node.length = 0
  PROVE  /\ Attached(t, AttachChild(t, d, node), d, node)
         /\ WellFormed(AttachChild(t, d, node)) /\ FilesOf(AttachChild(t, d, node), hs)
         /\ \A c : ~IsChild(t, d, node.name, c)
<1> DEFINE u == AttachChild(t, d, node)
<1>1. t \in Seq(Nodes) /\ node.type \in Types
  BY DEF WellFormed, Nodes
<1>2. Attached(t, u, d, node)
  BY <1>1, AttachChildFacts
<1>3. \A c : ~IsChild(t, d, node.name, c)
  <2>1. SUFFICES ASSUME NEW c, IsChild(t, d, node.name, c) PROVE FALSE
    OBVIOUS
  <2>2. FindChild(t, d, node.name) = c
    BY <2>1, FindChildExact
  <2> QED BY <2>1, <2>2 DEF IsChild, Null
<1> HIDE DEF u
<1>4. WellFormed(u)
  BY <1>2, <1>3, AttachKeepsWellFormed
<1>5. FilesOf(u, hs)
  BY <1>1, <1>2, AttachKeepsFiles
<1> QED BY <1>2, <1>3, <1>4, <1>5 DEF u

LEMMA GetOrCreateDirectoryState ==
  ASSUME NEW hs, NEW s, MountState(s, hs), NEW name \in Names \ Reserved
  PROVE  MountState(GetOrCreateDirectory(s, name), hs)
<1> DEFINE t == s.tree
           node == FindChild(t, s.dir, name)
           u == AttachChild(t, s.dir, NewDirectory(name))
<1>1. /\ WellFormed(t) /\ FilesOf(t, hs) /\ s.dir \in 1 .. Len(t) /\ s.ok \in BOOLEAN
      /\ Len(t) \in Nat /\ s.ok = TRUE => t[s.dir].type = "directory"
  BY LenProperties DEF MountState, MountRecords, WellFormed
<1>2. CASE s.ok = FALSE
  BY <1>2 DEF GetOrCreateDirectory
<1>3. CASE s.ok = TRUE /\ node = Null
  <2>1. GetOrCreateDirectory(s, name) = [tree |-> u, dir |-> Len(t) + 1, ok |-> TRUE]
    BY <1>3 DEF GetOrCreateDirectory
  <2>2. /\ NewDirectory(name) \in Nodes /\ NewDirectory(name).kids = <<>>
        /\ NewDirectory(name).name = name /\ NewDirectory(name).type = "directory"
        /\ NewDirectory(name).inode = 0 /\ NewDirectory(name).length = 0
    BY NewDirectoryType
  <2>3. /\ Attached(t, u, s.dir, NewDirectory(name)) /\ WellFormed(u) /\ FilesOf(u, hs)
    <3> HIDE DEF t
    <3> QED BY <1>1, <1>3, <2>2, AttachNode
  <2>4. Len(t) + 1 \in 1 .. Len(u) /\ u[Len(t) + 1].type = "directory"
    BY <1>1, <2>2, <2>3 DEF Attached
  <2> HIDE DEF u, t
  <2>5. MountState([tree |-> u, dir |-> Len(t) + 1, ok |-> TRUE], hs)
    BY <2>3, <2>4, MountStateIntro
  <2> QED BY <2>1, <2>5
<1>4. CASE s.ok = TRUE /\ node # Null
  <2> DEFINE ok == IsDir(t, node)
  <2>1. GetOrCreateDirectory(s, name) = [tree |-> t, dir |-> node, ok |-> ok]
    BY <1>4, Zenon DEF GetOrCreateDirectory
  <2>2. node \in 1 .. Len(t)
    BY <1>1, <1>4, FindChildType DEF Null
  <2>3. ok \in BOOLEAN /\ (ok = TRUE => t[node].type = "directory")
    BY Zenon DEF IsDir
  <2> HIDE DEF ok, node, t
  <2>4. MountState([tree |-> t, dir |-> node, ok |-> ok], hs)
    BY <1>1, <2>2, <2>3, MountStateIntro
  <2> QED BY <2>1, <2>4
<1> QED BY <1>1, <1>2, <1>3, <1>4

MountStates(hs) ==
  {s \in MountRecords : MountState(s, hs)}

LEMMA MountStatesIs ==
  ASSUME NEW hs
  PROVE  \A s : s \in MountStates(hs) <=> MountState(s, hs)
BY DEF MountStates, MountState

\* The walk of add_archived_file() along the directories of a name.
LEMMA DirectoriesSteps ==
  ASSUME NEW hs, NEW s, MountState(s, hs), NEW names, Len(names) \in Nat,
         \A k \in 1 .. Len(names) : names[k] \in Names \ Reserved
  PROVE  /\ \A k \in 0 .. Len(names) : MountState(Directories(s, names)[k], hs)
         /\ Directories(s, names)[0] = [s EXCEPT !.dir = Root]
         /\ \A k \in 1 .. Len(names) : Directories(s, names)[k] =
              GetOrCreateDirectory(Directories(s, names)[k - 1], names[k])
<1> DEFINE n    == Len(names)
           S    == MountStates(hs)
           s0   == [s EXCEPT !.dir = Root]
           E(g) == [k \in 0 .. n |->
                     IF k = 0 THEN s0 ELSE GetOrCreateDirectory(g[k - 1], names[k])]
           step == [x \in S \X (1 .. n) |-> GetOrCreateDirectory(x[1], names[x[2]])]
           D    == Directories(s, names)
<1>1. \A x \in S, k \in 1 .. n : GetOrCreateDirectory(x, names[k]) \in S
  <2>1. ASSUME NEW x \in S, NEW k \in 1 .. n PROVE GetOrCreateDirectory(x, names[k]) \in S
    <3>1. MountState(x, hs) /\ names[k] \in Names \ Reserved
      BY MountStatesIs
    <3>2. MountState(GetOrCreateDirectory(x, names[k]), hs)
      BY <3>1, GetOrCreateDirectoryState
    <3> QED BY <3>2, MountStatesIs
  <2> QED BY <2>1
<1>2. s0 \in S /\ n \in Nat
  <2>1. /\ WellFormed(s.tree) /\ FilesOf(s.tree, hs) /\ Root \in 1 .. Len(s.tree)
        /\ s.ok \in BOOLEAN /\ s.tree[Root].type = "directory"
    BY LenProperties DEF MountState, MountRecords, WellFormed, Root
  <2>2. s0 = [tree |-> s.tree, dir |-> Root, ok |-> s.ok]
    BY RecordExcept, Zenon DEF MountState
  <2>3. MountState([tree |-> s.tree, dir |-> Root, ok |-> s.ok], hs)
    BY <2>1, MountStateIntro
  <2> QED BY <2>2, <2>3, MountStatesIs
<1> HIDE DEF S, s0
<1>3. step \in [S \X (1 .. n) -> S]
  BY <1>1
<1>4. \A x \in S, k \in 1 .. n : step[<<x, k>>] = GetOrCreateDirectory(x, names[k])
  OBVIOUS
<1> HIDE DEF step, n
<1>5. PICK f : Iterates(f, S, s0, n, step)
  BY <1>2, <1>3, Iteration
<1>6. \A k \in 1 .. n : f[k] = GetOrCreateDirectory(f[k - 1], names[k])
  <2>1. \A k \in 1 .. n : f[k - 1] \in S
    BY <1>2, <1>5 DEF Iterates
  <2> QED BY <1>4, <1>5, <2>1 DEF Iterates
<1>7. f = E(f)
  BY <1>2, <1>5, <1>6 DEF Iterates
<1>8. D = CHOOSE g : g = E(g)
  BY DEF Directories, n, s0
<1>9. D = E(D)
  <2> HIDE DEF E, D
  <2> QED BY <1>7, <1>8
<1> HIDE DEF D
<1>10. /\ D = [k \in 0 .. n |-> D[k]] /\ D[0] = s0
       /\ \A k \in 1 .. n : D[k] = GetOrCreateDirectory(D[k - 1], names[k])
  <2> DEFINE e(k) == GetOrCreateDirectory(D[k - 1], names[k])
  <2>1. D = [k \in 0 .. n |-> IF k = 0 THEN s0 ELSE e(k)]
    BY <1>9
  <2> HIDE DEF e
  <2>2. D = [k \in 0 .. n |-> D[k]] /\ D[0] = s0 /\ \A k \in 1 .. n : D[k] = e(k)
    BY <1>2, <2>1
  <2> QED BY <2>2 DEF e
<1>11. D \in [0 .. n -> S]
  BY <1>1, <1>2, <1>10, StaysIn
<1>12. \A k \in 0 .. n : MountState(D[k], hs)
  BY <1>11, MountStatesIs DEF S
<1> QED BY <1>10, <1>12 DEF D, n, s0

\* The assertions of add_archived_file() about the name.
NameAccepted(name) ==
  /\ NameBytes(name) <= MaxNameBytes
  /\ \A k \in 1 .. Len(name) : name[k] \notin {Empty, Dot, DotDot}
  /\ Len(name) \in 1 .. MaxComponents

LEMMA AcceptedNames ==
  ASSUME NEW name \in ArchiveName, NameAccepted(name)
  PROVE  /\ Len(name) \in Nat /\ Len(name) >= 1
         /\ \A k \in 1 .. Len(name) : name[k] \in Names \ Reserved
<1>1. Len(name) \in Nat
  BY LenProperties DEF ArchiveName
<1>2. ASSUME NEW k \in 1 .. Len(name) PROVE name[k] \in STRING \ {Long}
  BY ElementOfSeq DEF ArchiveName
<1> QED BY <1>1, <1>2 DEF NameAccepted, Reserved, Names

LEMMA AddArchivedFileState ==
  ASSUME NEW hs \in Seq(ArchiveHeader), NEW s, MountState(s, hs), NEW i \in 1 .. Len(hs)
  PROVE  MountState(AddArchivedFile(s, i, hs[i]), hs)
<1> DEFINE h    == hs[i]
           path == Directories(s, h.name)[Len(h.name) - 1]
           file == NewNode(Last(h.name), "regular", i, h.length)
           good == /\ NameAccepted(h.name) /\ path.ok
                   /\ FindChild(path.tree, path.dir, Last(h.name)) = Null
           u    == AttachChild(path.tree, path.dir, file)
<1>1. h \in ArchiveHeader /\ h.name \in ArchiveName /\ h.length \in Nat /\ i \in Nat
  <2>1. h \in ArchiveHeader /\ Len(hs) \in Nat
    BY ElementOfSeq, LenProperties
  <2> QED BY <2>1 DEF ArchiveHeader
<1>2. AddArchivedFile(s, i, h) = IF good THEN [path EXCEPT !.tree = u] ELSE [s EXCEPT !.ok = FALSE]
  BY Zenon DEF AddArchivedFile, NameAccepted
<1>3. CASE ~good
  <2>1. [s EXCEPT !.ok = FALSE] = [tree |-> s.tree, dir |-> s.dir, ok |-> FALSE]
    BY RecordExcept, Zenon DEF MountState
  <2>2. MountState([tree |-> s.tree, dir |-> s.dir, ok |-> FALSE], hs)
    BY MountStateIntro DEF MountState, MountRecords
  <2> QED BY <1>2, <1>3, <2>1, <2>2
<1>4. CASE good
  <2>1. /\ Len(h.name) \in Nat /\ Len(h.name) >= 1
        /\ \A k \in 1 .. Len(h.name) : h.name[k] \in Names \ Reserved
    BY <1>1, <1>4, AcceptedNames
  <2> HIDE DEF h
  <2>2. MountState(path, hs)
    <3>1. Len(h.name) - 1 \in 0 .. Len(h.name)
      BY <2>1
    <3> QED BY <2>1, <3>1, DirectoriesSteps
  <2>3. Last(h.name) \in Names \ Reserved
    BY <2>1 DEF Last
  <2> HIDE DEF path
  <2>4. /\ WellFormed(path.tree) /\ FilesOf(path.tree, hs) /\ path.dir \in 1 .. Len(path.tree)
        /\ path.ok = TRUE /\ path.tree[path.dir].type = "directory"
    BY <1>4, <2>2 DEF MountState
  <2>5. /\ file \in Nodes /\ file.kids = <<>> /\ file.name = Last(h.name)
        /\ file.type = "regular" /\ file.inode = i /\ file.length = h.length
    <3>1. "regular" \in Types
      BY DEF Types
    <3>2. Last(h.name) \in Names /\ h.length \in Nat /\ i \in Nat
      BY <1>1, <2>3 DEF h
    <3> DEFINE nm == Last(h.name)
               len == h.length
    <3> HIDE DEF nm, len
    <3>3. nm \in Names /\ len \in Nat
      BY <3>2 DEF nm, len
    <3>4. file = NewNode(nm, "regular", i, len)
      BY DEF nm, len
    <3> HIDE DEF file
    <3>5. /\ file \in Nodes /\ file.kids = <<>> /\ file.name = nm
          /\ file.type = "regular" /\ file.inode = i /\ file.length = len
      BY <3>1, <3>2, <3>3, <3>4, NewNodeType
    <3> QED BY <3>5 DEF nm, len
  <2> HIDE DEF file
  <2>6. /\ Attached(path.tree, u, path.dir, file) /\ WellFormed(u) /\ FilesOf(u, hs)
    BY <1>4, <2>3, <2>4, <2>5, AttachNode DEF h
  <2>7. path.dir \in 1 .. Len(u) /\ u[path.dir].type = "directory"
    <3>1. Len(path.tree) \in Nat
      BY <2>4, LenProperties DEF WellFormed
    <3> QED BY <2>4, <2>6, <3>1 DEF Attached
  <2> HIDE DEF u
  <2>8. [path EXCEPT !.tree = u] = [tree |-> u, dir |-> path.dir, ok |-> TRUE]
    <3>1. path \in MountRecords
      BY <2>2 DEF MountState
    <3> QED BY <2>4, <3>1, RecordExcept, Zenon
  <2>9. MountState([tree |-> u, dir |-> path.dir, ok |-> TRUE], hs)
    BY <2>6, <2>7, MountStateIntro
  <2> QED BY <1>2, <1>4, <2>8, <2>9 DEF h
<1> QED BY <1>3, <1>4

LEMMA AddHeaderState ==
  ASSUME NEW hs \in Seq(ArchiveHeader), NEW s, MountState(s, hs), NEW i \in 1 .. Len(hs), NEW end
  PROVE  MountState(AddHeader(s, i, hs[i], end), hs)
<1>1. CASE s.ok /\ InImage(hs[i], end)
  BY <1>1, AddArchivedFileState, Zenon DEF AddHeader
<1>2. CASE ~(s.ok /\ InImage(hs[i], end))
  <2>1. AddHeader(s, i, hs[i], end) = [s EXCEPT !.ok = FALSE]
    BY <1>2, Zenon DEF AddHeader
  <2>2. [s EXCEPT !.ok = FALSE] = [tree |-> s.tree, dir |-> s.dir, ok |-> FALSE]
    BY RecordExcept, Zenon DEF MountState
  <2>3. MountState([tree |-> s.tree, dir |-> s.dir, ok |-> FALSE], hs)
    BY MountStateIntro DEF MountState, MountRecords
  <2> QED BY <2>1, <2>2, <2>3
<1> QED BY <1>1, <1>2

\* The root with its one directory, /dev.
LEMMA EmptyTreeFacts ==
  ASSUME NEW hs
  PROVE  /\ WellFormed(EmptyTree) /\ FilesOf(EmptyTree, hs) /\ Len(EmptyTree) = 2
         /\ IsChild(EmptyTree, Root, Dev, 2) /\ EmptyTree[2].type = "directory"
         /\ EmptyTree[Root].type = "directory"
<1> DEFINE root == NewDirectory("initrd")
           dev  == NewDirectory(Dev)
           t    == <<root>>
<1>1. /\ root \in Nodes /\ root.kids = <<>> /\ root.type = "directory"
      /\ root.inode = 0 /\ root.length = 0 /\ root.parent = 0
  <2>1. "initrd" \in Names
    BY DEF Names
  <2>2. root.parent = 0
    BY DEF NewDirectory, NewNode, Null
  <2> QED BY <2>1, <2>2, NewDirectoryType, Zenon
<1>2. /\ dev \in Nodes /\ dev.kids = <<>> /\ dev.type = "directory" /\ dev.name = Dev
      /\ dev.inode = 0 /\ dev.length = 0
  <2>1. Dev \in Names
    BY DEF Names
  <2> QED BY <2>1, NewDirectoryType, Zenon
<1> HIDE DEF root, dev
<1>3. t \in Seq(Nodes) /\ Len(t) = 1 /\ t[1] = root
  BY <1>1
<1> HIDE DEF t
<1>4. WellFormed(t)
  <2>1. Linked(t)
    BY <1>3 DEF Linked
  <2>2. ListsOwn(t) /\ NamesUnique(t)
    <3>1. \A d \in 1 .. Len(t) : Len(t[d].kids) = 0
      BY <1>1, <1>3
    <3> QED BY <3>1 DEF ListsOwn, NamesUnique
  <2> QED BY <1>1, <1>3, <2>1, <2>2 DEF WellFormed, Root, Null
<1>5. FilesOf(t, hs)
  BY <1>1, <1>3 DEF FilesOf
<1>6. FindChild(t, 1, Dev) = Null
  <2>1. ~IsChild(t, 1, Dev, FindChild(t, 1, Dev))
    BY <1>3 DEF IsChild
  <2> QED BY <1>3, <1>4, <2>1, FindChildExact
<1>7. /\ Attached(t, AttachChild(t, 1, dev), 1, dev)
      /\ WellFormed(AttachChild(t, 1, dev)) /\ FilesOf(AttachChild(t, 1, dev), hs)
  <2>1. 1 \in 1 .. Len(t) /\ t[1].type = "directory" /\ Dev \notin Reserved
    BY <1>1, <1>3 DEF Dev, Reserved, Dot, DotDot, Empty, Long
  <2> QED BY <1>2, <1>4, <1>5, <1>6, <2>1, AttachNode
<1>8. EmptyTree = AttachChild(t, 1, dev)
  BY DEF EmptyTree, t, root, dev, Root
<1> DEFINE u == EmptyTree
<1>9. /\ Len(u) = 2 /\ u[2].parent = 1 /\ u[2].name = Dev
      /\ u[2].type = "directory" /\ u[1].type = "directory"
  BY <1>1, <1>2, <1>3, <1>7, <1>8 DEF Attached
<1>10. IsChild(u, 1, Dev, 2)
  BY <1>9 DEF IsChild
<1> QED BY <1>7, <1>8, <1>9, <1>10 DEF Root

\* initialise_initrd() from header to header.
LEMMA MountingSteps ==
  ASSUME NEW hs \in Seq(ArchiveHeader), NEW end
  PROVE  /\ \A i \in 0 .. Len(hs) : MountState(Mounting(hs, end)[i], hs)
         /\ Mounting(hs, end)[0] =
              [tree |-> EmptyTree, dir |-> Root, ok |-> Len(hs) <= MaxFiles]
         /\ \A i \in 1 .. Len(hs) :
              Mounting(hs, end)[i] = AddHeader(Mounting(hs, end)[i - 1], i, hs[i], end)
<1> DEFINE n    == Len(hs)
           S    == MountStates(hs)
           ok   == n <= MaxFiles
           s0   == [tree |-> EmptyTree, dir |-> Root, ok |-> ok]
           E(g) == [i \in 0 .. n |-> IF i = 0 THEN s0 ELSE AddHeader(g[i - 1], i, hs[i], end)]
           step == [x \in S \X (1 .. n) |-> AddHeader(x[1], x[2], hs[x[2]], end)]
           D    == Mounting(hs, end)
<1>1. \A x \in S, i \in 1 .. n : AddHeader(x, i, hs[i], end) \in S
  <2>1. ASSUME NEW x \in S, NEW i \in 1 .. n PROVE AddHeader(x, i, hs[i], end) \in S
    <3>1. MountState(x, hs)
      BY MountStatesIs
    <3>2. MountState(AddHeader(x, i, hs[i], end), hs)
      BY <3>1, AddHeaderState
    <3> QED BY <3>2, MountStatesIs
  <2> QED BY <2>1
<1>2. s0 \in S /\ n \in Nat
  <2>1. ok \in BOOLEAN
    BY LenProperties, MaxFilesAssumption
  <2>2. /\ WellFormed(EmptyTree) /\ FilesOf(EmptyTree, hs) /\ Root \in 1 .. Len(EmptyTree)
        /\ EmptyTree[Root].type = "directory"
    BY EmptyTreeFacts DEF Root
  <2> HIDE DEF ok
  <2>3. MountState(s0, hs)
    BY <2>1, <2>2, MountStateIntro
  <2> QED BY <2>3, MountStatesIs, LenProperties
<1> HIDE DEF S, s0
<1>3. step \in [S \X (1 .. n) -> S]
  BY <1>1
<1>4. \A x \in S, i \in 1 .. n : step[<<x, i>>] = AddHeader(x, i, hs[i], end)
  OBVIOUS
<1> HIDE DEF step, n
<1>5. PICK f : Iterates(f, S, s0, n, step)
  BY <1>2, <1>3, Iteration
<1>6. \A i \in 1 .. n : f[i] = AddHeader(f[i - 1], i, hs[i], end)
  <2>1. \A i \in 1 .. n : f[i - 1] \in S
    BY <1>2, <1>5 DEF Iterates
  <2> QED BY <1>4, <1>5, <2>1 DEF Iterates
<1>7. f = E(f)
  BY <1>2, <1>5, <1>6 DEF Iterates
<1>8. D = CHOOSE g : g = E(g)
  BY DEF Mounting, n, s0
<1>9. D = E(D)
  <2> HIDE DEF E, D
  <2> QED BY <1>7, <1>8
<1> HIDE DEF D
<1>10. /\ D = [i \in 0 .. n |-> D[i]] /\ D[0] = s0
       /\ \A i \in 1 .. n : D[i] = AddHeader(D[i - 1], i, hs[i], end)
  <2> DEFINE e(i) == AddHeader(D[i - 1], i, hs[i], end)
  <2>1. D = [i \in 0 .. n |-> IF i = 0 THEN s0 ELSE e(i)]
    BY <1>9
  <2> HIDE DEF e
  <2>2. D = [i \in 0 .. n |-> D[i]] /\ D[0] = s0 /\ \A i \in 1 .. n : D[i] = e(i)
    BY <1>2, <2>1
  <2> QED BY <2>2 DEF e
<1>11. D \in [0 .. n -> S]
  <2>1. \A i \in 1 .. n : D[i - 1] \in S => D[i] \in S
    BY <1>1, <1>10
  <2> QED BY <1>2, <1>10, <2>1, StaysIn
<1>12. \A i \in 0 .. n : MountState(D[i], hs)
  BY <1>11, MountStatesIs DEF S
<1> QED BY <1>10, <1>12 DEF D, n, s0

-----------------------------------------------------------------------------
(* The headers that make_initrd writes. *)

LEMMA DataEndSteps ==
  ASSUME NEW files, Len(files) \in Nat, \A i \in 1 .. Len(files) : files[i].length \in Nat
  PROVE  /\ DataEnd(files) \in [0 .. Len(files) -> Nat] /\ DataEnd(files)[0] = 0
         /\ \A i \in 1 .. Len(files) :
              DataEnd(files)[i] = DataEnd(files)[i - 1] + files[i].length
<1> DEFINE n    == Len(files)
           E(g) == [i \in 0 .. n |-> IF i = 0 THEN 0 ELSE g[i - 1] + files[i].length]
           step == [x \in Nat \X (1 .. n) |-> x[1] + files[x[2]].length]
           D    == DataEnd(files)
<1>1. n \in Nat /\ \A x \in Nat, i \in 1 .. n : x + files[i].length \in Nat
  OBVIOUS
<1>2. step \in [Nat \X (1 .. n) -> Nat]
  BY <1>1
<1>3. \A x \in Nat, i \in 1 .. n : step[<<x, i>>] = x + files[i].length
  OBVIOUS
<1> HIDE DEF step, n
<1>4. PICK f : Iterates(f, Nat, 0, n, step)
  <2>1. 0 \in Nat
    OBVIOUS
  <2> QED BY <1>1, <1>2, <2>1, Iteration
<1>5. \A i \in 1 .. n : f[i] = f[i - 1] + files[i].length
  <2>1. \A i \in 1 .. n : f[i - 1] \in Nat
    BY <1>1, <1>4 DEF Iterates
  <2> QED BY <1>3, <1>4, <2>1 DEF Iterates
<1>6. f = E(f)
  BY <1>1, <1>4, <1>5 DEF Iterates
<1>7. D = CHOOSE g : g = E(g)
  BY DEF DataEnd, n
<1>8. D = E(D)
  <2> HIDE DEF E, D
  <2> QED BY <1>6, <1>7
<1> HIDE DEF D
<1>9. /\ D = [i \in 0 .. n |-> D[i]] /\ D[0] = 0
      /\ \A i \in 1 .. n : D[i] = D[i - 1] + files[i].length
  <2> DEFINE e(i) == D[i - 1] + files[i].length
  <2>1. D = [i \in 0 .. n |-> IF i = 0 THEN 0 ELSE e(i)]
    BY <1>8
  <2> HIDE DEF e
  <2>2. D = [i \in 0 .. n |-> D[i]] /\ D[0] = 0 /\ \A i \in 1 .. n : D[i] = e(i)
    BY <1>1, <2>1
  <2> QED BY <2>2 DEF e
<1>10. D \in [0 .. n -> Nat]
  <2>1. \A i \in 1 .. n : D[i - 1] \in Nat => D[i] \in Nat
    BY <1>1, <1>9
  <2>2. D[0] \in Nat
    BY <1>9
  <2> QED BY <1>1, <1>9, <2>1, <2>2, StaysIn
<1> QED BY <1>9, <1>10 DEF D, n

ArchiveFile == [name : ArchiveName, length : Nat]

LEMMA HeadersFacts ==
  ASSUME NEW files \in Seq(ArchiveFile)
  PROVE  /\ Headers(files) \in Seq(ArchiveHeader) /\ Len(Headers(files)) = Len(files)
         /\ \A i \in 1 .. Len(files) :
              /\ Headers(files)[i].name = files[i].name
              /\ Headers(files)[i].length = files[i].length
              /\ Headers(files)[i].offset = DataEnd(files)[i - 1]
<1> DEFINE H == Headers(files)
           n == Len(files)
           e(i) == [name |-> files[i].name, length |-> files[i].length,
                    offset |-> DataEnd(files)[i - 1]]
<1>1. n \in Nat /\ \A i \in 1 .. n : files[i] \in ArchiveFile
  BY LenProperties, ElementOfSeq
<1>2. \A i \in 1 .. n : files[i].name \in ArchiveName /\ files[i].length \in Nat
  BY <1>1 DEF ArchiveFile
<1>3. DataEnd(files) \in [0 .. n -> Nat]
  BY <1>1, <1>2, DataEndSteps
<1>4. ASSUME NEW i \in 1 .. n
      PROVE  /\ e(i) \in ArchiveHeader /\ e(i).name = files[i].name
             /\ e(i).length = files[i].length /\ e(i).offset = DataEnd(files)[i - 1]
  <2>1. DataEnd(files)[i - 1] \in Nat
    BY <1>1, <1>3
  <2> QED BY <1>2, <2>1 DEF ArchiveHeader
<1>5. H = [i \in 1 .. n |-> e(i)]
  BY DEF Headers
<1> HIDE DEF e, H, n
<1>6. H \in [1 .. n -> ArchiveHeader] /\ \A i \in 1 .. n : H[i] = e(i)
  BY <1>4, <1>5
<1>7. H \in Seq(ArchiveHeader) /\ Len(H) = n
  BY <1>1, <1>6
<1> QED BY <1>4, <1>6, <1>7 DEF H, n

-----------------------------------------------------------------------------
(* initrd_read(). *)

LEMMA MinOfTwo ==
  ASSUME NEW a \in Int, NEW b \in Int
  PROVE  Min({a, b}) = IF a <= b THEN a ELSE b
<1> DEFINE m == IF a <= b THEN a ELSE b
<1>1. m \in {a, b} /\ \A y \in {a, b} : m <= y
  OBVIOUS
<1>2. \A x \in {a, b} : (\A y \in {a, b} : x <= y) => x = m
  OBVIOUS
<1>3. Min({a, b}) = CHOOSE x \in {a, b} : \A y \in {a, b} : x <= y
  BY DEF Min
<1> HIDE DEF m
<1>4. Min({a, b}) \in {a, b} /\ \A y \in {a, b} : Min({a, b}) <= y
  BY <1>1, <1>3
<1> QED BY <1>2, <1>4 DEF m

\* bytes are size bytes of the file from offset, or as many as there are.
IsRead(bytes, header, offset, size) ==
  /\ bytes \in Seq(Nat)
  /\ Len(bytes) = IF offset >= header.length THEN 0
                  ELSE IF size <= header.length - offset THEN size
                  ELSE header.length - offset
  /\ \A k \in 1 .. Len(bytes) : bytes[k] = header.offset + offset + k - 1

LEMMA InitrdReadFacts ==
  ASSUME NEW header, header.length \in Nat, header.offset \in Nat,
         NEW offset \in Nat, NEW size \in Nat
  PROVE  IsRead(InitrdRead(header, offset, size), header, offset, size)
<1> DEFINE bytes == InitrdRead(header, offset, size)
<1>1. CASE offset >= header.length
  <2>1. bytes = <<>>
    BY <1>1 DEF InitrdRead
  <2> HIDE DEF bytes
  <2>2. IsRead(bytes, header, offset, size)
    BY <1>1, <2>1 DEF IsRead
  <2> QED BY <2>2 DEF bytes
<1>2. CASE ~(offset >= header.length)
  <2> DEFINE rest == header.length - offset
             n == Min({size, rest})
  <2>1. rest \in Nat
    BY <1>2
  <2>2. n = IF size <= rest THEN size ELSE rest
    <3> HIDE DEF rest
    <3> QED BY <2>1, MinOfTwo
  <2>3. bytes = [k \in 1 .. n |-> header.offset + offset + k - 1]
    BY <1>2 DEF InitrdRead
  <2>4. n \in Nat
    BY <2>1, <2>2
  <2> HIDE DEF n, bytes
  <2>5. bytes \in [1 .. n -> Nat] /\ \A k \in 1 .. n : bytes[k] = header.offset + offset + k - 1
    BY <2>3, <2>4
  <2>6. bytes \in Seq(Nat) /\ Len(bytes) = n
    BY <2>4, <2>5
  <2>7. IsRead(bytes, header, offset, size)
    BY <1>2, <2>2, <2>5, <2>6 DEF IsRead
  <2> QED BY <2>7 DEF bytes
<1> QED BY <1>1, <1>2

-----------------------------------------------------------------------------
(* The paths of the nodes. *)

LEMMA PathToIs ==
  ASSUME NEW t, WellFormed(t)
  PROVE  PathTo(t) = [n \in 1 .. Len(t) |->
           IF n = Root THEN <<>> ELSE Append(PathTo(t)[t[n].parent], t[n].name)]
<1> DEFINE L == Len(t)
           N == 1 .. L
           T == Seq(Names)
           S == [N -> T]
           e(g, n) == IF n = Root THEN <<>> ELSE Append(g[t[n].parent], t[n].name)
           E(g) == [n \in N |-> e(g, n)]
           step == [x \in S \X (1 .. L) |-> [x[1] EXCEPT ![x[2]] = e(x[1], x[2])]]
           g0 == [n \in N |-> <<>>]
           W == PathTo(t)
<1>1. L \in Nat
  BY LenProperties DEF WellFormed
<1>2. ASSUME NEW n \in N
      PROVE  t[n].name \in Names /\ (n # Root => t[n].parent \in 1 .. n - 1 /\ t[n].parent \in N)
  <2>1. t[n].name \in Names
    BY NodeType DEF WellFormed
  <2>2. n # Root => t[n].parent \in 1 .. n - 1
    BY ParentType
  <2> QED BY <1>1, <2>1, <2>2
<1> HIDE DEF L
<1>3. ASSUME NEW g \in S, NEW n \in N PROVE e(g, n) \in T
  <2>1. CASE n = Root
    BY <2>1
  <2>2. CASE n # Root
    <3>1. g[t[n].parent] \in T /\ t[n].name \in Names
      BY <1>2, <2>2
    <3> QED BY <2>2, <3>1, AppendProperties
  <2> QED BY <2>1, <2>2
<1>4. step \in [S \X (1 .. L) -> S]
  <2> HIDE DEF e, T
  <2>1. \A g \in S, n \in N : [g EXCEPT ![n] = e(g, n)] \in S
    BY <1>3
  <2> QED BY <2>1
<1>5. g0 \in S
  <2>1. <<>> \in T
    OBVIOUS
  <2> HIDE DEF T
  <2> QED BY <2>1
<1>6. PICK f : Iterates(f, S, g0, L, step)
  <2> HIDE DEF S, step, g0
  <2> QED BY <1>1, <1>4, <1>5, Iteration
<1>7. ASSUME NEW k \in 1 .. L
      PROVE  /\ f[k - 1] \in S /\ f[k] \in S /\ f[k][k] = e(f[k - 1], k)
             /\ \A m \in N : m # k => f[k][m] = f[k - 1][m]
  <2>1. k - 1 \in 0 .. L /\ k \in 0 .. L
    BY <1>1
  <2>2. f[k - 1] \in S /\ f[k] \in S /\ f[k] = step[<<f[k - 1], k>>]
    <3> HIDE DEF S, step, g0
    <3> QED BY <1>6, <2>1 DEF Iterates
  <2>3. f[k] = [f[k - 1] EXCEPT ![k] = e(f[k - 1], k)]
    <3> HIDE DEF e, T
    <3> QED BY <2>2
  <2> HIDE DEF e, T
  <2> QED BY <2>2, <2>3
<1> DEFINE Q(k) == \A m \in 1 .. k : f[k][m] = e(f[k], m)
           G == {k \in 0 .. L : Q(k)}
<1>8. ASSUME NEW k \in 1 .. L, k - 1 \in G PROVE k \in G
  <2>1. ASSUME NEW m \in 1 .. k PROVE f[k][m] = e(f[k], m)
    <3>1. m \in N /\ k \in N
      BY <1>1
    <3>2. m # Root => t[m].parent \in 1 .. m - 1 /\ t[m].parent \in N /\ t[m].parent # k
      <4>1. m # Root => t[m].parent \in 1 .. m - 1 /\ t[m].parent \in N
        BY <1>2, <3>1
      <4> QED BY <1>1, <3>1, <4>1
    <3>3. m # Root => f[k][t[m].parent] = f[k - 1][t[m].parent]
      BY <1>7, <3>2
    <3>4. e(f[k], m) = e(f[k - 1], m)
      BY <3>3
    <3>5. CASE m = k
      <4> HIDE DEF e
      <4> QED BY <1>7, <3>4, <3>5
    <3>6. CASE m # k
      <4>1. f[k][m] = f[k - 1][m]
        BY <1>7, <3>1, <3>6
      <4>2. m \in 1 .. k - 1
        BY <1>1, <3>6
      <4>3. f[k - 1][m] = e(f[k - 1], m)
        <5> HIDE DEF e
        <5> QED BY <1>8, <4>2
      <4> QED BY <3>4, <4>1, <4>3
    <3> QED BY <3>5, <3>6
  <2> HIDE DEF e
  <2> QED BY <1>1, <2>1
<1>9. 0 \in G
  BY <1>1
<1>10. \A k \in 0 .. L : k \in G
  <2> HIDE DEF G
  <2> QED BY <1>1, <1>8, <1>9, Induction
<1>11. f[L] = E(f[L])
  <2>1. L \in 0 .. L
    BY <1>1
  <2>2. f[L] \in S
    <3> HIDE DEF S, step, g0
    <3> QED BY <1>6, <2>1 DEF Iterates
  <2>3. \A m \in N : f[L][m] = e(f[L], m)
    BY <1>10, <2>1
  <2> HIDE DEF e, T
  <2> QED BY <2>2, <2>3
<1>12. W = CHOOSE g : g = E(g)
  BY DEF PathTo, L
<1>13. W = E(W)
  <2> HIDE DEF E, W
  <2> QED BY <1>11, <1>12
<1> QED BY <1>13 DEF L

LEMMA PathToFacts ==
  ASSUME NEW t, WellFormed(t)
  PROVE  /\ \A n \in 1 .. Len(t) : PathTo(t)[n] \in Seq(Names)
         /\ PathTo(t)[Root] = <<>> /\ DOMAIN PathTo(t) = 1 .. Len(t)
         /\ \A n \in 2 .. Len(t) :
              /\ PathTo(t)[n] = Append(PathTo(t)[t[n].parent], t[n].name)
              /\ t[n].parent \in 1 .. n - 1 /\ t[n].parent \in 1 .. Len(t)
              /\ t[n].name \in Names /\ t[n].name \notin Reserved
              /\ t[t[n].parent].type = "directory"
<1> DEFINE L == Len(t)
           W == PathTo(t)
           e(n) == Append(W[t[n].parent], t[n].name)
<1>1. L \in Nat /\ L >= 1
  BY LenProperties DEF WellFormed
<1>2. W = [n \in 1 .. L |-> IF n = Root THEN <<>> ELSE e(n)]
  BY PathToIs
<1>3. W[Root] = <<>> /\ DOMAIN W = 1 .. L /\ \A n \in 2 .. L : W[n] = e(n)
  <2> HIDE DEF W, e, L
  <2> QED BY <1>1, <1>2 DEF Root
<1>4. ASSUME NEW n \in 2 .. L
      PROVE  /\ t[n].parent \in 1 .. n - 1 /\ t[n].parent \in 1 .. L
             /\ t[n].name \in Names /\ t[n].name \notin Reserved
             /\ t[t[n].parent].type = "directory"
  <2>1. t[n].name \in Names
    BY NodeType DEF WellFormed
  <2>2. /\ t[n].parent \in 1 .. n - 1 /\ t[n].name \notin Reserved
        /\ t[t[n].parent].type = "directory"
    BY DEF WellFormed, Linked
  <2> QED BY <1>1, <2>1, <2>2
<1> HIDE DEF L, W
<1> DEFINE G == {k \in 0 .. L : \A m \in 1 .. k : W[m] \in Seq(Names)}
<1>5. ASSUME NEW k \in 1 .. L, k - 1 \in G PROVE k \in G
  <2>1. \A m \in 1 .. k - 1 : W[m] \in Seq(Names)
    BY <1>5
  <2>2. W[k] \in Seq(Names)
    <3>1. CASE k = Root
      BY <1>3, <3>1
    <3>2. CASE k # Root
      <4>1. k \in 2 .. L
        BY <1>1, <3>2 DEF Root
      <4>2. W[t[k].parent] \in Seq(Names) /\ t[k].name \in Names /\ W[k] = e(k)
        BY <1>3, <1>4, <2>1, <4>1
      <4> QED BY <4>2, AppendProperties
    <3> QED BY <3>1, <3>2
  <2>3. \A m \in 1 .. k : m \in 1 .. k - 1 \/ m = k
    OBVIOUS
  <2> QED BY <1>1, <2>1, <2>2, <2>3
<1>6. 0 \in G
  BY <1>1
<1>7. \A k \in 0 .. L : k \in G
  <2> HIDE DEF G
  <2> QED BY <1>1, <1>5, <1>6, Induction
<1>8. \A n \in 1 .. L : W[n] \in Seq(Names)
  BY <1>1, <1>7
<1> QED BY <1>3, <1>4, <1>8 DEF L, W

LEMMA AppendFacts ==
  ASSUME NEW s \in Seq(Names), NEW x \in Names
  PROVE  /\ Append(s, x) \in Seq(Names) /\ Append(s, x) # <<>> /\ Len(Append(s, x)) = Len(s) + 1
         /\ Front(Append(s, x)) = s /\ Last(Append(s, x)) = x /\ Len(s) \in Nat
         /\ \A i \in 1 .. Len(s) : Append(s, x)[i] = s[i]
         /\ Append(s, x)[Len(s) + 1] = x
<1> DEFINE u == Append(s, x)
           n == Len(s)
<1>1. /\ u \in Seq(Names) /\ u # <<>> /\ Len(u) = n + 1 /\ n \in Nat
      /\ \A i \in 1 .. n : u[i] = s[i]
      /\ u[n + 1] = x
  BY AppendProperties, LenProperties
<1> HIDE DEF u
<1>2. Last(u) = x
  BY <1>1 DEF Last
<1>3. Front(u) = s
  <2>1. Front(u) = SubSeq(u, 1, n)
    BY <1>1 DEF Front
  <2>2. \A i \in 1 .. n : u[i] \in Names /\ s[i] \in Names
    BY <1>1, ElementOfSeq
  <2>3. /\ SubSeq(u, 1, n) \in Seq(Names) /\ Len(SubSeq(u, 1, n)) = n
        /\ \A i \in 1 .. n : SubSeq(u, 1, n)[i] = s[i]
    <3>1. /\ SubSeq(u, 1, n) \in Seq(Names)
          /\ Len(SubSeq(u, 1, n)) = IF 1 <= n THEN n - 1 + 1 ELSE 0
          /\ \A i \in 1 .. n - 1 + 1 : SubSeq(u, 1, n)[i] = u[1 + i - 1]
      BY <1>1, <2>2, SubSeqProperties
    <3>2. \A i \in 1 .. n : 1 + i - 1 = i /\ i \in 1 .. n - 1 + 1
      BY <1>1
    <3>3. \A i \in 1 .. n : SubSeq(u, 1, n)[i] = s[i]
      BY <1>1, <3>1, <3>2
    <3>4. Len(SubSeq(u, 1, n)) = n
      BY <1>1, <3>1
    <3> QED BY <3>1, <3>3, <3>4
  <2> QED BY <2>1, <2>3, SeqEqual
<1> QED BY <1>1, <1>2, <1>3 DEF u

LEMMA AppendSame ==
  ASSUME NEW s \in Seq(Names), NEW x \in Names, NEW u \in Seq(Names), NEW y \in Names,
         Append(s, x) = Append(u, y)
  PROVE  s = u /\ x = y
<1>1. Front(Append(s, x)) = s /\ Last(Append(s, x)) = x
  BY AppendFacts
<1>2. Front(Append(u, y)) = u /\ Last(Append(u, y)) = y
  BY AppendFacts
<1> QED BY <1>1, <1>2

\* No two nodes have the same path.
LEMMA PathToInjective ==
  ASSUME NEW t, WellFormed(t), NEW m \in 1 .. Len(t), NEW n \in 1 .. Len(t),
         PathTo(t)[m] = PathTo(t)[n]
  PROVE  m = n
<1> DEFINE L == Len(t)
           P == PathTo(t)
           G == {k \in 0 .. L : \A a \in 1 .. k : \A b \in 1 .. L : P[a] = P[b] => a = b}
<1>1. L \in Nat /\ L >= 1
  BY LenProperties DEF WellFormed
<1>2. /\ \A a \in 1 .. L : P[a] \in Seq(Names)
      /\ P[Root] = <<>>
      /\ \A a \in 2 .. L :
           /\ P[a] = Append(P[t[a].parent], t[a].name)
           /\ t[a].parent \in 1 .. a - 1 /\ t[a].parent \in 1 .. L /\ t[a].name \in Names
  BY PathToFacts
<1> HIDE DEF P
<1>3. \A a \in 2 .. L : P[a] # <<>>
  <2>1. ASSUME NEW a \in 2 .. L PROVE P[a] # <<>>
    <3>1. P[a] = Append(P[t[a].parent], t[a].name) /\ P[t[a].parent] \in Seq(Names)
          /\ t[a].name \in Names
      BY <1>2
    <3> QED BY <3>1, AppendFacts
  <2> QED BY <2>1
<1>4. ASSUME NEW k \in 1 .. L, k - 1 \in G PROVE k \in G
  <2>1. ASSUME NEW b \in 1 .. L, P[k] = P[b] PROVE k = b
    <3>1. CASE k = Root \/ b = Root
      <4>1. \A a \in 1 .. L : P[a] = <<>> => a = Root
        BY <1>1, <1>3 DEF Root
      <4> QED BY <1>2, <2>1, <3>1, <4>1
    <3>2. CASE k # Root /\ b # Root
      <4>1. k \in 2 .. L /\ b \in 2 .. L
        BY <1>1, <3>2 DEF Root
      <4>2. /\ P[k] = Append(P[t[k].parent], t[k].name)
            /\ P[b] = Append(P[t[b].parent], t[b].name)
            /\ P[t[k].parent] \in Seq(Names) /\ P[t[b].parent] \in Seq(Names)
            /\ t[k].name \in Names /\ t[b].name \in Names
            /\ t[k].parent \in 1 .. k - 1 /\ t[b].parent \in 1 .. L
        BY <1>2, <4>1
      <4>3. P[t[k].parent] = P[t[b].parent] /\ t[k].name = t[b].name
        <5> DEFINE s == P[t[k].parent]
                   x == t[k].name
                   u == P[t[b].parent]
                   y == t[b].name
        <5>1. s \in Seq(Names) /\ x \in Names /\ u \in Seq(Names) /\ y \in Names
          BY <4>2
        <5>2. Append(s, x) = Append(u, y)
          BY <2>1, <4>2
        <5> HIDE DEF s, x, u, y
        <5>3. s = u /\ x = y
          BY <5>1, <5>2, AppendSame
        <5> QED BY <5>3 DEF s, x, u, y
      <4>4. t[k].parent = t[b].parent
        BY <1>4, <4>2, <4>3
      <4>5. IsChild(t, t[k].parent, t[k].name, k) /\ IsChild(t, t[k].parent, t[k].name, b)
        BY <4>1, <4>3, <4>4 DEF IsChild
      <4> QED BY <4>5, ChildUnique
    <3> QED BY <3>1, <3>2
  <2>2. \A a \in 1 .. k : a \in 1 .. k - 1 \/ a = k
    OBVIOUS
  <2> QED BY <1>1, <1>4, <2>1, <2>2
<1>5. 0 \in G
  BY <1>1
<1>6. \A k \in 0 .. L : k \in G
  <2> HIDE DEF G
  <2> QED BY <1>1, <1>4, <1>5, Induction
<1>7. m \in 1 .. L /\ n \in 1 .. L /\ P[m] = P[n]
  BY DEF P
<1> QED BY <1>1, <1>6, <1>7

\* A path one name longer than that of n is the path of a child.
LEMMA ChildPath ==
  ASSUME NEW t, WellFormed(t), NEW n \in 1 .. Len(t), NEW name \in Names, NEW c \in 1 .. Len(t)
  PROVE  PathTo(t)[c] = Append(PathTo(t)[n], name) <=> IsChild(t, n, name, c)
<1> DEFINE P == PathTo(t)
           s == P[n]
           u == P[t[c].parent]
           y == t[c].name
<1>1. Len(t) \in Nat
  BY LenProperties DEF WellFormed
<1>2. s \in Seq(Names) /\ P[Root] = <<>>
  BY PathToFacts
<1>3. CASE c = Root
  <2>1. P[c] # Append(s, name)
    <3> HIDE DEF s
    <3> QED BY <1>2, <1>3, AppendFacts
  <2>2. ~IsChild(t, n, name, c)
    BY <1>3 DEF IsChild, Root
  <2> QED BY <2>1, <2>2
<1>4. CASE c # Root
  <2>1. c \in 2 .. Len(t)
    BY <1>1, <1>4 DEF Root
  <2>2. /\ P[c] = Append(u, y) /\ y \in Names /\ t[c].parent \in 1 .. Len(t)
    BY <2>1, PathToFacts
  <2>3. u \in Seq(Names)
    BY <2>2, PathToFacts
  <2>4. ASSUME P[c] = Append(s, name) PROVE IsChild(t, n, name, c)
    <3>1. u = s /\ y = name
      <4> HIDE DEF s, u, y
      <4> QED BY <1>2, <2>2, <2>3, <2>4, AppendSame, ZenonT(30)
    <3>2. t[c].parent = n
      BY <2>2, <3>1, PathToInjective
    <3> QED BY <2>1, <3>1, <3>2 DEF IsChild
  <2>5. ASSUME IsChild(t, n, name, c) PROVE P[c] = Append(s, name)
    BY <2>2, <2>5 DEF IsChild
  <2> QED BY <2>4, <2>5
<1> QED BY <1>3, <1>4

\* The node n is where the names at lead; no node stands for Fails.
Matches(t, n, at) == IF n = Null THEN at = Fails ELSE PathTo(t)[n] = at

LEMMA FailsFacts ==
  /\ Fails \in Seq(Names) /\ Fails = Append(<<>>, Empty) /\ <<>> \in Seq(Names) /\ Empty \in Names
<1>1. <<>> \in Seq(Names) /\ Empty \in Names
  BY DEF Names
<1>2. Fails = Append(<<>>, Empty)
  BY DEF Fails
<1> QED BY <1>1, <1>2, AppendFacts

LEMMA PathNotFails ==
  ASSUME NEW t, WellFormed(t), NEW n \in 1 .. Len(t)
  PROVE  PathTo(t)[n] # Fails
<1> DEFINE P == PathTo(t)
<1>1. Len(t) \in Nat /\ P[Root] = <<>>
  BY LenProperties, PathToFacts DEF WellFormed
<1>2. CASE n = Root
  <2>1. P[n] = <<>>
    BY <1>1, <1>2
  <2>2. Append(<<>>, Empty) # <<>>
    BY FailsFacts, AppendFacts
  <2>3. Fails # <<>>
    BY <2>2, FailsFacts
  <2> QED BY <2>1, <2>3
<1>3. CASE n # Root
  <2> DEFINE u == P[t[n].parent]
             y == t[n].name
  <2>1. n \in 2 .. Len(t)
    BY <1>1, <1>3 DEF Root
  <2>2. P[n] = Append(u, y) /\ y \in Names /\ y # Empty /\ t[n].parent \in 1 .. Len(t)
    BY <2>1, PathToFacts DEF Reserved
  <2>3. u \in Seq(Names)
    BY <2>2, PathToFacts
  <2> HIDE DEF u, y
  <2> QED BY <2>2, <2>3, FailsFacts, AppendSame
<1> QED BY <1>2, <1>3

LEMMA FollowNameType ==
  ASSUME NEW paths, NEW at \in Seq(Names), NEW name \in Names
  PROVE  FollowName(paths, at, name) \in Seq(Names)
<1>1. Append(at, name) \in Seq(Names)
  BY AppendFacts
<1>2. at # <<>> => Front(at) \in Seq(Names)
  <2>1. ASSUME at # <<>> PROVE Front(at) \in Seq(Names)
    <3>1. PICK s \in Seq(Names), x \in Names : at = Append(s, x)
      BY <2>1, SequenceEmptyOrAppend
    <3> QED BY <3>1, AppendFacts
  <2> QED BY <2>1
<1> QED BY <1>1, <1>2, FailsFacts DEF FollowName

LEMMA DescendFollows ==
  ASSUME NEW t, WellFormed(t), NEW n \in 0 .. Len(t), NEW at \in Seq(Names),
         Matches(t, n, at), NEW name \in Names
  PROVE  Matches(t, Descend(t, n, name), FollowName(Range(PathTo(t)), at, name))
<1> DEFINE P == PathTo(t)
           f == FollowName(Range(P), at, name)
           d == Descend(t, n, name)
<1>1. Len(t) \in Nat /\ Len(t) >= 1
  BY LenProperties DEF WellFormed
<1>2. CASE n = Null
  <2>1. d = Null /\ f = Fails
    BY <1>2 DEF Descend, FollowName, Matches
  <2> QED BY <2>1 DEF Matches
<1>3. CASE n # Null
  <2>1. n \in 1 .. Len(t) /\ at = P[n]
    BY <1>1, <1>3 DEF Null, Matches
  <2>2. at # Fails
    BY <2>1, PathNotFails
  <2>3. \A x : x \in Range(P) <=> \E m \in 1 .. Len(t) : P[m] = x
    BY PathToFacts DEF Range
  <2>4. ASSUME NEW m \in 1 .. Len(t)
        PROVE  P[m] = Append(at, name) <=> IsChild(t, n, name, m)
    BY <2>1, ChildPath
  <2>5. ASSUME NEW m, IsChild(t, n, name, m)
        PROVE  m \in 1 .. Len(t) /\ t[n].type = "directory" /\ name \notin Reserved
    BY <1>1, <2>5 DEF WellFormed, Linked, IsChild
  <2>6. CASE name = Dot
    <3>1. d = n /\ f = at
      BY <1>3, <2>6 DEF Descend, FollowName, Dot, Long
    <3> QED BY <1>3, <2>1, <3>1 DEF Matches
  <2>7. CASE name = DotDot
    <3>1. /\ d = IF n # Root /\ t[n].parent # Null THEN t[n].parent ELSE n
          /\ f = IF at = <<>> THEN <<>> ELSE Front(at)
      BY <1>3, <2>2, <2>7 DEF Descend, FollowName, Dot, DotDot, Long
    <3>2. CASE n = Root
      BY <1>3, <2>1, <3>1, <3>2, PathToFacts DEF Matches
    <3>3. CASE n # Root
      <4>1. n \in 2 .. Len(t)
        BY <1>1, <2>1, <3>3 DEF Root
      <4> DEFINE q == t[n].parent
                 y == t[n].name
                 s == P[q]
      <4>2. at = Append(s, y) /\ y \in Names /\ q \in 1 .. Len(t)
        BY <2>1, <4>1, PathToFacts
      <4>3. s \in Seq(Names)
        BY <4>2, PathToFacts
      <4>4. at # <<>> /\ Front(at) = s
        <5> HIDE DEF s, y
        <5> QED BY <4>2, <4>3, AppendFacts
      <4>5. d = q /\ f = s /\ q # Null
        BY <3>1, <3>3, <4>2, <4>4 DEF Null
      <4> QED BY <4>5 DEF Matches
    <3> QED BY <3>2, <3>3
  <2>8. CASE name \notin {Dot, DotDot}
    <3>1. f = IF Append(at, name) \in Range(P) THEN Append(at, name) ELSE Fails
      BY <2>2, <2>8 DEF FollowName
    <3>2. d = IF name = Long THEN Null ELSE FindDir(t, n, name)
      BY <1>3, <2>8 DEF Descend
    <3>3. CASE \E m : IsChild(t, n, name, m)
      <4>1. PICK m : IsChild(t, n, name, m)
        BY <3>3
      <4>2. m \in 1 .. Len(t) /\ t[n].type = "directory" /\ name # Long /\ m # Null
        BY <2>5, <4>1 DEF Reserved, Null
      <4>3. FindChild(t, n, name) = m
        BY <2>1, <4>1, FindChildExact
      <4>4. d = m
        BY <1>3, <3>2, <4>2, <4>3 DEF FindDir, IsDir
      <4>5. P[m] = Append(at, name) /\ f = Append(at, name)
        BY <2>3, <2>4, <3>1, <4>1, <4>2
      <4> QED BY <4>2, <4>4, <4>5 DEF Matches
    <3>4. CASE ~\E m : IsChild(t, n, name, m)
      <4>1. Append(at, name) \notin Range(P)
        BY <2>3, <2>4, <3>4
      <4>2. FindChild(t, n, name) = Null
        BY <2>1, <3>4, FindChildExact
      <4>3. d = Null /\ f = Fails
        BY <3>1, <3>2, <4>1, <4>2 DEF FindDir
      <4> QED BY <4>3 DEF Matches
    <3> QED BY <3>3, <3>4
  <2> QED BY <2>6, <2>7, <2>8
<1> QED BY <1>2, <1>3

Following(F, paths, from, names) ==
  /\ F \in [0 .. Len(names) -> Seq(Names)]
  /\ F[0] = from
  /\ \A k \in 1 .. Len(names) : F[k] = FollowName(paths, F[k - 1], names[k])

LEMMA FollowSteps ==
  ASSUME NEW paths, NEW from \in Seq(Names), NEW names, Len(names) \in Nat,
         \A k \in 1 .. Len(names) : names[k] \in Names
  PROVE  Following(Follow(paths, from, names), paths, from, names)
<1> DEFINE n    == Len(names)
           S    == Seq(Names)
           E(g) == [k \in 0 .. n |->
                     IF k = 0 THEN from ELSE FollowName(paths, g[k - 1], names[k])]
           step == [x \in S \X (1 .. n) |-> FollowName(paths, x[1], names[x[2]])]
           W    == Follow(paths, from, names)
<1>1. \A s \in S, k \in 1 .. n : FollowName(paths, s, names[k]) \in S
  BY FollowNameType
<1> HIDE DEF S
<1>2. step \in [S \X (1 .. n) -> S]
  BY <1>1
<1>3. \A s \in S, k \in 1 .. n : step[<<s, k>>] = FollowName(paths, s, names[k])
  OBVIOUS
<1>4. from \in S /\ n \in Nat
  BY DEF S
<1> HIDE DEF step, n
<1>5. PICK f : Iterates(f, S, from, n, step)
  BY <1>2, <1>4, Iteration
<1>6. \A k \in 1 .. n : f[k] = FollowName(paths, f[k - 1], names[k])
  <2>1. \A k \in 1 .. n : f[k - 1] \in S
    BY <1>4, <1>5 DEF Iterates
  <2> QED BY <1>3, <1>5, <2>1 DEF Iterates
<1>7. f = E(f)
  BY <1>4, <1>5, <1>6 DEF Iterates
<1>8. W = CHOOSE g : g = E(g)
  BY DEF Follow, n
<1>9. W = E(W)
  <2> HIDE DEF E, W
  <2> QED BY <1>7, <1>8
<1> HIDE DEF W
<1>10. /\ W = [k \in 0 .. n |-> W[k]] /\ W[0] = from
       /\ \A k \in 1 .. n : W[k] = FollowName(paths, W[k - 1], names[k])
  <2> DEFINE e(k) == FollowName(paths, W[k - 1], names[k])
  <2>1. W = [k \in 0 .. n |-> IF k = 0 THEN from ELSE e(k)]
    BY <1>9
  <2> HIDE DEF e
  <2>2. /\ W = [k \in 0 .. n |-> W[k]] /\ W[0] = from
        /\ \A k \in 1 .. n : W[k] = e(k)
    BY <1>4, <2>1
  <2> QED BY <2>2 DEF e
<1>11. W \in [0 .. n -> S]
  <2>1. ASSUME NEW k \in 1 .. n, W[k - 1] \in S PROVE W[k] \in S
    <3>1. W[k] = FollowName(paths, W[k - 1], names[k])
      BY <1>10
    <3> QED BY <1>1, <2>1, <3>1
  <2> QED BY <1>4, <1>10, <2>1, StaysIn
<1> QED BY <1>10, <1>11 DEF W, n, S, Following

\* resolve_path_fs() and the names lead to the same place after every name.
LEMMA WalkFollows ==
  ASSUME NEW t, WellFormed(t), NEW start \in 1 .. Len(t), NEW names, Len(names) \in Nat,
         \A k \in 1 .. Len(names) : names[k] \in Names
  PROVE  \A k \in 0 .. Len(names) :
           Matches(t, Walk(t, start, names)[k],
                   Follow(Range(PathTo(t)), PathTo(t)[start], names)[k])
<1> DEFINE n == Len(names)
           W == Walk(t, start, names)
           F == Follow(Range(PathTo(t)), PathTo(t)[start], names)
           G == {i \in 0 .. n : Matches(t, W[i], F[i])}
<1>1. Len(t) \in Nat /\ start \in 0 .. Len(t) /\ PathTo(t)[start] \in Seq(Names) /\ start # Null
  BY LenProperties, PathToFacts DEF WellFormed, Null
<1>2. /\ W \in [0 .. n -> 0 .. Len(t)] /\ W[0] = start
      /\ \A i \in 1 .. n : W[i] = Descend(t, W[i - 1], names[i])
  BY <1>1, WalkSteps
<1>3. /\ F \in [0 .. n -> Seq(Names)] /\ F[0] = PathTo(t)[start]
      /\ \A i \in 1 .. n : F[i] = FollowName(Range(PathTo(t)), F[i - 1], names[i])
  <2> DEFINE paths == Range(PathTo(t))
             from  == PathTo(t)[start]
  <2>1. from \in Seq(Names)
    BY <1>1
  <2> HIDE DEF paths, from
  <2>2. Following(Follow(paths, from, names), paths, from, names)
    BY <2>1, FollowSteps
  <2>3. F = Follow(paths, from, names)
    BY DEF paths, from
  <2> QED BY <2>2, <2>3 DEF paths, from, Following
<1> HIDE DEF W, F
<1>4. 0 \in G
  BY <1>1, <1>2, <1>3 DEF Matches
<1>5. ASSUME NEW i \in 1 .. n, i - 1 \in G PROVE i \in G
  <2>1. W[i - 1] \in 0 .. Len(t) /\ F[i - 1] \in Seq(Names) /\ names[i] \in Names
    BY <1>2, <1>3
  <2>2. Matches(t, W[i - 1], F[i - 1])
    BY <1>5
  <2>3. Matches(t, W[i], F[i])
    BY <1>2, <1>3, <2>1, <2>2, DescendFollows
  <2> QED BY <2>3
<1>6. \A i \in 0 .. n : i \in G
  <2> HIDE DEF G
  <2> QED BY <1>4, <1>5, Induction
<1> QED BY <1>6 DEF W, F

-----------------------------------------------------------------------------
(* From a node up to the root. *)

LEMMA AncestorSteps ==
  ASSUME NEW t, WellFormed(t), NEW n \in 1 .. Len(t)
  PROVE  /\ Ancestor(t, n) \in [0 .. MaxComponents -> 0 .. Len(t)]
         /\ Ancestor(t, n)[0] = n
         /\ \A k \in 1 .. MaxComponents :
              Ancestor(t, n)[k] = ParentOf(t, Ancestor(t, n)[k - 1])
<1> DEFINE M    == MaxComponents
           S    == 0 .. Len(t)
           E(g) == [k \in 0 .. M |-> IF k = 0 THEN n ELSE ParentOf(t, g[k - 1])]
           step == [x \in S \X (1 .. M) |-> ParentOf(t, x[1])]
           W    == Ancestor(t, n)
<1>0. Len(t) \in Nat
  BY LenProperties DEF WellFormed
<1>1. \A s \in S : ParentOf(t, s) \in S
  <2>1. ASSUME NEW s \in S PROVE ParentOf(t, s) \in S
    <3>1. CASE s = Null
      BY <1>0, <3>1 DEF ParentOf, Null
    <3>2. CASE s # Null
      <4>1. s \in 1 .. Len(t)
        BY <1>0, <3>2 DEF Null
      <4> QED BY <3>2, <4>1, ParentType DEF ParentOf
    <3> QED BY <3>1, <3>2
  <2> QED BY <2>1
<1>2. n \in S /\ M \in Nat
  BY <1>0, MaxComponentsAssumption
<1> HIDE DEF S
<1>3. step \in [S \X (1 .. M) -> S]
  BY <1>1
<1>4. \A s \in S, k \in 1 .. M : step[<<s, k>>] = ParentOf(t, s)
  OBVIOUS
<1> HIDE DEF step, M
<1>5. PICK f : Iterates(f, S, n, M, step)
  BY <1>2, <1>3, Iteration
<1>6. \A k \in 1 .. M : f[k] = ParentOf(t, f[k - 1])
  <2>1. \A k \in 1 .. M : f[k - 1] \in S
    BY <1>2, <1>5 DEF Iterates
  <2> QED BY <1>4, <1>5, <2>1 DEF Iterates
<1>7. f = E(f)
  BY <1>2, <1>5, <1>6 DEF Iterates
<1>8. W = CHOOSE g : g = E(g)
  BY DEF Ancestor, M
<1>9. W = E(W)
  <2> HIDE DEF E, W
  <2> QED BY <1>7, <1>8
<1> HIDE DEF W
<1>10. /\ W = [k \in 0 .. M |-> W[k]] /\ W[0] = n
       /\ \A k \in 1 .. M : W[k] = ParentOf(t, W[k - 1])
  <2> DEFINE e(k) == ParentOf(t, W[k - 1])
  <2>1. W = [k \in 0 .. M |-> IF k = 0 THEN n ELSE e(k)]
    BY <1>9
  <2> HIDE DEF e
  <2>2. /\ W = [k \in 0 .. M |-> W[k]] /\ W[0] = n
        /\ \A k \in 1 .. M : W[k] = e(k)
    BY <1>2, <2>1
  <2> QED BY <2>2 DEF e
<1>11. W \in [0 .. M -> S]
  BY <1>1, <1>2, <1>10, StaysIn
<1> QED BY <1>10, <1>11 DEF W, M, S

LEMMA DepthFacts ==
  ASSUME NEW t, WellFormed(t), NEW n \in 1 .. Len(t)
  PROVE  /\ Len(PathTo(t)[n]) \in Nat
         /\ Len(PathTo(t)[n]) = 0 <=> n = Root
         /\ n # Root =>
              /\ t[n].parent \in 1 .. Len(t)
              /\ Len(PathTo(t)[t[n].parent]) = Len(PathTo(t)[n]) - 1
              /\ IsChild(t, t[n].parent, t[n].name, n)
<1> DEFINE P == PathTo(t)
<1>1. Len(t) \in Nat /\ P[n] \in Seq(Names)
  BY LenProperties, PathToFacts DEF WellFormed
<1>2. Len(P[n]) \in Nat
  BY <1>1, LenProperties
<1>3. CASE n = Root
  <2>1. P[n] = <<>>
    BY <1>3, PathToFacts
  <2>2. Len(P[n]) = 0
    BY <2>1
  <2> QED BY <1>3, <2>2
<1>4. CASE n # Root
  <2> DEFINE q == t[n].parent
             s == P[q]
             y == t[n].name
  <2>1. n \in 2 .. Len(t)
    BY <1>1, <1>4 DEF Root
  <2>2. P[n] = Append(s, y) /\ y \in Names /\ q \in 1 .. Len(t)
    BY <2>1, PathToFacts
  <2>3. s \in Seq(Names)
    BY <2>2, PathToFacts
  <2>4. Len(P[n]) = Len(s) + 1 /\ Len(s) \in Nat
    <3> HIDE DEF s, y
    <3> QED BY <2>2, <2>3, AppendFacts
  <2>5. IsChild(t, q, y, n)
    BY <2>1 DEF IsChild
  <2> QED BY <1>2, <1>4, <2>2, <2>4, <2>5
<1> QED BY <1>3, <1>4

\* The node k levels up is k names nearer to the root, and then there is none.
LEMMA AncestorDepth ==
  ASSUME NEW t, WellFormed(t), NEW n \in 1 .. Len(t)
  PROVE  \A k \in 0 .. MaxComponents :
           IF k <= Len(PathTo(t)[n])
           THEN /\ Ancestor(t, n)[k] \in 1 .. Len(t)
                /\ Len(PathTo(t)[Ancestor(t, n)[k]]) = Len(PathTo(t)[n]) - k
           ELSE Ancestor(t, n)[k] = Null
<1> DEFINE M == MaxComponents
           U == Ancestor(t, n)
           D(m) == Len(PathTo(t)[m])
           G == {k \in 0 .. M : IF k <= D(n) THEN U[k] \in 1 .. Len(t) /\ D(U[k]) = D(n) - k
                                ELSE U[k] = Null}
<1>1. M \in Nat /\ Len(t) \in Nat /\ Len(t) >= 1
  BY MaxComponentsAssumption, LenProperties DEF WellFormed
<1>2. \A m \in 1 .. Len(t) :
        /\ D(m) \in Nat /\ (D(m) = 0 <=> m = Root)
        /\ m # Root => t[m].parent \in 1 .. Len(t) /\ D(t[m].parent) = D(m) - 1
  BY DepthFacts
<1>3. U[0] = n /\ \A k \in 1 .. M : U[k] = ParentOf(t, U[k - 1])
  BY AncestorSteps
<1>4. t[Root].parent = Null
  BY DEF WellFormed
<1> HIDE DEF D, U, M
<1>5. 0 \in G
  BY <1>1, <1>2, <1>3
<1>6. ASSUME NEW k \in 1 .. M, k - 1 \in G PROVE k \in G
  <2>1. U[k] = ParentOf(t, U[k - 1]) /\ D(n) \in Nat /\ k \in 0 .. M
    BY <1>2, <1>3
  <2>2. IF k - 1 <= D(n) THEN U[k - 1] \in 1 .. Len(t) /\ D(U[k - 1]) = D(n) - (k - 1)
        ELSE U[k - 1] = Null
    BY <1>6
  <2>3. CASE k <= D(n)
    <3>1. U[k - 1] \in 1 .. Len(t) /\ D(U[k - 1]) = D(n) - (k - 1) /\ D(U[k - 1]) # 0
      BY <2>1, <2>2, <2>3
    <3>2. U[k - 1] # Root /\ U[k] = t[U[k - 1]].parent
      BY <1>2, <2>1, <3>1 DEF ParentOf, Null
    <3>3. U[k] \in 1 .. Len(t) /\ D(U[k]) = D(U[k - 1]) - 1
      BY <1>2, <3>1, <3>2
    <3> QED BY <2>1, <2>3, <3>1, <3>3
  <2>4. CASE k = D(n) + 1
    <3>1. U[k - 1] \in 1 .. Len(t) /\ D(U[k - 1]) = 0
      BY <2>1, <2>2, <2>4
    <3>2. U[k - 1] = Root
      BY <1>2, <3>1
    <3>3. U[k] = Null
      BY <1>4, <2>1, <3>2 DEF ParentOf, Null, Root
    <3> QED BY <2>1, <2>4, <3>3
  <2>5. CASE k > D(n) + 1
    <3>1. U[k] = Null
      BY <2>1, <2>2, <2>5 DEF ParentOf
    <3> QED BY <2>1, <2>5, <3>1
  <2> QED BY <2>1, <2>3, <2>4, <2>5
<1>7. \A k \in 0 .. M : k \in G
  <2> HIDE DEF G
  <2> QED BY <1>1, <1>5, <1>6, Induction
<1> QED BY <1>7 DEF D, U, M

LEMMA DescendChild ==
  ASSUME NEW t, WellFormed(t), NEW d \in 1 .. Len(t), NEW name, NEW c, IsChild(t, d, name, c)
  PROVE  Descend(t, d, name) = c
<1>1. Len(t) \in Nat
  BY LenProperties DEF WellFormed
<1>2. name \notin Reserved /\ t[d].type = "directory"
  BY <1>1 DEF WellFormed, Linked, IsChild
<1>3. FindChild(t, d, name) = c
  BY FindChildExact
<1> QED BY <1>1, <1>2, <1>3 DEF Descend, FindDir, IsDir, Reserved, Null

NamesUp(t, n, depth, names) ==
  /\ Len(names) = depth
  /\ \A i \in 1 .. depth : names[i] = t[Ancestor(t, n)[depth - i]].name

\* Down from the root along the names met on the way up.
LEMMA WalkBack ==
  ASSUME NEW t, WellFormed(t), NEW n \in 1 .. Len(t), NEW depth \in 0 .. MaxComponents,
         depth = Len(PathTo(t)[n]), NEW names,
         NamesUp(t, n, depth, names)
  PROVE  Walk(t, Root, names)[depth] = n
<1> DEFINE U == Ancestor(t, n)
           W == Walk(t, Root, names)
           D(m) == Len(PathTo(t)[m])
           G == {j \in 0 .. depth : W[j] = U[depth - j]}
<1>1. MaxComponents \in Nat /\ depth \in Nat /\ Len(t) \in Nat /\ Len(t) >= 1
  BY MaxComponentsAssumption, LenProperties DEF WellFormed
<1>2. Len(names) = depth
  BY DEF NamesUp
<1>3. \A j \in 1 .. depth : names[j] = t[U[depth - j]].name
  BY DEF NamesUp
<1>4. W[0] = Root /\ \A j \in 1 .. depth : W[j] = Descend(t, W[j - 1], names[j])
  <2>1. Root \in 0 .. Len(t) /\ Len(names) \in Nat
    BY <1>1, <1>2 DEF Root
  <2>2. /\ W[0] = Root
        /\ \A j \in 1 .. Len(names) : W[j] = Descend(t, W[j - 1], names[j])
    BY <2>1, WalkSteps
  <2> QED BY <1>2, <2>2
<1>5. U[0] = n /\ \A k \in 1 .. MaxComponents : U[k] = ParentOf(t, U[k - 1])
  BY AncestorSteps
<1>6. \A k \in 0 .. depth : U[k] \in 1 .. Len(t) /\ D(U[k]) = depth - k
  BY <1>1, AncestorDepth
<1>7. \A m \in 1 .. Len(t) :
        (D(m) = 0 => m = Root) /\ (m # Root => IsChild(t, t[m].parent, t[m].name, m))
  BY DepthFacts
<1>8. D(Root) = 0
  BY <1>1, DepthFacts DEF Root
<1> HIDE DEF U, W, D
<1>9. 0 \in G
  <2>1. U[depth] \in 1 .. Len(t) /\ D(U[depth]) = 0
    BY <1>1, <1>6
  <2> QED BY <1>1, <1>4, <1>7, <2>1
<1>10. ASSUME NEW j \in 1 .. depth, j - 1 \in G PROVE j \in G
  <2> DEFINE c == U[depth - j]
             d == U[depth - j + 1]
  <2>1. depth - j \in 0 .. depth /\ depth - j + 1 \in 1 .. MaxComponents /\ depth - (j - 1) = depth - j + 1
    BY <1>1
  <2>2. c \in 1 .. Len(t) /\ D(c) = depth - (depth - j) /\ d \in 1 .. Len(t)
    BY <1>1, <1>6, <2>1
  <2>3. D(c) # 0 /\ c # Null
    BY <1>1, <2>2 DEF Null
  <2>4. c # Root
    BY <1>8, <2>3
  <2>5. d = t[c].parent
    <3>1. U[depth - j + 1] = ParentOf(t, U[depth - j + 1 - 1]) /\ depth - j + 1 - 1 = depth - j
      BY <1>1, <1>5, <2>1
    <3> QED BY <2>3, <3>1 DEF ParentOf
  <2>6. IsChild(t, d, names[j], c)
    BY <1>3, <1>7, <2>2, <2>4, <2>5
  <2>7. W[j - 1] = d
    BY <1>10, <2>1
  <2>8. W[j] = c
    <3>1. W[j] = Descend(t, d, names[j])
      BY <1>4, <2>7
    <3> DEFINE y == names[j]
    <3> HIDE DEF c, d, y
    <3>2. Descend(t, d, y) = c
      BY <2>2, <2>6, DescendChild DEF y
    <3> QED BY <3>1, <3>2 DEF y
  <2> QED BY <2>8
<1>11. \A j \in 0 .. depth : j \in G
  <2> HIDE DEF G
  <2> QED BY <1>1, <1>9, <1>10, Induction
<1>12. W[depth] = U[depth - depth] /\ depth - depth = 0
  BY <1>1, <1>11
<1> QED BY <1>5, <1>12 DEF W

\* get_path_fs() of a node that is not too deep leads back to the node.
LEMMA GetPathExact ==
  ASSUME NEW t, WellFormed(t), NEW n \in 1 .. Len(t), NEW capacity,
         NEW depth, depth = Len(PathTo(t)[n])
  PROVE  IF depth > MaxComponents \/ PathBytes(depth) > capacity
         THEN GetPath(t, n, capacity) = NoPath
         ELSE /\ GetPath(t, n, capacity).abs
              /\ ResolvePath(t, Root, GetPath(t, n, capacity)) = n
<1> DEFINE U == Ancestor(t, n)
           depths == {k \in 0 .. MaxComponents : U[k] = Root}
           names(d) == [i \in 1 .. d |-> t[U[d - i]].name]
<1>1. MaxComponents \in Nat /\ Len(t) \in Nat /\ Len(t) >= 1 /\ depth \in Nat
  BY MaxComponentsAssumption, LenProperties, DepthFacts DEF WellFormed
<1>2. GetPath(t, n, capacity) =
        IF depths = {} \/ PathBytes(Min(depths)) > capacity THEN NoPath
        ELSE [abs |-> TRUE, names |-> names(Min(depths))]
  BY DEF GetPath
<1>3. \A k \in 0 .. MaxComponents : U[k] = Root <=> k = depth
  <2> SUFFICES ASSUME NEW k \in 0 .. MaxComponents PROVE U[k] = Root <=> k = depth
    OBVIOUS
  <2>1. IF k <= depth THEN U[k] \in 1 .. Len(t) /\ Len(PathTo(t)[U[k]]) = depth - k
        ELSE U[k] = Null
    BY AncestorDepth
  <2>2. CASE k <= depth
    <3> DEFINE m == U[k]
    <3>1. m \in 1 .. Len(t) /\ Len(PathTo(t)[m]) = depth - k
      BY <2>1, <2>2
    <3>2. Len(PathTo(t)[m]) = 0 <=> m = Root
      <4> HIDE DEF m
      <4> QED BY <3>1, DepthFacts
    <3> QED BY <1>1, <3>1, <3>2
  <2>3. CASE ~(k <= depth)
    BY <1>1, <2>1, <2>3 DEF Null, Root
  <2> QED BY <2>2, <2>3
<1> HIDE DEF names
<1>4. CASE depth > MaxComponents
  <2>1. depths = {}
    BY <1>1, <1>3, <1>4
  <2> QED BY <1>2, <1>4, <2>1
<1>5. CASE ~(depth > MaxComponents)
  <2>1. depth \in 0 .. MaxComponents /\ depths = {depth}
    BY <1>1, <1>3, <1>5
  <2>2. Min(depths) = depth /\ depths # {}
    <3>1. depths \subseteq Nat /\ depths # {}
      BY <1>1, <2>1
    <3>2. Min(depths) \in depths
      <4> HIDE DEF depths
      <4> QED BY <3>1, MinOfNat
    <3> QED BY <2>1, <3>1, <3>2
  <2>3. CASE PathBytes(depth) > capacity
    BY <1>2, <2>2, <2>3
  <2>4. CASE ~(PathBytes(depth) > capacity)
    <3> DEFINE path == [abs |-> TRUE, names |-> names(depth)]
    <3>1. GetPath(t, n, capacity) = path
      <4> HIDE DEF depths
      <4> QED BY <1>2, <2>2, <2>4
    <3>2. Len(names(depth)) = depth /\ Walk(t, Root, names(depth))[depth] = n
      <4>1. Len(names(depth)) = depth /\ \A i \in 1 .. depth : names(depth)[i] = t[U[depth - i]].name
        BY <1>1 DEF names
      <4> DEFINE ns == names(depth)
      <4> HIDE DEF ns
      <4>2. NamesUp(t, n, depth, ns)
        BY <4>1 DEF ns, NamesUp
      <4>3. Walk(t, Root, ns)[depth] = n
        BY <2>1, <4>2, WalkBack
      <4> QED BY <4>1, <4>3 DEF ns
    <3>3. path.abs /\ ResolvePath(t, Root, path) = n
      BY <3>2 DEF ResolvePath, Start
    <3> HIDE DEF path
    <3> QED BY <1>5, <2>4, <3>1, <3>3
  <2> QED BY <2>3, <2>4
<1> QED BY <1>4, <1>5

-----------------------------------------------------------------------------
(* Paths when a node is attached. *)

LEMMA AttachPaths ==
  ASSUME NEW t, NEW u, NEW d \in 1 .. Len(t), NEW node,
         WellFormed(t), WellFormed(u), Attached(t, u, d, node)
  PROVE  /\ \A n \in 1 .. Len(t) : PathTo(u)[n] = PathTo(t)[n]
         /\ PathTo(u)[Len(t) + 1] = Append(PathTo(t)[d], node.name)
<1> DEFINE N == Len(t)
           P == PathTo(t)
           Q == PathTo(u)
           G == {x \in 0 .. N : \A n \in 1 .. x : Q[n] = P[n]}
<1>1. N \in Nat /\ Len(u) = N + 1 /\ N >= 1
  BY LenProperties DEF WellFormed, Attached
<1>2. /\ \A n \in 1 .. N : u[n].parent = t[n].parent /\ u[n].name = t[n].name
      /\ u[N + 1].parent = d /\ u[N + 1].name = node.name
  BY DEF Attached
<1>3. /\ P[1] = <<>>
      /\ \A n \in 2 .. N : P[n] = Append(P[t[n].parent], t[n].name) /\ t[n].parent \in 1 .. n - 1
  BY PathToFacts DEF Root
<1>4. /\ Q[1] = <<>>
      /\ \A n \in 2 .. N + 1 : Q[n] = Append(Q[u[n].parent], u[n].name)
  BY <1>1, PathToFacts DEF Root
<1> HIDE DEF P, Q
<1>5. 0 \in G
  BY <1>1
<1>6. ASSUME NEW x \in 1 .. N, x - 1 \in G PROVE x \in G
  <2>1. \A n \in 1 .. x - 1 : Q[n] = P[n]
    BY <1>6
  <2>2. Q[x] = P[x]
    <3>1. CASE x = 1
      BY <1>3, <1>4, <3>1
    <3>2. CASE x # 1
      <4>1. x \in 2 .. N /\ x \in 2 .. N + 1
        BY <1>1, <3>2
      <4>2. t[x].parent \in 1 .. x - 1 /\ P[x] = Append(P[t[x].parent], t[x].name)
        BY <1>3, <4>1
      <4>3. Q[x] = Append(Q[t[x].parent], t[x].name)
        BY <1>2, <1>4, <4>1
      <4> QED BY <2>1, <4>2, <4>3
    <3> QED BY <3>1, <3>2
  <2> QED BY <1>1, <2>1, <2>2
<1>7. \A x \in 0 .. N : x \in G
  <2> HIDE DEF G
  <2> QED BY <1>1, <1>5, <1>6, Induction
<1>8. \A n \in 1 .. N : Q[n] = P[n]
  BY <1>1, <1>7
<1>9. Q[N + 1] = Append(P[d], node.name)
  <2>1. Q[N + 1] = Append(Q[u[N + 1].parent], u[N + 1].name)
    BY <1>1, <1>4
  <2> QED BY <1>2, <1>8, <2>1
<1> QED BY <1>8, <1>9 DEF P, Q

-----------------------------------------------------------------------------
(* The directories that a path goes through. *)

Pre(s, k) == SubSeq(s, 1, k)

LEMMA PreFacts ==
  ASSUME NEW s \in Seq(Names), NEW k \in 0 .. Len(s)
  PROVE  /\ Pre(s, k) \in Seq(Names) /\ Len(Pre(s, k)) = k /\ Len(s) \in Nat
         /\ \A i \in 1 .. k : Pre(s, k)[i] = s[i]
<1>1. Len(s) \in Nat
  BY LenProperties
<1>2. \A i \in 1 .. k : s[i] \in Names
  BY <1>1, ElementOfSeq
<1>3. /\ SubSeq(s, 1, k) \in Seq(Names)
      /\ Len(SubSeq(s, 1, k)) = IF 1 <= k THEN k - 1 + 1 ELSE 0
      /\ \A i \in 1 .. k - 1 + 1 : SubSeq(s, 1, k)[i] = s[1 + i - 1]
  BY <1>1, <1>2, SubSeqProperties
<1>4. \A i \in 1 .. k : 1 + i - 1 = i /\ i \in 1 .. k - 1 + 1
  BY <1>1
<1>5. \A i \in 1 .. k : SubSeq(s, 1, k)[i] = s[i]
  BY <1>1, <1>3, <1>4
<1>6. Len(SubSeq(s, 1, k)) = k
  BY <1>1, <1>3
<1> QED BY <1>1, <1>3, <1>5, <1>6 DEF Pre

LEMMA PreWhole ==
  ASSUME NEW s \in Seq(Names)
  PROVE  Pre(s, Len(s)) = s /\ Pre(s, 0) = <<>>
<1>1. Len(s) \in Nat /\ Len(s) \in 0 .. Len(s) /\ 0 \in 0 .. Len(s)
  BY LenProperties
<1>2. Pre(s, Len(s)) = s
  BY <1>1, PreFacts, SeqEqual
<1>3. Pre(s, 0) \in Seq(Names) /\ Len(Pre(s, 0)) = 0
  BY <1>1, PreFacts
<1>4. Pre(s, 0) = <<>>
  BY <1>3, EmptySeq
<1> QED BY <1>2, <1>4

LEMMA PreNext ==
  ASSUME NEW s \in Seq(Names), NEW k \in 1 .. Len(s)
  PROVE  Pre(s, k) = Append(Pre(s, k - 1), s[k])
<1>1. Len(s) \in Nat /\ k \in 0 .. Len(s) /\ k - 1 \in 0 .. Len(s)
  BY LenProperties
<1> DEFINE a == Pre(s, k - 1)
           x == s[k]
<1>2. x \in Names
  BY <1>1, ElementOfSeq
<1>3. a \in Seq(Names) /\ Len(a) = k - 1 /\ \A i \in 1 .. k - 1 : a[i] = s[i]
  BY <1>1, PreFacts
<1>4. Pre(s, k) \in Seq(Names) /\ Len(Pre(s, k)) = k /\ \A i \in 1 .. k : Pre(s, k)[i] = s[i]
  BY <1>1, PreFacts
<1> HIDE DEF a
<1>5. /\ Append(a, x) \in Seq(Names) /\ Len(Append(a, x)) = k
      /\ \A i \in 1 .. k - 1 : Append(a, x)[i] = s[i]
      /\ Append(a, x)[k] = x
  <2> HIDE DEF x
  <2>1. /\ Append(a, x) \in Seq(Names) /\ Len(Append(a, x)) = Len(a) + 1
        /\ \A i \in 1 .. Len(a) : Append(a, x)[i] = a[i]
        /\ Append(a, x)[Len(a) + 1] = x
    BY <1>2, <1>3, AppendFacts
  <2>2. Len(a) + 1 = k
    BY <1>1, <1>3
  <2> QED BY <1>3, <2>1, <2>2
<1>6. \A i \in 1 .. k : Append(a, x)[i] = Pre(s, k)[i]
  <2>1. ASSUME NEW i \in 1 .. k PROVE Append(a, x)[i] = s[i]
    <3>1. CASE i = k
      BY <1>5, <3>1
    <3>2. CASE i # k
      <4>1. i \in 1 .. k - 1
        BY <3>2
      <4> QED BY <1>5, <4>1
    <3> QED BY <3>1, <3>2
  <2> QED BY <1>4, <2>1
<1>7. Append(a, x) = Pre(s, k)
  <2> DEFINE b == Append(a, x)
             c == Pre(s, k)
  <2>1. b \in Seq(Names) /\ c \in Seq(Names) /\ Len(b) = Len(c) /\ \A i \in 1 .. Len(b) : b[i] = c[i]
    BY <1>4, <1>5, <1>6
  <2> HIDE DEF b, c
  <2>2. b = c
    BY <2>1, SeqEqual
  <2> QED BY <2>2 DEF b, c
<1> QED BY <1>7 DEF a

LEMMA PreAppend ==
  ASSUME NEW s \in Seq(Names), NEW x \in Names, NEW k \in 0 .. Len(s)
  PROVE  Pre(Append(s, x), k) = Pre(s, k)
<1> DEFINE u == Append(s, x)
           b == Pre(u, k)
           c == Pre(s, k)
<1>1. u \in Seq(Names) /\ Len(u) = Len(s) + 1 /\ Len(s) \in Nat /\ \A i \in 1 .. Len(s) : u[i] = s[i]
  BY AppendFacts
<1>2. c \in Seq(Names) /\ Len(c) = k /\ \A i \in 1 .. k : c[i] = s[i]
  BY PreFacts
<1>3. b \in Seq(Names) /\ Len(b) = k /\ \A i \in 1 .. k : b[i] = u[i]
  <2>1. k \in 0 .. Len(u)
    BY <1>1
  <2> HIDE DEF u
  <2> QED BY <1>1, <2>1, PreFacts
<1> HIDE DEF b, c, u
<1>4. \A i \in 1 .. k : b[i] = c[i]
  BY <1>1, <1>2, <1>3, SMTT(30)
<1>5. b = c
  BY <1>2, <1>3, <1>4, SeqEqual
<1> QED BY <1>5 DEF b, c, u

LEMMA StrictPrefixIs ==
  ASSUME NEW s \in Seq(Names), NEW u \in Seq(Names)
  PROVE  IsStrictPrefix(s, u) <=> \E k \in 0 .. Len(u) - 1 : s = Pre(u, k)
<1>1. Len(s) \in Nat /\ Len(u) \in Nat
  BY LenProperties
<1>2. Pre(s, Len(s)) = s /\ Pre(u, Len(u)) = u
  BY PreWhole
<1>3. ASSUME IsStrictPrefix(s, u) PROVE \E k \in 0 .. Len(u) - 1 : s = Pre(u, k)
  <2>1. Len(s) <= Len(u) /\ Pre(s, Len(s)) = Pre(u, Len(s)) /\ s # u
    BY <1>3 DEF IsStrictPrefix, IsPrefix, Pre
  <2>2. Len(s) # Len(u)
    BY <1>2, <2>1
  <2> DEFINE j == Len(s)
  <2>3. j \in 0 .. Len(u) - 1 /\ s = Pre(u, j)
    <3>1. s = Pre(u, j)
      BY <1>2, <2>1, Zenon
    <3> HIDE DEF j
    <3>2. j \in Nat /\ j <= Len(u) /\ j # Len(u)
      BY <1>1, <2>1, <2>2 DEF j
    <3> QED BY <1>1, <3>1, <3>2
  <2> HIDE DEF j
  <2> QED BY <2>3
<1>4. ASSUME NEW k \in 0 .. Len(u) - 1, s = Pre(u, k) PROVE IsStrictPrefix(s, u)
  <2>1. Len(s) = k
    <3>1. k \in 0 .. Len(u)
      BY <1>1
    <3> QED BY <1>4, <3>1, PreFacts
  <2>2. Len(s) <= Len(u) /\ Pre(s, Len(s)) = Pre(u, Len(s)) /\ s # u
    BY <1>1, <1>2, <1>4, <2>1
  <2> QED BY <2>2 DEF IsStrictPrefix, IsPrefix, Pre
<1> QED BY <1>3, <1>4

\* Every directory on the way to a node is there.
LEMMA PrefixNode ==
  ASSUME NEW t, WellFormed(t), NEW n \in 1 .. Len(t), NEW k \in 0 .. Len(PathTo(t)[n])
  PROVE  \E c \in 1 .. Len(t) :
           /\ PathTo(t)[c] = Pre(PathTo(t)[n], k)
           /\ k < Len(PathTo(t)[n]) => t[c].type = "directory"
<1> DEFINE N == Len(t)
           P == PathTo(t)
           Has(m, j) == \E c \in 1 .. N : /\ P[c] = Pre(P[m], j)
                                          /\ j < Len(P[m]) => t[c].type = "directory"
           All(m) == \A j \in 0 .. Len(P[m]) : Has(m, j)
           G == {x \in 0 .. N : \A m \in 1 .. x : All(m)}
<1>1. N \in Nat
  BY LenProperties DEF WellFormed
<1>2. \A m \in 1 .. N : P[m] \in Seq(Names) /\ Len(P[m]) \in Nat
  BY PathToFacts, LenProperties
<1>3. ASSUME NEW m \in 1 .. N PROVE Has(m, Len(P[m]))
  <2>1. P[m] = Pre(P[m], Len(P[m]))
    BY <1>2, PreWhole
  <2> QED BY <1>2, <2>1
<1>4. 0 \in G
  BY <1>1
<1>5. ASSUME NEW x \in 1 .. N, x - 1 \in G PROVE x \in G
  <2>1. \A m \in 1 .. x - 1 : All(m)
    BY <1>5
  <2>2. All(x)
    <3> SUFFICES ASSUME NEW j \in 0 .. Len(P[x]) PROVE Has(x, j)
      OBVIOUS
    <3>1. CASE j = Len(P[x])
      BY <1>3, <3>1
    <3>2. CASE j # Len(P[x])
      <4> DEFINE q == t[x].parent
                 y == t[x].name
                 s == P[q]
      <4>1. j < Len(P[x]) /\ Len(P[x]) # 0
        BY <1>2, <3>2
      <4>2. x \in 2 .. N
        <5>1. x # Root
          BY <4>1, DepthFacts
        <5> QED BY <1>1, <5>1 DEF Root
      <4>3. /\ P[x] = Append(s, y) /\ y \in Names /\ q \in 1 .. x - 1 /\ q \in 1 .. N
            /\ t[q].type = "directory"
        BY <4>2, PathToFacts
      <4>4. s \in Seq(Names) /\ Len(s) \in Nat
        BY <1>2, <4>3
      <4>5. Len(P[x]) = Len(s) + 1 /\ j \in 0 .. Len(s) /\ Pre(P[x], j) = Pre(s, j)
        <5> HIDE DEF s, y
        <5>1. Len(P[x]) = Len(s) + 1
          BY <4>3, <4>4, AppendFacts
        <5>2. j \in 0 .. Len(s)
          BY <4>1, <4>4, <5>1
        <5> QED BY <4>3, <4>4, <5>1, <5>2, PreAppend
      <4>6. PICK c \in 1 .. N : P[c] = Pre(s, j) /\ (j < Len(s) => t[c].type = "directory")
        BY <2>1, <4>3, <4>5
      <4>7. \E b \in 1 .. N : P[b] = Pre(P[x], j) /\ t[b].type = "directory"
        <5>1. CASE j < Len(s)
          BY <4>5, <4>6, <5>1
        <5>2. CASE j = Len(s)
          BY <4>3, <4>4, <4>5, <5>2, PreWhole
        <5> QED BY <4>4, <4>5, <5>1, <5>2
      <4> QED BY <4>7
    <3> QED BY <3>1, <3>2
  <2>3. \A m \in 1 .. x : m \in 1 .. x - 1 \/ m = x
    OBVIOUS
  <2> HIDE DEF All
  <2> QED BY <1>1, <2>1, <2>2, <2>3
<1>6. \A x \in 0 .. N : x \in G
  <2> HIDE DEF G
  <2> QED BY <1>1, <1>4, <1>5, Induction
<1>7. All(n)
  <2> HIDE DEF All
  <2> QED BY <1>1, <1>6
<1> QED BY <1>7

\* resolve_path_fs() follows the path of a node to the node.
LEMMA WalkTo ==
  ASSUME NEW t, WellFormed(t), NEW n \in 1 .. Len(t)
  PROVE  Walk(t, Root, PathTo(t)[n])[Len(PathTo(t)[n])] = n
<1> DEFINE P == PathTo(t)
           p == P[n]
           W == Walk(t, Root, p)
           G == {k \in 0 .. Len(p) : W[k] \in 1 .. Len(t) /\ P[W[k]] = Pre(p, k)}
<1>1. Len(t) \in Nat /\ Len(t) >= 1 /\ Root \in 1 .. Len(t) /\ P[Root] = <<>>
  BY LenProperties, PathToFacts DEF WellFormed, Root
<1>2. p \in Seq(Names) /\ Len(p) \in Nat
  BY PathToFacts, LenProperties
<1>3. \A k \in 0 .. Len(p) : \E c \in 1 .. Len(t) : P[c] = Pre(p, k)
  BY PrefixNode
<1> HIDE DEF p
<1>4. W[0] = Root /\ \A k \in 1 .. Len(p) : W[k] = Descend(t, W[k - 1], p[k])
  BY <1>1, <1>2, WalkSteps
<1> HIDE DEF W
<1>5. 0 \in G
  BY <1>1, <1>2, <1>4, PreWhole
<1>6. ASSUME NEW k \in 1 .. Len(p), k - 1 \in G PROVE k \in G
  <2> DEFINE d == W[k - 1]
             x == p[k]
  <2>1. d \in 1 .. Len(t) /\ P[d] = Pre(p, k - 1)
    BY <1>6
  <2>2. x \in Names
    BY <1>2, ElementOfSeq
  <2>3. Pre(p, k) = Append(P[d], x)
    BY <1>2, <2>1, PreNext
  <2>4. PICK c \in 1 .. Len(t) : P[c] = Pre(p, k)
    BY <1>2, <1>3
  <2>5. W[k] = Descend(t, d, x)
    BY <1>4
  <2> HIDE DEF d, x
  <2>6. IsChild(t, d, x, c)
    BY <2>1, <2>2, <2>3, <2>4, ChildPath
  <2>7. W[k] = c
    BY <2>1, <2>5, <2>6, DescendChild
  <2> QED BY <1>2, <2>4, <2>7
<1>7. \A k \in 0 .. Len(p) : k \in G
  <2> HIDE DEF G
  <2> QED BY <1>2, <1>5, <1>6, Induction
<1>8. W[Len(p)] \in 1 .. Len(t) /\ P[W[Len(p)]] = p
  BY <1>2, <1>7, PreWhole
<1>9. W[Len(p)] = n
  <2> DEFINE m == W[Len(p)]
  <2>1. m \in 1 .. Len(t) /\ P[m] = P[n]
    BY <1>8 DEF p
  <2> HIDE DEF m
  <2>2. m = n
    BY <2>1, PathToInjective
  <2> QED BY <2>2 DEF m
<1> QED BY <1>9 DEF W, p

-----------------------------------------------------------------------------
(* mkdir and lookup walk a path alike. *)

\* A new node hides nothing that a lookup found.
LEMMA AttachKeepsDescend ==
  ASSUME NEW t, NEW u, NEW d \in 1 .. Len(t), NEW node,
         WellFormed(t), WellFormed(u), Attached(t, u, d, node),
         NEW n \in 1 .. Len(t), NEW name, Descend(t, n, name) # Null
  PROVE  Descend(u, n, name) = Descend(t, n, name)
<1>1. /\ Len(t) \in Nat /\ Len(u) = Len(t) + 1 /\ n \in 1 .. Len(u)
      /\ \A k \in 1 .. Len(t) :
           u[k].name = t[k].name /\ u[k].parent = t[k].parent /\ u[k].type = t[k].type
  BY LenProperties DEF WellFormed, Attached
<1>2. CASE name \in {Dot, DotDot}
  BY <1>1, <1>2 DEF Descend, Dot, DotDot, Long, Null
<1>3. CASE name \notin {Dot, DotDot}
  <2> DEFINE c == Descend(t, n, name)
  <2>1. n # Null /\ name # Long /\ c = FindDir(t, n, name) /\ c # Null
    BY <1>1, <1>3 DEF Descend, Null
  <2>2. c = FindChild(t, n, name)
    BY <2>1 DEF FindDir
  <2> HIDE DEF c
  <2>3. IsChild(t, n, name, c)
    BY <2>1, <2>2, FindChildExact
  <2>4. IsChild(u, n, name, c)
    BY <1>1, <2>3 DEF IsChild
  <2>5. Descend(u, n, name) = c
    BY <1>1, <2>4, DescendChild
  <2> QED BY <2>5 DEF c
<1> QED BY <1>2, <1>3

\* Where mkdir_path_fs() comes on its way, resolve_path_fs() comes too, before
\* and after a node is added.
LEMMA WalksAgree ==
  ASSUME NEW t, NEW u, NEW d \in 1 .. Len(t), NEW node,
         WellFormed(t), WellFormed(u), Attached(t, u, d, node),
         NEW start \in 1 .. Len(t), NEW names, Len(names) \in Nat
  PROVE  \A k \in 0 .. Len(names) :
           MkdirWalk(t, start, names)[k] # Null =>
             /\ Walk(t, start, names)[k] = MkdirWalk(t, start, names)[k]
             /\ Walk(u, start, names)[k] = MkdirWalk(t, start, names)[k]
<1> DEFINE M == MkdirWalk(t, start, names)
           T == Walk(t, start, names)
           U == Walk(u, start, names)
           G == {k \in 0 .. Len(names) : M[k] # Null => T[k] = M[k] /\ U[k] = M[k]}
<1>1. Len(t) \in Nat /\ Len(u) = Len(t) + 1 /\ start \in 0 .. Len(t) /\ start \in 0 .. Len(u)
  BY LenProperties DEF WellFormed, Attached
<1>2. /\ M \in [0 .. Len(names) -> 0 .. Len(t)] /\ M[0] = start
      /\ \A k \in 1 .. Len(names) : M[k] = MkdirDescend(t, M[k - 1], names[k])
  BY <1>1, MkdirWalkSteps
<1>3. T[0] = start /\ \A k \in 1 .. Len(names) : T[k] = Descend(t, T[k - 1], names[k])
  BY <1>1, WalkSteps
<1>4. U[0] = start /\ \A k \in 1 .. Len(names) : U[k] = Descend(u, U[k - 1], names[k])
  BY <1>1, WalkSteps
<1> HIDE DEF M, T, U
<1>5. 0 \in G
  BY <1>2, <1>3, <1>4
<1>6. ASSUME NEW k \in 1 .. Len(names), k - 1 \in G PROVE k \in G
  <2> SUFFICES ASSUME M[k] # Null PROVE T[k] = M[k] /\ U[k] = M[k]
    OBVIOUS
  <2> DEFINE m == M[k - 1]
             x == names[k]
  <2>1. m \in 0 .. Len(t)
    BY <1>2
  <2>2. M[k] = MkdirDescend(t, m, x)
    BY <1>2
  <2>3. m # Null
    BY <2>2 DEF MkdirDescend, Descend, IsDir
  <2>4. T[k - 1] = m /\ U[k - 1] = m
    BY <1>6, <2>3
  <2>5. T[k] = Descend(t, m, x) /\ U[k] = Descend(u, m, x)
    BY <1>3, <1>4, <2>4
  <2> HIDE DEF m, x
  <2>6. M[k] = Descend(t, m, x)
    BY <2>2 DEF MkdirDescend
  <2>7. m \in 1 .. Len(t)
    BY <1>1, <2>1, <2>3 DEF Null
  <2>8. Descend(u, m, x) = Descend(t, m, x)
    BY <2>6, <2>7, AttachKeepsDescend
  <2> QED BY <2>5, <2>6, <2>8
<1>7. \A k \in 0 .. Len(names) : k \in G
  <2> HIDE DEF G
  <2> QED BY <1>5, <1>6, Induction
<1> QED BY <1>7 DEF M, T, U

\* mkdir_path_fs() makes a directory only where resolve_path_fs() finds nothing, and
\* resolve_path_fs() then finds it.
LEMMA MkdirFound ==
  ASSUME NEW t, WellFormed(t), NEW cwd \in 1 .. Len(t),
         NEW path, path.names \in Seq(STRING \ {Empty}),
         NEW u, u = MkdirPath(t, cwd, path), u # t
  PROVE  /\ ResolvePath(t, cwd, path) = Null
         /\ Len(t) \in Nat /\ Len(u) = Len(t) + 1
         /\ ResolvePath(u, cwd, path) = Len(u) /\ IsDir(u, Len(u))
<1> DEFINE names  == path.names
           n      == Len(names)
           name   == Last(names)
           start  == Start(cwd, path)
           parent == MkdirParent(t, cwd, path)
<1>1. /\ names # <<>> /\ name \notin {Dot, DotDot, Long}
      /\ MkdirSucceeds(t, parent, name)
      /\ u = AttachChild(t, parent, NewDirectory(name))
  BY Zenon DEF MkdirPath
<1>2. n \in Nat /\ n >= 1 /\ name \in Names /\ name # Empty /\ name = names[n]
  <2>1. n \in Nat /\ n # 0
    BY <1>1, LenProperties, EmptySeq
  <2>2. names[n] \in STRING \ {Empty}
    BY <2>1, ElementOfSeq
  <2> QED BY <2>1, <2>2 DEF Last, Names
<1>3. start \in 1 .. Len(t) /\ Len(t) \in Nat
  BY LenProperties DEF Start, Root, WellFormed
<1>4. /\ parent = MkdirWalk(t, start, names)[n - 1]
      /\ ResolvePath(t, cwd, path) = Walk(t, start, names)[n]
      /\ ResolvePath(u, cwd, path) = Walk(u, start, names)[n]
  BY DEF MkdirParent, ResolvePath
<1> HIDE DEF names, n, name, start, parent
<1>5. parent \in 1 .. Len(t) /\ t[parent].type = "directory" /\ FindChild(t, parent, name) = Null
  <2>1. start \in 0 .. Len(t)
    BY <1>3
  <2>2. MkdirWalk(t, start, names) \in [0 .. n -> 0 .. Len(t)]
    BY <1>2, <2>1, MkdirWalkSteps DEF n
  <2>3. parent \in 0 .. Len(t)
    BY <1>2, <1>4, <2>2
  <2> QED BY <1>1, <1>3, <2>3 DEF MkdirSucceeds, IsDir, Null
<1>6. Attached(t, u, parent, NewDirectory(name))
  <2>1. t \in Seq(Nodes)
    BY DEF WellFormed
  <2>2. NewDirectory(name) \in Nodes /\ NewDirectory(name).kids = <<>>
    BY <1>2, NewDirectoryType
  <2>3. Attached(t, AttachChild(t, parent, NewDirectory(name)), parent, NewDirectory(name))
    BY <1>5, <2>1, <2>2, AttachChildFacts
  <2> QED BY <1>1, <2>3
<1>7. WellFormed(u)
  <2>1. u = t \/ Grows(t, u)
    BY MkdirPathGrows
  <2> QED BY <2>1, GrowsKeepsWellFormed
<1>8. /\ Len(u) = Len(t) + 1 /\ u[Len(u)].name = name /\ u[Len(u)].parent = parent
      /\ u[Len(u)].type = "directory"
  <2>1. NewDirectory(name).name = name /\ NewDirectory(name).type = "directory"
    BY <1>2, NewDirectoryType
  <2> QED BY <1>6, <2>1 DEF Attached
<1>9. Walk(t, start, names)[n - 1] = parent /\ Walk(u, start, names)[n - 1] = parent
  <2>1. n - 1 \in 0 .. Len(names) /\ Len(names) \in Nat
    BY <1>2 DEF n
  <2>2. parent # Null
    BY <1>5 DEF Null
  <2> QED BY <1>3, <1>4, <1>5, <1>6, <1>7, <2>1, <2>2, WalksAgree
<1>10. /\ Walk(t, start, names)[n] = Descend(t, parent, name)
       /\ Walk(u, start, names)[n] = Descend(u, parent, name)
  <2>1. n \in 1 .. Len(names) /\ Len(names) \in Nat
    BY <1>2 DEF n
  <2>2. start \in 0 .. Len(t) /\ start \in 0 .. Len(u)
    BY <1>3, <1>8
  <2> QED BY <1>2, <1>7, <1>9, <2>1, <2>2, WalkSteps
<1>11. Descend(t, parent, name) = Null
  BY <1>1, <1>5 DEF Descend, FindDir
<1>12. Descend(u, parent, name) = Len(u)
  <2>1. IsChild(u, parent, name, Len(u))
    BY <1>3, <1>5, <1>8 DEF IsChild
  <2>2. parent \in 1 .. Len(u)
    BY <1>3, <1>5, <1>8
  <2> QED BY <1>7, <2>1, <2>2, DescendChild
<1>13. IsDir(u, Len(u))
  BY <1>3, <1>8 DEF IsDir, Null
<1> QED BY <1>3, <1>4, <1>8, <1>10, <1>11, <1>12, <1>13

-----------------------------------------------------------------------------
(* What the tree holds while it is mounted. *)

\* Node n is the file of header j.
IsFileOf(t, hs, j, n) ==
  PathTo(t)[n] = hs[j].name /\ t[n].type = "regular" /\ t[n].inode = j

\* The first i files are at their paths.
Filled(t, hs, i) == \A j \in 1 .. i : \E n \in 1 .. Len(t) : IsFileOf(t, hs, j, n)

DevHeld(t) == \E n \in 1 .. Len(t) : PathTo(t)[n] = <<Dev>> /\ t[n].type = "directory"

\* The first m files or the mounting itself need a directory of that path.
Needed(hs, m, path) ==
  \/ path = <<>> \/ path = <<Dev>>
  \/ \E j \in 1 .. m : \E k \in 0 .. Len(hs[j].name) - 1 : path = Pre(hs[j].name, k)

\* Nothing else is there: files of the first i headers, directories of the first m.
OnlyThese(t, hs, i, m) ==
  \A n \in 1 .. Len(t) :
    IF t[n].type = "regular" THEN \E j \in 1 .. i : PathTo(t)[n] = hs[j].name
    ELSE Needed(hs, m, PathTo(t)[n])

Contents(t, hs, i, m) == Filled(t, hs, i) /\ DevHeld(t) /\ OnlyThese(t, hs, i, m)

\* A path with one name more.
OneMore(path, at, name) == path = Append(at, name)

LEMMA ChildOneMore ==
  ASSUME NEW t, WellFormed(t), NEW n \in 1 .. Len(t), NEW name \in Names, NEW c \in 1 .. Len(t),
         IsChild(t, n, name, c)
  PROVE  OneMore(PathTo(t)[c], PathTo(t)[n], name)
<1>1. PathTo(t)[c] = Append(PathTo(t)[n], name)
  BY ChildPath
<1> QED BY <1>1, Zenon DEF OneMore

LEMMA AttachCarries ==
  ASSUME NEW t, NEW u, NEW d \in 1 .. Len(t), NEW node,
         WellFormed(t), WellFormed(u), Attached(t, u, d, node)
  PROVE  /\ Len(t) \in Nat /\ Len(u) = Len(t) + 1
         /\ \A n \in 1 .. Len(t) :
              /\ PathTo(u)[n] = PathTo(t)[n] /\ n \in 1 .. Len(u)
              /\ u[n].type = t[n].type /\ u[n].inode = t[n].inode
         /\ OneMore(PathTo(u)[Len(t) + 1], PathTo(t)[d], node.name)
         /\ u[Len(t) + 1].type = node.type /\ u[Len(t) + 1].inode = node.inode
<1>1. Len(t) \in Nat /\ Len(u) = Len(t) + 1
  BY LenProperties DEF WellFormed, Attached
<1>2. /\ \A n \in 1 .. Len(t) : PathTo(u)[n] = PathTo(t)[n]
      /\ OneMore(PathTo(u)[Len(t) + 1], PathTo(t)[d], node.name)
  <2>1. /\ \A n \in 1 .. Len(t) : PathTo(u)[n] = PathTo(t)[n]
        /\ PathTo(u)[Len(t) + 1] = Append(PathTo(t)[d], node.name)
    BY AttachPaths
  <2> QED BY <2>1, Zenon DEF OneMore
<1>3. /\ \A n \in 1 .. Len(t) : u[n].type = t[n].type /\ u[n].inode = t[n].inode
      /\ u[Len(t) + 1].type = node.type /\ u[Len(t) + 1].inode = node.inode
  BY DEF Attached
<1> QED BY <1>1, <1>2, <1>3

LEMMA AttachKeepsHeld ==
  ASSUME NEW hs, NEW t, NEW u, NEW d \in 1 .. Len(t), NEW node,
         WellFormed(t), WellFormed(u), Attached(t, u, d, node), NEW i,
         Filled(t, hs, i), DevHeld(t)
  PROVE  Filled(u, hs, i) /\ DevHeld(u)
<1>2. \A n \in 1 .. Len(t) : /\ PathTo(u)[n] = PathTo(t)[n] /\ n \in 1 .. Len(u)
                             /\ u[n].type = t[n].type /\ u[n].inode = t[n].inode
  BY AttachCarries
<1>3. ASSUME NEW j \in 1 .. i PROVE \E n \in 1 .. Len(u) : IsFileOf(u, hs, j, n)
  <2>1. PICK n \in 1 .. Len(t) : IsFileOf(t, hs, j, n)
    BY DEF Filled
  <2>2. IsFileOf(u, hs, j, n)
    BY <1>2, <2>1 DEF IsFileOf
  <2> QED BY <1>2, <2>2
<1>4. DevHeld(u)
  BY <1>2 DEF DevHeld
<1> QED BY <1>3, <1>4 DEF Filled

LEMMA ContentsDirectory ==
  ASSUME NEW hs, NEW t, NEW u, NEW d \in 1 .. Len(t), NEW node,
         WellFormed(t), WellFormed(u), Attached(t, u, d, node), node.type = "directory",
         NEW i, NEW m, Contents(t, hs, i, m),
         NEW path, OneMore(path, PathTo(t)[d], node.name), Needed(hs, m, path)
  PROVE  Contents(u, hs, i, m)
<1>1. Len(t) \in Nat /\ Len(u) = Len(t) + 1
  BY AttachCarries
<1>2. Filled(u, hs, i) /\ DevHeld(u)
  BY AttachKeepsHeld DEF Contents
<1>3. ASSUME NEW n \in 1 .. Len(u)
      PROVE  IF u[n].type = "regular" THEN \E j \in 1 .. i : PathTo(u)[n] = hs[j].name
             ELSE Needed(hs, m, PathTo(u)[n])
  <2>1. CASE n \in 1 .. Len(t)
    <3>1. u[n].type = t[n].type /\ PathTo(u)[n] = PathTo(t)[n]
      BY <2>1, AttachCarries, ZenonT(30)
    <3> QED BY <2>1, <3>1 DEF Contents, OnlyThese
  <2>2. CASE n = Len(t) + 1
    <3>1. u[n].type = "directory" /\ OneMore(PathTo(u)[n], PathTo(t)[d], node.name)
      BY <2>2, AttachCarries
    <3>2. PathTo(u)[n] = path
      BY <3>1, Zenon DEF OneMore
    <3> QED BY <3>1, <3>2
  <2> QED BY <1>1, <2>1, <2>2
<1> QED BY <1>2, <1>3 DEF Contents, OnlyThese

LEMMA ContentsFile ==
  ASSUME NEW hs, NEW t, NEW u, NEW d \in 1 .. Len(t), NEW node,
         WellFormed(t), WellFormed(u), Attached(t, u, d, node), node.type = "regular",
         NEW i \in Nat, i >= 1, node.inode = i, Contents(t, hs, i - 1, i),
         OneMore(hs[i].name, PathTo(t)[d], node.name)
  PROVE  Contents(u, hs, i, i)
<1>1. Len(t) \in Nat /\ Len(u) = Len(t) + 1
  BY AttachCarries
<1>2. Filled(u, hs, i - 1) /\ DevHeld(u)
  BY AttachKeepsHeld DEF Contents
<1> DEFINE c == Len(t) + 1
<1>3. u[c].type = "regular" /\ PathTo(u)[c] = hs[i].name /\ u[c].inode = i /\ c \in 1 .. Len(u)
  <2>1. /\ u[c].type = "regular" /\ u[c].inode = i /\ c \in 1 .. Len(u)
        /\ OneMore(PathTo(u)[c], PathTo(t)[d], node.name)
    BY <1>1, AttachCarries
  <2>2. PathTo(u)[c] = hs[i].name
    BY <2>1, Zenon DEF OneMore
  <2> QED BY <2>1, <2>2
<1>4. Filled(u, hs, i)
  <2>1. IsFileOf(u, hs, i, c)
    BY <1>3 DEF IsFileOf
  <2>2. ASSUME NEW j \in 1 .. i PROVE \E n \in 1 .. Len(u) : IsFileOf(u, hs, j, n)
    <3>1. CASE j = i
      BY <1>3, <2>1, <3>1
    <3>2. CASE j # i
      <4>1. j \in 1 .. i - 1
        BY <3>2
      <4> QED BY <1>2, <4>1 DEF Filled
    <3> QED BY <3>1, <3>2
  <2> QED BY <2>2 DEF Filled
<1>5. ASSUME NEW n \in 1 .. Len(u)
      PROVE  IF u[n].type = "regular" THEN \E j \in 1 .. i : PathTo(u)[n] = hs[j].name
             ELSE Needed(hs, i, PathTo(u)[n])
  <2>1. CASE n \in 1 .. Len(t)
    <3>1. u[n].type = t[n].type /\ PathTo(u)[n] = PathTo(t)[n]
      BY <2>1, AttachCarries, ZenonT(30)
    <3>2. IF t[n].type = "regular" THEN \E j \in 1 .. i - 1 : PathTo(t)[n] = hs[j].name
          ELSE Needed(hs, i, PathTo(t)[n])
      BY <2>1 DEF Contents, OnlyThese
    <3>3. 1 .. i - 1 \subseteq 1 .. i
      OBVIOUS
    <3>4. CASE t[n].type = "regular"
      <4>1. PICK j \in 1 .. i - 1 : PathTo(t)[n] = hs[j].name
        BY <3>2, <3>4
      <4> QED BY <3>1, <3>3, <3>4, <4>1
    <3>5. CASE t[n].type # "regular"
      BY <3>1, <3>2, <3>5
    <3> QED BY <3>4, <3>5
  <2>2. CASE n = c
    BY <1>3, <2>2
  <2> QED BY <1>1, <2>1, <2>2
<1> QED BY <1>2, <1>4, <1>5 DEF Contents, OnlyThese

LEMMA ContentsWiden ==
  ASSUME NEW hs, NEW t, NEW i \in Nat, i >= 1, Contents(t, hs, i - 1, i - 1)
  PROVE  Contents(t, hs, i - 1, i)
<1>1. 1 .. i - 1 \subseteq 1 .. i
  OBVIOUS
<1>2. ASSUME NEW path, Needed(hs, i - 1, path) PROVE Needed(hs, i, path)
  BY <1>1, <1>2 DEF Needed
<1> QED BY <1>2 DEF Contents, OnlyThese

\* The root and /dev are all that is there before the first file.
LEMMA EmptyContents ==
  ASSUME NEW hs
  PROVE  Contents(EmptyTree, hs, 0, 0)
<1> DEFINE t == EmptyTree
<1>1. /\ WellFormed(t) /\ Len(t) = 2 /\ t[2].parent = 1 /\ t[2].name = Dev
      /\ t[2].type = "directory" /\ t[1].type = "directory"
  BY EmptyTreeFacts DEF IsChild, Root
<1> HIDE DEF t
<1>2. PathTo(t)[1] = <<>> /\ PathTo(t)[2] = Append(PathTo(t)[1], Dev)
  BY <1>1, PathToFacts DEF Root
<1>3. PathTo(t)[2] = <<Dev>>
  BY <1>2
<1>4. Filled(t, hs, 0)
  BY DEF Filled
<1>5. DevHeld(t)
  BY <1>1, <1>3 DEF DevHeld
<1>6. OnlyThese(t, hs, 0, 0)
  BY <1>1, <1>2, <1>3 DEF OnlyThese, Needed
<1> QED BY <1>4, <1>5, <1>6 DEF Contents, t

-----------------------------------------------------------------------------
(* get_or_create_directory() and add_archived_file() on such a tree. *)

\* Directories k down the name of header i: the state s is what it should be.
AtDirectory(s, hs, i, k) ==
  /\ s.ok = TRUE => /\ Contents(s.tree, hs, i - 1, i)
                    /\ PathTo(s.tree)[s.dir] = Pre(hs[i].name, k)
  /\ Mountable(hs) => s.ok = TRUE

LEMMA HeaderNames ==
  ASSUME NEW hs \in Seq(ArchiveHeader), NEW i \in 1 .. Len(hs)
  PROVE  /\ hs[i].name \in Seq(Names) /\ Len(hs[i].name) \in Nat /\ i \in Nat /\ i >= 1
         /\ hs[i].name \in ArchiveName
<1>1. hs[i] \in ArchiveHeader /\ Len(hs) \in Nat
  BY ElementOfSeq, LenProperties
<1> DEFINE name == hs[i].name
<1>2. name \in ArchiveName
  BY <1>1 DEF ArchiveHeader
<1> HIDE DEF name
<1>3. Len(name) \in Nat /\ name = [k \in 1 .. Len(name) |-> name[k]]
  BY <1>2, LenProperties DEF ArchiveName
<1>4. \A k \in 1 .. Len(name) : name[k] \in Names
  BY <1>2, ElementOfSeq DEF ArchiveName, Names
<1>5. name \in [1 .. Len(name) -> Names]
  BY <1>3, <1>4
<1>6. name \in Seq(Names)
  BY <1>3, <1>5
<1> QED BY <1>1, <1>2, <1>3, <1>6 DEF name

\* In a mountable archive no file is where another needs a directory.
LEMMA NoFileOnTheWay ==
  ASSUME NEW hs \in Seq(ArchiveHeader), Mountable(hs), NEW i \in 1 .. Len(hs),
         NEW j \in 1 .. Len(hs), NEW k \in 0 .. Len(hs[i].name) - 1
  PROVE  hs[j].name # Pre(hs[i].name, k)
<1>1. hs[i].name \in Seq(Names) /\ hs[j].name \in Seq(Names)
  BY HeaderNames
<1>2. ~IsStrictPrefix(hs[j].name, hs[i].name)
  BY DEF Mountable
<1> DEFINE a == hs[j].name
           b == hs[i].name
<1>3. a \in Seq(Names) /\ b \in Seq(Names) /\ ~IsStrictPrefix(a, b) /\ k \in 0 .. Len(b) - 1
  BY <1>1, <1>2
<1> HIDE DEF a, b
<1>4. a # Pre(b, k)
  BY <1>3, StrictPrefixIs
<1> QED BY <1>4 DEF a, b

LEMMA GetOrCreateDirectoryContents ==
  ASSUME NEW hs \in Seq(ArchiveHeader), NEW i \in 1 .. Len(hs), NEW s, MountState(s, hs),
         NEW k \in 1 .. Len(hs[i].name) - 1, AtDirectory(s, hs, i, k - 1),
         hs[i].name[k] \in Names \ Reserved
  PROVE  AtDirectory(GetOrCreateDirectory(s, hs[i].name[k]), hs, i, k)
<1> DEFINE p    == hs[i].name
           name == p[k]
           t    == s.tree
           d    == s.dir
           node == FindChild(t, d, name)
           u    == AttachChild(t, d, NewDirectory(name))
<1>1. /\ WellFormed(t) /\ FilesOf(t, hs) /\ d \in 1 .. Len(t) /\ s.ok \in BOOLEAN
      /\ Len(t) \in Nat /\ s.ok = TRUE => t[d].type = "directory"
  BY LenProperties DEF MountState, MountRecords, WellFormed
<1>2. p \in Seq(Names) /\ Len(p) \in Nat /\ i \in Nat /\ i >= 1
  BY HeaderNames
<1>3. name \in Names /\ name \notin Reserved
  OBVIOUS
<1>4. CASE s.ok = FALSE
  BY <1>4 DEF GetOrCreateDirectory, AtDirectory
<1>5. ASSUME s.ok = TRUE
      PROVE  Contents(t, hs, i - 1, i) /\ PathTo(t)[d] = Pre(p, k - 1)
             /\ OneMore(Pre(p, k), PathTo(t)[d], name)
  <2>1. Contents(t, hs, i - 1, i) /\ PathTo(t)[d] = Pre(p, k - 1)
    BY <1>5 DEF AtDirectory
  <2>2. Pre(p, k) = Append(Pre(p, k - 1), name)
    <3>1. k \in 1 .. Len(p)
      BY <1>2
    <3> HIDE DEF p
    <3> QED BY <1>2, <3>1, PreNext
  <2> QED BY <2>1, <2>2, Zenon DEF OneMore
<1>6. CASE s.ok = TRUE /\ node = Null
  <2> DEFINE dir == NewDirectory(name)
             r == [tree |-> u, dir |-> Len(t) + 1, ok |-> TRUE]
  <2>1. GetOrCreateDirectory(s, name) = r
    BY <1>6 DEF GetOrCreateDirectory
  <2>2. /\ dir \in Nodes /\ dir.kids = <<>> /\ dir.name = name /\ dir.type = "directory"
        /\ dir.inode = 0 /\ dir.length = 0
    <3> HIDE DEF name
    <3> QED BY <1>3, NewDirectoryType
  <2> HIDE DEF t, d, dir, name
  <2>3. Attached(t, u, d, dir) /\ WellFormed(u)
    BY <1>1, <1>3, <1>6, <2>2, AttachNode DEF dir
  <2> HIDE DEF u
  <2>4. Needed(hs, i, Pre(p, k))
    <3>1. k \in 0 .. Len(p) - 1 /\ i \in 1 .. i
      BY <1>2
    <3> QED BY <3>1 DEF Needed
  <2>5. Contents(u, hs, i - 1, i)
    BY <1>1, <1>5, <1>6, <2>2, <2>3, <2>4, ContentsDirectory
  <2>6. PathTo(u)[Len(t) + 1] = Pre(p, k)
    <3>1. OneMore(PathTo(u)[Len(t) + 1], PathTo(t)[d], dir.name)
      BY <1>1, <2>3, AttachCarries
    <3> QED BY <1>5, <1>6, <2>2, <3>1, Zenon DEF OneMore
  <2>7. r.tree = u /\ r.dir = Len(t) + 1 /\ r.ok = TRUE
    BY Zenon
  <2> HIDE DEF r
  <2>8. AtDirectory(r, hs, i, k)
    BY <2>5, <2>6, <2>7 DEF AtDirectory
  <2> QED BY <2>1, <2>8 DEF name
<1>7. CASE s.ok = TRUE /\ node # Null
  <2> DEFINE ok == IsDir(t, node)
             r == [tree |-> t, dir |-> node, ok |-> ok]
  <2>1. GetOrCreateDirectory(s, name) = r
    BY <1>7, Zenon DEF GetOrCreateDirectory
  <2>2. node \in 1 .. Len(t)
    BY <1>1, <1>7, FindChildType DEF Null
  <2>3. PathTo(t)[node] = Pre(p, k)
    <3>1. IsChild(t, d, name, node)
      BY <1>1, <1>7, FindChildExact
    <3> HIDE DEF t, d, node, name
    <3>2. OneMore(PathTo(t)[node], PathTo(t)[d], name)
      BY <1>1, <1>3, <2>2, <3>1, ChildOneMore
    <3> QED BY <1>5, <1>7, <3>2, Zenon DEF OneMore
  <2>4. ok \in BOOLEAN /\ (t[node].type = "directory" => ok = TRUE)
    BY <1>7, Zenon DEF IsDir
  <2>5. Mountable(hs) => t[node].type = "directory"
    <3> SUFFICES ASSUME Mountable(hs), t[node].type # "directory" PROVE FALSE
      OBVIOUS
    <3>1. t[node].type \in Types
      BY <1>1, <2>2, NodeType DEF WellFormed
    <3>2. PICK j \in 1 .. i - 1 : PathTo(t)[node] = hs[j].name
      <4>1. t[node].type = "regular"
        BY <3>1 DEF Types
      <4> QED BY <1>5, <1>7, <2>2, <4>1 DEF Contents, OnlyThese
    <3>3. j \in 1 .. Len(hs) /\ k \in 0 .. Len(hs[i].name) - 1
      BY <1>2, LenProperties
    <3> QED BY <2>3, <3>2, <3>3, NoFileOnTheWay
  <2> HIDE DEF ok, node, t
  <2>6. r.tree = t /\ r.dir = node /\ r.ok = ok
    BY Zenon
  <2> HIDE DEF r
  <2>7. AtDirectory(r, hs, i, k)
    BY <1>5, <1>7, <2>3, <2>4, <2>5, <2>6 DEF AtDirectory
  <2> QED BY <2>1, <2>7
<1> QED BY <1>1, <1>4, <1>6, <1>7

-----------------------------------------------------------------------------
(* The names of an archive that make_initrd accepts pass the assertions of  *)
(* add_archived_file().                                                     *)

LEMMA FewerFit ==
  ASSUME NEW a \in Nat, NEW b \in Nat, NEW c \in Nat, c >= 1, a * c < (b + 1) * c
  PROVE  a <= b
<1>1. SUFFICES ASSUME a >= b + 1 PROVE FALSE
  OBVIOUS
<1> DEFINE e == a - (b + 1)
<1>2. e \in Nat /\ a = (b + 1) + e
  BY <1>1
<1> HIDE DEF e
<1>3. a * c = (b + 1) * c + e * c
  BY <1>2
<1>4. e * c \in Nat /\ (b + 1) * c \in Nat
  BY <1>2
<1> QED BY <1>3, <1>4

LEMMA PackedNameAccepted ==
  ASSUME NEW hs \in Seq(ArchiveHeader), MakeInitrdAccepts(hs), NEW i \in 1 .. Len(hs)
  PROVE  NameAccepted(hs[i].name)
<1> DEFINE name == hs[i].name
           L == Len(name)
           c == NameLength + 1
<1>1. L \in Nat /\ name \in Seq(Names)
  BY HeaderNames
<1>2. /\ NameBytes(name) <= MaxNameBytes /\ name # <<>>
      /\ \A k \in 1 .. L : name[k] \notin {Empty, Dot, DotDot}
  BY DEF MakeInitrdAccepts, ValidImagePath
<1>3. L # 0
  <2> HIDE DEF name
  <2> QED BY <1>1, <1>2, EmptySeq
<1>4. c \in Nat /\ c >= 1 /\ MaxComponents \in Nat /\ MaxNameBytes \in Nat
  BY NameLengthAssumption, MaxComponentsAssumption, MaxFilesAssumption
<1>5. L * c - 1 <= MaxNameBytes /\ MaxNameBytes < (MaxComponents + 1) * c - 1
  BY <1>2, NameBytesAssumption DEF NameBytes
<1> HIDE DEF L, c
<1>6. L * c < (MaxComponents + 1) * c
  <2> DEFINE x == L * c
             y == (MaxComponents + 1) * c
  <2>1. x \in Nat /\ y \in Nat
    BY <1>1, <1>4 DEF L
  <2> HIDE DEF x, y
  <2>2. x < y
    BY <1>4, <1>5, <2>1 DEF x, y
  <2> QED BY <2>2 DEF x, y
<1>7. L <= MaxComponents
  BY <1>1, <1>4, <1>6, FewerFit
<1> QED BY <1>1, <1>2, <1>3, <1>4, <1>7 DEF NameAccepted, L

\* A state of initialise_initrd() after i headers.
Mounted(s, hs, i) ==
  /\ s.ok = TRUE => Contents(s.tree, hs, i, i)
  /\ Mountable(hs) => s.ok = TRUE

LEMMA DirectoriesContents ==
  ASSUME NEW hs \in Seq(ArchiveHeader), NEW i \in 1 .. Len(hs), NameAccepted(hs[i].name),
         NEW s, MountState(s, hs), s.ok = TRUE, Mounted(s, hs, i - 1)
  PROVE  \A k \in 0 .. Len(hs[i].name) - 1 :
           /\ MountState(Directories(s, hs[i].name)[k], hs)
           /\ AtDirectory(Directories(s, hs[i].name)[k], hs, i, k)
<1> DEFINE p == hs[i].name
           D == Directories(s, p)
           n == Len(p) - 1
           G == {k \in 0 .. n : AtDirectory(D[k], hs, i, k)}
<1>1. /\ p \in Seq(Names) /\ Len(p) \in Nat /\ Len(p) >= 1 /\ i \in Nat /\ i >= 1
      /\ \A k \in 1 .. Len(p) : p[k] \in Names \ Reserved
  BY HeaderNames, AcceptedNames
<1>2. /\ \A k \in 0 .. Len(p) : MountState(D[k], hs)
      /\ D[0] = [s EXCEPT !.dir = Root]
      /\ \A k \in 1 .. Len(p) : D[k] = GetOrCreateDirectory(D[k - 1], p[k])
  <2> HIDE DEF p
  <2> QED BY <1>1, DirectoriesSteps
<1>3. n \in Nat /\ 0 .. n \subseteq 0 .. Len(p) /\ 1 .. n \subseteq 1 .. Len(p)
  BY <1>1
<1> HIDE DEF D
<1>4. 0 \in G
  <2>1. D[0] = [tree |-> s.tree, dir |-> Root, ok |-> s.ok]
    BY <1>2, RecordExcept, Zenon DEF MountState
  <2>2. D[0].tree = s.tree /\ D[0].dir = Root /\ D[0].ok = s.ok
    <3> DEFINE r == [tree |-> s.tree, dir |-> Root, ok |-> s.ok]
    <3>1. r.tree = s.tree /\ r.dir = Root /\ r.ok = s.ok
      BY Zenon
    <3> HIDE DEF r
    <3>2. D[0] = r
      BY <2>1 DEF r
    <3> QED BY <3>1, <3>2
  <2>3. Contents(s.tree, hs, i - 1, i)
    BY <1>1, ContentsWiden DEF Mounted
  <2>4. PathTo(s.tree)[Root] = Pre(p, 0)
    <3> HIDE DEF p
    <3> QED BY <1>1, PathToFacts, PreWhole DEF MountState
  <2>5. AtDirectory(D[0], hs, i, 0)
    BY <2>2, <2>3, <2>4 DEF AtDirectory
  <2> QED BY <1>3, <2>5
<1>5. ASSUME NEW k \in 1 .. n, k - 1 \in G PROVE k \in G
  <2> DEFINE x == D[k - 1]
  <2>1. /\ MountState(x, hs) /\ AtDirectory(x, hs, i, k - 1)
        /\ p[k] \in Names \ Reserved /\ D[k] = GetOrCreateDirectory(x, p[k])
    BY <1>1, <1>2, <1>3, <1>5
  <2> HIDE DEF x
  <2>2. AtDirectory(GetOrCreateDirectory(x, p[k]), hs, i, k)
    BY <2>1, GetOrCreateDirectoryContents
  <2> QED BY <1>3, <2>1, <2>2
<1>6. \A k \in 0 .. n : k \in G
  <2> HIDE DEF G, n
  <2> QED BY <1>3, <1>4, <1>5, Induction
<1> QED BY <1>2, <1>3, <1>6 DEF D

LEMMA AddArchivedFileContents ==
  ASSUME NEW hs \in Seq(ArchiveHeader), MakeInitrdAccepts(hs), NEW i \in 1 .. Len(hs),
         NEW s, MountState(s, hs), s.ok = TRUE, Mounted(s, hs, i - 1)
  PROVE  Mounted(AddArchivedFile(s, i, hs[i]), hs, i)
<1> DEFINE h    == hs[i]
           p    == h.name
           path == Directories(s, p)[Len(p) - 1]
           t    == path.tree
           d    == path.dir
           name == Last(p)
           node == FindChild(t, d, name)
           file == NewNode(name, "regular", i, h.length)
           u    == AttachChild(t, d, file)
           good == NameAccepted(p) /\ path.ok /\ node = Null
<1>1. AddArchivedFile(s, i, h) = IF good THEN [path EXCEPT !.tree = u] ELSE [s EXCEPT !.ok = FALSE]
  BY Zenon DEF AddArchivedFile, NameAccepted
<1>2. NameAccepted(p)
  BY PackedNameAccepted
<1>3. /\ p \in Seq(Names) /\ Len(p) \in Nat /\ Len(p) >= 1 /\ i \in Nat /\ i >= 1
      /\ \A k \in 1 .. Len(p) : p[k] \in Names \ Reserved
  BY <1>2, HeaderNames, AcceptedNames
<1>4. MountState(path, hs) /\ AtDirectory(path, hs, i, Len(p) - 1)
  <2>1. Len(p) - 1 \in 0 .. Len(hs[i].name) - 1
    BY <1>3
  <2> QED BY <1>2, <2>1, DirectoriesContents
<1>5. name \in Names \ Reserved /\ name = p[Len(p)]
  BY <1>3 DEF Last
<1> HIDE DEF path
<1>6. /\ WellFormed(t) /\ FilesOf(t, hs) /\ d \in 1 .. Len(t) /\ path.ok \in BOOLEAN
      /\ path \in MountRecords /\ Len(t) \in Nat
      /\ path.ok = TRUE => t[d].type = "directory"
  BY <1>4, LenProperties DEF MountState, MountRecords, WellFormed
<1>7. path.ok = TRUE => Contents(t, hs, i - 1, i) /\ OneMore(p, PathTo(t)[d], name)
  <2> SUFFICES ASSUME path.ok = TRUE
               PROVE  Contents(t, hs, i - 1, i) /\ OneMore(p, PathTo(t)[d], name)
    OBVIOUS
  <2>1. Contents(t, hs, i - 1, i) /\ PathTo(t)[d] = Pre(p, Len(p) - 1)
    BY <1>4 DEF AtDirectory
  <2>2. p = Append(Pre(p, Len(p) - 1), name)
    <3> HIDE DEF p, name
    <3>1. Len(p) \in 1 .. Len(p)
      BY <1>3
    <3>2. Pre(p, Len(p)) = Append(Pre(p, Len(p) - 1), p[Len(p)])
      BY <1>3, <3>1, PreNext
    <3>3. Pre(p, Len(p)) = p
      BY <1>3, PreWhole
    <3> QED BY <1>5, <3>2, <3>3, Zenon
  <2> QED BY <2>1, <2>2, Zenon DEF OneMore
<1>8. [s EXCEPT !.ok = FALSE].ok = FALSE
  <2>1. [s EXCEPT !.ok = FALSE] = [tree |-> s.tree, dir |-> s.dir, ok |-> FALSE]
    BY RecordExcept, Zenon DEF MountState
  <2> QED BY <2>1, Zenon
<1>9. CASE path.ok = FALSE
  <2>1. ~Mountable(hs)
    BY <1>4, <1>9 DEF AtDirectory
  <2>2. AddArchivedFile(s, i, h) = [s EXCEPT !.ok = FALSE]
    BY <1>1, <1>9, Zenon
  <2> QED BY <1>8, <2>1, <2>2 DEF Mounted
<1>10. CASE path.ok = TRUE /\ node # Null
  <2>1. AddArchivedFile(s, i, h) = [s EXCEPT !.ok = FALSE]
    BY <1>1, <1>10, Zenon
  <2>2. node \in 1 .. Len(t) /\ IsChild(t, d, name, node)
    BY <1>6, <1>10, FindChildType, FindChildExact DEF Null
  <2>3. PathTo(t)[node] = p
    <3> HIDE DEF t, d, node, name, p
    <3>1. OneMore(PathTo(t)[node], PathTo(t)[d], name)
      BY <1>5, <1>6, <2>2, ChildOneMore
    <3> QED BY <1>7, <1>10, <3>1, Zenon DEF OneMore
  <2>4. ~Mountable(hs)
    <3> SUFFICES ASSUME Mountable(hs) PROVE FALSE
      OBVIOUS
    <3>1. Len(hs) \in Nat
      BY LenProperties
    <3>2. CASE t[node].type = "regular"
      <4>1. PICK j \in 1 .. i - 1 : PathTo(t)[node] = hs[j].name
        BY <1>7, <1>10, <2>2, <3>2 DEF Contents, OnlyThese
      <4>2. hs[j].name # hs[i].name
        BY <4>1 DEF MakeInitrdAccepts
      <4> QED BY <2>3, <4>1, <4>2
    <3>3. CASE t[node].type # "regular"
      <4>1. Needed(hs, i, p)
        BY <1>7, <1>10, <2>2, <2>3, <3>3 DEF Contents, OnlyThese
      <4>2. p # <<>> /\ p # <<Dev>>
        BY DEF MakeInitrdAccepts, ValidImagePath, Mountable
      <4>3. PICK j \in 1 .. i : \E k \in 0 .. Len(hs[j].name) - 1 : p = Pre(hs[j].name, k)
        BY <4>1, <4>2 DEF Needed
      <4>4. j \in 1 .. Len(hs)
        BY <1>3, <3>1
      <4> QED BY <4>3, <4>4, NoFileOnTheWay
    <3> QED BY <3>2, <3>3
  <2> QED BY <1>8, <2>1, <2>4 DEF Mounted
<1>11. CASE path.ok = TRUE /\ node = Null
  <2>1. AddArchivedFile(s, i, h) = [path EXCEPT !.tree = u]
    BY <1>1, <1>2, <1>11, Zenon
  <2>2. h.length \in Nat
    <3>1. h \in ArchiveHeader
      BY ElementOfSeq
    <3> QED BY <3>1 DEF ArchiveHeader
  <2>3. /\ file \in Nodes /\ file.kids = <<>> /\ file.name = name
        /\ file.type = "regular" /\ file.inode = i /\ file.length = h.length
    <3> DEFINE len == h.length
    <3>1. "regular" \in Types /\ len \in Nat /\ name \in Names /\ i \in Nat
      BY <1>3, <1>5, <2>2 DEF Types
    <3> HIDE DEF len, name
    <3>2. file = NewNode(name, "regular", i, len)
      BY DEF len
    <3> HIDE DEF file
    <3>3. /\ file \in Nodes /\ file.kids = <<>> /\ file.name = name
          /\ file.type = "regular" /\ file.inode = i /\ file.length = len
      BY <3>1, <3>2, NewNodeType
    <3> QED BY <3>3 DEF len
  <2> HIDE DEF file, t, d, name
  <2>4. Attached(t, u, d, file) /\ WellFormed(u)
    BY <1>5, <1>6, <1>11, <2>3, AttachNode
  <2> HIDE DEF u
  <2>5. Contents(u, hs, i, i)
    BY <1>3, <1>6, <1>7, <1>11, <2>3, <2>4, ContentsFile
  <2>6. [path EXCEPT !.tree = u] = [tree |-> u, dir |-> path.dir, ok |-> path.ok]
    BY <1>6, RecordExcept, Zenon
  <2> DEFINE r == AddArchivedFile(s, i, h)
  <2>7. r.tree = u /\ r.ok = TRUE
    BY <1>11, <2>1, <2>6, Zenon
  <2> HIDE DEF r
  <2>8. Mounted(r, hs, i)
    BY <2>5, <2>7 DEF Mounted
  <2> QED BY <2>8 DEF r
<1> QED BY <1>6, <1>9, <1>10, <1>11

\* initialise_initrd() mounts an archive exactly if a tree can hold it.
LEMMA MountingContents ==
  ASSUME NEW hs \in Seq(ArchiveHeader), MakeInitrdAccepts(hs), NEW end,
         \A i \in 1 .. Len(hs) : InImage(hs[i], end)
  PROVE  \A i \in 0 .. Len(hs) : Mounted(Mounting(hs, end)[i], hs, i)
<1> DEFINE n == Len(hs)
           M == Mounting(hs, end)
           G == {i \in 0 .. n : Mounted(M[i], hs, i)}
<1>1. n \in Nat /\ n <= MaxFiles
  BY LenProperties, MaxFilesAssumption DEF MakeInitrdAccepts
<1>2. /\ \A i \in 0 .. n : MountState(M[i], hs)
      /\ M[0] = [tree |-> EmptyTree, dir |-> Root, ok |-> n <= MaxFiles]
      /\ \A i \in 1 .. n : M[i] = AddHeader(M[i - 1], i, hs[i], end)
  BY MountingSteps
<1> HIDE DEF M
<1>3. 0 \in G
  <2>1. M[0].tree = EmptyTree /\ M[0].ok = TRUE
    <3> DEFINE ok == n <= MaxFiles
    <3>1. ok = TRUE
      BY <1>1
    <3>2. M[0] = [tree |-> EmptyTree, dir |-> Root, ok |-> ok]
      BY <1>2
    <3> HIDE DEF ok
    <3> DEFINE r == [tree |-> EmptyTree, dir |-> Root, ok |-> ok]
    <3>3. r.tree = EmptyTree /\ r.ok = ok
      BY Zenon
    <3> HIDE DEF r
    <3>4. M[0] = r
      BY <3>2 DEF r
    <3> QED BY <3>1, <3>3, <3>4
  <2>2. Mounted(M[0], hs, 0)
    BY <2>1, EmptyContents DEF Mounted
  <2> QED BY <1>1, <2>2
<1>4. ASSUME NEW i \in 1 .. n, i - 1 \in G PROVE i \in G
  <2> DEFINE s == M[i - 1]
  <2>1. MountState(s, hs) /\ Mounted(s, hs, i - 1) /\ M[i] = AddHeader(s, i, hs[i], end)
    BY <1>1, <1>2, <1>4
  <2> HIDE DEF s
  <2>2. s.ok \in BOOLEAN
    BY <2>1 DEF MountState, MountRecords
  <2>3. CASE s.ok = TRUE
    <3>1. AddHeader(s, i, hs[i], end) = AddArchivedFile(s, i, hs[i])
      BY <2>3, Zenon DEF AddHeader
    <3>2. Mounted(AddArchivedFile(s, i, hs[i]), hs, i)
      BY <2>1, <2>3, AddArchivedFileContents
    <3> QED BY <1>1, <2>1, <3>1, <3>2
  <2>4. CASE s.ok = FALSE
    <3>1. AddHeader(s, i, hs[i], end) = [s EXCEPT !.ok = FALSE]
      BY <2>4, Zenon DEF AddHeader
    <3>2. [s EXCEPT !.ok = FALSE] = [tree |-> s.tree, dir |-> s.dir, ok |-> FALSE]
      BY <2>1, RecordExcept, Zenon DEF MountState
    <3>3. M[i].ok = FALSE
      BY <2>1, <3>1, <3>2, Zenon
    <3>4. Mounted(M[i], hs, i)
      BY <2>1, <2>4, <3>3 DEF Mounted
    <3> QED BY <1>1, <3>4
  <2> QED BY <2>2, <2>3, <2>4
<1>5. \A i \in 0 .. n : i \in G
  <2> HIDE DEF G
  <2> QED BY <1>1, <1>3, <1>4, Induction
<1> QED BY <1>5 DEF M

\* A tree that holds every file shows that the archive is mountable.
LEMMA FilledMountable ==
  ASSUME NEW hs \in Seq(ArchiveHeader), NEW t, WellFormed(t),
         Filled(t, hs, Len(hs)), DevHeld(t)
  PROVE  Mountable(hs)
<1>1. ASSUME NEW i \in 1 .. Len(hs) PROVE hs[i].name # <<Dev>>
  <2>1. PICK m \in 1 .. Len(t) : IsFileOf(t, hs, i, m)
    BY DEF Filled
  <2>2. PICK n \in 1 .. Len(t) : PathTo(t)[n] = <<Dev>> /\ t[n].type = "directory"
    BY DEF DevHeld
  <2>3. PathTo(t)[m] = hs[i].name /\ t[m].type = "regular"
    BY <2>1 DEF IsFileOf
  <2>4. m # n
    BY <2>2, <2>3
  <2> QED BY <2>2, <2>3, <2>4, PathToInjective
<1>2. ASSUME NEW i \in 1 .. Len(hs), NEW j \in 1 .. Len(hs)
      PROVE  ~IsStrictPrefix(hs[i].name, hs[j].name)
  <2> DEFINE a == hs[i].name
             b == hs[j].name
  <2> SUFFICES ASSUME IsStrictPrefix(a, b) PROVE FALSE
    OBVIOUS
  <2>1. a \in Seq(Names) /\ b \in Seq(Names)
    BY HeaderNames
  <2>2. PICK k \in 0 .. Len(b) - 1 : a = Pre(b, k)
    <3> HIDE DEF a, b
    <3> QED BY <2>1, StrictPrefixIs
  <2>3. PICK m \in 1 .. Len(t) : PathTo(t)[m] = a /\ t[m].type = "regular"
    BY DEF Filled, IsFileOf
  <2>4. PICK n \in 1 .. Len(t) : PathTo(t)[n] = b
    BY DEF Filled, IsFileOf
  <2>5. k \in 0 .. Len(PathTo(t)[n]) /\ k < Len(PathTo(t)[n])
    <3>1. Len(b) \in Nat
      BY <2>1, LenProperties
    <3> QED BY <2>4, <3>1
  <2>6. PICK c \in 1 .. Len(t) : PathTo(t)[c] = Pre(PathTo(t)[n], k) /\ t[c].type = "directory"
    BY <2>5, PrefixNode
  <2>7. PathTo(t)[c] = PathTo(t)[m] /\ c # m
    BY <2>2, <2>3, <2>4, <2>6
  <2> QED BY <2>7, PathToInjective
<1> QED BY <1>1, <1>2 DEF Mountable

-----------------------------------------------------------------------------
(* The data of the files in the archive. *)

LEMMA DataEndMonotone ==
  ASSUME NEW files, Len(files) \in Nat, \A i \in 1 .. Len(files) : files[i].length \in Nat,
         NEW i \in 0 .. Len(files), NEW j \in 0 .. Len(files), i <= j
  PROVE  DataEnd(files)[i] <= DataEnd(files)[j]
<1> DEFINE n == Len(files)
           D == DataEnd(files)
           G == {k \in 0 .. n : i <= k => D[i] <= D[k]}
<1>1. D \in [0 .. n -> Nat] /\ \A k \in 1 .. n : D[k] = D[k - 1] + files[k].length
  BY DataEndSteps
<1> HIDE DEF D
<1>2. 0 \in G
  BY <1>1
<1>3. ASSUME NEW k \in 1 .. n, k - 1 \in G PROVE k \in G
  <2>1. /\ D[k] = D[k - 1] + files[k].length /\ files[k].length \in Nat
        /\ D[k] \in Nat /\ D[k - 1] \in Nat /\ D[i] \in Nat
    <3>1. k \in 0 .. n /\ k - 1 \in 0 .. n
      OBVIOUS
    <3>2. \A m \in 0 .. n : D[m] \in Nat
      BY <1>1
    <3>3. D[k] = D[k - 1] + files[k].length /\ files[k].length \in Nat
      BY <1>1
    <3> QED BY <3>1, <3>2, <3>3
  <2>2. CASE i <= k - 1
    BY <1>3, <2>1, <2>2
  <2>3. CASE i = k
    BY <2>1, <2>3
  <2>4. CASE i > k
    BY <2>4
  <2> QED BY <2>2, <2>3, <2>4
<1>4. \A k \in 0 .. n : k \in G
  <2> HIDE DEF G
  <2> QED BY <1>2, <1>3, Induction
<1> QED BY <1>4 DEF D

LEMMA SameLengthsSameEnds ==
  ASSUME NEW files, NEW hs, Len(files) \in Nat, Len(hs) = Len(files),
         \A i \in 1 .. Len(files) : files[i].length \in Nat /\ hs[i].length = files[i].length
  PROVE  \A i \in 0 .. Len(files) : DataEnd(hs)[i] = DataEnd(files)[i]
<1> DEFINE n == Len(files)
           D == DataEnd(files)
           E == DataEnd(hs)
           G == {k \in 0 .. n : E[k] = D[k]}
<1>1. D[0] = 0 /\ \A k \in 1 .. n : D[k] = D[k - 1] + files[k].length
  BY DataEndSteps
<1>2. E[0] = 0 /\ \A k \in 1 .. n : E[k] = E[k - 1] + hs[k].length
  <2>1. Len(hs) \in Nat /\ \A i \in 1 .. Len(hs) : hs[i].length \in Nat
    OBVIOUS
  <2>2. E[0] = 0 /\ \A k \in 1 .. Len(hs) : E[k] = E[k - 1] + hs[k].length
    BY <2>1, DataEndSteps
  <2> QED BY <2>2
<1> HIDE DEF D, E
<1>3. 0 \in G
  BY <1>1, <1>2
<1>4. ASSUME NEW k \in 1 .. n, k - 1 \in G PROVE k \in G
  BY <1>1, <1>2, <1>4
<1>5. \A k \in 0 .. n : k \in G
  <2> HIDE DEF G
  <2> QED BY <1>3, <1>4, Induction
<1> QED BY <1>5 DEF D, E

\* The files lie one behind the other, and the last ends where the archive does.
Layout(hs) ==
  /\ ImageEnd(hs) \in Nat
  /\ \A i \in 1 .. Len(hs) :
       /\ hs[i].offset \in Nat /\ hs[i].length \in Nat
       /\ hs[i].offset + hs[i].length <= ImageEnd(hs)
       /\ \A j \in 1 .. Len(hs) : i < j => hs[i].offset + hs[i].length <= hs[j].offset

LEMMA HeadersLayout ==
  ASSUME NEW files \in Seq(ArchiveFile)
  PROVE  Layout(Headers(files))
<1> DEFINE hs == Headers(files)
           n == Len(files)
           D == DataEnd(files)
<1>1. n \in Nat /\ \A i \in 1 .. n : files[i].length \in Nat
  <2>1. n \in Nat /\ \A i \in 1 .. n : files[i] \in ArchiveFile
    BY LenProperties, ElementOfSeq
  <2> QED BY <2>1 DEF ArchiveFile
<1>2. /\ Len(hs) = n
      /\ \A i \in 1 .. n : hs[i].length = files[i].length /\ hs[i].offset = D[i - 1]
  BY HeadersFacts
<1> HIDE DEF hs
<1>3. ImageEnd(hs) = D[n]
  <2>1. \A i \in 0 .. n : DataEnd(hs)[i] = D[i]
    BY <1>1, <1>2, SameLengthsSameEnds
  <2> QED BY <1>1, <1>2, <2>1 DEF ImageEnd
<1>4. D \in [0 .. n -> Nat] /\ \A i \in 1 .. n : D[i] = D[i - 1] + files[i].length
  BY <1>1, DataEndSteps
<1>5. \A i, j \in 0 .. n : i <= j => D[i] <= D[j]
  BY <1>1, DataEndMonotone
<1> HIDE DEF D
<1>6. ASSUME NEW i \in 1 .. n
      PROVE  /\ hs[i].offset \in Nat /\ hs[i].length \in Nat
             /\ hs[i].offset + hs[i].length = D[i] /\ D[i] <= D[n]
             /\ \A j \in 1 .. n : i < j => D[i] <= hs[j].offset
  <2>1. i - 1 \in 0 .. n /\ i \in 0 .. n /\ n \in 0 .. n
    BY <1>1
  <2>2. hs[i].offset \in Nat /\ hs[i].length \in Nat /\ hs[i].offset + hs[i].length = D[i]
    BY <1>1, <1>2, <1>4, <2>1
  <2>3. D[i] <= D[n]
    BY <1>1, <1>5, <2>1
  <2>4. ASSUME NEW j \in 1 .. n, i < j PROVE D[i] <= hs[j].offset
    <3>1. j - 1 \in 0 .. n /\ i <= j - 1
      BY <1>1, <2>4
    <3> QED BY <1>2, <1>5, <2>1, <3>1
  <2> QED BY <2>2, <2>3, <2>4
<1>7. D[n] \in Nat
  BY <1>1, <1>4
<1>8. Layout(hs)
  BY <1>2, <1>3, <1>6, <1>7 DEF Layout
<1> QED BY <1>8 DEF hs

LEMMA HeadersAccepted ==
  ASSUME NEW files \in Seq(ArchiveFile), MakeInitrdAccepts(files)
  PROVE  MakeInitrdAccepts(Headers(files))
<1> DEFINE hs == Headers(files)
<1>1. Len(hs) = Len(files) /\ \A i \in 1 .. Len(files) : hs[i].name = files[i].name
  BY HeadersFacts
<1>2. Len(files) \in Nat
  BY LenProperties
<1> HIDE DEF hs
<1>3. ASSUME NEW i \in 1 .. Len(files), NEW j \in 1 .. i - 1 PROVE hs[j].name # hs[i].name
  <2>1. j \in 1 .. Len(files)
    BY <1>2
  <2> QED BY <1>1, <2>1 DEF MakeInitrdAccepts
<1>4. \A i \in 1 .. Len(files) : DataEnd(hs)[i] <= MaxImage
  <2>1. \A i \in 1 .. Len(files) : files[i].length \in Nat
    <3>1. \A i \in 1 .. Len(files) : files[i] \in ArchiveFile
      BY ElementOfSeq
    <3> QED BY <3>1 DEF ArchiveFile
  <2>2. \A i \in 1 .. Len(files) : hs[i].length = files[i].length
    BY HeadersFacts DEF hs
  <2>3. \A i \in 0 .. Len(files) : DataEnd(hs)[i] = DataEnd(files)[i]
    BY <1>1, <1>2, <2>1, <2>2, SameLengthsSameEnds
  <2>4. \A i \in 1 .. Len(files) : i \in 0 .. Len(files) /\ DataEnd(files)[i] <= MaxImage
    BY <1>2 DEF MakeInitrdAccepts
  <2> QED BY <2>3, <2>4
<1>5. MakeInitrdAccepts(hs)
  BY <1>1, <1>3, <1>4 DEF MakeInitrdAccepts
<1> QED BY <1>5 DEF hs

LEMMA LayoutInImage ==
  ASSUME NEW hs, Layout(hs), NEW i \in 1 .. Len(hs)
  PROVE  InImage(hs[i], ImageEnd(hs))
BY DEF Layout, InImage
=============================================================================
