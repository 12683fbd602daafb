----------------------------- MODULE ShellProofs ----------------------------
(***************************************************************************)
(* Proofs about Files and Shell, for every archive, every set of paths,    *)
(* every number of processes and descriptors.                              *)
(***************************************************************************)
EXTENDS Shell, FileTreeProofs, FiniteSetTheorems

-----------------------------------------------------------------------------
(* The inductive invariant. *)

\* headers is what make_initrd wrote.
Packed == \E files \in Archives : MakeInitrdAccepts(files) /\ headers = Headers(files)

TreeInv ==
  IF phase = "boot" THEN tree = <<>> ELSE WellFormed(tree) /\ FilesOf(tree, headers)

FdRecords ==
  [kind : {"free", "keyboard", "console", "node"}, node : Nat, offset : 0 .. SeekMax]

ProcRecords ==
  [state : {"free", "alive", "zombie"}, parent : 0 .. MaxPid,
   image : {"none", "shell", "child", "program"}, cwd : Nat, fds : [Fds -> FdRecords]]

\* d is open on a file of t.
OpenOn(d, t) == d.kind = "node" /\ d.node \in 1 .. Len(t) /\ t[d.node].type = "regular"

LivingInv(r, t) ==
  /\ r.cwd \in 1 .. Len(t) /\ t[r.cwd].type = "directory"
  /\ \A fd \in 0 .. 2 : r.fds[fd] = StandardDescriptors[fd]
  /\ \A fd \in 3 .. MaxFds - 1 : r.fds[fd] = FreeFd \/ OpenOn(r.fds[fd], t)

DeadInv(r) == r.cwd = Null /\ \A fd \in Fds : r.fds[fd] = FreeFd

ProcInv ==
  /\ proc \in [Pids -> ProcRecords]
  /\ \A p \in Pids :
       /\ proc[p].state = "alive" => phase = "up" /\ LivingInv(proc[p], tree)
       /\ proc[p].state # "alive" => DeadInv(proc[p])

PidInv ==
  /\ next_pid \in 2 .. MaxPid + 1
  /\ IF phase = "up" THEN next_pid >= 3 ELSE next_pid = 2
  /\ \A p \in Pids : p >= next_pid => proc[p].state = "free"
  /\ phase \in {"boot", "up", "panic"}

FilesInv == Packed /\ TreeInv /\ ProcInv /\ PidInv

-----------------------------------------------------------------------------
ShRecords ==
  [pc : {"prompt", "ls", "cat", "close", "wait", "gone"}, listed : Seq(Nat),
   present : SUBSET Nat, fd : Fds, out : Seq(Nat), file : Nat,
   child : Pids \cup {0}, path : ShellPaths \cup {NoPath}]

\* ls has still to come to the entries of kids it has not printed.
Listing(listed, present, kids) ==
  /\ Len(listed) <= Len(kids) /\ IsFiniteSet(present)
  /\ \A x \in present :
       \E q \in 1 .. Len(kids) :
         kids[q] = x /\ (q <= Len(listed) => \E i \in 1 .. Len(listed) : listed[i] = x)

ListInv == Listing(sh.listed, sh.present, Here)

Header(n) == headers[tree[n].inode]

\* The descriptor of cat is behind the bytes it has printed.
CatInv ==
  /\ sh.fd \in 3 .. MaxFds - 1 /\ sh.file \in 1 .. Len(tree)
  /\ tree[sh.file].type = "regular"
  /\ proc[Shell].fds[sh.fd] = [kind |-> "node", node |-> sh.file, offset |-> Len(sh.out)]
  /\ \A fd \in Fds : fd # sh.fd => proc[Shell].fds[fd] = StandardDescriptors[fd]
  /\ Len(sh.out) <= Header(sh.file).length
  /\ \A k \in 1 .. Len(sh.out) : sh.out[k] = Header(sh.file).offset + k - 1
  /\ sh.pc = "close" => Len(sh.out) = Header(sh.file).length

\* The only child of the shell is the one it waits for.
ChildInv ==
  /\ \A p \in Pids : proc[p].state # "free" /\ proc[p].parent = Shell =>
                       sh.pc = "wait" /\ p = sh.child
  /\ sh.pc = "wait" => /\ sh.child \in 3 .. MaxPid
                       /\ proc[sh.child].state # "free" /\ proc[sh.child].parent = Shell

ShInv ==
  /\ sh \in ShRecords /\ sh.file \in 0 .. Len(tree)
  /\ phase # "up" => sh = Idle
  /\ phase = "up" /\ sh.pc # "gone" =>
       /\ proc[Shell].state = "alive" /\ proc[Shell].image = "shell"
       /\ ChildInv
       /\ sh.pc = "ls" => ListInv
       /\ IF sh.pc \in {"cat", "close"} THEN CatInv
          ELSE proc[Shell].fds = StandardDescriptors

IInv == FilesInv /\ ShInv

-----------------------------------------------------------------------------
(* The initial states. *)

LEMMA PackedHeaders ==
  ASSUME Packed
  PROVE  /\ headers \in Seq(ArchiveHeader) /\ Len(headers) \in Nat
         /\ \A i \in 1 .. Len(headers) :
              headers[i].length \in 0 .. SeekMax /\ headers[i].offset \in Nat
<1>1. PICK files \in Archives : headers = Headers(files)
  BY DEF Packed
<1> DEFINE F == [name : ArchiveName, length : 0 .. SeekMax]
<1>2. files \in Seq(F)
  BY ArchivesAssumption DEF ArchiveName
<1>3. Len(files) \in Nat /\ \A i \in 1 .. Len(files) : files[i] \in F
  <2> HIDE DEF F
  <2> QED BY <1>2, LenProperties, ElementOfSeq
<1>4. \A i \in 1 .. Len(files) : files[i] \in ArchiveFile /\ files[i].length \in 0 .. SeekMax
  BY <1>3, SeekAssumption DEF ArchiveFile
<1>5. files \in Seq(ArchiveFile)
  <2>1. files = [i \in 1 .. Len(files) |-> files[i]]
    <3> HIDE DEF F
    <3> QED BY <1>2, LenProperties
  <2>2. files \in [1 .. Len(files) -> ArchiveFile]
    BY <1>4, <2>1
  <2> QED BY <1>3, <2>2
<1>6. headers \in Seq(ArchiveHeader) /\ Len(headers) = Len(files)
  BY <1>1, <1>5, HeadersFacts
<1>7. ASSUME NEW i \in 1 .. Len(headers)
      PROVE  headers[i].length \in 0 .. SeekMax /\ headers[i].offset \in Nat
  <2>1. headers[i].length = files[i].length
    BY <1>1, <1>5, <1>6, HeadersFacts
  <2>2. headers[i] \in ArchiveHeader
    BY <1>6, ElementOfSeq
  <2> QED BY <1>4, <1>6, <2>1, <2>2 DEF ArchiveHeader
<1> QED BY <1>3, <1>6, <1>7

LEMMA PidFacts ==
  /\ MaxPid \in Nat /\ Pids = 2 .. MaxPid /\ Shell \in Pids /\ Shell = 2 /\ Mother = 1
BY PidAssumption DEF Pids, Shell, Mother

LEMMA FdFacts ==
  /\ MaxFds \in Nat /\ MaxFds >= 3 /\ Fds = 0 .. MaxFds - 1 /\ 0 \in Fds
  /\ SeekMax \in Nat /\ 0 .. 2 \subseteq Fds /\ 3 .. MaxFds - 1 \subseteq Fds
BY FdsAssumption, SeekAssumption DEF Fds

LEMMA FreeFdType ==
  /\ FreeFd \in FdRecords /\ FreeFd.kind = "free" /\ FreeFd.node = Null /\ FreeFd.offset = 0
BY FdFacts DEF FreeFd, FdRecords, Null

LEMMA StandardDescriptorsFacts ==
  /\ StandardDescriptors \in [Fds -> FdRecords]
  /\ \A fd \in 0 .. 2 : StandardDescriptors[fd].kind = IF fd = 0 THEN "keyboard" ELSE "console"
  /\ \A fd \in 3 .. MaxFds - 1 : StandardDescriptors[fd] = FreeFd
<1> DEFINE K(fd) == IF fd = 0 THEN "keyboard" ELSE IF fd <= 2 THEN "console" ELSE "free"
           D(fd) == [FreeFd EXCEPT !.kind = K(fd)]
<1>1. ASSUME NEW fd \in Fds
      PROVE  /\ D(fd) \in FdRecords /\ D(fd).kind = K(fd)
             /\ fd \in 3 .. MaxFds - 1 => D(fd) = FreeFd
  <2>1. K(fd) \in {"free", "keyboard", "console", "node"}
    OBVIOUS
  <2>2. fd \in 3 .. MaxFds - 1 => K(fd) = "free"
    BY FdFacts
  <2> HIDE DEF K
  <2> QED BY <2>1, <2>2, FdFacts DEF FreeFd, FdRecords, Null
<1>2. StandardDescriptors = [fd \in Fds |-> D(fd)]
  BY DEF StandardDescriptors
<1> HIDE DEF D
<1>3. StandardDescriptors \in [Fds -> FdRecords] /\ \A fd \in Fds : StandardDescriptors[fd] = D(fd)
  BY <1>1, <1>2
<1> QED BY <1>1, <1>3, FdFacts

LEMMA FreeProcType ==
  /\ FreeProc \in ProcRecords /\ FreeProc.state = "free" /\ FreeProc.parent = 0
  /\ FreeProc.image = "none" /\ DeadInv(FreeProc)
<1> DEFINE none == [fd \in Fds |-> FreeFd]
<1>1. none \in [Fds -> FdRecords] /\ \A fd \in Fds : none[fd] = FreeFd
  BY FreeFdType
<1>2. FreeProc = [state |-> "free", parent |-> 0, image |-> "none", cwd |-> Null, fds |-> none]
  BY DEF FreeProc
<1> HIDE DEF none
<1> QED BY <1>1, <1>2, PidFacts DEF ProcRecords, DeadInv, Null

LEMMA IdleType ==
  /\ Idle \in ShRecords /\ Idle.pc = "prompt" /\ Idle.file = Null /\ Idle.listed = <<>>
  /\ Idle.out = <<>>
<1>1. NoPath \in ShellPaths \cup {NoPath} /\ <<>> \in Seq(Nat) /\ {} \in SUBSET Nat
  OBVIOUS
<1> HIDE DEF NoPath
<1> QED BY <1>1, FdFacts, PidFacts DEF Idle, ShRecords, Null

LEMMA InitInv == ShInit => IInv
<1> SUFFICES ASSUME ShInit PROVE IInv
  OBVIOUS
<1>1. Packed /\ TreeInv
  BY DEF ShInit, Init, Packed, TreeInv
<1>2. ProcInv
  <2>1. \A p \in Pids : proc[p] = FreeProc
    BY DEF ShInit, Init
  <2>2. proc \in [Pids -> ProcRecords]
    BY FreeProcType DEF ShInit, Init
  <2> QED BY <2>1, <2>2, FreeProcType DEF ProcInv
<1>3. PidInv
  <2>1. \A p \in Pids : proc[p].state = "free"
    BY FreeProcType DEF ShInit, Init
  <2> QED BY <2>1, PidFacts DEF PidInv, ShInit, Init
<1>4. ShInv
  <2>1. Len(tree) = 0 /\ phase = "boot" /\ sh = Idle
    BY DEF ShInit, Init
  <2> QED BY <2>1, IdleType DEF ShInv, Null
<1> QED BY <1>1, <1>2, <1>3, <1>4 DEF IInv, FilesInv

-----------------------------------------------------------------------------
(* Steps of one process. *)

LEMMA ProcType ==
  ASSUME ProcInv, NEW p \in Pids
  PROVE  /\ proc[p] \in ProcRecords /\ proc[p].parent \in 0 .. MaxPid
         /\ proc[p].state \in {"free", "alive", "zombie"} /\ proc[p].cwd \in Nat
         /\ proc[p].image \in {"none", "shell", "child", "program"}
         /\ proc[p].fds \in [Fds -> FdRecords]
         /\ \A fd \in Fds : proc[p].fds[fd] \in FdRecords
BY DEF ProcInv, ProcRecords

LEMMA FdType ==
  ASSUME NEW d \in FdRecords
  PROVE  /\ d.kind \in {"free", "keyboard", "console", "node"} /\ d.node \in Nat
         /\ d.offset \in 0 .. SeekMax /\ d.offset \in Nat
BY FdFacts DEF FdRecords

\* proc[p] becomes r.
Becomes(p, r) ==
  /\ proc' = [proc EXCEPT ![p] = r]
  /\ UNCHANGED <<headers, phase, tree>>

RecordOK(r) ==
  /\ r \in ProcRecords
  /\ r.state = "alive" => phase = "up" /\ LivingInv(r, tree)
  /\ r.state # "alive" => DeadInv(r)

LEMMA BecomesProc ==
  ASSUME ProcInv, NEW p \in Pids, NEW r, Becomes(p, r)
  PROVE  proc'[p] = r /\ \A q \in Pids : q # p => proc'[q] = proc[q]
BY DEF Becomes, ProcInv

LEMMA BecomesInv ==
  ASSUME FilesInv, phase = "up", NEW p \in Pids, NEW r, RecordOK(r), Becomes(p, r),
         \/ next_pid' = next_pid /\ (r.state = "free" \/ p < next_pid)
         \/ next_pid' = next_pid + 1 /\ p = next_pid
  PROVE  FilesInv'
<1>1. proc'[p] = r /\ \A q \in Pids : q # p => proc'[q] = proc[q]
  BY BecomesProc DEF FilesInv
<1>2. Packed'
  BY DEF FilesInv, Packed, Becomes
<1>3. TreeInv'
  BY DEF FilesInv, TreeInv, Becomes
<1>4. ProcInv'
  <2>1. proc' \in [Pids -> ProcRecords]
    BY DEF FilesInv, ProcInv, Becomes, RecordOK
  <2>2. ASSUME NEW q \in Pids
        PROVE  /\ proc'[q].state = "alive" => phase' = "up" /\ LivingInv(proc'[q], tree')
               /\ proc'[q].state # "alive" => DeadInv(proc'[q])
    <3>1. phase' = phase /\ tree' = tree
      BY DEF Becomes
    <3>2. CASE q = p
      BY <1>1, <3>1, <3>2 DEF RecordOK
    <3>3. CASE q # p
      BY <1>1, <3>1, <3>3 DEF FilesInv, ProcInv
    <3> QED BY <3>2, <3>3
  <2> QED BY <2>1, <2>2 DEF ProcInv
<1>5. PidInv'
  <2>1. next_pid \in 2 .. MaxPid + 1 /\ next_pid' \in 2 .. MaxPid + 1 /\ next_pid' >= next_pid
    BY PidFacts DEF FilesInv, PidInv
  <2>2. ASSUME NEW q \in Pids, q >= next_pid' PROVE proc'[q].state = "free"
    <3>1. q \in Int /\ p \in Int
      BY PidFacts
    <3>2. CASE q = p
      BY <1>1, <2>1, <2>2, <3>1, <3>2
    <3>3. CASE q # p
      BY <1>1, <2>1, <2>2, <3>1, <3>3 DEF FilesInv, PidInv
    <3> QED BY <3>2, <3>3
  <2> QED BY <2>1, <2>2, PidFacts DEF FilesInv, PidInv, Becomes
<1> QED BY <1>2, <1>3, <1>4, <1>5 DEF FilesInv

\* proc[p] with another descriptor.
WithFd(r, fd, d) == [r EXCEPT !.fds[fd] = d]

LEMMA SetFd ==
  ASSUME NEW r \in ProcRecords, NEW fd \in Fds, NEW d \in FdRecords, NEW q,
         q = WithFd(r, fd, d)
  PROVE  /\ q \in ProcRecords /\ q.state = r.state /\ q.parent = r.parent
         /\ q.image = r.image /\ q.cwd = r.cwd /\ q.fds[fd] = d
         /\ \A e \in Fds : e # fd => q.fds[e] = r.fds[e]
BY DEF ProcRecords, WithFd

LEMMA SetFdLiving ==
  ASSUME NEW r \in ProcRecords, NEW fd \in 3 .. MaxFds - 1, NEW d \in FdRecords, NEW q, NEW t,
         q = WithFd(r, fd, d), LivingInv(r, t), d = FreeFd \/ OpenOn(d, t)
  PROVE  LivingInv(q, t)
<1>1. fd \in Fds /\ fd \in Int
  BY FdFacts
<1>2. /\ q.cwd = r.cwd /\ q.fds[fd] = d
      /\ \A e \in Fds : e # fd => q.fds[e] = r.fds[e]
  BY <1>1, SetFd
<1>3. ASSUME NEW e \in 0 .. 2 PROVE q.fds[e] = StandardDescriptors[e]
  <2>1. e \in Fds /\ e # fd
    BY <1>1, FdFacts
  <2> QED BY <1>2, <2>1 DEF LivingInv
<1>4. ASSUME NEW e \in 3 .. MaxFds - 1 PROVE q.fds[e] = FreeFd \/ OpenOn(q.fds[e], t)
  <2>1. e \in Fds
    BY FdFacts
  <2>2. CASE e = fd
    BY <1>2, <2>2
  <2>3. CASE e # fd
    BY <1>2, <2>1, <2>3 DEF LivingInv
  <2> QED BY <2>2, <2>3
<1> QED BY <1>2, <1>3, <1>4 DEF LivingInv

\* A call of p that changes its own files.
FileCall(p, r) ==
  /\ Becomes(p, r) /\ next_pid' = next_pid /\ RecordOK(r)
  /\ r.state = "alive" /\ r.parent = proc[p].parent /\ r.image = proc[p].image

LEMMA AliveFacts ==
  ASSUME FilesInv, NEW p \in Pids, Alive(p)
  PROVE  /\ phase = "up" /\ proc[p].state = "alive" /\ LivingInv(proc[p], tree)
         /\ WellFormed(tree) /\ FilesOf(tree, headers) /\ proc[p] \in ProcRecords
         /\ p < next_pid /\ next_pid \in 3 .. MaxPid + 1 /\ RecordOK(proc[p])
         /\ proc[p].cwd \in 1 .. Len(tree) /\ Len(tree) \in Nat
<1>1. phase = "up" /\ proc[p].state = "alive"
  BY DEF Alive
<1>2. WellFormed(tree) /\ FilesOf(tree, headers)
  BY <1>1 DEF FilesInv, TreeInv
<1>3. proc[p] \in ProcRecords /\ LivingInv(proc[p], tree)
  BY <1>1 DEF FilesInv, ProcInv
<1>4. next_pid \in 3 .. MaxPid + 1 /\ p < next_pid
  <2>1. ~(p >= next_pid) /\ next_pid \in 2 .. MaxPid + 1 /\ next_pid >= 3
    BY <1>1 DEF FilesInv, PidInv
  <2> QED BY <2>1, PidFacts
<1> QED BY <1>1, <1>2, <1>3, <1>4, LenProperties DEF LivingInv, RecordOK, WellFormed

LEMMA LookupType ==
  ASSUME FilesInv, NEW p \in Pids, Alive(p), NEW path \in PathStrings
  PROVE  Lookup(p, path) \in 0 .. Len(tree)
<1>1. Len(path.names) \in Nat
  BY LenProperties DEF PathStrings
<1>2. proc[p].cwd \in 0 .. Len(tree) /\ WellFormed(tree)
  BY AliveFacts
<1> QED BY <1>1, <1>2, ResolvePathType DEF Lookup

LEMMA FileCallInv ==
  ASSUME FilesInv, NEW p \in Pids, Alive(p), NEW r, FileCall(p, r)
  PROVE  FilesInv'
BY AliveFacts, BecomesInv DEF FileCall

-----------------------------------------------------------------------------
(* File calls. *)

\* A descriptor of a living process that is on a node is open on a file.
LEMMA NodeFdFacts ==
  ASSUME FilesInv, NEW p \in Pids, LivingInv(proc[p], tree), NEW fd, NodeFd(p, fd)
  PROVE  /\ fd \in 3 .. MaxFds - 1 /\ fd \in Fds /\ proc[p].fds[fd] \in FdRecords
         /\ OpenOn(proc[p].fds[fd], tree)
<1>1. fd \in Fds /\ proc[p].fds[fd].kind = "node"
  BY DEF NodeFd, Valid
<1>2. fd \notin 0 .. 2
  <2>1. SUFFICES ASSUME fd \in 0 .. 2 PROVE FALSE
    OBVIOUS
  <2>2. proc[p].fds[fd].kind = StandardDescriptors[fd].kind
    BY <2>1 DEF LivingInv
  <2>3. StandardDescriptors[fd].kind \in {"keyboard", "console"}
    BY <2>1, StandardDescriptorsFacts
  <2> QED BY <1>1, <2>2, <2>3
<1>3. fd \in 3 .. MaxFds - 1
  BY <1>1, <1>2, FdFacts
<1>4. proc[p].fds[fd] # FreeFd
  BY <1>1, FreeFdType
<1>5. proc[p].fds[fd] \in FdRecords
  BY <1>1, ProcType DEF FilesInv
<1> QED BY <1>1, <1>3, <1>4, <1>5 DEF LivingInv

\* The record of p with d at fd is that of a file call.
LEMMA SetFdCall ==
  ASSUME FilesInv, NEW p \in Pids, Alive(p), NEW fd \in 3 .. MaxFds - 1, NEW d \in FdRecords,
         d = FreeFd \/ OpenOn(d, tree), NEW r, r = WithFd(proc[p], fd, d),
         Becomes(p, r), next_pid' = next_pid
  PROVE  FileCall(p, r)
<1>1. /\ proc[p] \in ProcRecords /\ phase = "up" /\ LivingInv(proc[p], tree)
      /\ proc[p].state = "alive"
  BY AliveFacts
<1>2. fd \in Fds
  BY FdFacts
<1>3. /\ r \in ProcRecords /\ r.state = proc[p].state /\ r.parent = proc[p].parent
      /\ r.image = proc[p].image
  BY <1>1, <1>2, SetFd
<1>4. LivingInv(r, tree)
  BY <1>1, SetFdLiving
<1> QED BY <1>1, <1>3, <1>4 DEF FileCall, RecordOK

OpenedFd(node) == [kind |-> "node", node |-> node, offset |-> 0]

LEMMA OpenResultFacts ==
  ASSUME FilesInv, NEW p \in Pids, Alive(p), NEW path \in PathStrings, OpenResult(p, path) >= 0
  PROVE  /\ OpenResult(p, path) \in 3 .. MaxFds - 1
         /\ proc[p].fds[OpenResult(p, path)].kind = "free"
         /\ Lookup(p, path) \in 1 .. Len(tree) /\ tree[Lookup(p, path)].type = "regular"
<1> DEFINE node == Lookup(p, path)
           free == FreeFds(p)
<1>1. node \in 0 .. Len(tree) /\ WellFormed(tree)
  BY LookupType, AliveFacts
<1>2. node # Null /\ ~IsDir(tree, node) /\ free # {} /\ OpenResult(p, path) = Min(free)
  <2> DEFINE m == Min(free)
  <2>1. OpenResult(p, path) = IF node = Null THEN -2 ELSE IF IsDir(tree, node) THEN -21
                              ELSE IF free = {} THEN -24 ELSE m
    BY DEF OpenResult, ENOENT, EISDIR, EMFILE
  <2> HIDE DEF node, free, m
  <2>2. node # Null /\ ~IsDir(tree, node) /\ free # {} /\ OpenResult(p, path) = m
    BY <2>1
  <2> QED BY <2>2 DEF node, free, m
<1>3. Min(free) \in free
  <2>1. free \subseteq Nat
    BY FdFacts DEF FreeFds
  <2> HIDE DEF free
  <2> QED BY <1>2, <2>1, MinOfNat
<1>4. Min(free) \in 3 .. MaxFds - 1 /\ proc[p].fds[Min(free)].kind = "free"
  BY <1>3 DEF FreeFds
<1> HIDE DEF node
<1>5. node \in 1 .. Len(tree)
  BY <1>1, <1>2 DEF Null
<1>6. tree[node].type \in Types
  BY <1>1, <1>5, NodeType DEF WellFormed
<1>7. tree[node].type = "regular"
  BY <1>2, <1>6 DEF Types, IsDir
<1> QED BY <1>2, <1>4, <1>5, <1>7 DEF node

LEMMA OpenCall ==
  ASSUME FilesInv, NEW p \in Pids, NEW path \in PathStrings, Open(p, path)
  PROVE  FileCall(p, WithFd(proc[p], OpenResult(p, path), OpenedFd(Lookup(p, path))))
<1> DEFINE fd == OpenResult(p, path)
           node == Lookup(p, path)
           d == OpenedFd(node)
           r == WithFd(proc[p], fd, d)
<1>1. Alive(p) /\ fd >= 0
  BY DEF Open
<1>2. /\ fd \in 3 .. MaxFds - 1 /\ node \in 1 .. Len(tree) /\ tree[node].type = "regular"
      /\ Len(tree) \in Nat
  BY <1>1, OpenResultFacts, AliveFacts
<1>3. Becomes(p, r) /\ next_pid' = next_pid
  BY DEF Open, Becomes, WithFd, OpenedFd
<1> HIDE DEF fd, node
<1>4. d \in FdRecords /\ OpenOn(d, tree)
  BY <1>2, FdFacts DEF OpenedFd, FdRecords, OpenOn
<1> HIDE DEF d, r
<1>5. r = WithFd(proc[p], fd, d)
  BY DEF r
<1>6. FileCall(p, r)
  BY <1>1, <1>2, <1>3, <1>4, <1>5, SetFdCall
<1> QED BY <1>6 DEF r, d, fd, node

LEMMA CloseCall ==
  ASSUME FilesInv, NEW p \in Pids, NEW fd, Close(p, fd)
  PROVE  FileCall(p, WithFd(proc[p], fd, FreeFd))
<1> DEFINE r == WithFd(proc[p], fd, FreeFd)
<1>1. Alive(p) /\ fd \in Fds /\ fd >= 3
  BY DEF Close, Valid
<1>2. fd \in 3 .. MaxFds - 1
  BY <1>1, FdFacts
<1>3. Becomes(p, r) /\ next_pid' = next_pid
  BY DEF Close, Becomes, WithFd
<1>4. r = WithFd(proc[p], fd, FreeFd) /\ FreeFd \in FdRecords
  BY FreeFdType
<1> HIDE DEF r
<1>5. FileCall(p, r)
  BY <1>1, <1>2, <1>3, <1>4, SetFdCall
<1> QED BY <1>5 DEF r

\* d at another offset.
AtOffset(d, offset) == [d EXCEPT !.offset = offset]

LEMMA AtOffsetFacts ==
  ASSUME NEW d \in FdRecords, NEW offset \in 0 .. SeekMax
  PROVE  /\ AtOffset(d, offset) \in FdRecords /\ AtOffset(d, offset).kind = d.kind
         /\ AtOffset(d, offset).node = d.node /\ AtOffset(d, offset).offset = offset
BY DEF AtOffset, FdRecords

\* A file, its header and the bytes of a read.
LEMMA FileHeader ==
  ASSUME FilesInv, phase # "boot", NEW n \in 1 .. Len(tree), tree[n].type = "regular"
  PROVE  /\ tree[n].inode \in 1 .. Len(headers) /\ tree[n].length = Header(n).length
         /\ Header(n).length \in 0 .. SeekMax /\ Header(n).length \in Nat
         /\ Header(n).offset \in Nat
<1>1. tree[n].inode \in 1 .. Len(headers) /\ tree[n].length = headers[tree[n].inode].length
  BY DEF FilesInv, TreeInv, FilesOf
<1>2. /\ headers[tree[n].inode].length \in 0 .. SeekMax
      /\ headers[tree[n].inode].offset \in Nat
  BY <1>1, PackedHeaders DEF FilesInv
<1> QED BY <1>1, <1>2, FdFacts DEF Header

LEMMA ReadBytesFacts ==
  ASSUME FilesInv, NEW p \in Pids, Alive(p), NEW fd, NodeFd(p, fd), NEW count \in Nat,
         NEW bytes, bytes = ReadBytes(p, fd, count), NEW d, d = proc[p].fds[fd]
  PROVE  /\ IsRead(bytes, Header(d.node), d.offset, count)
         /\ d.offset + Len(bytes) \in 0 .. SeekMax
<1>1. phase = "up" /\ LivingInv(proc[p], tree)
  BY AliveFacts
<1>2. d \in FdRecords /\ OpenOn(d, tree)
  BY <1>1, NodeFdFacts
<1>3. /\ d.node \in 1 .. Len(tree) /\ tree[d.node].type = "regular" /\ d.offset \in Nat
      /\ d.offset \in 0 .. SeekMax
  BY <1>2, FdType DEF OpenOn
<1>4. /\ Header(d.node).length \in 0 .. SeekMax /\ Header(d.node).length \in Nat
      /\ Header(d.node).offset \in Nat
  BY <1>1, <1>3, FileHeader
<1>5. bytes = InitrdRead(Header(d.node), d.offset, count)
  BY DEF ReadBytes, Header
<1>6. IsRead(bytes, Header(d.node), d.offset, count)
  BY <1>3, <1>4, <1>5, InitrdReadFacts, Zenon
<1>7. d.offset + Len(bytes) \in 0 .. SeekMax
  BY <1>3, <1>4, <1>6, FdFacts, SMTT(30) DEF IsRead
<1> QED BY <1>6, <1>7

LEMMA ReadCall ==
  ASSUME FilesInv, NEW p \in Pids, NEW fd, NEW count \in Nat, Read(p, fd, count)
  PROVE  FileCall(p, WithFd(proc[p], fd, AtOffset(proc[p].fds[fd],
                       proc[p].fds[fd].offset + Len(ReadBytes(p, fd, count)))))
<1> DEFINE d == proc[p].fds[fd]
           n == d.offset + Len(ReadBytes(p, fd, count))
           e == AtOffset(d, n)
           r == WithFd(proc[p], fd, e)
<1>1. Alive(p) /\ NodeFd(p, fd)
  BY DEF Read
<1>2. fd \in 3 .. MaxFds - 1 /\ d \in FdRecords /\ OpenOn(d, tree) /\ fd \in Fds
  BY <1>1, NodeFdFacts, AliveFacts
<1>3. n \in 0 .. SeekMax
  BY <1>1, ReadBytesFacts
<1>4. Becomes(p, r) /\ next_pid' = next_pid
  <2>1. r = [proc[p] EXCEPT !.fds[fd].offset = @ + Len(ReadBytes(p, fd, count))]
    <3>1. proc[p] \in ProcRecords
      BY <1>1, AliveFacts
    <3> QED BY <1>2, <3>1 DEF WithFd, AtOffset, ProcRecords, FdRecords
  <2> QED BY <2>1 DEF Read, Becomes
<1> HIDE DEF n, d
<1>5. e \in FdRecords /\ OpenOn(e, tree)
  BY <1>2, <1>3, AtOffsetFacts DEF OpenOn
<1> HIDE DEF e, r
<1>6. r = WithFd(proc[p], fd, e)
  BY DEF r
<1>7. FileCall(p, r)
  BY <1>1, <1>2, <1>4, <1>5, <1>6, SetFdCall
<1> QED BY <1>7 DEF r, e, n, d

\* lseek() in exact arithmetic.
LEMMA SeekTargetFacts ==
  ASSUME NEW d, NEW offset \in Offsets, NEW origin \in 0 .. 3,
         d.offset \in 0 .. SeekMax, tree[d.node].length \in 0 .. SeekMax
  PROVE  SeekTarget(d, offset, origin) =
           IF origin # 3 /\ SeekBase(d, origin) + offset \in 0 .. SeekMax
           THEN SeekBase(d, origin) + offset ELSE -1
<1> DEFINE base == SeekBase(d, origin)
<1>1. base \in 0 .. SeekMax /\ SeekMax \in Nat
  BY SeekAssumption DEF SeekBase
<1>2. offset \in Int /\ -(SeekMax + 1) <= offset /\ offset <= SeekMax
  BY SeekAssumption
<1>3. SeekTarget(d, offset, origin) =
        IF origin \notin 0 .. 2 THEN -1
        ELSE IF offset >= 0
        THEN IF base > SeekMax \/ offset > SeekMax - base THEN -1 ELSE AsInt(base + offset)
        ELSE IF -offset > base THEN -1 ELSE AsInt(base - (-offset))
  BY DEF SeekTarget
<1> HIDE DEF base
<1>4. \A x \in 0 .. SeekMax : AsInt(x) = x
  BY <1>1 DEF AsInt
<1>5. origin \in 0 .. 2 <=> origin # 3
  OBVIOUS
<1>6. CASE origin = 3
  BY <1>3, <1>5, <1>6
<1>7. CASE origin # 3 /\ offset >= 0
  <2>1. base + offset \in 0 .. SeekMax <=> ~(base > SeekMax \/ offset > SeekMax - base)
    BY <1>1, <1>2, <1>7
  <2>2. base + offset \in 0 .. SeekMax => AsInt(base + offset) = base + offset
    BY <1>4
  <2> QED BY <1>3, <1>5, <1>7, <2>1, <2>2 DEF base
<1>8. CASE origin # 3 /\ ~(offset >= 0)
  <2>1. base + offset \in 0 .. SeekMax <=> ~(-offset > base)
    BY <1>1, <1>2, <1>8
  <2>2. base - (-offset) = base + offset
    BY <1>1, <1>2
  <2>3. base + offset \in 0 .. SeekMax => AsInt(base + offset) = base + offset
    BY <1>4
  <2> QED BY <1>3, <1>5, <1>8, <2>1, <2>2, <2>3 DEF base
<1> QED BY <1>6, <1>7, <1>8

LEMMA NodeLength ==
  ASSUME FilesInv, phase # "boot", NEW n \in 1 .. Len(tree)
  PROVE  tree[n].length \in 0 .. SeekMax
<1>1. tree[n].type = "regular" => tree[n].length \in 0 .. SeekMax
  BY FileHeader
<1>2. tree[n].type # "regular" => tree[n].length = 0
  BY DEF FilesInv, TreeInv, FilesOf
<1> QED BY <1>1, <1>2, FdFacts

LEMMA LseekCall ==
  ASSUME FilesInv, NEW p \in Pids, NEW fd, NEW offset \in Offsets, NEW origin \in 0 .. 2,
         Lseek(p, fd, offset, origin)
  PROVE  FileCall(p, WithFd(proc[p], fd,
           AtOffset(proc[p].fds[fd], LseekResult(p, fd, offset, origin))))
<1> DEFINE d == proc[p].fds[fd]
           n == LseekResult(p, fd, offset, origin)
           target == SeekTarget(d, offset, origin)
           e == AtOffset(d, n)
           r == WithFd(proc[p], fd, e)
<1>1. Alive(p) /\ n >= 0
  BY DEF Lseek
<1>2. n = IF ~Valid(p, fd) THEN -9 ELSE IF ~NodeFd(p, fd) THEN -29
          ELSE IF target < 0 THEN -22 ELSE target
  BY DEF LseekResult, EBADF, ESPIPE, EINVAL
<1> HIDE DEF n, target
<1>3. NodeFd(p, fd) /\ n = target
  BY <1>1, <1>2
<1>4. fd \in 3 .. MaxFds - 1 /\ d \in FdRecords /\ OpenOn(d, tree) /\ fd \in Fds
  BY <1>1, <1>3, NodeFdFacts, AliveFacts
<1>5. n \in 0 .. SeekMax
  <2>1. d.offset \in 0 .. SeekMax
    BY <1>4, FdType
  <2>2. tree[d.node].length \in 0 .. SeekMax
    BY <1>1, <1>4, NodeLength, AliveFacts DEF OpenOn
  <2>3. origin \in 0 .. 3
    OBVIOUS
  <2> DEFINE x == SeekBase(d, origin) + offset
  <2>4. target = IF origin # 3 /\ x \in 0 .. SeekMax THEN x ELSE -1
    <3> HIDE DEF d
    <3> QED BY <2>1, <2>2, <2>3, SeekTargetFacts DEF target
  <2> HIDE DEF x
  <2>5. target = -1 \/ target \in 0 .. SeekMax
    BY <2>4
  <2> QED BY <1>1, <1>3, <2>5
<1>6. Becomes(p, r) /\ next_pid' = next_pid
  <2>1. r = [proc[p] EXCEPT !.fds[fd].offset = n]
    <3>1. proc[p] \in ProcRecords
      BY <1>1, AliveFacts
    <3> QED BY <1>4, <3>1 DEF WithFd, AtOffset, ProcRecords, FdRecords
  <2> QED BY <2>1 DEF Lseek, Becomes, n
<1> HIDE DEF d
<1>7. e \in FdRecords /\ OpenOn(e, tree)
  BY <1>4, <1>5, AtOffsetFacts DEF OpenOn
<1> HIDE DEF e, r
<1>8. r = WithFd(proc[p], fd, e)
  BY DEF r
<1>9. FileCall(p, r)
  BY <1>1, <1>4, <1>6, <1>7, <1>8, SetFdCall
<1> QED BY <1>9 DEF r, e, n, d

\* The record of the same process in another place, of another parent or image.
Moved(r, q) == q \in ProcRecords /\ q.state = r.state /\ q.fds = r.fds

LEMMA MovedLiving ==
  ASSUME NEW r, NEW q, Moved(r, q), NEW t, LivingInv(r, t),
         q.cwd \in 1 .. Len(t), t[q.cwd].type = "directory"
  PROVE  LivingInv(q, t)
BY DEF Moved, LivingInv

LEMMA ChdirCall ==
  ASSUME FilesInv, NEW p \in Pids, NEW path \in PathStrings, Chdir(p, path)
  PROVE  \E r : FileCall(p, r) /\ r.fds = proc[p].fds
<1> DEFINE node == Lookup(p, path)
           r == [proc[p] EXCEPT !.cwd = node]
<1>1. Alive(p) /\ IsDir(tree, node)
  BY DEF Chdir, ChdirResult
<1>2. node \in 1 .. Len(tree) /\ node \in Nat /\ tree[node].type = "directory"
  BY <1>1, LookupType, AliveFacts DEF IsDir, Null
<1>3. proc[p] \in ProcRecords /\ LivingInv(proc[p], tree) /\ phase = "up" /\ proc[p].state = "alive"
  BY <1>1, AliveFacts
<1>4. Becomes(p, r) /\ next_pid' = next_pid
  BY DEF Chdir, Becomes
<1> HIDE DEF node
<1>5. /\ r \in ProcRecords /\ r.state = proc[p].state /\ r.parent = proc[p].parent
      /\ r.image = proc[p].image /\ r.fds = proc[p].fds /\ r.cwd = node
  BY <1>2, <1>3 DEF ProcRecords
<1> HIDE DEF r
<1>6. LivingInv(r, tree)
  BY <1>2, <1>3, <1>5, MovedLiving DEF Moved
<1>7. FileCall(p, r)
  BY <1>3, <1>4, <1>5, <1>6 DEF FileCall, RecordOK
<1> QED BY <1>5, <1>7

\* The tree grew by a directory or did not change.
LEMMA LivingGrows ==
  ASSUME NEW r, NEW t, NEW u, Len(t) \in Nat, LivingInv(r, t), Grows(t, u)
  PROVE  LivingInv(r, u)
<1>1. Len(u) = Len(t) + 1 /\ \A n \in 1 .. Len(t) : u[n].type = t[n].type
  BY DEF Grows, Attached
<1>2. ASSUME NEW d, OpenOn(d, t) PROVE OpenOn(d, u)
  BY <1>1, <1>2 DEF OpenOn
<1> QED BY <1>1, <1>2 DEF LivingInv

LEMMA FilesGrows ==
  ASSUME NEW t, NEW u, WellFormed(t), NEW hs, FilesOf(t, hs), Grows(t, u)
  PROVE  FilesOf(u, hs)
<1>1. PICK parent \in 1 .. Len(t), name \in Names : Attached(t, u, parent, NewDirectory(name))
  BY DEF Grows
<1>2. /\ NewDirectory(name).type = "directory" /\ NewDirectory(name).inode = 0
      /\ NewDirectory(name).length = 0 /\ NewDirectory(name).type \in Types
  BY NewDirectoryType DEF Types
<1> QED BY <1>1, <1>2, AttachKeepsFiles

LEMMA MkdirGrows ==
  ASSUME FilesInv, NEW p \in Pids, NEW path \in PathStrings, Mkdir(p, path)
  PROVE  /\ Grows(tree, tree') /\ Alive(p)
         /\ UNCHANGED <<headers, phase, proc, next_pid>>
<1>1. Alive(p) /\ tree' = MkdirPath(tree, proc[p].cwd, path) /\ tree' # tree
  BY DEF Mkdir
<1>2. WellFormed(tree) /\ proc[p].cwd \in 1 .. Len(tree)
  BY <1>1, AliveFacts
<1>3. path.names \in Seq(STRING \ {Empty})
  BY DEF PathStrings
<1>4. Grows(tree, tree')
  BY <1>1, <1>2, <1>3, MkdirPathGrows
<1> QED BY <1>1, <1>4 DEF Mkdir

LEMMA MkdirInv ==
  ASSUME FilesInv, NEW p \in Pids, NEW path \in PathStrings, Mkdir(p, path)
  PROVE  FilesInv'
<1>1. /\ Grows(tree, tree') /\ Alive(p)
      /\ UNCHANGED <<headers, phase, proc, next_pid>>
  BY MkdirGrows
<1>2. /\ phase = "up" /\ WellFormed(tree) /\ FilesOf(tree, headers) /\ Len(tree) \in Nat
  BY <1>1, AliveFacts
<1>3. Packed'
  BY <1>1 DEF FilesInv, Packed
<1>4. TreeInv'
  <2>1. WellFormed(tree') /\ FilesOf(tree', headers)
    BY <1>1, <1>2, GrowsKeepsWellFormed, FilesGrows
  <2> QED BY <1>1, <1>2, <2>1 DEF TreeInv
<1>5. ProcInv'
  <2>1. ASSUME NEW q \in Pids, proc[q].state = "alive" PROVE LivingInv(proc[q], tree')
    BY <1>1, <1>2, <2>1, LivingGrows DEF FilesInv, ProcInv
  <2> QED BY <1>1, <2>1 DEF FilesInv, ProcInv
<1>6. PidInv'
  BY <1>1 DEF FilesInv, PidInv
<1> QED BY <1>3, <1>4, <1>5, <1>6 DEF FilesInv

\* The record of a child: a copy with another parent and image.
ChildOf(p, image) == [proc[p] EXCEPT !.parent = p, !.image = image]

LEMMA ForkFacts ==
  ASSUME FilesInv, NEW p \in Pids, NEW image \in {"child", "program"}, Fork(p, image)
  PROVE  /\ Becomes(next_pid, ChildOf(p, image)) /\ next_pid' = next_pid + 1
         /\ next_pid \in Pids /\ RecordOK(ChildOf(p, image)) /\ Alive(p)
         /\ ChildOf(p, image).state = "alive" /\ ChildOf(p, image).parent = p
         /\ ChildOf(p, image).image = image /\ next_pid \in 3 .. MaxPid
<1> DEFINE r == ChildOf(p, image)
<1>1. Alive(p) /\ next_pid <= MaxPid /\ next_pid' = next_pid + 1 /\ Becomes(next_pid, r)
  BY DEF Fork, Becomes, ChildOf
<1>2. /\ proc[p] \in ProcRecords /\ LivingInv(proc[p], tree) /\ phase = "up"
      /\ proc[p].state = "alive" /\ next_pid \in 3 .. MaxPid + 1
  BY <1>1, AliveFacts
<1>3. next_pid \in Pids /\ next_pid \in 3 .. MaxPid
  BY <1>1, <1>2, PidFacts
<1>4. /\ r \in ProcRecords /\ r.state = proc[p].state /\ r.parent = p /\ r.image = image
      /\ r.fds = proc[p].fds /\ r.cwd = proc[p].cwd
  <2>1. p \in 0 .. MaxPid /\ image \in {"none", "shell", "child", "program"}
    BY PidFacts
  <2> QED BY <1>2, <2>1 DEF ProcRecords, ChildOf
<1> HIDE DEF r
<1>5. LivingInv(r, tree)
  BY <1>2, <1>4, MovedLiving DEF Moved, LivingInv
<1>6. RecordOK(r)
  BY <1>2, <1>4, <1>5 DEF RecordOK
<1> QED BY <1>1, <1>2, <1>3, <1>4, <1>6 DEF r

LEMMA ExitFacts ==
  ASSUME FilesInv, NEW p \in Pids, Exit(p)
  PROVE  /\ Becomes(p, Exited(p)) /\ next_pid' = next_pid /\ Alive(p)
         /\ RecordOK(Exited(p)) /\ Exited(p).state = "zombie"
         /\ Exited(p).parent = proc[p].parent
<1>1. Alive(p) /\ Becomes(p, Exited(p)) /\ next_pid' = next_pid
  BY DEF Exit, Becomes
<1>2. proc[p].parent \in 0 .. MaxPid
  BY ProcType DEF FilesInv
<1>3. /\ Exited(p) \in ProcRecords /\ Exited(p).state = "zombie"
      /\ Exited(p).parent = proc[p].parent /\ Exited(p).cwd = FreeProc.cwd
      /\ Exited(p).fds = FreeProc.fds
  BY <1>2, FreeProcType DEF Exited, ProcRecords
<1>4. DeadInv(Exited(p))
  BY <1>3, FreeProcType DEF DeadInv
<1> QED BY <1>1, <1>3, <1>4 DEF RecordOK

LEMMA ReapFacts ==
  ASSUME FilesInv, NEW p \in Pids, NEW child \in Pids, Reap(p, child)
  PROVE  /\ Becomes(child, FreeProc) /\ next_pid' = next_pid /\ Alive(p) /\ RecordOK(FreeProc)
         /\ proc[child].parent = p /\ proc[child].state = "zombie"
BY FreeProcType DEF Reap, WaitpidSucceeds, Becomes, RecordOK

\* execve() replaces the image and keeps the descriptors.
LEMMA ExecFacts ==
  ASSUME FilesInv, NEW p \in Pids, Alive(p), NEW r, r = [proc[p] EXCEPT !.image = "program"]
  PROVE  /\ RecordOK(r) /\ r.state = "alive" /\ r.parent = proc[p].parent
         /\ r.image = "program" /\ r.fds = proc[p].fds
<1>1. proc[p] \in ProcRecords /\ LivingInv(proc[p], tree) /\ phase = "up" /\ proc[p].state = "alive"
  BY AliveFacts
<1>2. /\ r \in ProcRecords /\ r.state = proc[p].state /\ r.parent = proc[p].parent
      /\ r.image = "program" /\ r.fds = proc[p].fds /\ r.cwd = proc[p].cwd
  BY <1>1 DEF ProcRecords
<1>3. LivingInv(r, tree)
  BY <1>1, <1>2, MovedLiving DEF Moved, LivingInv
<1> QED BY <1>1, <1>2, <1>3 DEF RecordOK

-----------------------------------------------------------------------------
(* Boot. *)

BootRecord ==
  [state |-> "alive", parent |-> Mother, image |-> "shell", cwd |-> Root,
   fds |-> StandardDescriptors]

LEMMA BootRecordFacts ==
  /\ BootRecord \in ProcRecords /\ BootRecord.state = "alive" /\ BootRecord.parent = 1
  /\ BootRecord.image = "shell" /\ BootRecord.cwd = 1 /\ BootRecord.fds = StandardDescriptors
<1> DEFINE D == StandardDescriptors
<1>1. D \in [Fds -> FdRecords]
  BY StandardDescriptorsFacts
<1>2. BootRecord = [state |-> "alive", parent |-> 1, image |-> "shell", cwd |-> 1, fds |-> D]
  BY PidFacts DEF BootRecord, Root
<1> HIDE DEF D
<1>3. 1 \in 0 .. MaxPid
  BY PidFacts
<1>4. /\ BootRecord \in ProcRecords /\ BootRecord.state = "alive" /\ BootRecord.parent = 1
      /\ BootRecord.image = "shell" /\ BootRecord.cwd = 1 /\ BootRecord.fds = D
  BY <1>1, <1>2, <1>3 DEF ProcRecords
<1> QED BY <1>4 DEF D

\* PID 2 when /bin/shell could not be loaded.
DeadShell == [FreeProc EXCEPT !.state = "zombie", !.parent = Mother]

LEMMA DeadShellFacts ==
  DeadShell \in ProcRecords /\ DeadShell.state = "zombie" /\ DeadInv(DeadShell)
<1>1. /\ DeadShell.state = "zombie" /\ DeadShell.parent = 1 /\ DeadShell.fds = FreeProc.fds
      /\ DeadShell.cwd = FreeProc.cwd /\ DeadShell \in ProcRecords
  <2>1. FreeProc \in ProcRecords /\ 1 \in 0 .. MaxPid /\ Mother = 1
    BY FreeProcType, PidFacts
  <2> HIDE DEF FreeProc
  <2> QED BY <2>1 DEF DeadShell, ProcRecords
<1> QED BY <1>1, FreeProcType DEF DeadInv

LEMMA BootFacts ==
  ASSUME FilesInv, Boot
  PROVE  /\ FilesInv' /\ phase = "boot" /\ headers' = headers
         /\ \/ phase' = "panic" /\ proc' = proc
            \/ /\ phase' = "up" /\ proc'[Shell] \in {BootRecord, DeadShell}
               /\ \A p \in Pids : p # Shell => proc'[p].state = "free"
<1> DEFINE mounted == InitialiseInitrd(headers, ImageEnd(headers))
<1>1. /\ phase = "boot" /\ headers' = headers /\ tree' = mounted.tree
      /\ \/ /\ phase' = "up" /\ next_pid' = 3
            /\ \E r \in {BootRecord, DeadShell} : proc' = [proc EXCEPT ![Shell] = r]
         \/ phase' = "panic" /\ proc' = proc /\ next_pid' = next_pid
  <2>1. /\ phase = "boot" /\ headers' = headers /\ tree' = mounted.tree
        /\ \/ /\ phase' = "up" /\ next_pid' = 3
              /\ \/ proc' = [proc EXCEPT ![Shell] = BootRecord]
                 \/ proc' = [proc EXCEPT ![Shell] = DeadShell]
           \/ phase' = "panic" /\ proc' = proc /\ next_pid' = next_pid
    BY Zenon DEF Boot, BootRecord, DeadShell
  <2> HIDE DEF mounted
  <2> QED BY <2>1
<1>2. headers \in Seq(ArchiveHeader) /\ Len(headers) \in Nat
  BY PackedHeaders DEF FilesInv
<1>3. MountState(mounted, headers)
  <2>1. Len(headers) \in 0 .. Len(headers)
    BY <1>2
  <2> QED BY <1>2, <2>1, MountingSteps DEF InitialiseInitrd
<1>4. WellFormed(tree') /\ FilesOf(tree', headers')
  BY <1>1, <1>3 DEF MountState
<1>5. next_pid = 2 /\ \A p \in Pids : proc[p].state = "free"
  <2>1. next_pid = 2
    BY <1>1 DEF FilesInv, PidInv
  <2> QED BY <2>1, PidFacts DEF FilesInv, PidInv
<1>6. Packed'
  BY <1>1 DEF FilesInv, Packed
<1>7. TreeInv'
  BY <1>1, <1>4 DEF TreeInv
<1>8. CASE phase' = "panic" /\ proc' = proc /\ next_pid' = next_pid
  <2>1. ProcInv' /\ PidInv'
    BY <1>1, <1>5, <1>8 DEF FilesInv, ProcInv, PidInv
  <2> QED BY <1>1, <1>6, <1>7, <1>8, <2>1 DEF FilesInv
<1>9. ASSUME phase' = "up", next_pid' = 3, NEW r \in {BootRecord, DeadShell},
             proc' = [proc EXCEPT ![Shell] = r]
      PROVE  /\ FilesInv' /\ proc'[Shell] \in {BootRecord, DeadShell}
             /\ \A p \in Pids : p # Shell => proc'[p].state = "free"
  <2>0. r \in ProcRecords
    BY BootRecordFacts, DeadShellFacts
  <2>1. /\ proc'[Shell] = r /\ \A p \in Pids : p # Shell => proc'[p] = proc[p]
    BY <1>9, PidFacts DEF FilesInv, ProcInv
  <2>2. proc' \in [Pids -> ProcRecords]
    BY <1>9, <2>0 DEF FilesInv, ProcInv
  <2>3. LivingInv(BootRecord, tree')
    <3>1. 1 \in 1 .. Len(tree') /\ tree'[1].type = "directory"
      BY <1>4, LenProperties DEF WellFormed, Root
    <3>2. \A fd \in 3 .. MaxFds - 1 : StandardDescriptors[fd] = FreeFd
      BY StandardDescriptorsFacts
    <3> QED BY <3>1, <3>2, BootRecordFacts DEF LivingInv
  <2>4. ASSUME NEW p \in Pids
        PROVE  /\ proc'[p].state = "alive" => phase' = "up" /\ LivingInv(proc'[p], tree')
               /\ proc'[p].state # "alive" => DeadInv(proc'[p])
    <3>1. CASE p = Shell
      BY <1>9, <2>1, <2>3, <3>1, BootRecordFacts, DeadShellFacts
    <3>2. CASE p # Shell
      BY <1>5, <2>1, <3>2 DEF FilesInv, ProcInv
    <3> QED BY <3>1, <3>2
  <2>5. ProcInv'
    BY <2>2, <2>4 DEF ProcInv
  <2>6. PidInv'
    <3>1. ASSUME NEW p \in Pids, p >= 3 PROVE proc'[p].state = "free"
      BY <1>5, <2>1, <3>1, PidFacts
    <3> QED BY <1>9, <3>1, PidFacts, PidAssumption DEF PidInv
  <2>7. \A p \in Pids : p # Shell => proc'[p].state = "free"
    BY <1>5, <2>1
  <2> QED BY <1>1, <1>6, <1>7, <1>9, <2>1, <2>5, <2>6, <2>7 DEF FilesInv
<1> QED BY <1>1, <1>8, <1>9

-----------------------------------------------------------------------------
(* Steps of others while the shell is at a command. *)

LEMMA GrowsKeeps ==
  ASSUME NEW t, NEW u, Grows(t, u)
  PROVE  /\ Len(u) = Len(t) + 1
         /\ \A n \in 1 .. Len(t) :
              /\ u[n].type = t[n].type /\ u[n].inode = t[n].inode
              /\ \/ u[n].kids = t[n].kids
                 \/ /\ Len(u[n].kids) = Len(t[n].kids) + 1
                    /\ \A i \in 1 .. Len(t[n].kids) : u[n].kids[i + 1] = t[n].kids[i]
BY DEF Grows, Attached

LEMMA ListingPrepend ==
  ASSUME NEW listed, NEW present, NEW kids, NEW more, Len(listed) \in Nat, Len(kids) \in Nat,
         Listing(listed, present, kids), Len(more) = Len(kids) + 1,
         \A i \in 1 .. Len(kids) : more[i + 1] = kids[i]
  PROVE  Listing(listed, present, more)
<1>1. ASSUME NEW x \in present
      PROVE  \E q \in 1 .. Len(more) :
               more[q] = x /\ (q <= Len(listed) => \E i \in 1 .. Len(listed) : listed[i] = x)
  <2>1. PICK q \in 1 .. Len(kids) :
          kids[q] = x /\ (q <= Len(listed) => \E i \in 1 .. Len(listed) : listed[i] = x)
    BY DEF Listing
  <2>2. q + 1 \in 1 .. Len(more) /\ more[q + 1] = x /\ (q + 1 <= Len(listed) => q <= Len(listed))
    BY <2>1
  <2> QED BY <2>1, <2>2
<1> QED BY <1>1 DEF Listing

LEMMA ListingNext ==
  ASSUME NEW listed \in Seq(Nat), NEW present, NEW kids \in Seq(Nat),
         Listing(listed, present, kids), Len(listed) < Len(kids),
         NEW more, more = Append(listed, kids[Len(listed) + 1])
  PROVE  more \in Seq(Nat) /\ Listing(more, present, kids)
<1> DEFINE L == Len(listed)
           y == kids[L + 1]
<1>1. L \in Nat /\ Len(kids) \in Nat
  BY LenProperties
<1>2. y \in Nat
  BY <1>1, ElementOfSeq
<1>3. /\ more \in Seq(Nat) /\ Len(more) = L + 1 /\ more[L + 1] = y
      /\ \A i \in 1 .. L : more[i] = listed[i]
  <2> HIDE DEF y
  <2>1. more = Append(listed, y)
    BY DEF y
  <2> QED BY <1>2, <2>1, AppendProperties
<1>4. ASSUME NEW x \in present
      PROVE  \E q \in 1 .. Len(kids) :
               kids[q] = x /\ (q <= L + 1 => \E i \in 1 .. L + 1 : more[i] = x)
  <2>1. PICK q \in 1 .. Len(kids) :
          kids[q] = x /\ (q <= L => \E i \in 1 .. L : listed[i] = x)
    BY DEF Listing
  <2>2. CASE q = L + 1
    <3>1. L + 1 \in 1 .. L + 1 /\ more[L + 1] = x
      BY <1>1, <1>3, <2>1, <2>2
    <3> QED BY <2>1, <3>1
  <2>3. CASE q <= L
    <3>1. PICK i \in 1 .. L : listed[i] = x
      BY <2>1, <2>3
    <3>2. i \in 1 .. L + 1 /\ more[i] = x
      BY <1>1, <1>3, <3>1
    <3> QED BY <2>1, <3>2
  <2>4. CASE q > L + 1
    <3>1. ~(q <= L + 1)
      BY <1>1, <2>4
    <3> QED BY <2>1, <3>1
  <2> QED BY <1>1, <2>2, <2>3, <2>4, SMTT(30)
<1>5. L + 1 <= Len(kids) /\ IsFiniteSet(present)
  BY <1>1 DEF Listing
<1> HIDE DEF L, y
<1>6. Listing(more, present, kids)
  BY <1>3, <1>4, <1>5 DEF Listing
<1> QED BY <1>3, <1>6

IsShellChild(p) == proc[p].state # "free" /\ proc[p].parent = Shell

\* Nothing the shell relies on changes, but the tree may grow.
Quiet ==
  /\ phase = "up" /\ phase' = "up" /\ headers' = headers
  /\ tree' = tree \/ Grows(tree, tree')
  /\ sh' \in ShRecords /\ sh'.pc = sh.pc /\ sh'.listed = sh.listed
  /\ sh'.present = sh.present /\ sh'.fd = sh.fd /\ sh'.out = sh.out
  /\ sh'.file = sh.file /\ sh'.child = sh.child
  /\ sh.pc # "gone" => /\ proc'[Shell] = proc[Shell]
                       /\ \A p \in Pids : IsShellChild(p)' <=> IsShellChild(p)

LEMMA ShTypes ==
  ASSUME ShInv
  PROVE  /\ sh.listed \in Seq(Nat) /\ Len(sh.listed) \in Nat /\ sh.out \in Seq(Nat)
         /\ Len(sh.out) \in Nat /\ sh.fd \in Fds /\ sh.file \in Nat
         /\ sh.child \in Pids \cup {0}
         /\ sh.pc \in {"prompt", "ls", "cat", "close", "wait", "gone"}
<1>1. sh.listed \in Seq(Nat) /\ sh.out \in Seq(Nat)
  BY DEF ShInv, ShRecords
<1>2. Len(sh.listed) \in Nat /\ Len(sh.out) \in Nat
  BY <1>1, LenProperties
<1> QED BY <1>1, <1>2 DEF ShInv, ShRecords

LEMMA QuietInv ==
  ASSUME FilesInv, ShInv, Quiet
  PROVE  ShInv'
<1>1. /\ WellFormed(tree) /\ Len(tree) \in Nat
  BY LenProperties DEF FilesInv, TreeInv, WellFormed, Quiet
<1>2. /\ Len(tree') >= Len(tree) /\ Len(tree') \in Nat
      /\ \A n \in 1 .. Len(tree) : tree'[n].type = tree[n].type /\ tree'[n].inode = tree[n].inode
  <2>1. CASE tree' = tree
    BY <1>1, <2>1
  <2>2. CASE Grows(tree, tree')
    BY <1>1, <2>2, GrowsKeeps
  <2> QED BY <2>1, <2>2 DEF Quiet
<1>3. sh'.file \in 0 .. Len(tree')
  BY <1>1, <1>2 DEF ShInv, Quiet
<1>4. CASE sh.pc = "gone"
  BY <1>3, <1>4 DEF ShInv, Quiet
<1>5. CASE sh.pc # "gone"
  <2>1. /\ proc[Shell].state = "alive" /\ proc[Shell].image = "shell" /\ ChildInv
        /\ proc'[Shell] = proc[Shell]
    BY <1>5 DEF ShInv, Quiet
  <2>2. ChildInv'
    <3>1. \A p \in Pids : IsShellChild(p)' <=> IsShellChild(p)
      BY <1>5 DEF Quiet
    <3>2. ASSUME NEW p \in Pids, proc'[p].state # "free" /\ proc'[p].parent = Shell
          PROVE  sh'.pc = "wait" /\ p = sh'.child
      BY <2>1, <3>1, <3>2 DEF ChildInv, IsShellChild, Quiet, Shell
    <3>3. ASSUME sh'.pc = "wait"
          PROVE  /\ sh'.child \in 3 .. MaxPid
                 /\ proc'[sh'.child].state # "free" /\ proc'[sh'.child].parent = Shell
      <4>1. sh.pc = "wait" /\ sh'.child = sh.child
        BY <3>3 DEF Quiet
      <4>2. sh.child \in 3 .. MaxPid /\ IsShellChild(sh.child)
        BY <2>1, <4>1 DEF ChildInv, IsShellChild
      <4>3. sh.child \in Pids
        BY <4>2, PidFacts
      <4> QED BY <3>1, <4>1, <4>2, <4>3 DEF IsShellChild, Shell
    <3> QED BY <3>2, <3>3 DEF ChildInv, Shell
  <2>3. ASSUME sh.pc = "ls" PROVE ListInv'
    <3>1. Listing(sh.listed, sh.present, Here) /\ Len(sh.listed) \in Nat
      BY <1>5, <2>3, ShTypes DEF ShInv, ListInv, Quiet
    <3>3. proc[Shell].cwd \in 1 .. Len(tree)
      BY <2>1, PidFacts DEF FilesInv, ProcInv, LivingInv
    <3>4. Len(Here) \in Nat
      BY <1>1, <3>3, NodeType DEF Here, WellFormed
    <3>5. Here' = tree'[proc[Shell].cwd].kids
      BY <2>1 DEF Here, Shell
    <3>6. \/ Here' = Here
          \/ Len(Here') = Len(Here) + 1 /\ \A i \in 1 .. Len(Here) : Here'[i + 1] = Here[i]
      <4>1. CASE tree' = tree
        BY <3>5, <4>1 DEF Here
      <4>2. CASE Grows(tree, tree')
        <5> DEFINE c == proc[Shell].cwd
        <5>1. c \in 1 .. Len(tree)
          BY <3>3
        <5> HIDE DEF c
        <5>2. \/ tree'[c].kids = tree[c].kids
              \/ /\ Len(tree'[c].kids) = Len(tree[c].kids) + 1
                 /\ \A i \in 1 .. Len(tree[c].kids) : tree'[c].kids[i + 1] = tree[c].kids[i]
          BY <4>2, <5>1, GrowsKeeps
        <5>3. Here = tree[c].kids /\ Here' = tree'[c].kids
          BY <3>5 DEF Here, c
        <5> QED BY <5>2, <5>3
      <4> QED BY <4>1, <4>2 DEF Quiet
    <3>7. Listing(sh.listed, sh.present, Here')
      BY <3>1, <3>4, <3>6, ListingPrepend
    <3> QED BY <3>7 DEF ListInv, Quiet
  <2>4. ASSUME sh.pc \in {"cat", "close"} PROVE CatInv'
    <3>1. CatInv
      BY <1>5, <2>4 DEF ShInv, Quiet
    <3>2. /\ sh.file \in 1 .. Len(tree) /\ sh'.file \in 1 .. Len(tree')
          /\ tree'[sh.file].type = "regular"
      BY <1>1, <1>2, <3>1 DEF CatInv, Quiet
    <3>3. Header(sh.file)' = Header(sh.file)
      BY <1>2, <3>2 DEF Header, Quiet
    <3> QED BY <2>1, <3>1, <3>2, <3>3 DEF CatInv, Quiet, Shell
  <2>5. ASSUME sh.pc \notin {"cat", "close"} PROVE proc'[Shell].fds = StandardDescriptors
    BY <1>5, <2>1, <2>5 DEF ShInv, Quiet
  <2> QED BY <1>3, <1>5, <2>1, <2>2, <2>3, <2>4, <2>5 DEF ShInv, Quiet, Shell
<1> QED BY <1>4, <1>5

\* The locals of the shell are as they were, its argv[0] for the child apart.
SameSh ==
  /\ sh' \in ShRecords /\ sh'.pc = sh.pc /\ sh'.listed = sh.listed
  /\ sh'.present = sh.present /\ sh'.fd = sh.fd /\ sh'.out = sh.out
  /\ sh'.file = sh.file /\ sh'.child = sh.child

LEMMA SameShFacts ==
  ASSUME ShInv, sh' = sh \/ sh' = [sh EXCEPT !.path = NoPath]
  PROVE  SameSh
<1>1. sh \in ShRecords
  BY DEF ShInv
<1>2. NoPath \in ShellPaths \cup {NoPath}
  OBVIOUS
<1> HIDE DEF NoPath
<1>3. CASE sh' = sh
  BY <1>1, <1>3 DEF SameSh
<1>4. CASE sh' = [sh EXCEPT !.path = NoPath]
  BY <1>1, <1>2, <1>4 DEF SameSh, ShRecords
<1> QED BY <1>3, <1>4

\* While there is a shell, it runs the shell's image.
LEMMA ShellImage ==
  ASSUME ShInv, phase = "up", sh.pc # "gone", NEW p \in Pids, proc[p].image # "shell"
  PROVE  p # Shell
BY DEF ShInv

\* A step of another process on its record p, which is not and does not become our child.
LEMMA OtherQuiet ==
  ASSUME FilesInv, ShInv, phase = "up", NEW p \in Pids, NEW r, Becomes(p, r), SameSh,
         sh.pc # "gone" =>
           p # Shell /\ (IsShellChild(p) <=> (r.state # "free" /\ r.parent = Shell))
  PROVE  Quiet
<1>1. proc'[p] = r /\ \A q \in Pids : q # p => proc'[q] = proc[q]
  BY BecomesProc DEF FilesInv
<1>2. phase' = "up" /\ headers' = headers /\ tree' = tree
  BY DEF Becomes
<1>3. ASSUME sh.pc # "gone"
      PROVE  proc'[Shell] = proc[Shell] /\ \A q \in Pids : IsShellChild(q)' <=> IsShellChild(q)
  <2>1. proc'[Shell] = proc[Shell]
    BY <1>1, <1>3, PidFacts
  <2>2. ASSUME NEW q \in Pids PROVE IsShellChild(q)' <=> IsShellChild(q)
    <3>1. CASE q = p
      BY <1>1, <1>3, <3>1 DEF IsShellChild, Shell
    <3>2. CASE q # p
      BY <1>1, <3>2 DEF IsShellChild, Shell
    <3> QED BY <3>1, <3>2
  <2> QED BY <2>1, <2>2
<1> QED BY <1>2, <1>3 DEF Quiet, SameSh

\* The file calls of a program.
LEMMA OtherFileCall ==
  ASSUME FilesInv, ShInv, NEW p \in Pids, Alive(p), NEW r, FileCall(p, r), SameSh,
         proc[p].image # "shell"
  PROVE  FilesInv' /\ ShInv'
<1>1. FilesInv'
  BY FileCallInv
<1>2. phase = "up" /\ proc[p].state = "alive" /\ Becomes(p, r) /\ r.state = "alive"
      /\ r.parent = proc[p].parent
  BY AliveFacts DEF FileCall
<1>3. Quiet
  BY <1>2, OtherQuiet, ShellImage DEF IsShellChild
<1> QED BY <1>1, <1>3, QuietInv

LEMMA OtherFork ==
  ASSUME FilesInv, ShInv, NEW p \in Pids, Fork(p, "program"), SameSh, proc[p].image # "shell"
  PROVE  FilesInv' /\ ShInv'
<1> DEFINE r == ChildOf(p, "program")
<1>1. /\ Becomes(next_pid, r) /\ next_pid' = next_pid + 1 /\ next_pid \in 3 .. MaxPid
      /\ next_pid \in Pids /\ RecordOK(r) /\ Alive(p) /\ r.parent = p
  BY ForkFacts
<1> HIDE DEF r
<1>2. phase = "up"
  BY <1>1, AliveFacts
<1>3. FilesInv'
  BY <1>1, <1>2, BecomesInv
<1>4. proc[next_pid].state = "free" /\ next_pid # Shell
  BY <1>1, PidFacts DEF FilesInv, PidInv
<1>5. Quiet
  BY <1>1, <1>2, <1>4, OtherQuiet, ShellImage DEF IsShellChild
<1> QED BY <1>3, <1>5, QuietInv

LEMMA OtherExit ==
  ASSUME FilesInv, ShInv, NEW p \in Pids, Exit(p), SameSh, proc[p].image # "shell" \/ sh.pc = "gone"
  PROVE  FilesInv' /\ ShInv'
<1> DEFINE r == Exited(p)
<1>1. /\ Becomes(p, r) /\ next_pid' = next_pid /\ Alive(p) /\ RecordOK(r)
      /\ r.state = "zombie" /\ r.parent = proc[p].parent
  BY ExitFacts
<1> HIDE DEF r
<1>2. phase = "up" /\ proc[p].state = "alive" /\ p < next_pid
  BY <1>1, AliveFacts
<1>3. FilesInv'
  BY <1>1, <1>2, BecomesInv
<1>4. Quiet
  BY <1>1, <1>2, OtherQuiet, ShellImage DEF IsShellChild
<1> QED BY <1>3, <1>4, QuietInv

LEMMA OtherReap ==
  ASSUME FilesInv, ShInv, NEW p \in Pids, NEW child \in Pids, Reap(p, child), SameSh,
         proc[p].image # "shell"
  PROVE  FilesInv' /\ ShInv'
<1> DEFINE r == FreeProc
<1>1. /\ Becomes(child, r) /\ next_pid' = next_pid /\ Alive(p) /\ RecordOK(r)
      /\ proc[child].parent = p /\ proc[child].state = "zombie" /\ r.state = "free"
  BY ReapFacts, FreeProcType
<1> HIDE DEF r
<1>2. phase = "up"
  BY <1>1, AliveFacts
<1>3. FilesInv'
  BY <1>1, <1>2, BecomesInv
<1>4. sh.pc # "gone" => child # Shell
  BY <1>1, <1>2 DEF ShInv
<1>5. Quiet
  BY <1>1, <1>2, <1>4, OtherQuiet, ShellImage DEF IsShellChild
<1> QED BY <1>3, <1>5, QuietInv

LEMMA AnyMkdir ==
  ASSUME FilesInv, ShInv, NEW p \in Pids, NEW path \in PathStrings, Mkdir(p, path), sh' = sh
  PROVE  FilesInv' /\ ShInv'
<1>1. FilesInv'
  BY MkdirInv
<1>2. Grows(tree, tree') /\ Alive(p) /\ UNCHANGED <<headers, phase, proc, next_pid>>
  BY MkdirGrows
<1>3. SameSh /\ phase = "up"
  BY <1>2, SameShFacts, AliveFacts
<1>4. Quiet
  BY <1>2, <1>3 DEF Quiet, SameSh, IsShellChild
<1> QED BY <1>1, <1>4, QuietInv

LEMMA ProgramCallInv ==
  ASSUME FilesInv, ShInv, NEW p \in Pids, ProgramCall(p), sh' = sh
  PROVE  FilesInv' /\ ShInv'
<1>1. SameSh /\ proc[p].image # "shell"
  BY SameShFacts DEF ProgramCall
<1>2. ASSUME NEW path \in Paths, Open(p, path) PROVE FilesInv' /\ ShInv'
  <2>1. path \in PathStrings /\ Alive(p)
    BY <1>2, PathsAssumption DEF Open
  <2> QED BY <1>1, <1>2, <2>1, OpenCall, OtherFileCall
<1>3. ASSUME NEW path \in Paths, Chdir(p, path) PROVE FilesInv' /\ ShInv'
  <2>1. path \in PathStrings /\ Alive(p)
    BY <1>3, PathsAssumption DEF Chdir
  <2>2. PICK r : FileCall(p, r)
    BY <1>3, <2>1, ChdirCall
  <2> QED BY <1>1, <2>1, <2>2, OtherFileCall
<1>4. ASSUME NEW path \in Paths, Mkdir(p, path) PROVE FilesInv' /\ ShInv'
  BY <1>4, PathsAssumption, AnyMkdir
<1>5. ASSUME NEW fd \in Fds, Close(p, fd) PROVE FilesInv' /\ ShInv'
  <2>1. Alive(p)
    BY <1>5 DEF Close
  <2> QED BY <1>1, <1>5, <2>1, CloseCall, OtherFileCall
<1>6. ASSUME NEW fd \in Fds, NEW count \in Counts, Read(p, fd, count) PROVE FilesInv' /\ ShInv'
  <2>1. Alive(p) /\ count \in Nat
    BY <1>6, CountsAssumption DEF Read
  <2> QED BY <1>1, <1>6, <2>1, ReadCall, OtherFileCall
<1>7. ASSUME NEW fd \in Fds, NEW offset \in Offsets, NEW origin \in 0 .. 2,
             Lseek(p, fd, offset, origin)
      PROVE  FilesInv' /\ ShInv'
  <2>1. Alive(p)
    BY <1>7 DEF Lseek
  <2> QED BY <1>1, <1>7, <2>1, LseekCall, OtherFileCall
<1>8. ASSUME Fork(p, "program") PROVE FilesInv' /\ ShInv'
  BY <1>1, <1>8, OtherFork
<1>9. ASSUME Exit(p) PROVE FilesInv' /\ ShInv'
  BY <1>1, <1>9, OtherExit
<1>10. ASSUME NEW child \in Pids, Reap(p, child) PROVE FilesInv' /\ ShInv'
  BY <1>1, <1>10, OtherReap
<1> QED BY <1>2, <1>3, <1>4, <1>5, <1>6, <1>7, <1>8, <1>9, <1>10 DEF ProgramCall

\* execve() and exit of the shell's child, and signals.
LEMMA ChildExecsInv ==
  ASSUME FilesInv, ShInv, NEW p \in Pids, ChildExecs(p)
  PROVE  FilesInv' /\ ShInv'
<1> DEFINE r == [proc[p] EXCEPT !.image = "program"]
<1>1. Alive(p) /\ proc[p].image # "shell" /\ Becomes(p, r) /\ next_pid' = next_pid
  BY DEF ChildExecs, Becomes
<1>2. SameSh
  BY SameShFacts DEF ChildExecs
<1>3. RecordOK(r) /\ r.state = "alive" /\ r.parent = proc[p].parent
  BY <1>1, ExecFacts
<1> HIDE DEF r
<1>4. phase = "up" /\ proc[p].state = "alive" /\ p < next_pid
  BY <1>1, AliveFacts
<1>5. FilesInv'
  BY <1>1, <1>3, <1>4, BecomesInv
<1>6. Quiet
  BY <1>1, <1>2, <1>3, <1>4, OtherQuiet, ShellImage DEF IsShellChild
<1> QED BY <1>5, <1>6, QuietInv

LEMMA ChildFailsInv ==
  ASSUME FilesInv, ShInv, NEW p \in Pids, ChildFails(p)
  PROVE  FilesInv' /\ ShInv'
BY SameShFacts, OtherExit DEF ChildFails

LEMMA GoneInv ==
  ASSUME phase' = "up", sh' \in ShRecords, sh'.pc = "gone", sh'.file = 0, Len(tree') \in Nat
  PROVE  ShInv'
BY DEF ShInv

LEMMA KilledInv ==
  ASSUME FilesInv, ShInv, NEW p \in Pids, Killed(p)
  PROVE  FilesInv' /\ ShInv'
<1>1. Exit(p)
  BY DEF Killed
<1>2. Alive(p) /\ Becomes(p, Exited(p)) /\ next_pid' = next_pid /\ RecordOK(Exited(p))
  BY <1>1, ExitFacts
<1>3. FilesInv'
  <2>1. phase = "up" /\ p < next_pid
    BY <1>2, AliveFacts
  <2> DEFINE r == Exited(p)
  <2>2. Becomes(p, r) /\ RecordOK(r)
    BY <1>2
  <2> HIDE DEF r
  <2> QED BY <1>2, <2>1, <2>2, BecomesInv
<1>4. CASE p = Shell
  <2>1. sh' = [Idle EXCEPT !.pc = "gone", !.path = sh.path]
    BY <1>4 DEF Killed
  <2>2. sh.path \in ShellPaths \cup {NoPath}
    BY DEF ShInv, ShRecords
  <2>3. sh' \in ShRecords /\ sh'.pc = "gone" /\ sh'.file = 0
    BY <2>1, <2>2, IdleType DEF ShRecords, Null
  <2>4. phase' = "up" /\ Len(tree') \in Nat
    BY <1>2, AliveFacts DEF Becomes
  <2> QED BY <1>3, <2>3, <2>4, GoneInv
<1>5. CASE p # Shell
  <2>1. sh' = sh \/ sh' = [sh EXCEPT !.path = NoPath]
    BY <1>5 DEF Killed
  <2>2. SameSh
    BY <2>1, SameShFacts
  <2>3. Quiet
    <3> DEFINE r == Exited(p)
    <3>1. Becomes(p, r) /\ r.state = "zombie" /\ r.parent = proc[p].parent
      BY <1>1, ExitFacts
    <3> HIDE DEF r
    <3>2. phase = "up" /\ proc[p].state = "alive"
      BY <1>2, AliveFacts
    <3> QED BY <1>5, <2>2, <3>1, <3>2, OtherQuiet DEF IsShellChild
  <2> QED BY <1>3, <2>3, QuietInv
<1> QED BY <1>4, <1>5

-----------------------------------------------------------------------------
(* The commands of the shell. *)

NoChild == \A p \in Pids : ~IsShellChild(p)

LEMMA AtFacts ==
  ASSUME FilesInv, ShInv, NEW pc, At(pc), pc # "gone"
  PROVE  /\ sh.pc = pc /\ phase = "up" /\ Alive(Shell) /\ Shell \in Pids /\ sh \in ShRecords
         /\ proc[Shell].state = "alive" /\ proc[Shell].image = "shell" /\ ChildInv
         /\ pc # "wait" => NoChild
         /\ pc = "ls" => ListInv
         /\ IF pc \in {"cat", "close"} THEN CatInv ELSE proc[Shell].fds = StandardDescriptors
         /\ WellFormed(tree) /\ Len(tree) \in Nat /\ LivingInv(proc[Shell], tree)
         /\ proc[Shell] \in ProcRecords /\ Shell < next_pid
<1>1. sh.pc = pc /\ phase = "up" /\ Alive(Shell) /\ Shell \in Pids
  BY PidFacts DEF At, Alive
<1>2. /\ proc[Shell].state = "alive" /\ proc[Shell].image = "shell" /\ ChildInv
      /\ pc = "ls" => ListInv
      /\ IF pc \in {"cat", "close"} THEN CatInv ELSE proc[Shell].fds = StandardDescriptors
      /\ sh \in ShRecords
  BY <1>1 DEF ShInv
<1>3. pc # "wait" => NoChild
  BY <1>1, <1>2 DEF ChildInv, NoChild, IsShellChild
<1>4. /\ WellFormed(tree) /\ Len(tree) \in Nat /\ LivingInv(proc[Shell], tree)
      /\ proc[Shell] \in ProcRecords /\ Shell < next_pid
  BY <1>1, AliveFacts
<1> QED BY <1>1, <1>2, <1>3, <1>4

\* A call of the shell on its own record; its children are as they were.
LEMMA ShellCall ==
  ASSUME FilesInv, Alive(Shell), NEW r, Becomes(Shell, r), r.state = "alive",
         r.parent = proc[Shell].parent
  PROVE  /\ proc'[Shell] = r /\ \A p \in Pids : IsShellChild(p)' <=> IsShellChild(p)
         /\ phase' = "up" /\ tree' = tree /\ headers' = headers
<1>1. Shell \in Pids /\ proc[Shell].state = "alive" /\ phase = "up"
  BY PidFacts DEF Alive
<1>2. proc'[Shell] = r /\ \A q \in Pids : q # Shell => proc'[q] = proc[q]
  BY <1>1, BecomesProc DEF FilesInv
<1>3. ASSUME NEW p \in Pids PROVE IsShellChild(p)' <=> IsShellChild(p)
  <2>1. CASE p = Shell
    BY <1>1, <1>2, <2>1 DEF IsShellChild, Shell
  <2>2. CASE p # Shell
    BY <1>2, <2>2 DEF IsShellChild, Shell
  <2> QED BY <2>1, <2>2
<1> QED BY <1>1, <1>2, <1>3 DEF Becomes

\* The shell without a child, whatever its command.
LEMMA ChildlessInv ==
  ASSUME sh' \in ShRecords, sh'.file \in 0 .. Len(tree'), phase' = "up", sh'.pc # "wait",
         proc'[Shell].state = "alive", proc'[Shell].image = "shell", NoChild',
         sh'.pc = "ls" => ListInv',
         IF sh'.pc \in {"cat", "close"} THEN CatInv' ELSE proc'[Shell].fds = StandardDescriptors
  PROVE  ShInv'
<1>1. ChildInv'
  BY DEF ChildInv, NoChild, IsShellChild, Shell
<1> QED BY <1>1 DEF ShInv, Shell

\* The shell back at the prompt.
LEMMA IdleInv ==
  ASSUME sh' = Idle, phase' = "up", Len(tree') \in Nat, proc'[Shell].state = "alive",
         proc'[Shell].image = "shell", NoChild', proc'[Shell].fds = StandardDescriptors
  PROVE  ShInv'
BY IdleType, ChildlessInv DEF Null

LEMMA CommandCdInv ==
  ASSUME FilesInv, ShInv, NEW path \in PathStrings, CommandCd(path)
  PROVE  FilesInv' /\ ShInv'
<1>1. At("prompt") /\ Chdir(Shell, path) /\ sh' = sh
  BY DEF CommandCd
<1>2. /\ sh.pc = "prompt" /\ phase = "up" /\ Alive(Shell) /\ Shell \in Pids /\ sh \in ShRecords
      /\ proc[Shell].state = "alive" /\ proc[Shell].image = "shell" /\ NoChild
      /\ proc[Shell].fds = StandardDescriptors
  BY <1>1, AtFacts
<1>3. PICK r : FileCall(Shell, r) /\ r.fds = proc[Shell].fds
  BY <1>1, <1>2, ChdirCall
<1>4. FilesInv'
  BY <1>2, <1>3, FileCallInv
<1>5. /\ proc'[Shell] = r /\ \A p \in Pids : IsShellChild(p)' <=> IsShellChild(p)
      /\ phase' = "up" /\ tree' = tree
  BY <1>2, <1>3, ShellCall DEF FileCall
<1>6. NoChild'
  BY <1>2, <1>5 DEF NoChild
<1>7. sh'.file \in 0 .. Len(tree') /\ r.state = "alive" /\ r.image = "shell"
  BY <1>1, <1>2, <1>3, <1>5 DEF ShInv, FileCall
<1>8. ShInv'
  BY <1>1, <1>2, <1>3, <1>5, <1>6, <1>7, ChildlessInv
<1> QED BY <1>4, <1>8

LEMMA CommandExecInv ==
  ASSUME FilesInv, ShInv, NEW path \in PathStrings, CommandExec(path)
  PROVE  FilesInv' /\ ShInv'
<1> DEFINE r == [proc[Shell] EXCEPT !.image = "program"]
<1>1. /\ At("prompt") /\ Becomes(Shell, r) /\ next_pid' = next_pid
      /\ sh' = [Idle EXCEPT !.pc = "gone"]
  BY DEF CommandExec, Becomes
<1>2. Alive(Shell) /\ phase = "up" /\ Shell \in Pids /\ Shell < next_pid /\ Len(tree) \in Nat
  BY <1>1, AtFacts
<1>3. RecordOK(r)
  BY <1>2, ExecFacts
<1> HIDE DEF r
<1>4. FilesInv'
  BY <1>1, <1>2, <1>3, BecomesInv
<1>5. sh' \in ShRecords /\ sh'.pc = "gone" /\ sh'.file = 0
  BY <1>1, IdleType DEF ShRecords, Null
<1> QED BY <1>1, <1>2, <1>4, <1>5, GoneInv DEF Becomes

LEMMA FilesSame ==
  ASSUME FilesInv, UNCHANGED fileVars
  PROVE  FilesInv'
<1>1. headers' = headers /\ phase' = phase /\ tree' = tree /\ proc' = proc /\ next_pid' = next_pid
  BY DEF fileVars
<1>2. Packed'
  BY <1>1 DEF FilesInv, Packed
<1>3. TreeInv'
  BY <1>1 DEF FilesInv, TreeInv
<1>4. ProcInv'
  BY <1>1 DEF FilesInv, ProcInv
<1>5. PidInv'
  BY <1>1 DEF FilesInv, PidInv
<1> QED BY <1>2, <1>3, <1>4, <1>5 DEF FilesInv

\* The list of children of the shell's directory.
LEMMA HereFacts ==
  ASSUME FilesInv, WellFormed(tree), LivingInv(proc[Shell], tree)
  PROVE  /\ Here \in Seq(Nat) /\ Len(Here) \in Nat
         /\ \A i \in 1 .. Len(Here) : Here[i] \in 2 .. Len(tree)
         /\ \A i, j \in 1 .. Len(Here) : Here[i] = Here[j] => i = j
         /\ proc[Shell].cwd # Null /\ tree[proc[Shell].cwd].type = "directory"
<1> DEFINE c == proc[Shell].cwd
<1>1. c \in 1 .. Len(tree) /\ tree[c].type = "directory" /\ Len(tree) \in Nat
  BY LenProperties DEF LivingInv, WellFormed
<1>2. Here = tree[c].kids
  BY DEF Here
<1> HIDE DEF c
<1>3. Here \in Seq(Nat) /\ Len(Here) \in Nat
  BY <1>1, <1>2, NodeType DEF WellFormed
<1>4. \A i \in 1 .. Len(Here) : Here[i] \in 2 .. Len(tree)
  BY <1>1, <1>2 DEF WellFormed, ListsOwn
<1>5. \A i, j \in 1 .. Len(Here) : Here[i] = Here[j] => i = j
  BY <1>1, <1>2 DEF WellFormed, NamesUnique
<1> QED BY <1>1, <1>3, <1>4, <1>5 DEF c, Null

LEMMA RangeFacts ==
  ASSUME NEW s \in Seq(Nat)
  PROVE  /\ IsFiniteSet(Range(s)) /\ Range(s) \subseteq Nat
         /\ \A x : x \in Range(s) <=> \E i \in 1 .. Len(s) : s[i] = x
<1>1. Len(s) \in Nat /\ s \in [1 .. Len(s) -> Nat] /\ DOMAIN s = 1 .. Len(s)
  BY LenProperties
<1>2. \A x : x \in Range(s) <=> \E i \in 1 .. Len(s) : s[i] = x
  BY <1>1 DEF Range
<1>3. s \in Surjection(1 .. Len(s), Range(s))
  BY <1>1, <1>2 DEF Surjection
<1>4. IsFiniteSet(Range(s))
  BY <1>1, <1>3, FS_Interval, FS_Surjection
<1> QED BY <1>1, <1>2, <1>4

LEMMA CommandLsInv ==
  ASSUME FilesInv, ShInv, CommandLs
  PROVE  FilesInv' /\ ShInv'
<1>1. At("prompt") /\ sh' = [Idle EXCEPT !.pc = "ls", !.present = Range(Here)] /\ UNCHANGED fileVars
  BY DEF CommandLs
<1>2. /\ phase = "up" /\ proc[Shell].state = "alive" /\ proc[Shell].image = "shell" /\ NoChild
      /\ proc[Shell].fds = StandardDescriptors /\ WellFormed(tree) /\ Len(tree) \in Nat
      /\ LivingInv(proc[Shell], tree)
  BY <1>1, AtFacts
<1>3. FilesInv'
  BY <1>1, FilesSame
<1>4. phase' = phase /\ tree' = tree /\ proc' = proc /\ Here' = Here
  BY <1>1 DEF fileVars, Here, Shell
<1>5. Here \in Seq(Nat) /\ Len(Here) \in Nat
  BY <1>2, HereFacts
<1>6. /\ Range(Here) \subseteq Nat /\ IsFiniteSet(Range(Here))
      /\ \A x \in Range(Here) : \E i \in 1 .. Len(Here) : Here[i] = x
  BY <1>5, RangeFacts
<1>7. /\ sh' \in ShRecords /\ sh'.pc = "ls" /\ sh'.listed = <<>> /\ sh'.present = Range(Here)
      /\ sh'.file = 0
  <2> DEFINE R == Range(Here)
  <2>1. R \in SUBSET Nat /\ sh' = [Idle EXCEPT !.pc = "ls", !.present = R]
    BY <1>1, <1>6
  <2> HIDE DEF R
  <2>2. /\ sh' \in ShRecords /\ sh'.pc = "ls" /\ sh'.listed = <<>> /\ sh'.present = R
        /\ sh'.file = 0
    BY <2>1, IdleType DEF ShRecords, Null
  <2> QED BY <2>2 DEF R
<1>8. Listing(<<>>, Range(Here), Here)
  <2>1. Len(<<>>) = 0
    OBVIOUS
  <2> QED BY <1>5, <1>6, <2>1 DEF Listing
<1>9. ListInv'
  BY <1>4, <1>7, <1>8 DEF ListInv
<1>10. NoChild'
  BY <1>2, <1>4 DEF NoChild, IsShellChild
<1> QED BY <1>2, <1>3, <1>4, <1>7, <1>9, <1>10, ChildlessInv DEF Shell

LEMMA LsEntryFacts ==
  ASSUME FilesInv, ShInv, sh.pc = "ls", phase = "up"
  PROVE  /\ Here \in Seq(Nat) /\ Len(Here) \in Nat /\ Listing(sh.listed, sh.present, Here)
         /\ sh.listed \in Seq(Nat) /\ Len(sh.listed) \in Nat
         /\ LsEntry = Null => Len(sh.listed) = Len(Here)
         /\ LsEntry # Null => Len(sh.listed) < Len(Here) /\ LsEntry = Here[Len(sh.listed) + 1]
<1>1. /\ proc[Shell].state = "alive" /\ Listing(sh.listed, sh.present, Here)
      /\ sh.listed \in Seq(Nat) /\ Len(sh.listed) \in Nat
  BY ShTypes DEF ShInv, ListInv
<1>2. WellFormed(tree) /\ LivingInv(proc[Shell], tree)
  BY <1>1, PidFacts DEF FilesInv, TreeInv, ProcInv
<1>3. /\ Here \in Seq(Nat) /\ Len(Here) \in Nat /\ IsDir(tree, proc[Shell].cwd)
      /\ \A i \in 1 .. Len(Here) : Here[i] # Null
  BY <1>2, HereFacts DEF IsDir, Null
<1>4. LsEntry = IF Len(sh.listed) < Len(Here) THEN Here[Len(sh.listed) + 1] ELSE Null
  BY <1>3 DEF LsEntry, ReadDir, Here
<1>5. Len(sh.listed) <= Len(Here)
  BY <1>1 DEF Listing
<1> HIDE DEF LsEntry
<1> QED BY <1>1, <1>3, <1>4, <1>5

LEMMA LsNextInv ==
  ASSUME FilesInv, ShInv, LsNext
  PROVE  FilesInv' /\ ShInv'
<1>1. /\ At("ls") /\ UNCHANGED fileVars
      /\ sh' = IF LsEntry = Null THEN Idle ELSE [sh EXCEPT !.listed = Append(@, LsEntry)]
  BY DEF LsNext
<1>2. /\ phase = "up" /\ proc[Shell].state = "alive" /\ proc[Shell].image = "shell" /\ NoChild
      /\ proc[Shell].fds = StandardDescriptors /\ sh.pc = "ls" /\ Len(tree) \in Nat
      /\ sh \in ShRecords
  BY <1>1, AtFacts
<1>3. FilesInv'
  BY <1>1, FilesSame
<1>4. phase' = phase /\ tree' = tree /\ proc' = proc /\ Here' = Here
  BY <1>1 DEF fileVars, Here, Shell
<1>5. NoChild'
  BY <1>2, <1>4 DEF NoChild, IsShellChild
<1>6. CASE LsEntry = Null
  <2>1. sh' = Idle
    BY <1>1, <1>6
  <2> QED BY <1>2, <1>3, <1>4, <1>5, <2>1, IdleInv DEF Shell
<1>7. CASE LsEntry # Null
  <2> DEFINE more == Append(sh.listed, LsEntry)
  <2>1. sh' = [sh EXCEPT !.listed = more]
    BY <1>1, <1>7
  <2>2. more \in Seq(Nat) /\ Listing(more, sh.present, Here)
    BY <1>2, <1>7, LsEntryFacts, ListingNext
  <2> HIDE DEF more
  <2>3. /\ sh' \in ShRecords /\ sh'.pc = sh.pc /\ sh'.listed = more /\ sh'.present = sh.present
        /\ sh'.file = sh.file
    BY <1>2, <2>1, <2>2 DEF ShRecords
  <2>4. ListInv'
    BY <1>4, <2>2, <2>3 DEF ListInv
  <2>5. sh'.file \in 0 .. Len(tree')
    BY <1>4, <2>3 DEF ShInv
  <2> QED BY <1>2, <1>3, <1>4, <1>5, <2>3, <2>4, <2>5, ChildlessInv DEF Shell
<1> QED BY <1>6, <1>7

-----------------------------------------------------------------------------
(* cat *)

CatFd(node, offset) == [kind |-> "node", node |-> node, offset |-> offset]

\* The state of cat after a step that leaves its descriptors as r has them.
LEMMA CatInvIntro ==
  ASSUME NEW r, proc'[Shell] = r, sh' \in ShRecords, sh'.pc \in {"cat", "close"},
         NEW fd \in 3 .. MaxFds - 1, NEW file \in 1 .. Len(tree), NEW out,
         sh'.fd = fd, sh'.file = file, sh'.out = out,
         tree' = tree, headers' = headers, tree[file].type = "regular",
         r.fds[fd] = CatFd(file, Len(out)),
         \A e \in Fds : e # fd => r.fds[e] = StandardDescriptors[e],
         Len(out) <= Header(file).length,
         \A k \in 1 .. Len(out) : out[k] = Header(file).offset + k - 1,
         sh'.pc = "close" => Len(out) = Header(file).length
  PROVE  CatInv'
<1>1. Header(sh.file)' = Header(file)
  BY DEF Header
<1> QED BY <1>1 DEF CatInv, CatFd, Shell

LEMMA CommandCatInv ==
  ASSUME FilesInv, ShInv, NEW path \in PathStrings, CommandCat(path)
  PROVE  FilesInv' /\ ShInv'
<1> DEFINE fd == OpenResult(Shell, path)
           node == Lookup(Shell, path)
           r == WithFd(proc[Shell], fd, OpenedFd(node))
<1>1. /\ At("prompt") /\ Open(Shell, path)
      /\ sh' = [Idle EXCEPT !.pc = "cat", !.fd = fd, !.file = node]
  BY DEF CommandCat
<1>2. /\ phase = "up" /\ Alive(Shell) /\ Shell \in Pids /\ NoChild /\ Len(tree) \in Nat
      /\ proc[Shell].state = "alive" /\ proc[Shell].image = "shell"
      /\ proc[Shell].fds = StandardDescriptors /\ proc[Shell] \in ProcRecords
  BY <1>1, AtFacts
<1>3. /\ fd \in 3 .. MaxFds - 1 /\ node \in 1 .. Len(tree) /\ tree[node].type = "regular"
  <2>1. fd >= 0
    BY <1>1 DEF Open
  <2> QED BY <1>2, <2>1, OpenResultFacts
<1>4. FileCall(Shell, r)
  BY <1>1, <1>2, OpenCall
<1>5. FilesInv'
  BY <1>2, <1>4, FileCallInv
<1> HIDE DEF fd, node
<1>6. fd \in Fds /\ node \in Nat /\ OpenedFd(node) \in FdRecords
  BY <1>2, <1>3, FdFacts DEF OpenedFd, FdRecords
<1>7. /\ r.fds[fd] = OpenedFd(node) /\ \A e \in Fds : e # fd => r.fds[e] = proc[Shell].fds[e]
      /\ r.image = proc[Shell].image
  BY <1>2, <1>6, SetFd
<1> HIDE DEF r
<1>8. /\ proc'[Shell] = r /\ \A p \in Pids : IsShellChild(p)' <=> IsShellChild(p)
      /\ phase' = "up" /\ tree' = tree /\ headers' = headers
  BY <1>2, <1>4, ShellCall DEF FileCall
<1>9. /\ sh' \in ShRecords /\ sh'.pc = "cat" /\ sh'.fd = fd /\ sh'.file = node /\ sh'.out = <<>>
  BY <1>1, <1>6, IdleType DEF ShRecords
<1>10. CatInv'
  <2>1. Len(<<>>) = 0
    OBVIOUS
  <2>2. Header(node).length \in Nat
    BY <1>2, <1>3, FileHeader
  <2>3. r.fds[fd] = CatFd(node, Len(<<>>))
    BY <1>7, <2>1 DEF CatFd, OpenedFd
  <2>4. \A e \in Fds : e # fd => r.fds[e] = StandardDescriptors[e]
    BY <1>2, <1>7
  <2>5. /\ Len(<<>>) <= Header(node).length
        /\ \A k \in 1 .. Len(<<>>) : <<>>[k] = Header(node).offset + k - 1
    BY <2>1, <2>2
  <2>6. sh'.pc # "close" /\ sh'.pc \in {"cat", "close"}
    BY <1>9
  <2> QED BY <1>3, <1>8, <1>9, <2>3, <2>4, <2>5, <2>6, CatInvIntro
<1>11. NoChild'
  BY <1>2, <1>8 DEF NoChild
<1>12. ShInv'
  BY <1>2, <1>3, <1>4, <1>7, <1>8, <1>9, <1>10, <1>11, ChildlessInv DEF FileCall
<1> QED BY <1>5, <1>12

\* What cat knows of its descriptor.
LEMMA CatFacts ==
  ASSUME FilesInv, ShInv, CatInv, phase = "up"
  PROVE  /\ sh.fd \in 3 .. MaxFds - 1 /\ sh.fd \in Fds /\ sh.file \in 1 .. Len(tree)
         /\ tree[sh.file].type = "regular" /\ NodeFd(Shell, sh.fd)
         /\ proc[Shell].fds[sh.fd] = CatFd(sh.file, Len(sh.out))
         /\ proc[Shell].fds[sh.fd].node = sh.file
         /\ proc[Shell].fds[sh.fd].offset = Len(sh.out)
         /\ \A fd \in Fds : fd # sh.fd => proc[Shell].fds[fd] = StandardDescriptors[fd]
         /\ sh.out \in Seq(Nat) /\ Len(sh.out) \in Nat /\ Len(sh.out) <= Header(sh.file).length
         /\ \A k \in 1 .. Len(sh.out) : sh.out[k] = Header(sh.file).offset + k - 1
         /\ Header(sh.file).length \in Nat /\ Header(sh.file).offset \in Nat
<1>1. sh.out \in Seq(Nat) /\ Len(sh.out) \in Nat
  BY ShTypes
<1>2. /\ sh.fd \in 3 .. MaxFds - 1 /\ sh.file \in 1 .. Len(tree) /\ tree[sh.file].type = "regular"
      /\ proc[Shell].fds[sh.fd] = CatFd(sh.file, Len(sh.out))
      /\ \A fd \in Fds : fd # sh.fd => proc[Shell].fds[fd] = StandardDescriptors[fd]
      /\ Len(sh.out) <= Header(sh.file).length
      /\ \A k \in 1 .. Len(sh.out) : sh.out[k] = Header(sh.file).offset + k - 1
  BY DEF CatInv, CatFd
<1>3. sh.fd \in Fds
  BY <1>2, FdFacts
<1>4. /\ proc[Shell].fds[sh.fd].kind = "node" /\ proc[Shell].fds[sh.fd].node = sh.file
      /\ proc[Shell].fds[sh.fd].offset = Len(sh.out)
  BY <1>2 DEF CatFd
<1>5. NodeFd(Shell, sh.fd)
  BY <1>3, <1>4 DEF NodeFd, Valid
<1>6. Header(sh.file).length \in Nat /\ Header(sh.file).offset \in Nat
  BY <1>2, FileHeader
<1> QED BY <1>1, <1>2, <1>3, <1>4, <1>5, <1>6

\* One read of cat.
LEMMA CatAppend ==
  ASSUME NEW out \in Seq(Nat), NEW bytes, NEW header, NEW count \in Nat \ {0},
         header.length \in Nat, header.offset \in Nat,
         IsRead(bytes, header, Len(out), count), Len(out) <= header.length,
         \A k \in 1 .. Len(out) : out[k] = header.offset + k - 1,
         NEW more, more = out \o bytes
  PROVE  /\ more \in Seq(Nat) /\ Len(more) = Len(out) + Len(bytes)
         /\ Len(more) <= header.length
         /\ \A k \in 1 .. Len(more) : more[k] = header.offset + k - 1
         /\ bytes = <<>> => Len(out) = header.length /\ more = out
<1>1. /\ bytes \in Seq(Nat) /\ Len(bytes) \in Nat /\ Len(out) \in Nat
      /\ \A k \in 1 .. Len(bytes) : bytes[k] = header.offset + Len(out) + k - 1
      /\ Len(bytes) = IF Len(out) >= header.length THEN 0
                      ELSE IF count <= header.length - Len(out) THEN count
                      ELSE header.length - Len(out)
  BY LenProperties DEF IsRead
<1>2. /\ more \in Seq(Nat) /\ Len(more) = Len(out) + Len(bytes)
      /\ \A k \in 1 .. Len(out) + Len(bytes) :
           more[k] = IF k <= Len(out) THEN out[k] ELSE bytes[k - Len(out)]
  BY <1>1, ConcatProperties
<1>3. Len(more) <= header.length
  BY <1>1, <1>2
<1>4. ASSUME NEW k \in 1 .. Len(more) PROVE more[k] = header.offset + k - 1
  <2>1. CASE k <= Len(out)
    BY <1>1, <1>2, <2>1
  <2>2. CASE ~(k <= Len(out))
    <3>1. k - Len(out) \in 1 .. Len(bytes) /\ k \in Int
      <4>1. Len(out) \in Nat /\ Len(bytes) \in Nat /\ Len(more) = Len(out) + Len(bytes)
        BY <1>1, <1>2
      <4> QED BY <2>2, <4>1
    <3>2. more[k] = bytes[k - Len(out)]
      BY <1>1, <1>2, <2>2
    <3>3. bytes[k - Len(out)] = header.offset + Len(out) + (k - Len(out)) - 1
      BY <1>1, <3>1
    <3> QED BY <1>1, <3>1, <3>2, <3>3, SMTT(30)
  <2> QED BY <2>1, <2>2
<1>5. ASSUME bytes = <<>> PROVE Len(out) = header.length /\ more = out
  <2>1. Len(bytes) = 0
    BY <1>5
  <2>2. Len(out) = header.length
    <3> DEFINE n == Len(out)
               l == header.length
    <3>1. n \in Nat /\ l \in Nat /\ n <= l
      BY <1>1
    <3>2. 0 = IF n >= l THEN 0 ELSE IF count <= l - n THEN count ELSE l - n
      BY <1>1, <2>1
    <3> HIDE DEF n, l
    <3>3. n = l
      BY <3>1, <3>2
    <3> QED BY <3>3 DEF n, l
  <2> QED BY <1>5, <2>2, ConcatEmptySeq
<1> QED BY <1>2, <1>3, <1>4, <1>5

LEMMA CatReadInv ==
  ASSUME FilesInv, ShInv, CatRead
  PROVE  FilesInv' /\ ShInv'
<1> DEFINE fd == sh.fd
           out == sh.out
           bytes == ReadBytes(Shell, fd, CatCount)
           more == out \o bytes
           r == WithFd(proc[Shell], fd, AtOffset(proc[Shell].fds[fd],
                                                 proc[Shell].fds[fd].offset + Len(bytes)))
<1>1. /\ At("cat") /\ Read(Shell, fd, CatCount)
      /\ sh' = IF bytes = <<>> THEN [sh EXCEPT !.pc = "close"] ELSE [sh EXCEPT !.out = more]
  BY DEF CatRead
<1>2. /\ phase = "up" /\ Alive(Shell) /\ Shell \in Pids /\ NoChild /\ Len(tree) \in Nat
      /\ proc[Shell].state = "alive" /\ proc[Shell].image = "shell" /\ CatInv
      /\ proc[Shell] \in ProcRecords /\ sh \in ShRecords /\ sh.pc = "cat"
  BY <1>1, AtFacts
<1>3. /\ fd \in 3 .. MaxFds - 1 /\ fd \in Fds /\ sh.file \in 1 .. Len(tree)
      /\ tree[sh.file].type = "regular" /\ NodeFd(Shell, fd)
      /\ proc[Shell].fds[fd] = CatFd(sh.file, Len(out))
      /\ proc[Shell].fds[fd].node = sh.file /\ proc[Shell].fds[fd].offset = Len(out)
      /\ \A e \in Fds : e # fd => proc[Shell].fds[e] = StandardDescriptors[e]
  BY <1>2, CatFacts
<1>4. /\ out \in Seq(Nat) /\ Len(out) \in Nat /\ Len(out) <= Header(sh.file).length
      /\ \A k \in 1 .. Len(out) : out[k] = Header(sh.file).offset + k - 1
      /\ Header(sh.file).length \in Nat /\ Header(sh.file).offset \in Nat
  BY <1>2, CatFacts
<1>5. CatCount \in Nat \ {0}
  BY ShellAssumption
<1>6. IsRead(bytes, Header(sh.file), Len(out), CatCount) /\ Len(out) + Len(bytes) \in 0 .. SeekMax
  <2> DEFINE d == proc[Shell].fds[fd]
  <2>1. IsRead(bytes, Header(d.node), d.offset, CatCount) /\ d.offset + Len(bytes) \in 0 .. SeekMax
    BY <1>2, <1>3, <1>5, ReadBytesFacts
  <2> QED BY <1>3, <2>1
<1>7. FileCall(Shell, r)
  BY <1>1, <1>2, <1>5, ReadCall
<1>8. FilesInv'
  BY <1>2, <1>7, FileCallInv
<1> HIDE DEF bytes
<1>9. /\ more \in Seq(Nat) /\ Len(more) = Len(out) + Len(bytes)
      /\ Len(more) <= Header(sh.file).length
      /\ \A k \in 1 .. Len(more) : more[k] = Header(sh.file).offset + k - 1
      /\ bytes = <<>> => Len(out) = Header(sh.file).length /\ more = out
  BY <1>4, <1>5, <1>6, CatAppend
<1> HIDE DEF more
<1>10. /\ r.fds[fd] = CatFd(sh.file, Len(more)) /\ r.image = "shell"
       /\ \A e \in Fds : e # fd => r.fds[e] = StandardDescriptors[e]
  <2> DEFINE e == AtOffset(proc[Shell].fds[fd], proc[Shell].fds[fd].offset + Len(bytes))
  <2>1. e = CatFd(sh.file, Len(more))
    BY <1>3, <1>9 DEF AtOffset, CatFd
  <2>2. e \in FdRecords
    <3>1. sh.file \in Nat /\ Len(more) \in 0 .. SeekMax
      BY <1>2, <1>3, <1>6, <1>9
    <3> QED BY <2>1, <3>1 DEF CatFd, FdRecords
  <2>3. r = WithFd(proc[Shell], fd, e)
    OBVIOUS
  <2> HIDE DEF e, r
  <2> QED BY <1>2, <1>3, <2>1, <2>2, <2>3, SetFd
<1> HIDE DEF r
<1>11. /\ proc'[Shell] = r /\ \A p \in Pids : IsShellChild(p)' <=> IsShellChild(p)
       /\ phase' = "up" /\ tree' = tree /\ headers' = headers
  BY <1>2, <1>7, ShellCall DEF FileCall
<1>12. NoChild'
  BY <1>2, <1>11 DEF NoChild
<1>13. /\ sh' \in ShRecords /\ sh'.fd = fd /\ sh'.file = sh.file /\ sh'.out = more
       /\ sh'.pc \in {"cat", "close"}
       /\ sh'.pc = "close" => Len(more) = Header(sh.file).length
  <2>1. CASE bytes = <<>>
    BY <1>1, <1>2, <1>9, <2>1 DEF ShRecords
  <2>2. CASE bytes # <<>>
    BY <1>1, <1>2, <1>9, <2>2 DEF ShRecords
  <2> QED BY <2>1, <2>2
<1>14. CatInv'
  <2> DEFINE f == sh.file
  <2>1. f \in 1 .. Len(tree) /\ sh'.file = f
    BY <1>3, <1>13
  <2>2. /\ tree[f].type = "regular" /\ r.fds[fd] = CatFd(f, Len(more))
        /\ Len(more) <= Header(f).length
        /\ \A k \in 1 .. Len(more) : more[k] = Header(f).offset + k - 1
        /\ sh'.pc = "close" => Len(more) = Header(f).length
    BY <1>3, <1>9, <1>10, <1>13
  <2>3. fd \in 3 .. MaxFds - 1 /\ sh'.fd = fd /\ sh'.out = more /\ sh' \in ShRecords
    BY <1>3, <1>13
  <2> HIDE DEF f, fd
  <2> QED BY <1>10, <1>11, <1>13, <2>1, <2>2, <2>3, CatInvIntro
<1>15. sh'.file \in 0 .. Len(tree') /\ r.state = "alive" /\ sh'.pc # "ls" /\ sh'.pc # "wait"
  BY <1>2, <1>3, <1>7, <1>11, <1>13 DEF FileCall
<1>16. ShInv'
  BY <1>10, <1>11, <1>12, <1>13, <1>14, <1>15, ChildlessInv
<1> QED BY <1>8, <1>16

LEMMA CatCloseInv ==
  ASSUME FilesInv, ShInv, CatClose
  PROVE  FilesInv' /\ ShInv'
<1> DEFINE fd == sh.fd
           r == WithFd(proc[Shell], fd, FreeFd)
<1>1. At("close") /\ Close(Shell, fd) /\ sh' = Idle
  BY DEF CatClose
<1>2. /\ phase = "up" /\ Alive(Shell) /\ Shell \in Pids /\ NoChild /\ Len(tree) \in Nat
      /\ proc[Shell].state = "alive" /\ proc[Shell].image = "shell" /\ CatInv
      /\ proc[Shell] \in ProcRecords
  BY <1>1, AtFacts
<1>3. /\ fd \in 3 .. MaxFds - 1 /\ fd \in Fds
      /\ \A e \in Fds : e # fd => proc[Shell].fds[e] = StandardDescriptors[e]
  BY <1>2, CatFacts
<1>4. FileCall(Shell, r)
  BY <1>1, <1>2, CloseCall
<1>5. FilesInv'
  BY <1>2, <1>4, FileCallInv
<1>6. /\ r \in ProcRecords /\ r.image = "shell" /\ r.fds[fd] = FreeFd
      /\ \A e \in Fds : e # fd => r.fds[e] = proc[Shell].fds[e]
  BY <1>2, <1>3, FreeFdType, SetFd
<1> HIDE DEF r
<1>7. r.fds = StandardDescriptors
  <2>1. r.fds \in [Fds -> FdRecords] /\ StandardDescriptors \in [Fds -> FdRecords]
    BY <1>6, StandardDescriptorsFacts DEF ProcRecords
  <2>2. \A e \in Fds : r.fds[e] = StandardDescriptors[e]
    BY <1>3, <1>6, StandardDescriptorsFacts
  <2> QED BY <2>1, <2>2
<1>8. /\ proc'[Shell] = r /\ \A p \in Pids : IsShellChild(p)' <=> IsShellChild(p)
      /\ phase' = "up" /\ tree' = tree
  BY <1>2, <1>4, ShellCall DEF FileCall
<1>9. NoChild'
  BY <1>2, <1>8 DEF NoChild
<1>10. ShInv'
  BY <1>1, <1>2, <1>4, <1>6, <1>7, <1>8, <1>9, IdleInv DEF FileCall
<1> QED BY <1>5, <1>10

-----------------------------------------------------------------------------
(* run *)

LEMMA CommandRunInv ==
  ASSUME FilesInv, ShInv, NEW path \in ShellPaths, CommandRun(path)
  PROVE  FilesInv' /\ ShInv'
<1> DEFINE r == ChildOf(Shell, "child")
           c == next_pid
<1>1. /\ At("prompt") /\ Fork(Shell, "child")
      /\ sh' = [Idle EXCEPT !.pc = "wait", !.child = c, !.path = path]
  BY DEF CommandRun
<1>2. /\ phase = "up" /\ Alive(Shell) /\ Shell \in Pids /\ NoChild /\ Len(tree) \in Nat
      /\ proc[Shell].state = "alive" /\ proc[Shell].image = "shell"
      /\ proc[Shell].fds = StandardDescriptors
  BY <1>1, AtFacts
<1>3. /\ Becomes(c, r) /\ next_pid' = c + 1 /\ c \in Pids /\ RecordOK(r) /\ c \in 3 .. MaxPid
      /\ r.state = "alive" /\ r.parent = Shell
  BY <1>1, <1>2, ForkFacts
<1> HIDE DEF r
<1>4. FilesInv'
  BY <1>2, <1>3, BecomesInv
<1>5. proc'[c] = r /\ \A q \in Pids : q # c => proc'[q] = proc[q]
  BY <1>3, BecomesProc DEF FilesInv
<1> HIDE DEF c
<1>6. c # Shell /\ proc'[Shell] = proc[Shell] /\ phase' = "up" /\ tree' = tree
  BY <1>2, <1>3, <1>5, PidFacts DEF Becomes
<1>7. sh' \in ShRecords /\ sh'.pc = "wait" /\ sh'.child = c /\ sh'.file = 0
  <2>1. path \in ShellPaths \cup {NoPath} /\ c \in Pids \cup {0}
    BY <1>3
  <2> QED BY <1>1, <2>1, IdleType DEF ShRecords, Null
<1>8. ChildInv'
  <2>1. ASSUME NEW p \in Pids, proc'[p].state # "free" /\ proc'[p].parent = Shell
        PROVE  p = c
    BY <1>2, <1>5, <2>1 DEF NoChild, IsShellChild
  <2> QED BY <1>3, <1>5, <1>7, <2>1 DEF ChildInv, Shell
<1>9. ShInv'
  BY <1>2, <1>6, <1>7, <1>8 DEF ShInv, Shell
<1> QED BY <1>4, <1>9

LEMMA WaitChildInv ==
  ASSUME FilesInv, ShInv, WaitChild
  PROVE  FilesInv' /\ ShInv'
<1> DEFINE c == sh.child
           r == FreeProc
<1>1. At("wait") /\ Reap(Shell, c) /\ sh' = Idle
  BY DEF WaitChild
<1>2. /\ phase = "up" /\ Alive(Shell) /\ Shell \in Pids /\ ChildInv /\ Len(tree) \in Nat
      /\ proc[Shell].state = "alive" /\ proc[Shell].image = "shell" /\ sh.pc = "wait"
      /\ proc[Shell].fds = StandardDescriptors
  BY <1>1, AtFacts
<1>3. c \in 3 .. MaxPid /\ c \in Pids /\ c # Shell
  BY <1>2, PidFacts DEF ChildInv
<1>4. /\ Becomes(c, r) /\ next_pid' = next_pid /\ RecordOK(r) /\ r.state = "free"
  BY <1>1, <1>2, <1>3, ReapFacts, FreeProcType
<1> HIDE DEF r
<1>5. FilesInv'
  BY <1>2, <1>3, <1>4, BecomesInv
<1>6. proc'[c] = r /\ \A q \in Pids : q # c => proc'[q] = proc[q]
  BY <1>3, <1>4, BecomesProc DEF FilesInv
<1>7. NoChild'
  <2>1. ASSUME NEW p \in Pids PROVE ~(proc'[p].state # "free" /\ proc'[p].parent = Shell)
    <3>1. CASE p = c
      BY <1>4, <1>6, <3>1
    <3>2. CASE p # c
      BY <1>2, <1>6, <3>2 DEF ChildInv
    <3> QED BY <3>1, <3>2
  <2> QED BY <2>1 DEF NoChild, IsShellChild, Shell
<1>8. ShInv'
  BY <1>1, <1>2, <1>3, <1>4, <1>6, <1>7, IdleInv DEF Becomes
<1> QED BY <1>5, <1>8

-----------------------------------------------------------------------------
(* Every step. *)

LEMMA BootInv ==
  ASSUME FilesInv, ShInv, StartShell
  PROVE  FilesInv' /\ ShInv'
<1>1. /\ FilesInv' /\ phase = "boot"
      /\ \/ phase' = "panic" /\ proc' = proc
         \/ /\ phase' = "up" /\ proc'[Shell] \in {BootRecord, DeadShell}
            /\ \A p \in Pids : p # Shell => proc'[p].state = "free"
  BY BootFacts DEF StartShell
<1>2. /\ proc'[Shell].state # "zombie" => sh' = Idle
      /\ proc'[Shell].state = "zombie" => sh' = [Idle EXCEPT !.pc = "gone"]
  BY <1>1 DEF ShInv, StartShell
<1>3. Len(tree') \in Nat
  <2>1. WellFormed(tree')
    BY <1>1 DEF FilesInv, TreeInv
  <2> QED BY <2>1, LenProperties DEF WellFormed
<1>4. CASE phase' = "panic"
  <2>1. proc[Shell].state = "free"
    BY <1>1, PidFacts DEF FilesInv, PidInv
  <2>2. sh' = Idle
    BY <1>1, <1>2, <1>4, <2>1
  <2> QED BY <1>1, <1>3, <1>4, <2>2, IdleType DEF ShInv, Null
<1>5. CASE phase' = "up" /\ proc'[Shell] = BootRecord
           /\ \A p \in Pids : p # Shell => proc'[p].state = "free"
  <2>1. /\ proc'[Shell].state = "alive" /\ proc'[Shell].image = "shell"
        /\ proc'[Shell].fds = StandardDescriptors /\ proc'[Shell].parent = 1
    BY <1>5, BootRecordFacts
  <2>2. NoChild'
    BY <1>5, <2>1 DEF NoChild, IsShellChild, Shell
  <2> QED BY <1>1, <1>2, <1>3, <1>5, <2>1, <2>2, IdleInv
<1>6. CASE phase' = "up" /\ proc'[Shell] = DeadShell
  <2>1. sh' = [Idle EXCEPT !.pc = "gone"]
    BY <1>2, <1>6, DeadShellFacts
  <2>2. sh' \in ShRecords /\ sh'.pc = "gone" /\ sh'.file = 0
    BY <2>1, IdleType DEF ShRecords, Null
  <2> QED BY <1>1, <1>3, <1>6, <2>2, GoneInv
<1> QED BY <1>1, <1>4, <1>5, <1>6

LEMMA StepInv == IInv /\ [Next]_vars => IInv'
<1> SUFFICES ASSUME FilesInv, ShInv, [Next]_vars PROVE FilesInv' /\ ShInv'
  BY DEF IInv
<1>1. CASE StartShell
  BY <1>1, BootInv
<1>2. CASE CommandLs
  BY <1>2, CommandLsInv
<1>3. ASSUME NEW path \in ShellPaths, Command(path) PROVE FilesInv' /\ ShInv'
  <2>1. path \in PathStrings /\ Shell \in Pids
    BY ShellAssumption, PidFacts
  <2>2. CASE CommandMkdir(path)
    BY <2>1, <2>2, AnyMkdir DEF CommandMkdir
  <2> QED BY <1>3, <2>1, <2>2, CommandCdInv, CommandExecInv, CommandCatInv, CommandRunInv
          DEF Command
<1>4. CASE ShellStep
  BY <1>4, LsNextInv, CatReadInv, CatCloseInv, WaitChildInv DEF ShellStep
<1>5. ASSUME NEW p \in Pids,
             ChildExecs(p) \/ ChildFails(p) \/ Killed(p) \/ (ProgramCall(p) /\ UNCHANGED sh)
      PROVE  FilesInv' /\ ShInv'
  BY <1>5, ChildExecsInv, ChildFailsInv, KilledInv, ProgramCallInv
<1>6. CASE UNCHANGED vars
  <2>1. UNCHANGED fileVars /\ sh' = sh
    BY <1>6 DEF vars
  <2>2. FilesInv'
    BY <2>1, FilesSame
  <2>3. headers' = headers /\ phase' = phase /\ tree' = tree /\ proc' = proc
    BY <2>1 DEF fileVars
  <2>4. ShInv'
    <3>1. (ChildInv' <=> ChildInv) /\ (ListInv' <=> ListInv) /\ (CatInv' <=> CatInv)
      BY <2>1, <2>3 DEF ChildInv, ListInv, CatInv, Header, Here, Shell
    <3> QED BY <2>1, <2>3, <3>1 DEF ShInv, Shell
  <2> QED BY <2>2, <2>4
<1> QED BY <1>1, <1>2, <1>3, <1>4, <1>5, <1>6 DEF Next

LEMMA Invariance == Spec => []IInv
BY InitInv, StepInv, PTL DEF Spec

-----------------------------------------------------------------------------
(* The properties. *)

LEMMA FdDescriptors ==
  ASSUME FilesInv, Len(tree) \in Nat, NEW p \in Pids, NEW fd \in Fds
  PROVE  proc[p].fds[fd] \in Descriptors
<1> DEFINE d == proc[p].fds[fd]
<1>1. d \in FdRecords
  BY ProcType DEF FilesInv
<1>2. d.node \in 0 .. Len(tree)
  <2>1. CASE proc[p].state = "alive"
    <3>1. LivingInv(proc[p], tree)
      BY <2>1 DEF FilesInv, ProcInv
    <3>2. CASE fd \in 0 .. 2
      <4>1. d = StandardDescriptors[fd]
        BY <3>1, <3>2 DEF LivingInv
      <4>2. StandardDescriptors[fd].node = 0
        BY DEF StandardDescriptors, FreeFd, Null
      <4> QED BY <4>1, <4>2
    <3>3. CASE fd \in 3 .. MaxFds - 1
      <4>1. d = FreeFd \/ OpenOn(d, tree)
        BY <3>1, <3>3 DEF LivingInv
      <4> QED BY <4>1, FreeFdType DEF OpenOn, Null
    <3> QED BY <3>2, <3>3, FdFacts
  <2>2. CASE proc[p].state # "alive"
    BY <2>2, FreeFdType DEF FilesInv, ProcInv, DeadInv, Null
  <2> QED BY <2>1, <2>2
<1> HIDE DEF d
<1>3. d \in Descriptors
  BY <1>1, <1>2 DEF FdRecords, Descriptors
<1> QED BY <1>3 DEF d

LEMMA CwdType ==
  ASSUME FilesInv, Len(tree) \in Nat, NEW p \in Pids
  PROVE  proc[p].cwd \in 0 .. Len(tree)
<1>1. CASE proc[p].state = "alive"
  BY <1>1 DEF FilesInv, ProcInv, LivingInv
<1>2. CASE proc[p].state # "alive"
  BY <1>2 DEF FilesInv, ProcInv, DeadInv, Null
<1> QED BY <1>1, <1>2

LEMMA TreeLength ==
  ASSUME FilesInv
  PROVE  Len(tree) \in Nat /\ (phase # "boot" => WellFormed(tree) /\ FilesOf(tree, headers))
<1>1. CASE phase = "boot"
  BY <1>1 DEF FilesInv, TreeInv
<1>2. CASE phase # "boot"
  BY <1>2, LenProperties DEF FilesInv, TreeInv, WellFormed
<1> QED BY <1>1, <1>2

LEMMA TypeFromInv ==
  ASSUME IInv
  PROVE  TypeOK
<1>0. FilesInv /\ ShInv
  BY DEF IInv
<1>1. Len(tree) \in Nat
  BY <1>0, TreeLength
<1>2. ASSUME NEW n \in 1 .. Len(tree)
      PROVE  /\ tree[n].type \in {"directory", "regular"} /\ tree[n].parent \in 0 .. Len(tree)
             /\ tree[n].length \in 0 .. SeekMax /\ tree[n].inode \in 0 .. Len(headers)
             /\ Range(tree[n].kids) \subseteq 1 .. Len(tree)
  <2>1. phase # "boot"
    BY <1>0 DEF FilesInv, TreeInv
  <2>2. WellFormed(tree) /\ FilesOf(tree, headers)
    BY <1>0, <2>1, TreeLength
  <2>3. tree[n].type \in {"directory", "regular"} /\ tree[n].kids \in Seq(Nat)
    BY <2>2, NodeType DEF WellFormed, Types
  <2>4. tree[n].parent \in 0 .. Len(tree)
    BY <2>2, ParentType
  <2>5. tree[n].length \in 0 .. SeekMax
    BY <1>0, <2>1, NodeLength
  <2>6. tree[n].inode \in 0 .. Len(headers)
    <3>1. Len(headers) \in Nat
      BY <1>0, PackedHeaders DEF FilesInv
    <3> QED BY <2>2, <3>1 DEF FilesOf
  <2>7. Range(tree[n].kids) \subseteq 1 .. Len(tree)
    <3>1. \A i \in 1 .. Len(tree[n].kids) : tree[n].kids[i] \in 1 .. Len(tree)
      BY <1>1, <2>2 DEF WellFormed, ListsOwn
    <3> QED BY <2>3, <3>1, RangeFacts
  <2> QED BY <2>3, <2>4, <2>5, <2>6, <2>7
<1>3. proc \in [Pids -> [state : {"free", "alive", "zombie"}, parent : 0 .. MaxPid,
                         image : {"none", "shell", "child", "program"},
                         cwd : 0 .. Len(tree), fds : [Fds -> Descriptors]]]
  <2>1. ASSUME NEW p \in Pids
        PROVE  proc[p] \in [state : {"free", "alive", "zombie"}, parent : 0 .. MaxPid,
                            image : {"none", "shell", "child", "program"},
                            cwd : 0 .. Len(tree), fds : [Fds -> Descriptors]]
    <3>1. proc[p] \in ProcRecords /\ proc[p].fds \in [Fds -> FdRecords]
      BY <1>0, ProcType DEF FilesInv
    <3>2. proc[p].fds \in [Fds -> Descriptors]
      BY <1>0, <1>1, <3>1, FdDescriptors
    <3>3. proc[p].cwd \in 0 .. Len(tree)
      BY <1>0, <1>1, CwdType
    <3> QED BY <3>1, <3>2, <3>3 DEF ProcRecords
  <2> QED BY <1>0, <2>1 DEF FilesInv, ProcInv
<1>4. FilesTypeOK
  BY <1>0, <1>2, <1>3 DEF FilesTypeOK, FilesInv, PidInv
<1> QED BY <1>0, <1>4, ShTypes DEF TypeOK, ShInv

LEMMA TreeFromInv ==
  ASSUME FilesInv
  PROVE  TreeWellFormed
<1> SUFFICES ASSUME phase = "up"
             PROVE  /\ tree[Root].parent = Null /\ IsDir(tree, Root)
                    /\ \A n \in 2 .. Len(tree) :
                         /\ tree[n].parent \in 1 .. n - 1 /\ IsDir(tree, tree[n].parent)
                         /\ n \in Range(tree[tree[n].parent].kids)
                         /\ tree[n].name \notin {Dot, DotDot, Empty, Long}
                    /\ \A d \in 1 .. Len(tree) :
                         LET kids == tree[d].kids IN
                         /\ IsInjective([i \in 1 .. Len(kids) |-> tree[kids[i]].name])
                         /\ \A k \in Range(kids) : tree[k].parent = d
  BY DEF TreeWellFormed
<1>1. WellFormed(tree) /\ Len(tree) \in Nat
  BY TreeLength
<1>2. tree[Root].parent = Null /\ IsDir(tree, Root)
  BY <1>1 DEF WellFormed, IsDir, Root, Null
<1>3. ASSUME NEW n \in 2 .. Len(tree)
      PROVE  /\ tree[n].parent \in 1 .. n - 1 /\ IsDir(tree, tree[n].parent)
             /\ n \in Range(tree[tree[n].parent].kids)
             /\ tree[n].name \notin {Dot, DotDot, Empty, Long}
  <2> DEFINE d == tree[n].parent
  <2>1. /\ d \in 1 .. n - 1 /\ tree[d].type = "directory" /\ tree[n].name \notin Reserved
        /\ \E i \in 1 .. Len(tree[d].kids) : tree[d].kids[i] = n
    BY <1>1 DEF WellFormed, Linked
  <2> HIDE DEF d
  <2>2. tree[d].kids \in Seq(Nat)
    BY <1>1, <2>1, NodeType DEF WellFormed
  <2>3. n \in Range(tree[d].kids)
    BY <2>1, <2>2, RangeFacts
  <2>4. IsDir(tree, d)
    BY <2>1 DEF IsDir, Null
  <2> QED BY <2>1, <2>3, <2>4 DEF d, Reserved
<1>4. ASSUME NEW d \in 1 .. Len(tree), NEW kids, kids = tree[d].kids
      PROVE  /\ IsInjective([i \in 1 .. Len(kids) |-> tree[kids[i]].name])
             /\ \A k \in Range(kids) : tree[k].parent = d
  <2>1. kids \in Seq(Nat)
    BY <1>1, <1>4, NodeType DEF WellFormed
  <2>2. \A k \in Range(kids) : tree[k].parent = d
    <3>1. \A i \in 1 .. Len(kids) : tree[kids[i]].parent = d
      BY <1>1, <1>4 DEF WellFormed, ListsOwn
    <3>2. ASSUME NEW k \in Range(kids) PROVE tree[k].parent = d
      <4>1. PICK i \in 1 .. Len(kids) : kids[i] = k
        BY <2>1, <3>2, RangeFacts
      <4> QED BY <3>1, <4>1
    <3> QED BY <3>2
  <2>3. \A i, j \in 1 .. Len(kids) : tree[kids[i]].name = tree[kids[j]].name => i = j
    BY <1>1, <1>4 DEF WellFormed, NamesUnique
  <2> QED BY <2>2, <2>3 DEF IsInjective
<1> QED BY <1>2, <1>3, <1>4

LEMMA DescriptorsFromInv ==
  ASSUME FilesInv
  PROVE  DescriptorsConsistent
<1>1. ASSUME NEW p \in Pids, proc[p].state = "alive"
      PROVE  /\ IsDir(tree, proc[p].cwd)
             /\ \A fd \in 0 .. 2 : proc[p].fds[fd] = StandardDescriptors[fd]
             /\ \A fd \in 3 .. MaxFds - 1 :
                  LET d == proc[p].fds[fd] IN
                  \/ d = FreeFd
                  \/ d.kind = "node" /\ IsFile(tree, d.node) /\ d.offset \in 0 .. SeekMax
  <2>1. LivingInv(proc[p], tree)
    BY <1>1 DEF FilesInv, ProcInv
  <2>2. IsDir(tree, proc[p].cwd)
    BY <2>1 DEF LivingInv, IsDir, Null
  <2>3. ASSUME NEW fd \in 3 .. MaxFds - 1, NEW d, d = proc[p].fds[fd]
        PROVE  \/ d = FreeFd
               \/ d.kind = "node" /\ IsFile(tree, d.node) /\ d.offset \in 0 .. SeekMax
    <3>1. d \in FdRecords
      BY <2>3, FdFacts, ProcType DEF FilesInv
    <3>2. d = FreeFd \/ OpenOn(d, tree)
      BY <2>1, <2>3 DEF LivingInv
    <3> QED BY <3>1, <3>2, FdType DEF OpenOn, IsFile, Null
  <2> QED BY <2>1, <2>2, <2>3 DEF LivingInv
<1>2. ASSUME NEW p \in Pids, proc[p].state # "alive"
      PROVE  \A fd \in Fds : proc[p].fds[fd] = FreeFd
  BY <1>2 DEF FilesInv, ProcInv, DeadInv
<1> QED BY <1>1, <1>2 DEF DescriptorsConsistent

LEMMA LivingFacts ==
  ASSUME FilesInv, NEW p \in Pids, proc[p].state = "alive"
  PROVE  /\ phase = "up" /\ LivingInv(proc[p], tree) /\ WellFormed(tree)
         /\ FilesOf(tree, headers) /\ Len(tree) \in Nat /\ proc[p].cwd \in 1 .. Len(tree)
<1>1. phase = "up" /\ LivingInv(proc[p], tree)
  BY DEF FilesInv, ProcInv
<1> QED BY <1>1, TreeLength DEF LivingInv

LEMMA LseekFromInv ==
  ASSUME FilesInv
  PROVE  LseekExact
<1> SUFFICES ASSUME NEW p \in Pids, NEW fd \in 3 .. MaxFds - 1, NEW offset \in Offsets,
                    NEW origin \in 0 .. 3, proc[p].state = "alive", NodeFd(p, fd),
                    NEW target, NEW got,
                    target = IF origin = 3 THEN -1 ELSE SeekBase(proc[p].fds[fd], origin) + offset,
                    got = NewlibResult(LseekResult(p, fd, offset, origin))
             PROVE  IF target \in 0 .. SeekMax THEN got = [ret |-> target, errno |-> 0]
                    ELSE got = [ret |-> -1, errno |-> EINVAL]
  BY DEF LseekExact
<1> DEFINE d == proc[p].fds[fd]
           s == SeekTarget(d, offset, origin)
           base == SeekBase(d, origin)
<1>1. d \in FdRecords /\ OpenOn(d, tree) /\ phase # "boot"
  BY LivingFacts, NodeFdFacts
<1>2. d.offset \in 0 .. SeekMax /\ tree[d.node].length \in 0 .. SeekMax
  BY <1>1, FdType, NodeLength DEF OpenOn
<1>3. s = IF origin # 3 /\ base + offset \in 0 .. SeekMax THEN base + offset ELSE -1
  BY <1>2, SeekTargetFacts
<1>4. base \in Int /\ offset \in Int /\ SeekMax \in Nat
  BY <1>2, SeekAssumption, FdFacts DEF SeekBase
<1>5. LseekResult(p, fd, offset, origin) = IF s < 0 THEN -22 ELSE s
  BY DEF LseekResult, EINVAL, NodeFd
<1>6. NewlibResult(LseekResult(p, fd, offset, origin)) =
        IF LseekResult(p, fd, offset, origin) < 0
        THEN [ret |-> -1, errno |-> -LseekResult(p, fd, offset, origin)]
        ELSE [ret |-> LseekResult(p, fd, offset, origin), errno |-> 0]
  BY DEF NewlibResult
<1> HIDE DEF s, base
<1>7. target = IF origin = 3 THEN -1 ELSE base + offset
  BY DEF base
<1>8. CASE target \in 0 .. SeekMax
  <2>1. s = target /\ ~(s < 0)
    BY <1>3, <1>4, <1>7, <1>8
  <2>2. LseekResult(p, fd, offset, origin) = target /\ ~(target < 0)
    BY <1>5, <2>1
  <2>3. got = [ret |-> target, errno |-> 0]
    BY <1>6, <2>2
  <2> QED BY <1>8, <2>3
<1>9. CASE target \notin 0 .. SeekMax
  <2>1. s = -1
    BY <1>3, <1>4, <1>7, <1>9
  <2>2. LseekResult(p, fd, offset, origin) = -22
    BY <1>5, <2>1
  <2>3. got = [ret |-> -1, errno |-> -(-22)]
    BY <1>6, <2>2
  <2> QED BY <1>9, <2>3 DEF EINVAL
<1> QED BY <1>8, <1>9

LEMMA PromptFromInv ==
  ASSUME IInv
  PROVE  PromptClean
<1>0. FilesInv /\ ShInv
  BY DEF IInv
<1>1. ASSUME sh.pc = "prompt", phase = "up"
      PROVE  /\ \A p \in Pids : proc[p].state # "free" => proc[p].parent # Shell
             /\ proc[Shell].fds = StandardDescriptors
  BY <1>0, <1>1 DEF ShInv, ChildInv
<1>2. ASSUME sh.pc = "wait"
      PROVE  proc[sh.child].state # "free" /\ proc[sh.child].parent = Shell
  <2>1. phase = "up"
    BY <1>0, <1>2, IdleType DEF ShInv
  <2> QED BY <1>0, <1>2, <2>1 DEF ShInv, ChildInv
<1> QED BY <1>1, <1>2 DEF PromptClean

LEMMA ListingFromInv ==
  ASSUME IInv
  PROVE  ListingComplete
<1> SUFFICES ASSUME sh.pc = "ls", LsEntry = Null
             PROVE  /\ sh.present \subseteq Range(sh.listed)
                    /\ Len(sh.listed) - Cardinality(Range(sh.listed)) <=
                         Len(Here) - Cardinality(sh.present)
  BY DEF ListingComplete
<1>0. FilesInv /\ ShInv
  BY DEF IInv
<1>1. phase = "up"
  BY <1>0, IdleType DEF ShInv
<1>2. /\ Len(Here) \in Nat /\ Listing(sh.listed, sh.present, Here)
      /\ sh.listed \in Seq(Nat) /\ Len(sh.listed) = Len(Here)
  BY <1>0, <1>1, LsEntryFacts
<1>3. sh.present \subseteq Range(sh.listed)
  <2>1. ASSUME NEW x \in sh.present PROVE \E i \in 1 .. Len(sh.listed) : sh.listed[i] = x
    BY <1>2 DEF Listing
  <2> QED BY <1>2, <2>1, RangeFacts
<1>4. IsFiniteSet(Range(sh.listed))
  BY <1>2, RangeFacts
<1>5. /\ IsFiniteSet(sh.present) /\ Cardinality(sh.present) <= Cardinality(Range(sh.listed))
  BY <1>3, <1>4, FS_Subset
<1>6. Cardinality(sh.present) \in Nat /\ Cardinality(Range(sh.listed)) \in Nat
  BY <1>4, <1>5, FS_CardinalityType
<1> QED BY <1>2, <1>3, <1>5, <1>6

LEMMA WholeFile ==
  ASSUME NEW n \in Nat, NEW o \in Nat
  PROVE  LET whole == [k \in 1 .. n |-> o + k - 1] IN
         /\ whole \in Seq(Nat) /\ Len(whole) = n
         /\ \A k \in 1 .. n : whole[k] = o + k - 1
<1> DEFINE e(k) == o + k - 1
           whole == [k \in 1 .. n |-> e(k)]
<1>1. \A k \in 1 .. n : e(k) \in Nat
  OBVIOUS
<1> HIDE DEF e
<1>2. whole \in [1 .. n -> Nat] /\ \A k \in 1 .. n : whole[k] = e(k)
  BY <1>1
<1> HIDE DEF whole
<1>3. whole \in Seq(Nat) /\ Len(whole) = n
  BY <1>2
<1> QED BY <1>2, <1>3 DEF whole, e

LEMMA PrefixFacts ==
  ASSUME NEW s \in Seq(Nat), NEW t \in Seq(Nat), Len(s) <= Len(t),
         \A k \in 1 .. Len(s) : s[k] = t[k]
  PROVE  IsPrefix(s, t) /\ (Len(s) = Len(t) => s = t)
<1> DEFINE n == Len(s)
<1>1. n \in Nat /\ Len(t) \in Nat
  BY LenProperties
<1>2. (\A k \in 1 .. n : s[k] \in Nat) /\ (\A k \in 1 .. n : t[k] \in Nat)
  BY <1>1, ElementOfSeq
<1>3. /\ SubSeq(s, 1, n) \in Seq(Nat) /\ Len(SubSeq(s, 1, n)) = n
      /\ \A k \in 1 .. n : SubSeq(s, 1, n)[k] = s[k]
  BY <1>1, <1>2, SubSeqProperties
<1>4. /\ SubSeq(t, 1, n) \in Seq(Nat) /\ Len(SubSeq(t, 1, n)) = n
      /\ \A k \in 1 .. n : SubSeq(t, 1, n)[k] = t[k]
  BY <1>1, <1>2, SubSeqProperties
<1>5. \A k \in 1 .. n : SubSeq(s, 1, n)[k] = SubSeq(t, 1, n)[k]
  BY <1>3, <1>4
<1>6. SubSeq(s, 1, n) = SubSeq(t, 1, n)
  BY <1>3, <1>4, <1>5, SeqEqual
<1>7. Len(s) = Len(t) => s = t
  BY SeqEqual
<1> QED BY <1>6, <1>7 DEF IsPrefix

LEMMA CatFromInv ==
  ASSUME IInv
  PROVE  CatPrintsFile
<1> DEFINE header == headers[tree[sh.file].inode]
           whole == [k \in 1 .. header.length |-> header.offset + k - 1]
<1> SUFFICES ASSUME sh.pc \in {"cat", "close"}
             PROVE  IF sh.pc = "cat" THEN IsPrefix(sh.out, whole) ELSE sh.out = whole
  BY DEF CatPrintsFile
<1>0. FilesInv /\ ShInv
  BY DEF IInv
<1>1. phase = "up"
  BY <1>0, IdleType DEF ShInv
<1>2. CatInv /\ header = Header(sh.file)
  BY <1>0, <1>1 DEF ShInv, Header
<1>3. /\ sh.out \in Seq(Nat) /\ Len(sh.out) \in Nat /\ Len(sh.out) <= header.length
      /\ \A k \in 1 .. Len(sh.out) : sh.out[k] = header.offset + k - 1
      /\ header.length \in Nat /\ header.offset \in Nat
  BY <1>0, <1>1, <1>2, CatFacts
<1>4. /\ whole \in Seq(Nat) /\ Len(whole) = header.length
      /\ \A k \in 1 .. header.length : whole[k] = header.offset + k - 1
  <2> HIDE DEF header
  <2> QED BY <1>3, WholeFile
<1>5. sh.pc = "close" => Len(sh.out) = header.length
  BY <1>2 DEF CatInv
<1> HIDE DEF whole, header
<1>6. Len(sh.out) <= Len(whole) /\ \A k \in 1 .. Len(sh.out) : sh.out[k] = whole[k]
  BY <1>3, <1>4
<1>7. IsPrefix(sh.out, whole) /\ (Len(sh.out) = Len(whole) => sh.out = whole)
  BY <1>3, <1>4, <1>6, PrefixFacts
<1> QED BY <1>4, <1>5, <1>7

\* stat, open, chdir, readfile and mkdir on one path.
LEMMA PathCallsAgree ==
  ASSUME FilesInv, NEW p \in Pids, proc[p].state = "alive", NEW path \in PathStrings,
         NEW status, status = StatResult(p, path), NEW opened, opened = OpenResult(p, path)
  PROVE  /\ (status.type = "directory") = (opened = -EISDIR)
         /\ (status.type = "directory") = (ChdirResult(p, path) = 0)
         /\ (status.type = "regular") = (opened \in Fds \cup {-EMFILE})
         /\ \A capacity \in 0 .. SeekMax :
              ReadfileResult(p, path, capacity) =
                IF status.type = "regular" /\ capacity > 0
                THEN Min({status.size, capacity}) ELSE -1
<1> DEFINE node == Lookup(p, path)
           free == FreeFds(p)
<1>1. /\ phase = "up" /\ WellFormed(tree) /\ Len(tree) \in Nat /\ proc[p].cwd \in 0 .. Len(tree)
  BY LivingFacts
<1>2. Len(path.names) \in Nat
  BY LenProperties DEF PathStrings
<1>3. node \in 0 .. Len(tree)
  BY <1>1, <1>2, ResolvePathType DEF Lookup
<1>4. opened = IF node = Null THEN -2 ELSE IF IsDir(tree, node) THEN -21
               ELSE IF free = {} THEN -24 ELSE Min(free)
  BY DEF OpenResult, ENOENT, EISDIR, EMFILE
<1>5. free # {} => Min(free) \in Fds
  <2>1. free \subseteq Nat /\ free \subseteq Fds
    BY FdFacts DEF FreeFds
  <2> QED BY <2>1, MinOfNat
<1>6. /\ node = Null => status.type = "error"
      /\ node # Null => status.type = tree[node].type /\ status.size = tree[node].length
  BY DEF StatResult, NodeStatus, Failure
<1>7. /\ \A capacity \in 0 .. SeekMax :
           ReadfileResult(p, path, capacity) =
             IF capacity = 0 \/ ~IsFile(tree, node) THEN -1
             ELSE Len(InitrdRead(Header(node), 0, Min({tree[node].length, capacity})))
      /\ ChdirResult(p, path) = IF IsDir(tree, node) THEN 0 ELSE -1
  BY DEF ReadfileResult, Header, ChdirResult
<1> HIDE DEF node, free
<1>8. -21 \notin Fds /\ -2 \notin Fds /\ Fds \subseteq Nat
  BY FdFacts
<1>9. CASE node = Null
  <2>1. /\ opened = -2 /\ status.type = "error" /\ ~IsFile(tree, node)
        /\ ~IsDir(tree, node)
    BY <1>4, <1>6, <1>9 DEF IsFile, IsDir
  <2>2. opened # -EISDIR /\ opened \notin Fds \cup {-EMFILE}
    BY <1>8, <2>1 DEF EISDIR, EMFILE
  <2> QED BY <1>7, <2>1, <2>2
<1>10. CASE node # Null
  <2>1. node \in 1 .. Len(tree)
    BY <1>1, <1>3, <1>10 DEF Null
  <2>2. /\ tree[node].type = "directory" \/ tree[node].type = "regular"
        /\ status.type = tree[node].type
    BY <1>1, <1>6, <1>10, <2>1, NodeType DEF WellFormed, Types
  <2>3. CASE tree[node].type = "directory"
    <3>1. /\ opened = -21 /\ status.type = "directory" /\ ~IsFile(tree, node)
          /\ IsDir(tree, node)
      BY <1>4, <1>10, <2>2, <2>3 DEF IsFile, IsDir
    <3>2. opened = -EISDIR /\ opened \notin Fds \cup {-EMFILE}
      BY <1>8, <3>1 DEF EISDIR, EMFILE
    <3> QED BY <1>7, <3>1, <3>2
  <2>4. CASE tree[node].type = "regular"
    <3>1. /\ opened = IF free = {} THEN -24 ELSE Min(free)
          /\ status.type = "regular" /\ IsFile(tree, node) /\ status.size = tree[node].length
          /\ ~IsDir(tree, node)
      BY <1>4, <1>6, <1>10, <2>2, <2>4 DEF IsFile, IsDir
    <3>2. opened # -EISDIR /\ opened \in Fds \cup {-EMFILE}
      BY <1>5, <1>8, <3>1 DEF EISDIR, EMFILE
    <3>3. ASSUME NEW capacity \in 0 .. SeekMax, capacity > 0
          PROVE  ReadfileResult(p, path, capacity) = Min({tree[node].length, capacity})
      <4> DEFINE l == tree[node].length
                 m == Min({l, capacity})
                 bytes == InitrdRead(Header(node), 0, m)
      <4>1. /\ l = Header(node).length /\ l \in 0 .. SeekMax /\ l \in Nat
            /\ Header(node).offset \in Nat
        BY <1>1, <2>1, <2>4, FileHeader
      <4>2. m = IF l <= capacity THEN l ELSE capacity
        <5> HIDE DEF l
        <5> QED BY <4>1, MinOfTwo, FdFacts
      <4>3. m \in Nat /\ m <= l
        <5> HIDE DEF l, m
        <5> QED BY <3>3, <4>1, <4>2, FdFacts
      <4> HIDE DEF m
      <4>4. IsRead(bytes, Header(node), 0, m)
        BY <4>1, <4>3, InitrdReadFacts
      <4>5. Len(bytes) = m
        <5>1. Len(bytes) = IF 0 >= l THEN 0 ELSE IF m <= l - 0 THEN m ELSE l - 0
          BY <4>1, <4>4 DEF IsRead
        <5> HIDE DEF l, bytes
        <5> QED BY <4>1, <4>3, <5>1
      <4>6. ReadfileResult(p, path, capacity) = Len(bytes)
        BY <1>7, <3>1, <3>3, FdFacts DEF m
      <4> QED BY <4>5, <4>6 DEF m
    <3>4. \A capacity \in 0 .. SeekMax :
            ReadfileResult(p, path, capacity) =
              IF status.type = "regular" /\ capacity > 0
              THEN Min({status.size, capacity}) ELSE -1
      <4> TAKE capacity \in 0 .. SeekMax
      <4>1. CASE capacity > 0
        BY <3>1, <3>3, <4>1
      <4>2. CASE ~(capacity > 0)
        <5>1. capacity = 0
          BY <4>2, FdFacts
        <5> QED BY <1>7, <4>2, <5>1
      <4> QED BY <4>1, <4>2
    <3> QED BY <1>7, <3>1, <3>2, <3>4
  <2> QED BY <2>2, <2>3, <2>4
<1> QED BY <1>9, <1>10

\* fstat, isatty, lseek and write on one descriptor.
LEMMA FdCallsAgree ==
  ASSUME FilesInv, NEW p \in Pids, proc[p].state = "alive", NEW fd \in 0 .. MaxFds,
         NEW status, status = FstatResult(p, fd), NEW end, end = LseekResult(p, fd, 0, 2)
  PROVE  /\ (status.type = "character") = (IsattyResult(p, fd) = 1)
         /\ (status.type = "character") = (end = -ESPIPE)
         /\ status.type = "regular" => end = status.size /\ WriteResult(p, fd, 1) = -EROFS
         /\ status.type = "error" => WriteResult(p, fd, 1) = -EBADF
<1> DEFINE d == proc[p].fds[fd]
<1>1. CASE ~Valid(p, fd)
  <2>1. /\ status.type = "error" /\ IsattyResult(p, fd) = -9 /\ end = -9
        /\ WriteResult(p, fd, 1) = -EBADF
    BY <1>1 DEF FstatResult, Failure, IsattyResult, LseekResult, WriteResult, EBADF
  <2>2. IsattyResult(p, fd) # 1 /\ end # -ESPIPE
    BY <2>1 DEF ESPIPE
  <2> QED BY <2>1, <2>2
<1>2. CASE Valid(p, fd) /\ ~NodeFd(p, fd)
  <2>1. /\ status.type = "character" /\ IsattyResult(p, fd) = 1 /\ end = -ESPIPE
    BY <1>2 DEF FstatResult, IsattyResult, LseekResult
  <2> QED BY <2>1
<1>3. CASE NodeFd(p, fd)
  <2>1. Valid(p, fd) /\ d.kind = "node"
    BY <1>3 DEF NodeFd
  <2>2. d \in FdRecords /\ OpenOn(d, tree) /\ phase # "boot"
    BY <1>3, LivingFacts, NodeFdFacts
  <2>3. /\ d.offset \in 0 .. SeekMax /\ tree[d.node].type = "regular"
        /\ tree[d.node].length \in 0 .. SeekMax
    BY <2>2, FdType, NodeLength DEF OpenOn
  <2> DEFINE l == tree[d.node].length
  <2>4. SeekTarget(d, 0, 2) = l
    <3>1. SeekBase(d, 2) = l
      BY DEF SeekBase
    <3>2. SeekTarget(d, 0, 2) =
            IF 2 \notin 0 .. 2 THEN -1
            ELSE IF 0 >= 0
            THEN IF l > SeekMax \/ 0 > SeekMax - l THEN -1 ELSE AsInt(l + 0)
            ELSE IF -0 > l THEN -1 ELSE AsInt(l - (-0))
      BY <3>1 DEF SeekTarget
    <3> HIDE DEF l
    <3>3. SeekTarget(d, 0, 2) = AsInt(l)
      BY <2>3, <3>2, FdFacts, SMTT(30) DEF l
    <3> QED BY <2>3, <3>3, FdFacts DEF AsInt, l
  <2>5. end = l
    <3>1. end = IF SeekTarget(d, 0, 2) < 0 THEN -EINVAL ELSE SeekTarget(d, 0, 2)
      BY <1>3, <2>1 DEF LseekResult
    <3> QED BY <2>3, <2>4, <3>1, FdFacts
  <2>6. status.type = "regular" /\ status.size = l
    BY <1>3, <2>1, <2>3 DEF FstatResult, NodeStatus
  <2>7. IsattyResult(p, fd) # 1 /\ WriteResult(p, fd, 1) = -EROFS
    BY <1>3, <2>1 DEF IsattyResult, WriteResult
  <2>8. end # -ESPIPE
    BY <2>3, <2>5, FdFacts DEF ESPIPE
  <2> QED BY <2>5, <2>6, <2>7, <2>8
<1> QED BY <1>1, <1>2, <1>3

\* mkdir makes a directory where stat found nothing, and stat finds it there.
LEMMA MkdirAgrees ==
  ASSUME FilesInv, NEW p \in Pids, proc[p].state = "alive", NEW path \in PathStrings,
         NEW made, made = MkdirPath(tree, proc[p].cwd, path), made # tree
  PROVE  /\ StatResult(p, path).type = "error" /\ Len(made) = Len(tree) + 1
         /\ ResolvePath(made, proc[p].cwd, path) = Len(made)
         /\ IsDir(made, Len(made))
<1>1. WellFormed(tree) /\ proc[p].cwd \in 1 .. Len(tree)
  BY DEF FilesInv, TreeInv, ProcInv, LivingInv
<1>2. path.names \in Seq(STRING \ {Empty})
  BY DEF PathStrings
<1>3. /\ ResolvePath(tree, proc[p].cwd, path) = Null
      /\ Len(made) = Len(tree) + 1
      /\ ResolvePath(made, proc[p].cwd, path) = Len(made) /\ IsDir(made, Len(made))
  BY <1>1, <1>2, MkdirFound
<1>4. StatResult(p, path).type = "error"
  BY <1>3 DEF StatResult, Lookup, Failure
<1> QED BY <1>3, <1>4

LEMMA CallsFromInv ==
  ASSUME FilesInv
  PROVE  CallsAgree
<1> SUFFICES ASSUME NEW p \in Pids, proc[p].state = "alive"
    PROVE
    /\ \A path \in Paths :
         LET status == StatResult(p, path)
             opened == OpenResult(p, path)
             made == MkdirPath(tree, proc[p].cwd, path)
         IN /\ (status.type = "directory") = (opened = -EISDIR)
            /\ (status.type = "directory") = (ChdirResult(p, path) = 0)
            /\ (status.type = "regular") = (opened \in Fds \cup {-EMFILE})
            /\ \A capacity \in 0 .. SeekMax :
                 ReadfileResult(p, path, capacity) =
                   IF status.type = "regular" /\ capacity > 0
                   THEN Min({status.size, capacity}) ELSE -1
            /\ made # tree =>
                 /\ status.type = "error" /\ Len(made) = Len(tree) + 1
                 /\ ResolvePath(made, proc[p].cwd, path) = Len(made)
                 /\ IsDir(made, Len(made))
    /\ \A fd \in 0 .. MaxFds :
         LET status == FstatResult(p, fd)
             end == LseekResult(p, fd, 0, 2)
         IN /\ (status.type = "character") = (IsattyResult(p, fd) = 1)
            /\ (status.type = "character") = (end = -ESPIPE)
            /\ status.type = "regular" =>
                 end = status.size /\ WriteResult(p, fd, 1) = -EROFS
            /\ status.type = "error" => WriteResult(p, fd, 1) = -EBADF
  BY DEF CallsAgree
<1>1. ASSUME NEW path \in Paths
      PROVE  LET status == StatResult(p, path)
                 opened == OpenResult(p, path)
                 made == MkdirPath(tree, proc[p].cwd, path)
             IN /\ (status.type = "directory") = (opened = -EISDIR)
                /\ (status.type = "directory") = (ChdirResult(p, path) = 0)
                /\ (status.type = "regular") = (opened \in Fds \cup {-EMFILE})
                /\ \A capacity \in 0 .. SeekMax :
                     ReadfileResult(p, path, capacity) =
                       IF status.type = "regular" /\ capacity > 0
                       THEN Min({status.size, capacity}) ELSE -1
                /\ made # tree =>
                     /\ status.type = "error" /\ Len(made) = Len(tree) + 1
                     /\ ResolvePath(made, proc[p].cwd, path) = Len(made)
                     /\ IsDir(made, Len(made))
  <2> DEFINE status == StatResult(p, path)
             opened == OpenResult(p, path)
             made == MkdirPath(tree, proc[p].cwd, path)
  <2>1. path \in PathStrings
    BY PathsAssumption
  <2>2. /\ (status.type = "directory") = (opened = -EISDIR)
        /\ (status.type = "directory") = (ChdirResult(p, path) = 0)
        /\ (status.type = "regular") = (opened \in Fds \cup {-EMFILE})
        /\ \A capacity \in 0 .. SeekMax :
             ReadfileResult(p, path, capacity) =
               IF status.type = "regular" /\ capacity > 0
               THEN Min({status.size, capacity}) ELSE -1
    BY <2>1, PathCallsAgree
  <2>3. made # tree =>
          /\ status.type = "error" /\ Len(made) = Len(tree) + 1
          /\ ResolvePath(made, proc[p].cwd, path) = Len(made)
          /\ IsDir(made, Len(made))
    BY <2>1, MkdirAgrees
  <2> QED BY <2>2, <2>3, Zenon
<1>2. ASSUME NEW fd \in 0 .. MaxFds
      PROVE  LET status == FstatResult(p, fd)
                 end == LseekResult(p, fd, 0, 2)
             IN /\ (status.type = "character") = (IsattyResult(p, fd) = 1)
                /\ (status.type = "character") = (end = -ESPIPE)
                /\ status.type = "regular" =>
                     end = status.size /\ WriteResult(p, fd, 1) = -EROFS
                /\ status.type = "error" => WriteResult(p, fd, 1) = -EBADF
  BY FdCallsAgree
<1> QED BY <1>1, <1>2

-----------------------------------------------------------------------------
(* Lookups against the tree as a set of paths. *)

LEMMA LookupFromInv ==
  ASSUME FilesInv
  PROVE  LookupExact
<1> DEFINE P == PathTo(tree)
           R == Range(P)
<1> SUFFICES ASSUME phase = "up", NEW cwd \in 1 .. Len(tree), NEW path \in Probes,
                    IsDir(tree, cwd)
             PROVE  LET node == ResolvePath(tree, cwd, path)
                        names == Follow(R, IF path.abs THEN <<>> ELSE P[cwd],
                                        path.names)[Len(path.names)]
                    IN IF node = Null THEN names = Fails ELSE P[node] = names
  BY DEF LookupExact
<1> DEFINE names == path.names
           start == Start(cwd, path)
<1>1. WellFormed(tree) /\ Len(tree) \in Nat /\ Len(tree) >= 1
  BY TreeLength DEF FilesInv, TreeInv, WellFormed
<1>2. path \in PathStrings /\ names \in Seq(STRING \ {Empty}) /\ path.abs \in BOOLEAN
  BY PathsAssumption DEF PathStrings
<1>3. Len(names) \in Nat /\ \A k \in 1 .. Len(names) : names[k] \in Names
  BY <1>2, LenProperties, ElementOfSeq DEF Names
<1>4. start \in 1 .. Len(tree) /\ P[start] = IF path.abs THEN <<>> ELSE P[cwd]
  BY <1>1, PathToFacts DEF Start, Root
<1>5. Matches(tree, Walk(tree, start, names)[Len(names)], Follow(R, P[start], names)[Len(names)])
  <2> HIDE DEF names, start
  <2>1. \A k \in 0 .. Len(names) :
           Matches(tree, Walk(tree, start, names)[k], Follow(R, P[start], names)[k])
    BY <1>1, <1>3, <1>4, WalkFollows
  <2> QED BY <1>3, <2>1
<1>6. ResolvePath(tree, cwd, path) = Walk(tree, start, names)[Len(names)]
  BY DEF ResolvePath
<1> QED BY <1>4, <1>5, <1>6 DEF Matches

LEMMA GetcwdFromInv ==
  ASSUME FilesInv
  PROVE  GetcwdExact
<1> SUFFICES ASSUME phase = "up", NEW n \in 1 .. Len(tree),
                    NEW capacity \in 2 .. PathBytes(MaxComponents)
             PROVE  LET path == GetPath(tree, n, capacity)
                        depth == Len(PathTo(tree)[n])
                    IN IF depth > MaxComponents \/ PathBytes(depth) > capacity
                       THEN path = NoPath
                       ELSE path.abs /\ ResolvePath(tree, Root, path) = n
  BY DEF GetcwdExact
<1>1. WellFormed(tree)
  BY DEF FilesInv, TreeInv
<1> QED BY <1>1, GetPathExact

-----------------------------------------------------------------------------
(* What boot mounted stays mounted. *)

LEMMA PackedArchive ==
  ASSUME Packed
  PROVE  /\ headers \in Seq(ArchiveHeader) /\ Len(headers) \in Nat
         /\ MakeInitrdAccepts(headers) /\ Layout(headers)
<1>1. PICK files \in Archives : MakeInitrdAccepts(files) /\ headers = Headers(files)
  BY DEF Packed
<1> DEFINE F == [name : ArchiveName, length : 0 .. SeekMax]
<1>2. files \in Seq(F)
  BY ArchivesAssumption DEF ArchiveName
<1>3. Len(files) \in Nat /\ \A i \in 1 .. Len(files) : files[i] \in F
  <2> HIDE DEF F
  <2> QED BY <1>2, LenProperties, ElementOfSeq
<1>4. \A i \in 1 .. Len(files) : files[i] \in ArchiveFile
  BY <1>3, SeekAssumption DEF ArchiveFile
<1>5. files \in Seq(ArchiveFile)
  <2>1. files = [i \in 1 .. Len(files) |-> files[i]]
    <3> HIDE DEF F
    <3> QED BY <1>2, LenProperties
  <2>2. files \in [1 .. Len(files) -> ArchiveFile]
    BY <1>4, <2>1
  <2> QED BY <1>3, <2>2
<1>6. MakeInitrdAccepts(headers) /\ Layout(headers)
  BY <1>1, <1>5, HeadersAccepted, HeadersLayout
<1> QED BY <1>6, PackedHeaders

\* Every file of the archive is in the tree; a panic was for an archive no tree can hold.
PlacedInv ==
  /\ phase = "panic" => ~Mountable(headers)
  /\ phase = "up" => Filled(tree, headers, Len(headers)) /\ DevHeld(tree)

LEMMA InitPlaced == ShInit => PlacedInv
BY DEF ShInit, Init, PlacedInv

LEMMA BootPlaced ==
  ASSUME FilesInv, Boot
  PROVE  PlacedInv'
<1> DEFINE end == ImageEnd(headers)
           mounted == InitialiseInitrd(headers, end)
<1>1. /\ headers' = headers /\ tree' = mounted.tree
      /\ \/ phase' = "up" /\ mounted.ok
         \/ phase' = "panic" /\ ~mounted.ok
  BY Zenon DEF Boot
<1>2. /\ headers \in Seq(ArchiveHeader) /\ Len(headers) \in Nat
      /\ MakeInitrdAccepts(headers) /\ Layout(headers)
  BY PackedArchive DEF FilesInv
<1>3. \A i \in 1 .. Len(headers) : InImage(headers[i], end)
  BY <1>2, LayoutInImage
<1> HIDE DEF end
<1>4. MountState(mounted, headers) /\ Mounted(mounted, headers, Len(headers))
  <2>1. Len(headers) \in 0 .. Len(headers)
    BY <1>2
  <2>2. MountState(mounted, headers)
    BY <1>2, <2>1, MountingSteps DEF InitialiseInitrd
  <2>3. Mounted(mounted, headers, Len(headers))
    BY <1>2, <1>3, <2>1, MountingContents DEF InitialiseInitrd
  <2> QED BY <2>2, <2>3
<1> HIDE DEF mounted
<1>5. mounted.ok \in BOOLEAN
  BY <1>4 DEF MountState, MountRecords
<1>6. CASE phase' = "up" /\ mounted.ok
  <2>1. mounted.ok = TRUE
    BY <1>5, <1>6
  <2>2. Contents(mounted.tree, headers, Len(headers), Len(headers))
    BY <1>4, <2>1 DEF Mounted
  <2> QED BY <1>1, <1>6, <2>2 DEF PlacedInv, Contents
<1>7. CASE phase' = "panic" /\ ~mounted.ok
  <2>1. mounted.ok = FALSE
    BY <1>5, <1>7
  <2>2. ~Mountable(headers)
    BY <1>4, <2>1 DEF Mounted
  <2> QED BY <1>1, <1>7, <2>2 DEF PlacedInv
<1> QED BY <1>1, <1>6, <1>7

LEMMA MkdirPlaced ==
  ASSUME FilesInv, PlacedInv, NEW p \in Pids, NEW path \in PathStrings, Mkdir(p, path)
  PROVE  PlacedInv'
<1>1. /\ Grows(tree, tree') /\ Alive(p)
      /\ UNCHANGED <<headers, phase, proc, next_pid>>
  BY MkdirGrows
<1>2. phase = "up" /\ WellFormed(tree)
  BY <1>1, AliveFacts
<1>3. WellFormed(tree')
  BY <1>1, <1>2, GrowsKeepsWellFormed
<1>4. PICK parent \in 1 .. Len(tree), name \in Names :
        Attached(tree, tree', parent, NewDirectory(name))
  BY <1>1 DEF Grows
<1>5. Filled(tree, headers, Len(headers)) /\ DevHeld(tree)
  BY <1>2 DEF PlacedInv
<1>6. Filled(tree', headers, Len(headers)) /\ DevHeld(tree')
  <2> DEFINE u == tree'
             node == NewDirectory(name)
  <2> HIDE DEF u, node
  <2>1. WellFormed(u) /\ Attached(tree, u, parent, node)
    BY <1>3, <1>4 DEF u, node
  <2>2. Filled(u, headers, Len(headers)) /\ DevHeld(u)
    BY <1>2, <1>5, <2>1, AttachKeepsHeld
  <2> QED BY <2>2 DEF u
<1> QED BY <1>1, <1>2, <1>6 DEF PlacedInv

LEMMA SamePlaced ==
  ASSUME PlacedInv, headers' = headers, phase' = phase, tree' = tree
  PROVE  PlacedInv'
BY DEF PlacedInv

LEMMA StepPlaced == IInv /\ PlacedInv /\ [Next]_vars => PlacedInv'
<1> SUFFICES ASSUME FilesInv, ShInv, PlacedInv, [Next]_vars PROVE PlacedInv'
  BY DEF IInv
<1>1. CASE StartShell
  BY <1>1, BootPlaced DEF StartShell
<1>2. CASE CommandLs
  BY <1>2, SamePlaced DEF CommandLs, fileVars
<1>3. ASSUME NEW path \in ShellPaths, Command(path) PROVE PlacedInv'
  <2>1. path \in PathStrings /\ Shell \in Pids
    BY ShellAssumption, PidFacts
  <2>2. CASE CommandMkdir(path)
    BY <2>1, <2>2, MkdirPlaced DEF CommandMkdir
  <2>3. CASE CommandCd(path) \/ CommandExec(path) \/ CommandCat(path) \/ CommandRun(path)
    BY <2>3, SamePlaced DEF CommandCd, Chdir, CommandExec, CommandCat, Open, CommandRun, Fork
  <2> QED BY <1>3, <2>2, <2>3 DEF Command
<1>4. CASE ShellStep
  BY <1>4, SamePlaced
     DEF ShellStep, LsNext, CatRead, CatClose, WaitChild, Read, Close, Reap, fileVars
<1>5. ASSUME NEW p \in Pids, ChildExecs(p) \/ ChildFails(p) \/ Killed(p) PROVE PlacedInv'
  BY <1>5, SamePlaced DEF ChildExecs, ChildFails, Killed, Exit
<1>6. ASSUME NEW p \in Pids, ProgramCall(p) PROVE PlacedInv'
  <2>1. CASE \E path \in Paths : Mkdir(p, path)
    BY <2>1, PathsAssumption, MkdirPlaced
  <2>2. CASE ~\E path \in Paths : Mkdir(p, path)
    <3>1. headers' = headers /\ phase' = phase /\ tree' = tree
      BY <1>6, <2>2 DEF ProgramCall, Open, Chdir, Close, Read, Lseek, Fork, Exit, Reap
    <3> QED BY <3>1, SamePlaced
  <2> QED BY <2>1, <2>2
<1>7. CASE UNCHANGED vars
  BY <1>7, SamePlaced DEF vars, fileVars
<1> QED BY <1>1, <1>2, <1>3, <1>4, <1>5, <1>6, <1>7 DEF Next

LEMMA PlacedInvariance == Spec => [](IInv /\ PlacedInv)
BY InitInv, StepInv, InitPlaced, StepPlaced, PTL DEF Spec

\* The bytes that initrd_read() gives, whatever the offset and the size.
LEMMA FileBytes ==
  ASSUME NEW h, h.offset \in Nat, h.length \in 0 .. SeekMax
  PROVE  BytesRead(h) = h.offset .. h.offset + h.length - 1
<1> DEFINE s(f, z) == InitrdRead(h, f, z)
           o == h.offset
           n == h.length
           all == UNION {Range(s(f, z)) : f, z \in 0 .. SeekMax}
<1>1. SeekMax \in Nat /\ n \in Nat /\ 0 \in 0 .. SeekMax /\ n \in 0 .. SeekMax
  BY FdFacts
<1>2. ASSUME NEW f \in 0 .. SeekMax, NEW z \in 0 .. SeekMax
      PROVE  /\ IsRead(s(f, z), h, f, z)
             /\ \A x : x \in Range(s(f, z)) <=> \E k \in 1 .. Len(s(f, z)) : s(f, z)[k] = x
  <2>1. IsRead(s(f, z), h, f, z)
    BY <1>1, InitrdReadFacts
  <2> HIDE DEF s
  <2>2. s(f, z) \in Seq(Nat)
    BY <2>1 DEF IsRead
  <2> QED BY <2>1, <2>2, RangeFacts
<1> HIDE DEF s
<1>3. ASSUME NEW f \in 0 .. SeekMax, NEW z \in 0 .. SeekMax, NEW x \in Range(s(f, z))
      PROVE  x \in o .. o + n - 1
  <2>1. PICK k \in 1 .. Len(s(f, z)) : s(f, z)[k] = x
    BY <1>2
  <2>2. IsRead(s(f, z), h, f, z)
    BY <1>2
  <2>3. /\ Len(s(f, z)) = IF f >= n THEN 0 ELSE IF z <= n - f THEN z ELSE n - f
        /\ x = o + f + k - 1
    BY <2>1, <2>2 DEF IsRead
  <2>4. f < n /\ k \in 1 .. n - f
    BY <1>1, <2>1, <2>3
  <2> QED BY <1>1, <2>3, <2>4
<1>4. ASSUME NEW x \in o .. o + n - 1 PROVE x \in Range(s(0, n))
  <2> DEFINE k == x - o + 1
  <2>1. k \in 1 .. n /\ o + k - 1 = x
    BY <1>1
  <2>2. IsRead(s(0, n), h, 0, n)
    BY <1>1, <1>2
  <2>3. Len(s(0, n)) = n /\ \A i \in 1 .. n : s(0, n)[i] = o + i - 1
    BY <1>1, <2>2 DEF IsRead
  <2>4. \A y : y \in Range(s(0, n)) <=> \E i \in 1 .. Len(s(0, n)) : s(0, n)[i] = y
    BY <1>1, <1>2
  <2> HIDE DEF k
  <2> QED BY <2>1, <2>3, <2>4
<1>5. all = o .. o + n - 1
  <2>1. \A x : x \in all => x \in o .. o + n - 1
    BY <1>3
  <2>2. \A x : x \in o .. o + n - 1 => x \in all
    BY <1>1, <1>4
  <2> HIDE DEF all
  <2> QED BY <2>1, <2>2
<1> QED BY <1>5 DEF s, BytesRead

LEMMA BootFromInv ==
  ASSUME FilesInv, PlacedInv
  PROVE  BootExact
<1> DEFINE Bytes(k) == BytesRead(headers[k])
           node(i) == ResolvePath(tree, Root, [abs |-> TRUE, names |-> headers[i].name])
<1>1. /\ headers \in Seq(ArchiveHeader) /\ Len(headers) \in Nat /\ Layout(headers)
  BY PackedArchive DEF FilesInv
<1>2. phase = "panic" => ~Mountable(headers)
  BY DEF PlacedInv
<1>3. ASSUME phase = "up" PROVE Mountable(headers)
  BY <1>1, <1>3, FilledMountable DEF FilesInv, TreeInv, PlacedInv
<1>4. ASSUME phase = "up", NEW i \in 1 .. Len(headers)
      PROVE  IsFile(tree, node(i)) /\ tree[node(i)].inode = i
  <2>1. WellFormed(tree)
    BY <1>4 DEF FilesInv, TreeInv
  <2>2. PICK n \in 1 .. Len(tree) : IsFileOf(tree, headers, i, n)
    BY <1>4 DEF PlacedInv, Filled
  <2>3. PathTo(tree)[n] = headers[i].name /\ tree[n].type = "regular" /\ tree[n].inode = i
    BY <2>2 DEF IsFileOf
  <2>4. node(i) = n
    <3> DEFINE name == headers[i].name
               path == [abs |-> TRUE, names |-> name]
    <3>1. path.abs = TRUE /\ path.names = name
      BY Zenon
    <3> HIDE DEF path
    <3>2. ResolvePath(tree, Root, path) = Walk(tree, Root, name)[Len(name)]
      BY <3>1 DEF ResolvePath, Start
    <3>3. Walk(tree, Root, name)[Len(name)] = n
      BY <2>1, <2>3, WalkTo
    <3> QED BY <3>2, <3>3 DEF path
  <2> QED BY <2>3, <2>4 DEF IsFile, Null
<1>5. ASSUME NEW i \in 1 .. Len(headers)
      PROVE  /\ headers[i].offset \in Nat /\ headers[i].length \in Nat
             /\ Bytes(i) = headers[i].offset .. headers[i].offset + headers[i].length - 1
  <2>1. headers[i].offset \in Nat /\ headers[i].length \in 0 .. SeekMax
    BY PackedHeaders DEF FilesInv
  <2> QED BY <2>1, FileBytes, FdFacts
<1> HIDE DEF Bytes
<1>6. ASSUME NEW i \in 1 .. Len(headers)
      PROVE  /\ Cardinality(Bytes(i)) = headers[i].length
             /\ Bytes(i) \subseteq 0 .. ImageEnd(headers) - 1
  <2> DEFINE o == headers[i].offset
             n == headers[i].length
  <2>1. o \in Nat /\ n \in Nat /\ Bytes(i) = o .. o + n - 1
    BY <1>5
  <2>2. ImageEnd(headers) \in Nat /\ o + n <= ImageEnd(headers)
    BY <1>1 DEF Layout
  <2> HIDE DEF o, n
  <2>3. Cardinality(o .. o + n - 1) = n
    <3>1. Cardinality(o .. o + n - 1) = IF o > o + n - 1 THEN 0 ELSE (o + n - 1) - o + 1
      BY <2>1, FS_Interval
    <3> QED BY <2>1, <3>1
  <2>4. Bytes(i) \subseteq 0 .. ImageEnd(headers) - 1
    BY <2>1, <2>2
  <2> QED BY <2>1, <2>3, <2>4 DEF n
<1>7. ASSUME NEW i \in 1 .. Len(headers), NEW j \in 1 .. Len(headers), i < j
      PROVE  Bytes(i) \cap Bytes(j) = {}
  <2>1. headers[i].offset + headers[i].length <= headers[j].offset
    BY <1>1, <1>7 DEF Layout
  <2> DEFINE a == headers[i].offset
             b == headers[i].offset + headers[i].length - 1
             c == headers[j].offset
             d == headers[j].offset + headers[j].length - 1
  <2>2. /\ a \in Int /\ b \in Int /\ c \in Int /\ d \in Int /\ b < c
        /\ Bytes(i) = a .. b /\ Bytes(j) = c .. d
    <3>1. /\ headers[i].offset \in Nat /\ headers[i].length \in Nat
          /\ headers[j].offset \in Nat /\ headers[j].length \in Nat
      BY <1>5
    <3>2. Bytes(i) = a .. b
      BY <1>5
    <3>3. Bytes(j) = c .. d
      BY <1>5
    <3>4. a \in Int /\ b \in Int /\ c \in Int /\ d \in Int /\ b < c
      BY <2>1, <3>1, SMTT(30)
    <3> HIDE DEF a, b, c, d
    <3> QED BY <3>2, <3>3, <3>4
  <2> HIDE DEF a, b, c, d
  <2>3. (a .. b) \cap (c .. d) = {}
    BY <2>2
  <2> QED BY <2>2, <2>3
<1>8. ASSUME NEW i \in 1 .. Len(headers), NEW j \in 1 .. Len(headers), i # j
      PROVE  Bytes(i) \cap Bytes(j) = {}
  <2>1. CASE i < j
    BY <1>7, <2>1
  <2>2. CASE j < i
    BY <1>7, <2>2
  <2> QED BY <1>1, <1>8, <2>1, <2>2
<1> HIDE DEF node
<1> QED BY <1>2, <1>3, <1>4, <1>6, <1>8 DEF BootExact, Bytes, node

-----------------------------------------------------------------------------
(* The theorems. *)

(***************************************************************************)
(* Processes, descriptors, offsets and nodes keep their types: every node  *)
(* that a descriptor, a working directory or a list names exists, and an   *)
(* offset fits the int that lseek() returns.                               *)
(***************************************************************************)
THEOREM ShellTypes == Spec => []TypeOK
<1>1. IInv => TypeOK
  BY TypeFromInv
<1> QED BY <1>1, Invariance, PTL

(***************************************************************************)
(* initialise_initrd() and every mkdir after it leave a tree: each node    *)
(* once in the list of an older directory, names unique in a directory.    *)
(***************************************************************************)
THEOREM FileTreeWellFormed == Spec => []TreeWellFormed
<1>1. IInv => TreeWellFormed
  BY TreeFromInv DEF IInv
<1> QED BY <1>1, Invariance, PTL

(***************************************************************************)
(* resolve_path_fs() agrees, from every directory and for every path, with *)
(* following the names on the set of paths of the tree, "." and ".."       *)
(* included.                                                               *)
(***************************************************************************)
THEOREM LookupsExact == Spec => []LookupExact
<1>1. IInv => LookupExact
  BY LookupFromInv DEF IInv
<1> QED BY <1>1, Invariance, PTL

(***************************************************************************)
(* get_path_fs() gives the path that resolve_path_fs() leads back to the   *)
(* node, unless the node is too deep or the buffer too small; then it      *)
(* fails.                                                                  *)
(***************************************************************************)
THEOREM GetcwdReturns == Spec => []GetcwdExact
<1>1. IInv => GetcwdExact
  BY GetcwdFromInv DEF IInv
<1> QED BY <1>1, Invariance, PTL

(***************************************************************************)
(* open, close, read, lseek, fork, exec and exit keep the descriptor table *)
(* of a living process on its streams and on regular files, and leave a    *)
(* dead one with none.                                                     *)
(***************************************************************************)
THEOREM DescriptorsSound == Spec => []DescriptorsConsistent
<1>1. IInv => DescriptorsConsistent
  BY DescriptorsFromInv DEF IInv
<1> QED BY <1>1, Invariance, PTL

(***************************************************************************)
(* task_seek_descriptor() and newlib_result() give base + offset when an   *)
(* int can hold it, EINVAL otherwise, at every base and every offset.      *)
(***************************************************************************)
THEOREM SeeksExact == Spec => []LseekExact
<1>1. IInv => LseekExact
  BY LseekFromInv DEF IInv
<1> QED BY <1>1, Invariance, PTL

(***************************************************************************)
(* stat, open, chdir and readfile agree on a path; fstat, isatty, lseek    *)
(* and write agree on a descriptor.                                        *)
(***************************************************************************)
THEOREM ServicesAgree == Spec => []CallsAgree
<1>1. IInv => CallsAgree
  BY CallsFromInv DEF IInv
<1> QED BY <1>1, Invariance, PTL

(***************************************************************************)
(* The kernel mounts what make_initrd packed exactly when a tree can hold  *)
(* it; every file then stays at its path with its own bytes, whatever      *)
(* directories are made later.                                             *)
(***************************************************************************)
THEOREM MountExact == Spec => []BootExact
<1>1. IInv /\ PlacedInv => BootExact
  BY BootFromInv DEF IInv
<1> QED BY <1>1, PlacedInvariance, PTL

(***************************************************************************)
(* ls prints every entry that was there when it began, and repeats no more *)
(* than directories were made while it ran.                                *)
(***************************************************************************)
THEOREM LsComplete == Spec => []ListingComplete
<1>1. IInv => ListingComplete
  BY ListingFromInv
<1> QED BY <1>1, Invariance, PTL

(***************************************************************************)
(* cat prints its file, each byte once and in order, and closes only after *)
(* the last.                                                               *)
(***************************************************************************)
THEOREM CatExact == Spec => []CatPrintsFile
<1>1. IInv => CatPrintsFile
  BY CatFromInv
<1> QED BY <1>1, Invariance, PTL

(***************************************************************************)
(* Whenever the shell is back at its prompt, the command has left no open  *)
(* file and no child; the child it polls with waitpid is its own.          *)
(***************************************************************************)
THEOREM PromptSound == Spec => []PromptClean
<1>1. IInv => PromptClean
  BY PromptFromInv
<1> QED BY <1>1, Invariance, PTL
=============================================================================
