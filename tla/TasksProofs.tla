---------------------------- MODULE TasksProofs ----------------------------
(***************************************************************************)
(* Proofs about Tasks for every number of processes, every set of signals  *)
(* and every stack and keyboard size.  The functions of task.c and         *)
(* signal.c are operators on a task table; one lemma each says what it     *)
(* keeps (TableInv) and what it may do to the process that runs and to the *)
(* others.  The theorems about the specification follow from those.        *)
(***************************************************************************)
EXTENDS Tasks, TLAPS, SequenceTheorems, WellFoundedInduction

-----------------------------------------------------------------------------
(* The inductive invariant. *)

TaskInv(t) ==
  /\ t.state = "waiting" => t.pc \in {"switch", "woken"}
  /\ t.state = "zombie" <=> t.state # "free" /\ t.pc \in ExitPcs
  /\ t.handlers[SIGKILL] = "default"
  /\ \A s \in Sigs : t.handlers[s] = "catch" => t.trampoline
  /\ t.active # 0 => SigreturnSucceeds(t)
  /\ t.active # SIGKILL
  /\ Len(t.frames) <= MaxFrames
  /\ t.pc \in {"taken", "exit"} => t.sig # 0

TableInv(T) ==
  /\ T \in [Pids -> Task]
  /\ \A p \in Pids : TaskInv(T[p])
  /\ \A p \in Pids : T[p].pc = "idle" <=> p = 0
  /\ T[0].state = "runnable"

(***************************************************************************)
(* The family tree: a parent is older than its child, and the PIDs from n  *)
(* on have not been handed out.                                            *)
(***************************************************************************)
Family(T, n) ==
  \A p \in Pids :
    /\ p >= n => T[p] = FreeTask
    /\ T[p].state # "free" => T[p].parent_id < p

CurrentInv ==
  /\ task[current].pc \in {"notify", "leave"} \/ task[current].pc = "switch"
       \/ task[current].state = "runnable"
  /\ task[current].state # "free"

IInv ==
  /\ TypeOK
  /\ TableInv(task)
  /\ Family(task, next_pid)
  /\ CurrentInv

-----------------------------------------------------------------------------
(* Smallest elements and the next runnable task. *)

LEMMA MinOfNat ==
  ASSUME NEW S, S \subseteq Nat, S # {}
  PROVE  Min(S) \in S /\ \A y \in S : Min(S) <= y
<1>1. PICK x \in S : \A y \in S : ~(<<y, x>> \in OpToRel(<, Nat))
  BY NatLessThanWellFounded, WFMin, Zenon
<1>2. \A y \in S : x <= y
  <2>1. SUFFICES ASSUME NEW y \in S PROVE x <= y
    OBVIOUS
  <2>2. <<y, x>> \in OpToRel(<, Nat) <=> y < x
    BY DEF OpToRel
  <2>3. ~(y < x)
    BY <1>1, <2>2, Zenon
  <2>4. x \in Nat /\ y \in Nat
    OBVIOUS
  <2> QED BY <2>3, <2>4
<1> QED BY <1>2 DEF Min

LEMMA NextRunnableIsRunnable ==
  ASSUME NEW T, TableInv(T), NEW c \in Pids
  PROVE  NextRunnable(T, c) \in Pids /\ T[NextRunnable(T, c)].state = "runnable"
<1> DEFINE after == {q \in Pids : q > c /\ T[q].state = "runnable"}
<1>1. CASE after = {}
  <2>1. NextRunnable(T, c) = 0
    BY <1>1 DEF NextRunnable
  <2> QED BY <2>1, MaxPidAssumption DEF TableInv, Pids
<1>2. CASE after # {}
  <2>1. after \subseteq Nat
    BY DEF Pids
  <2>2. Min(after) \in after
    BY <1>2, <2>1, MinOfNat
  <2>3. NextRunnable(T, c) = Min(after)
    BY <1>2 DEF NextRunnable
  <2> QED BY <2>2, <2>3
<1> QED BY <1>1, <1>2

-----------------------------------------------------------------------------
(* Replacing one entry of the table. *)

LEMMA ReplaceEntry ==
  ASSUME NEW T, TableInv(T), NEW p \in Pids, p # 0,
         NEW U \in [Pids -> Task], TaskInv(U[p]), U[p].pc # "idle",
         \A q \in Pids \ {p} : U[q] = T[q]
  PROVE  TableInv(U)
<1>1. 0 \in Pids
  BY MaxPidAssumption DEF Pids
<1>2. \A q \in Pids : TaskInv(U[q])
  BY DEF TableInv
<1>3. \A q \in Pids : U[q].pc = "idle" <=> q = 0
  BY DEF TableInv
<1>4. U[0].state = "runnable"
  BY <1>1 DEF TableInv
<1> QED BY <1>2, <1>3, <1>4 DEF TableInv

-----------------------------------------------------------------------------
(***************************************************************************)
(* What a call of process p may do: to the others, only a signal and the   *)
(* waking that comes with it; to p itself, go on or die.                   *)
(***************************************************************************)
Others(T, U, p) ==
  \A q \in Pids \ {p} :
    /\ U[q].parent_id = T[q].parent_id
    /\ U[q].exit_status = T[q].exit_status
    /\ T[q].pending \subseteq U[q].pending
    /\ U[q].pc = T[q].pc
    /\ T[q].state \in {"free", "zombie", "runnable"} => U[q].state = T[q].state
    /\ T[q].state = "waiting" => U[q].state \in {"waiting", "runnable"}
    /\ T[q].state = "free" => U[q] = T[q]

Own(T, U, p) ==
  /\ U[p].parent_id = T[p].parent_id
  /\ \/ /\ \/ T[p].state \in {"runnable", "waiting"} /\ U[p].state \in {"runnable", "waiting"}
           \/ U[p].state = T[p].state
        /\ U[p].exit_status = T[p].exit_status
     \/ /\ T[p].state \in {"runnable", "waiting"}
        /\ U[p].state = "zombie"
        /\ U[p].exit_status \in Statuses

\* The status of a process that dies of signal s.
KilledBy(s) == 128 + s

\* A pending SIGKILL of p is still pending, or has killed it.
KillKept(T, U, p) ==
  SIGKILL \in T[p].pending /\ SIGKILL \notin U[p].pending
    => U[p].state = "zombie" /\ U[p].exit_status = KilledBy(SIGKILL)

LEMMA SignalNumbers ==
  /\ SIGKILL \in Sigs /\ SIGCHLD \in Sigs
  /\ \A s \in Sigs : s \in Nat /\ s # 0
BY SigsAssumption DEF SIGKILL, SIGCHLD

LEMMA SendKeeps ==
  ASSUME NEW T, TableInv(T), NEW q, NEW s \in Sigs, NEW p \in Pids
  PROVE  /\ TableInv(Send(T, q, s))
         /\ Others(T, Send(T, q, s), p)
         /\ q # p => Send(T, q, s)[p] = T[p]
         /\ T[p].state = "runnable"
              => /\ Send(T, q, s)[p].state = "runnable"
                 /\ Own(T, Send(T, q, s), p) /\ KillKept(T, Send(T, q, s), p)
<1> DEFINE U == Send(T, q, s)
<1>1. CASE ~Signallable(T, q)
  <2>1. U = T
    BY <1>1 DEF Send
  <2> QED BY <2>1 DEF Others, Own, KillKept
<1>2. CASE Signallable(T, q)
  <2> DEFINE t == [T[q] EXCEPT !.pending = IF Ignored(T[q], s) THEN @ ELSE @ \cup {s},
                               !.state = "runnable"]
  <2>1. q \in Pids /\ q # 0 /\ T[q].state \in {"runnable", "waiting"}
    BY <1>2 DEF Signallable
  <2>2. T \in [Pids -> Task] /\ T[q] \in Task /\ TaskInv(T[q]) /\ T[q].pc # "idle"
    BY <2>1 DEF TableInv
  <2>3. t \in Task /\ t.pc # "idle"
    BY <2>2 DEF Task, States
  <2>4. TaskInv(t)
    BY <2>1, <2>2 DEF TaskInv, Task, SigreturnSucceeds, ExitPcs
  <2>5. U = [T EXCEPT ![q] = t]
    BY <1>2, <2>2 DEF Send, Task
  <2>6. /\ t.parent_id = T[q].parent_id /\ t.exit_status = T[q].exit_status
        /\ T[q].pending \subseteq t.pending /\ t.pc = T[q].pc /\ t.state = "runnable"
    BY <2>2 DEF Task
  <2> HIDE DEF U, t
  <2>7. /\ U \in [Pids -> Task] /\ U[q] = t
        /\ \A r \in Pids \ {q} : U[r] = T[r]
    BY <2>1, <2>2, <2>3, <2>5
  <2>11. TableInv(U)
    BY <2>1, <2>3, <2>4, <2>7, ReplaceEntry
  <2>8. Others(T, U, p)
    BY <2>1, <2>6, <2>7 DEF Others
  <2>9. T[p].state = "runnable"
          => U[p].state = "runnable" /\ Own(T, U, p) /\ KillKept(T, U, p)
    BY <2>1, <2>6, <2>7 DEF Own, KillKept
  <2>10. q # p => U[p] = T[p]
    BY <2>7
  <2> QED BY <2>8, <2>9, <2>10, <2>11 DEF U
<1> QED BY <1>1, <1>2

LEMMA BecomeZombieKeeps ==
  ASSUME NEW T, TableInv(T), NEW p \in Pids, p # 0, T[p].state # "free",
         NEW status \in Statuses, NEW where \in ExitPcs,
         NEW U, U = BecomeZombie(T, p, status, where)
  PROVE  /\ TableInv(U)
         /\ \A q \in Pids \ {p} : U[q] = T[q]
         /\ U[p].state = "zombie" /\ U[p].exit_status = status /\ U[p].pc = where
         /\ U[p].parent_id = T[p].parent_id /\ U[p].pending = T[p].pending
<1> DEFINE t == [T[p] EXCEPT !.exit_status = status, !.state = "zombie", !.pc = where,
                             !.sig = 0, !.snap = {}]
<1>1. T \in [Pids -> Task] /\ T[p] \in Task /\ TaskInv(T[p])
  BY DEF TableInv
<1>2. t \in Task
  BY <1>1 DEF Task, States, Pcs, ExitPcs
<1>3. /\ t.state = "zombie" /\ t.exit_status = status /\ t.pc = where
      /\ t.parent_id = T[p].parent_id /\ t.pending = T[p].pending
      /\ t.handlers = T[p].handlers /\ t.trampoline = T[p].trampoline
      /\ t.active = T[p].active /\ t.frames = T[p].frames
  BY <1>1 DEF Task
<1>4. t.pc # "idle" /\ t.pc \notin {"taken", "exit"}
  BY <1>3 DEF ExitPcs
<1>5. U = [T EXCEPT ![p] = t]
  BY <1>1 DEF BecomeZombie, Task
<1> HIDE DEF t
<1>6. U \in [Pids -> Task] /\ U[p] = t /\ \A q \in Pids \ {p} : U[q] = T[q]
  BY <1>1, <1>2, <1>5
<1>7. TaskInv(t)
  BY <1>1, <1>3, <1>4 DEF TaskInv, SigreturnSucceeds
<1>8. TableInv(U)
  BY <1>4, <1>6, <1>7, ReplaceEntry
<1> QED BY <1>3, <1>6, <1>8

LEMMA NotifyParentKeeps ==
  ASSUME NEW T, TableInv(T), NEW p \in Pids, T[p].state = "zombie",
         NEW U, U = NotifyParent(T, p)
  PROVE  TableInv(U) /\ Others(T, U, p) /\ U[p] = T[p]
<1> DEFINE par == T[p].parent_id
<1>1. CASE ~(par > 0)
  <2>1. U = T
    BY <1>1 DEF NotifyParent
  <2> QED BY <2>1 DEF Others
<1>2. CASE par > 0
  <2>1. U = Send(T, par, SIGCHLD)
    BY <1>2 DEF NotifyParent
  <2>2. par = p => U = T
    BY <2>1 DEF Send, Signallable
  <2>3. TableInv(U) /\ Others(T, U, p) /\ (par # p => U[p] = T[p])
    BY <2>1, SendKeeps, SignalNumbers
  <2> QED BY <2>2, <2>3
<1> QED BY <1>1, <1>2

LEMMA ExitKeeps ==
  ASSUME NEW T, TableInv(T), NEW p \in Pids, p # 0, T[p].state # "free",
         NEW status \in Statuses,
         NEW U, U = Exit(T, p, status)
  PROVE  /\ TableInv(U) /\ Others(T, U, p)
         /\ U[p].state = "zombie" /\ U[p].exit_status = status
         /\ U[p].parent_id = T[p].parent_id /\ U[p].pending = T[p].pending
<1> DEFINE Z == BecomeZombie(T, p, status, "dead")
<1>1. U = NotifyParent(Z, p)
  BY DEF Exit
<1>2. "dead" \in ExitPcs
  BY DEF ExitPcs
<1> HIDE DEF Z
<1>3. /\ TableInv(Z)
      /\ \A q \in Pids \ {p} : Z[q] = T[q]
      /\ Z[p].state = "zombie" /\ Z[p].exit_status = status
      /\ Z[p].parent_id = T[p].parent_id /\ Z[p].pending = T[p].pending
  BY <1>2, BecomeZombieKeeps DEF Z
<1>4. TableInv(U) /\ Others(Z, U, p) /\ U[p] = Z[p]
  BY <1>1, <1>3, NotifyParentKeeps
<1>5. Others(T, U, p)
  BY <1>3, <1>4 DEF Others
<1> QED BY <1>3, <1>4, <1>5

LEMMA PushFrameKeeps ==
  ASSUME NEW T, TableInv(T), NEW p \in Pids, p # 0, NEW s \in Sigs, ~Fatal(T[p], s),
         NEW U, U = PushFrame(T, p, s)
  PROVE  /\ TableInv(U)
         /\ \A q \in Pids \ {p} : U[q] = T[q]
         /\ U[p].state = T[p].state /\ U[p].pc = T[p].pc /\ U[p].sig = T[p].sig
         /\ U[p].parent_id = T[p].parent_id /\ U[p].exit_status = T[p].exit_status
         /\ U[p].pending = T[p].pending /\ U[p].snap = T[p].snap
<1> DEFINE t == [T[p] EXCEPT !.frames = Append(T[p].frames, s), !.active = s]
<1>1. T \in [Pids -> Task] /\ T[p] \in Task /\ TaskInv(T[p]) /\ T[p].pc # "idle"
  BY DEF TableInv
<1>2. T[p].frames \in Seq(Sigs) /\ Len(T[p].frames) \in Nat
  BY <1>1 DEF Task
<1>3. /\ Append(T[p].frames, s) \in Seq(Sigs)
      /\ Len(Append(T[p].frames, s)) = Len(T[p].frames) + 1
      /\ Append(T[p].frames, s)[Len(T[p].frames) + 1] = s
  BY <1>2, AppendProperties
<1>4. Append(T[p].frames, s) # <<>>
  BY <1>2, <1>3
<1>5. t \in Task
  BY <1>1, <1>3 DEF Task
<1>6. /\ t.state = T[p].state /\ t.pc = T[p].pc /\ t.sig = T[p].sig
      /\ t.handlers = T[p].handlers /\ t.trampoline = T[p].trampoline
      /\ t.active = s /\ t.frames = Append(T[p].frames, s)
      /\ t.parent_id = T[p].parent_id /\ t.exit_status = T[p].exit_status
      /\ t.pending = T[p].pending /\ t.snap = T[p].snap
  BY <1>1 DEF Task
<1>7. U = [T EXCEPT ![p] = t]
  BY <1>1 DEF PushFrame, Task
<1>8. s # 0 /\ s # SIGKILL /\ Len(T[p].frames) + 1 <= MaxFrames
  BY <1>2, SignalNumbers, MaxFramesAssumption DEF Fatal
<1> HIDE DEF t
<1>9. U \in [Pids -> Task] /\ U[p] = t /\ \A q \in Pids \ {p} : U[q] = T[q]
  BY <1>1, <1>5, <1>7
<1>10. SigreturnSucceeds(t)
  BY <1>3, <1>4, <1>6, <1>8 DEF SigreturnSucceeds
<1>11. TaskInv(t)
  BY <1>1, <1>3, <1>6, <1>8, <1>10 DEF TaskInv
<1>12. TableInv(U)
  BY <1>1, <1>6, <1>9, <1>11, ReplaceEntry
<1> QED BY <1>6, <1>9, <1>12

LEMMA DispatchKeeps ==
  ASSUME NEW T, TableInv(T), NEW p \in Pids, p # 0, T[p].state = "runnable",
         NEW s \in Sigs,
         NEW U, U = Dispatch(T, p, s)
  PROVE  /\ TableInv(U) /\ Others(T, U, p)
         /\ U[p].parent_id = T[p].parent_id /\ U[p].pending = T[p].pending
         /\ \/ /\ s # SIGKILL
               /\ U[p].state = "runnable" /\ U[p].pc = T[p].pc
               /\ U[p].exit_status = T[p].exit_status
            \/ U[p].state = "zombie" /\ U[p].exit_status = KilledBy(s)
<1>1. T[p] \in Task /\ TaskInv(T[p])
  BY DEF TableInv
<1>2. CASE Ignored(T[p], s)
  <2>1. U = T
    BY <1>2 DEF Dispatch
  <2>2. s # SIGKILL
    BY <1>1, <1>2 DEF Ignored, TaskInv, SIGKILL, SIGCHLD
  <2> QED BY <2>1, <2>2 DEF Others
<1>3. CASE ~Ignored(T[p], s) /\ Fatal(T[p], s)
  <2>1. U = Exit(T, p, KilledBy(s))
    BY <1>3 DEF Dispatch, KilledBy
  <2>2. KilledBy(s) \in Statuses
    BY DEF Statuses, KilledBy
  <2> QED BY <2>1, <2>2, ExitKeeps
<1>4. CASE ~Ignored(T[p], s) /\ ~Fatal(T[p], s)
  <2>1. U = PushFrame(T, p, s)
    BY <1>4 DEF Dispatch
  <2>2. /\ TableInv(U)
        /\ \A q \in Pids \ {p} : U[q] = T[q]
        /\ U[p].parent_id = T[p].parent_id /\ U[p].pending = T[p].pending
        /\ U[p].state = T[p].state /\ U[p].pc = T[p].pc
        /\ U[p].exit_status = T[p].exit_status
    BY <1>4, <2>1, PushFrameKeeps
  <2>4. s # SIGKILL
    BY <1>4 DEF Fatal
  <2>5. Others(T, U, p)
    BY <2>2 DEF Others
  <2> QED BY <2>2, <2>4, <2>5
<1> QED BY <1>2, <1>3, <1>4

(***************************************************************************)
(* A change of fields that no invariant relates: pending signals, the      *)
(* locals of a delivery, and a move between two places in live code.       *)
(***************************************************************************)
LEMMA PendingKeeps ==
  ASSUME NEW T, TableInv(T), NEW p \in Pids, p # 0, NEW P \in SUBSET Sigs,
         NEW U, U = [T EXCEPT ![p].pending = P]
  PROVE  /\ TableInv(U)
         /\ \A q \in Pids \ {p} : U[q] = T[q]
         /\ U[p] = [T[p] EXCEPT !.pending = P]
<1> DEFINE t == [T[p] EXCEPT !.pending = P]
<1>1. T \in [Pids -> Task] /\ T[p] \in Task /\ TaskInv(T[p]) /\ T[p].pc # "idle"
  BY DEF TableInv
<1>2. t \in Task
  BY <1>1 DEF Task
<1>3. TaskInv(t) /\ t.pc # "idle"
  BY <1>1 DEF TaskInv, SigreturnSucceeds, Task
<1>4. U \in [Pids -> Task] /\ U[p] = t /\ \A q \in Pids \ {p} : U[q] = T[q]
  BY <1>1, <1>2
<1>5. TableInv(U)
  BY <1>3, <1>4, ReplaceEntry
<1> QED BY <1>4, <1>5

LEMMA DeliverKeeps ==
  ASSUME NEW T, TableInv(T), NEW p \in Pids, p # 0, T[p].state = "runnable",
         NEW U, U = Deliver(T, p)
  PROVE  TableInv(U) /\ Others(T, U, p) /\ Own(T, U, p) /\ KillKept(T, U, p)
<1>1. CASE T[p].active # 0 \/ T[p].pending = {}
  <2>1. U = T
    BY <1>1 DEF Deliver
  <2> QED BY <2>1 DEF Others, Own, KillKept
<1>2. CASE ~(T[p].active # 0 \/ T[p].pending = {})
  <2> DEFINE s == Min(T[p].pending)
             V == [T EXCEPT ![p].pending = @ \ {s}]
             P == T[p].pending \ {s}
  <2>1. T \in [Pids -> Task] /\ T[p] \in Task /\ T[p].pending \subseteq Sigs
    BY DEF TableInv, Task
  <2>2. s \in T[p].pending
    <3>1. T[p].pending \subseteq Nat /\ T[p].pending # {}
      BY <1>2, <2>1, SignalNumbers
    <3> QED BY <3>1, MinOfNat
  <2>3. U = Dispatch(V, p, s)
    BY <1>2 DEF Deliver
  <2>4. V = [T EXCEPT ![p].pending = P]
    BY <2>1
  <2> HIDE DEF s, V
  <2>5. /\ TableInv(V)
        /\ \A q \in Pids \ {p} : V[q] = T[q]
        /\ V[p] = [T[p] EXCEPT !.pending = P]
    BY <2>1, <2>4, PendingKeeps
  <2>6. /\ V[p].pending = P /\ V[p].state = "runnable" /\ V[p].pc = T[p].pc
        /\ V[p].parent_id = T[p].parent_id /\ V[p].exit_status = T[p].exit_status
    BY <2>1, <2>5 DEF Task
  <2>7. s \in Sigs
    BY <2>1, <2>2
  <2>8. /\ TableInv(U) /\ Others(V, U, p)
        /\ U[p].parent_id = V[p].parent_id /\ U[p].pending = V[p].pending
        /\ \/ /\ s # SIGKILL
              /\ U[p].state = "runnable" /\ U[p].pc = V[p].pc
              /\ U[p].exit_status = V[p].exit_status
           \/ U[p].state = "zombie" /\ U[p].exit_status = KilledBy(s)
    <3>1. TableInv(V) /\ V[p].state = "runnable" /\ s \in Sigs /\ U = Dispatch(V, p, s)
      BY <2>3, <2>5, <2>6, <2>7
    <3> HIDE DEF P
    <3> QED BY <3>1, DispatchKeeps
  <2>9. Others(T, U, p)
    BY <2>5, <2>8 DEF Others
  <2>10. KilledBy(s) \in Statuses
    BY <2>7 DEF Statuses, KilledBy
  <2>11. SIGKILL \in T[p].pending /\ SIGKILL \notin U[p].pending => s = SIGKILL
    BY <2>6, <2>8
  <2>12. Own(T, U, p) /\ KillKept(T, U, p)
    BY <2>6, <2>8, <2>10, <2>11 DEF Own, KillKept
  <2> QED BY <2>8, <2>9, <2>12
<1> QED BY <1>1, <1>2

LEMMA FamilyKept ==
  ASSUME NEW T, NEW U, NEW p \in Pids, NEW n, T[p].state # "free",
         Family(T, n), Others(T, U, p), U[p].parent_id = T[p].parent_id
  PROVE  Family(U, n)
<1>1. ASSUME NEW q \in Pids, q # p
      PROVE  (q >= n => U[q] = FreeTask) /\ (U[q].state # "free" => U[q].parent_id < q)
  <2>1. T[q].state = "free" => U[q] = T[q]
    BY <1>1 DEF Others
  <2>2. U[q].parent_id = T[q].parent_id
    BY <1>1 DEF Others
  <2>3. q >= n => T[q] = FreeTask
    BY DEF Family
  <2>4. FreeTask.state = "free"
    BY DEF FreeTask, FreshTask
  <2>5. T[q].state # "free" => T[q].parent_id < q
    BY DEF Family
  <2> QED BY <2>1, <2>2, <2>3, <2>4, <2>5
<1>2. (p >= n => U[p] = FreeTask) /\ (U[p].state # "free" => U[p].parent_id < p)
  BY DEF Family, FreeTask, FreshTask
<1> QED BY <1>1, <1>2 DEF Family

-----------------------------------------------------------------------------
(* Calls of the process that runs. *)

LEMMA RunningTask ==
  ASSUME IInv, NEW p \in Pids, current = p,
         task[p].pc \notin {"idle", "switch", "notify", "leave"}
  PROVE  /\ p # 0 /\ task[p].state = "runnable"
         /\ task \in [Pids -> Task] /\ task[p] \in Task /\ TaskInv(task[p])
         /\ TableInv(task) /\ Family(task, next_pid)
BY DEF IInv, CurrentInv, TableInv

\* What a kernel entry of p may have done before it delivers signals.
Prepared(T, p) ==
  /\ TableInv(T) /\ T[p].state = "runnable" /\ task[p].state = "runnable"
  /\ Others(task, T, p) /\ Own(task, T, p) /\ KillKept(task, T, p)

LEMMA OthersTransitive ==
  ASSUME NEW T, NEW U, NEW V, NEW p, Others(T, U, p), Others(U, V, p)
  PROVE  Others(T, V, p)
<1> SUFFICES ASSUME NEW q \in Pids \ {p}
             PROVE  /\ V[q].parent_id = T[q].parent_id
                    /\ V[q].exit_status = T[q].exit_status
                    /\ T[q].pending \subseteq V[q].pending
                    /\ V[q].pc = T[q].pc
                    /\ T[q].state \in {"free", "zombie", "runnable"} => V[q].state = T[q].state
                    /\ T[q].state = "waiting" => V[q].state \in {"waiting", "runnable"}
                    /\ T[q].state = "free" => V[q] = T[q]
  BY DEF Others
<1> QED BY DEF Others

LEMMA DeliverAfter ==
  ASSUME NEW p \in Pids, p # 0, NEW T, Prepared(T, p), NEW U, U = Deliver(T, p)
  PROVE  /\ TableInv(U)
         /\ Others(task, U, p) /\ Own(task, U, p) /\ KillKept(task, U, p)
<1>1. TableInv(U) /\ Others(T, U, p) /\ Own(T, U, p) /\ KillKept(T, U, p)
  BY DeliverKeeps DEF Prepared
<1>2. Others(task, U, p)
  BY <1>1, OthersTransitive DEF Prepared
<1>3. Own(task, U, p) /\ KillKept(task, U, p)
  BY <1>1 DEF Prepared, Own, KillKept
<1> QED BY <1>1, <1>2, <1>3

LEMMA ResumeIsRunnable ==
  ASSUME NEW T, TableInv(T), NEW p \in Pids
  PROVE  Resume(T, p) \in Pids /\ T[Resume(T, p)].state = "runnable"
BY NextRunnableIsRunnable DEF Resume

(***************************************************************************)
(* What every step of process p preserves and does, except fork and the    *)
(* reaping of a child, which also touch the child's entry.                 *)
(***************************************************************************)
StepBy(p) ==
  /\ TableInv(task')
  /\ Others(task, task', p) /\ Own(task, task', p)
  /\ next_pid' = next_pid
  /\ current' \in Pids
  /\ CurrentInv'
  /\ current' # current => task'[current'].state = "runnable"
  /\ kbd' \in 0 .. KbdCap

LEMMA SyscallEndKeeps ==
  ASSUME NEW p \in Pids, p # 0, NEW T, Prepared(T, p), SyscallEnd(T, p),
         next_pid' = next_pid, kbd' \in 0 .. KbdCap
  PROVE  StepBy(p) /\ KillKept(task, task', p)
<1>1. task' = Deliver(T, p) /\ current' = Resume(task', p)
  BY DEF SyscallEnd
<1>2. /\ TableInv(task')
      /\ Others(task, task', p) /\ Own(task, task', p) /\ KillKept(task, task', p)
  BY <1>1, DeliverAfter
<1>3. current' \in Pids /\ task'[current'].state = "runnable"
  BY <1>1, <1>2, ResumeIsRunnable
<1>4. CurrentInv'
  BY <1>3 DEF CurrentInv
<1> QED BY <1>2, <1>3, <1>4 DEF StepBy

-----------------------------------------------------------------------------
(* System calls. *)

LEMMA PreparedEntry ==
  ASSUME TableInv(task), NEW p \in Pids, p # 0, task[p].state = "runnable",
         NEW T \in [Pids -> Task], \A q \in Pids \ {p} : T[q] = task[q],
         TaskInv(T[p]), T[p].pc = task[p].pc, T[p].state = "runnable",
         T[p].parent_id = task[p].parent_id, T[p].exit_status = task[p].exit_status,
         T[p].pending = task[p].pending
  PROVE  Prepared(T, p)
<1>1. T[p].pc # "idle"
  BY DEF TableInv
<1>2. TableInv(T)
  BY <1>1, ReplaceEntry
<1> QED BY <1>2 DEF Prepared, Others, Own, KillKept

LEMMA PreparedUnchanged ==
  ASSUME TableInv(task), NEW p \in Pids, task[p].state = "runnable"
  PROVE  Prepared(task, p)
BY DEF Prepared, Others, Own, KillKept

LEMMA SyscallExitStep ==
  ASSUME IInv, NEW p \in Pids, current = p, task[p].pc = "user",
         NEW status \in Statuses, task' = Exit(task, p, status),
         current' = Resume(task', p), UNCHANGED <<next_pid, kbd>>
  PROVE  StepBy(p) /\ KillKept(task, task', p)
<1>1. p # 0 /\ task[p].state = "runnable" /\ TableInv(task)
  BY RunningTask
<1>2. /\ TableInv(task') /\ Others(task, task', p)
      /\ task'[p].state = "zombie" /\ task'[p].exit_status = status
      /\ task'[p].parent_id = task[p].parent_id /\ task'[p].pending = task[p].pending
  BY <1>1, ExitKeeps
<1>3. Own(task, task', p) /\ KillKept(task, task', p)
  BY <1>1, <1>2 DEF Own, KillKept
<1>4. current' \in Pids /\ task'[current'].state = "runnable"
  BY <1>2, ResumeIsRunnable
<1>5. CurrentInv' /\ kbd' \in 0 .. KbdCap
  BY <1>4 DEF CurrentInv, IInv, TypeOK
<1> QED BY <1>2, <1>3, <1>4, <1>5 DEF StepBy

LEMMA SyscallKillStep ==
  ASSUME IInv, NEW p \in Pids, NEW q \in Pids, NEW s \in Sigs, SyscallKill(p, q, s)
  PROVE  StepBy(p) /\ KillKept(task, task', p)
<1>1. p # 0 /\ task[p].state = "runnable" /\ TableInv(task)
  BY RunningTask DEF SyscallKill, Program
<1>2. Prepared(Send(task, q, s), p)
  BY <1>1, SendKeeps DEF Prepared
<1>3. kbd' \in 0 .. KbdCap /\ next_pid' = next_pid
  BY DEF SyscallKill, IInv, TypeOK
<1> QED BY <1>1, <1>2, <1>3, SyscallEndKeeps DEF SyscallKill

LEMMA SyscallSignalStep ==
  ASSUME IInv, NEW p \in Pids, NEW s \in Sigs, NEW d \in Dispositions,
         SyscallSignal(p, s, d)
  PROVE  StepBy(p) /\ KillKept(task, task', p)
<1> DEFINE T == [task EXCEPT ![p].handlers[s] = d,
                             ![p].trampoline = @ \/ d = "catch"]
           t == [task[p] EXCEPT !.handlers[s] = d, !.trampoline = @ \/ d = "catch"]
<1>1. /\ p # 0 /\ task[p].state = "runnable" /\ TableInv(task)
      /\ task \in [Pids -> Task] /\ task[p] \in Task /\ TaskInv(task[p])
  BY RunningTask DEF SyscallSignal, Program
<1>2. t \in Task
  BY <1>1 DEF Task
<1>3. /\ t.state = "runnable" /\ t.pc = task[p].pc /\ t.sig = task[p].sig
      /\ t.active = task[p].active /\ t.frames = task[p].frames
      /\ t.parent_id = task[p].parent_id /\ t.exit_status = task[p].exit_status
      /\ t.pending = task[p].pending
      /\ t.handlers = [task[p].handlers EXCEPT ![s] = d]
      /\ t.trampoline = (task[p].trampoline \/ d = "catch")
  BY <1>1 DEF Task
<1>4. T \in [Pids -> Task] /\ T[p] = t /\ \A q \in Pids \ {p} : T[q] = task[q]
  BY <1>1, <1>2
<1>5. SyscallEnd(T, p) /\ s # SIGKILL
  BY DEF SyscallSignal
<1> HIDE DEF T, t
<1>6. TaskInv(t)
  <2>1. task[p].handlers \in [Sigs -> Dispositions]
    BY <1>1 DEF Task
  <2>2. t.handlers[SIGKILL] = "default"
    BY <1>1, <1>3, <1>5, <2>1, SignalNumbers DEF TaskInv
  <2>3. \A u \in Sigs : t.handlers[u] = "catch" => t.trampoline
    BY <1>1, <1>3, <2>1 DEF TaskInv
  <2>4. t.active # 0 => SigreturnSucceeds(t)
    BY <1>1, <1>3 DEF TaskInv, SigreturnSucceeds
  <2> QED BY <1>1, <1>3, <2>2, <2>3, <2>4 DEF TaskInv
<1>7. Prepared(T, p)
  BY <1>1, <1>3, <1>4, <1>6, PreparedEntry
<1>8. kbd' \in 0 .. KbdCap /\ next_pid' = next_pid
  BY DEF SyscallSignal, IInv, TypeOK
<1> QED BY <1>1, <1>5, <1>7, <1>8, SyscallEndKeeps

LEMMA SyscallSigreturnStep ==
  ASSUME IInv, NEW p \in Pids, SyscallSigreturn(p)
  PROVE  StepBy(p) /\ KillKept(task, task', p)
<1> DEFINE T  == PopFrame(task, p)
           fr == task[p].frames
           t  == [task[p] EXCEPT !.frames = SubSeq(fr, 1, Len(fr) - 1), !.active = 0]
<1>1. /\ p # 0 /\ task[p].state = "runnable" /\ TableInv(task)
      /\ task \in [Pids -> Task] /\ task[p] \in Task /\ TaskInv(task[p])
  BY RunningTask DEF SyscallSigreturn, Program
<1>2. fr \in Seq(Sigs) /\ fr # <<>> /\ Len(fr) \in Nat
  BY <1>1 DEF Task, SyscallSigreturn, SigreturnSucceeds
<1>3. Len(fr) > 0
  BY <1>2, EmptySeq
<1>4. SubSeq(fr, 1, Len(fr) - 1) \in Seq(Sigs) /\ Len(SubSeq(fr, 1, Len(fr) - 1)) = Len(fr) - 1
  BY <1>2, <1>3, SubSeqProperties
<1>5. t \in Task
  BY <1>1, <1>4 DEF Task
<1>6. /\ t.state = "runnable" /\ t.pc = task[p].pc /\ t.sig = task[p].sig
      /\ t.active = 0 /\ t.frames = SubSeq(fr, 1, Len(fr) - 1)
      /\ t.parent_id = task[p].parent_id /\ t.exit_status = task[p].exit_status
      /\ t.pending = task[p].pending
      /\ t.handlers = task[p].handlers /\ t.trampoline = task[p].trampoline
  BY <1>1 DEF Task
<1>7. T = [task EXCEPT ![p] = t]
  BY <1>1 DEF PopFrame, Task
<1> HIDE DEF t
<1>8. T \in [Pids -> Task] /\ T[p] = t /\ \A q \in Pids \ {p} : T[q] = task[q]
  BY <1>1, <1>5, <1>7
<1>9. SyscallEnd(T, p)
  BY DEF SyscallSigreturn
<1> HIDE DEF T
<1>10. Len(t.frames) <= MaxFrames
  BY <1>1, <1>2, <1>4, <1>6, MaxFramesAssumption DEF TaskInv
<1>11. TaskInv(t)
  BY <1>1, <1>6, <1>10, SignalNumbers DEF TaskInv, SIGKILL
<1>12. Prepared(T, p)
  BY <1>1, <1>6, <1>8, <1>11, PreparedEntry
<1>13. kbd' \in 0 .. KbdCap /\ next_pid' = next_pid
  BY DEF SyscallSigreturn, IInv, TypeOK
<1> QED BY <1>1, <1>9, <1>12, <1>13, SyscallEndKeeps

LEMMA SyscallExecveStep ==
  ASSUME IInv, NEW p \in Pids, SyscallExecve(p)
  PROVE  StepBy(p) /\ KillKept(task, task', p)
<1> DEFINE T == ExecReset(task, p)
           h == [s \in Sigs |-> IF task[p].handlers[s] = "ignore" THEN "ignore" ELSE "default"]
           t == [task[p] EXCEPT !.handlers = h, !.trampoline = FALSE, !.active = 0,
                                !.frames = <<>>]
<1>1. /\ p # 0 /\ task[p].state = "runnable" /\ TableInv(task)
      /\ task \in [Pids -> Task] /\ task[p] \in Task /\ TaskInv(task[p])
  BY RunningTask DEF SyscallExecve, Program
<1>2. h \in [Sigs -> Dispositions]
  BY DEF Dispositions
<1>3. <<>> \in Seq(Sigs) /\ Len(<<>>) = 0
  OBVIOUS
<1>4. h[SIGKILL] = "default" /\ \A s \in Sigs : h[s] # "catch"
  BY <1>1, SignalNumbers DEF TaskInv
<1>5. T = [task EXCEPT ![p] = t]
  BY <1>1 DEF ExecReset, Task
<1> HIDE DEF h
<1>6. t \in Task
  BY <1>1, <1>2, <1>3 DEF Task
<1>7. /\ t.state = "runnable" /\ t.pc = task[p].pc /\ t.sig = task[p].sig
      /\ t.active = 0 /\ t.frames = <<>>
      /\ t.parent_id = task[p].parent_id /\ t.exit_status = task[p].exit_status
      /\ t.pending = task[p].pending
      /\ t.handlers = h
  BY <1>1 DEF Task
<1> HIDE DEF t
<1>8. T \in [Pids -> Task] /\ T[p] = t /\ \A q \in Pids \ {p} : T[q] = task[q]
  BY <1>1, <1>5, <1>6
<1>9. SyscallEnd(T, p)
  BY DEF SyscallExecve
<1> HIDE DEF T
<1>10. Len(t.frames) <= MaxFrames
  BY <1>3, <1>7, MaxFramesAssumption
<1>11. TaskInv(t)
  BY <1>1, <1>4, <1>7, <1>10, SignalNumbers DEF TaskInv, SIGKILL
<1>12. Prepared(T, p)
  BY <1>1, <1>7, <1>8, <1>11, PreparedEntry
<1>13. kbd' \in 0 .. KbdCap /\ next_pid' = next_pid
  BY DEF SyscallExecve, IInv, TypeOK
<1> QED BY <1>1, <1>9, <1>12, <1>13, SyscallEndKeeps

LEMMA SyscallPollStep ==
  ASSUME IInv, NEW p \in Pids, SyscallGetchar(p) \/ SyscallRead(p)
  PROVE  StepBy(p) /\ KillKept(task, task', p)
<1>1. p # 0 /\ task[p].state = "runnable" /\ TableInv(task)
  BY RunningTask DEF SyscallGetchar, SyscallRead, Program
<1>2. kbd' \in 0 .. KbdCap /\ next_pid' = next_pid
  BY KbdCapAssumption DEF SyscallGetchar, SyscallRead, IInv, TypeOK
<1>3. SyscallEnd(task, p)
  BY DEF SyscallGetchar, SyscallRead
<1> QED BY <1>1, <1>2, <1>3, PreparedUnchanged, SyscallEndKeeps

-----------------------------------------------------------------------------
(* The interruptible kernel steps and the interrupts. *)

LEMMA EntryStep ==
  ASSUME IInv, NEW p \in Pids, p # 0, current = p, task[p].state \in {"runnable", "waiting"},
         task' \in [Pids -> Task], \A q \in Pids \ {p} : task'[q] = task[q],
         TaskInv(task'[p]), task'[p].pc # "idle",
         task'[p].state \in {"runnable", "waiting"},
         task'[p].parent_id = task[p].parent_id,
         task'[p].exit_status = task[p].exit_status,
         next_pid' = next_pid, kbd' \in 0 .. KbdCap, current' \in Pids,
         \/ current' = current /\ (task'[p].state = "runnable" \/ task'[p].pc = "switch")
         \/ task'[current'].state = "runnable"
  PROVE  StepBy(p)
<1>1. TableInv(task')
  BY ReplaceEntry DEF IInv
<1>2. Others(task, task', p) /\ Own(task, task', p)
  BY DEF Others, Own
<1>3. CurrentInv'
  BY DEF CurrentInv
<1>4. current' # current => task'[current'].state = "runnable"
  OBVIOUS
<1> QED BY <1>1, <1>2, <1>3, <1>4 DEF StepBy

LEMMA SyscallReadSleepStep ==
  ASSUME IInv, NEW p \in Pids, SyscallReadSleep(p)
  PROVE  StepBy(p) /\ task'[p].pending = task[p].pending
<1> DEFINE t == [task[p] EXCEPT !.state = "waiting", !.pc = "woken"]
<1>1. /\ p # 0 /\ task[p].state = "runnable" /\ TableInv(task) /\ current = p
      /\ task \in [Pids -> Task] /\ task[p] \in Task /\ TaskInv(task[p])
  BY RunningTask DEF SyscallReadSleep, Program
<1>2. t \in Task
  BY <1>1 DEF Task, States, Pcs
<1>3. /\ t.state = "waiting" /\ t.pc = "woken"
      /\ t.active = task[p].active /\ t.frames = task[p].frames
      /\ t.parent_id = task[p].parent_id /\ t.exit_status = task[p].exit_status
      /\ t.pending = task[p].pending
      /\ t.handlers = task[p].handlers /\ t.trampoline = task[p].trampoline
  BY <1>1 DEF Task
<1>4. task' = [task EXCEPT ![p] = t]
  BY <1>1 DEF SyscallReadSleep, Task
<1> HIDE DEF t
<1>5. /\ task' \in [Pids -> Task] /\ task'[p] = t
      /\ \A q \in Pids \ {p} : task'[q] = task[q]
  BY <1>1, <1>2, <1>4
<1>6. TaskInv(t)
  BY <1>1, <1>3 DEF TaskInv, SigreturnSucceeds, ExitPcs
<1>7. TableInv(task')
  BY <1>1, <1>3, <1>5, <1>6, ReplaceEntry
<1>8. current' \in Pids /\ task'[current'].state = "runnable"
  BY <1>7, NextRunnableIsRunnable DEF SyscallReadSleep
<1>9. kbd' \in 0 .. KbdCap /\ next_pid' = next_pid
  BY DEF SyscallReadSleep, IInv, TypeOK
<1>10. StepBy(p)
  BY <1>1, <1>3, <1>5, <1>6, <1>8, <1>9, EntryStep
<1> QED BY <1>3, <1>5, <1>10

(***************************************************************************)
(* The steps that only move the task to another place in live code.        *)
(***************************************************************************)
LivePcs == {"user", "irqret", "woken", "getchar", "sleep", "deliver"}

LEMMA GoToStep ==
  ASSUME IInv, NEW p \in Pids, NEW where \in LivePcs, current = p,
         task[p].pc \in LivePcs, GoTo(p, where),
         current' = current, next_pid' = next_pid, kbd' \in 0 .. KbdCap
  PROVE  StepBy(p) /\ task'[p].pending = task[p].pending
<1> DEFINE t == [task[p] EXCEPT !.pc = where]
<1>1. /\ p # 0 /\ task[p].state = "runnable" /\ TableInv(task)
      /\ task \in [Pids -> Task] /\ task[p] \in Task /\ TaskInv(task[p])
  BY RunningTask DEF LivePcs
<1>2. t \in Task
  BY <1>1 DEF Task, Pcs, LivePcs
<1>3. /\ t.state = "runnable" /\ t.pc = where
      /\ t.active = task[p].active /\ t.frames = task[p].frames
      /\ t.parent_id = task[p].parent_id /\ t.exit_status = task[p].exit_status
      /\ t.pending = task[p].pending
      /\ t.handlers = task[p].handlers /\ t.trampoline = task[p].trampoline
  BY <1>1 DEF Task
<1>4. task' = [task EXCEPT ![p] = t]
  BY <1>1 DEF GoTo, Task
<1> HIDE DEF t
<1>5. /\ task' \in [Pids -> Task] /\ task'[p] = t
      /\ \A q \in Pids \ {p} : task'[q] = task[q]
  BY <1>1, <1>2, <1>4
<1>6. TaskInv(t) /\ t.pc # "idle"
  BY <1>1, <1>3 DEF TaskInv, SigreturnSucceeds, ExitPcs, LivePcs
<1>7. StepBy(p)
  BY <1>1, <1>3, <1>5, <1>6, EntryStep
<1> QED BY <1>3, <1>5, <1>7

LEMMA MoveStep ==
  ASSUME IInv, NEW p \in Pids, CheckPending(p) \/ PollRing(p) \/ IrqReturn(p)
  PROVE  StepBy(p) /\ task'[p].pending = task[p].pending
<1>1. kbd \in 0 .. KbdCap
  BY DEF IInv, TypeOK
<1>2. CASE CheckPending(p)
  <2>1. /\ current = p /\ task[p].pc \in LivePcs /\ kbd' = kbd
        /\ current' = current /\ next_pid' = next_pid
    BY <1>2 DEF CheckPending, Kernel, LivePcs
  <2>2. PICK where \in LivePcs : GoTo(p, where)
    BY <1>2 DEF CheckPending, LivePcs
  <2> QED BY <1>1, <2>1, <2>2, GoToStep
<1>3. CASE PollRing(p)
  <2>1. /\ current = p /\ task[p].pc \in LivePcs
        /\ current' = current /\ next_pid' = next_pid
    BY <1>3 DEF PollRing, Kernel, LivePcs
  <2>2. PICK where \in LivePcs : GoTo(p, where)
    BY <1>3 DEF PollRing, LivePcs
  <2>3. kbd' \in 0 .. KbdCap
    BY <1>1, <1>3, KbdCapAssumption DEF PollRing
  <2> QED BY <2>1, <2>2, <2>3, GoToStep
<1>4. CASE IrqReturn(p)
  <2>1. /\ current = p /\ task[p].pc \in LivePcs /\ kbd' = kbd
        /\ current' = current /\ next_pid' = next_pid
    BY <1>4 DEF IrqReturn, Kernel, LivePcs
  <2>2. GoTo(p, "user") /\ "user" \in LivePcs
    BY <1>4 DEF IrqReturn, LivePcs
  <2> QED BY <1>1, <2>1, <2>2, GoToStep
<1> QED BY <1>2, <1>3, <1>4

LEMMA SetWaitingStep ==
  ASSUME IInv, NEW p \in Pids, SetWaiting(p)
  PROVE  StepBy(p) /\ task'[p].pending = task[p].pending
<1> DEFINE t == [task[p] EXCEPT !.state = "waiting", !.pc = "switch"]
<1>1. /\ p # 0 /\ task[p].state = "runnable" /\ TableInv(task) /\ current = p
      /\ task \in [Pids -> Task] /\ task[p] \in Task /\ TaskInv(task[p])
  BY RunningTask DEF SetWaiting, Kernel
<1>2. t \in Task
  BY <1>1 DEF Task, States, Pcs
<1>3. /\ t.state = "waiting" /\ t.pc = "switch"
      /\ t.active = task[p].active /\ t.frames = task[p].frames
      /\ t.parent_id = task[p].parent_id /\ t.exit_status = task[p].exit_status
      /\ t.pending = task[p].pending
      /\ t.handlers = task[p].handlers /\ t.trampoline = task[p].trampoline
  BY <1>1 DEF Task
<1>4. task' = [task EXCEPT ![p] = t]
  BY <1>1 DEF SetWaiting, Task
<1> HIDE DEF t
<1>5. /\ task' \in [Pids -> Task] /\ task'[p] = t
      /\ \A q \in Pids \ {p} : task'[q] = task[q]
  BY <1>1, <1>2, <1>4
<1>6. TaskInv(t)
  BY <1>1, <1>3 DEF TaskInv, SigreturnSucceeds, ExitPcs
<1>7. kbd' \in 0 .. KbdCap /\ next_pid' = next_pid /\ current' = current
  BY DEF SetWaiting, IInv, TypeOK
<1>8. StepBy(p)
  BY <1>1, <1>3, <1>5, <1>6, <1>7, EntryStep
<1> QED BY <1>3, <1>5, <1>8

LEMMA SwitchAwayStep ==
  ASSUME IInv, NEW p \in Pids, SwitchAway(p)
  PROVE  StepBy(p) /\ task'[p].pending = task[p].pending
<1> DEFINE t == [task[p] EXCEPT !.pc = "woken"]
<1>1. current = p /\ task[p].pc = "switch" /\ TableInv(task)
  BY DEF SwitchAway, Kernel, IInv
<1>2. task \in [Pids -> Task] /\ task[p] \in Task /\ TaskInv(task[p]) /\ p # 0
  BY <1>1 DEF TableInv
<1>3. task[p].state \in {"runnable", "waiting"}
  BY <1>1, <1>2 DEF IInv, CurrentInv, TaskInv, ExitPcs, Task, States
<1>4. t \in Task
  BY <1>2 DEF Task, Pcs
<1>5. /\ t.state = task[p].state /\ t.pc = "woken"
      /\ t.active = task[p].active /\ t.frames = task[p].frames
      /\ t.parent_id = task[p].parent_id /\ t.exit_status = task[p].exit_status
      /\ t.pending = task[p].pending
      /\ t.handlers = task[p].handlers /\ t.trampoline = task[p].trampoline
  BY <1>2 DEF Task
<1>6. task' = [task EXCEPT ![p] = t]
  BY <1>2 DEF SwitchAway, GoTo, Task
<1> HIDE DEF t
<1>7. /\ task' \in [Pids -> Task] /\ task'[p] = t
      /\ \A q \in Pids \ {p} : task'[q] = task[q]
  BY <1>2, <1>4, <1>6
<1>8. TaskInv(t)
  BY <1>2, <1>3, <1>5 DEF TaskInv, SigreturnSucceeds, ExitPcs
<1>9. current' \in Pids /\ task[current'].state = "runnable"
  BY <1>1, NextRunnableIsRunnable DEF SwitchAway
<1>10. task'[current'].state = "runnable"
  BY <1>5, <1>7, <1>9
<1>11. kbd' \in 0 .. KbdCap /\ next_pid' = next_pid
  BY DEF SwitchAway, IInv, TypeOK
<1>12. StepBy(p)
  BY <1>1, <1>2, <1>3, <1>5, <1>7, <1>8, <1>9, <1>10, <1>11, EntryStep
<1> QED BY <1>5, <1>7, <1>12

LEMMA TakeSignalStep ==
  ASSUME IInv, NEW p \in Pids, TakeSignal(p)
  PROVE  StepBy(p) /\ task'[p].pending = task[p].pending
<1>1. /\ p # 0 /\ task[p].state = "runnable" /\ TableInv(task) /\ current = p
      /\ task \in [Pids -> Task] /\ task[p] \in Task /\ TaskInv(task[p])
  BY RunningTask DEF TakeSignal, Kernel
<1>2. kbd' \in 0 .. KbdCap /\ next_pid' = next_pid /\ current' = current
  BY DEF TakeSignal, IInv, TypeOK
<1>3. CASE task[p].active # 0 \/ task[p].pending = {}
  <2>1. GoTo(p, "irqret")
    BY <1>3 DEF TakeSignal, GoTo
  <2>2. task[p].pc \in LivePcs /\ "irqret" \in LivePcs
    BY DEF TakeSignal, Kernel, LivePcs
  <2> QED BY <1>1, <1>2, <2>1, <2>2, GoToStep
<1>4. CASE ~(task[p].active # 0 \/ task[p].pending = {})
  <2> DEFINE s == Min(task[p].pending)
             t == [task[p] EXCEPT !.pc = "taken", !.sig = s, !.snap = task[p].pending \ {s}]
  <2>1. task[p].pending \subseteq Sigs
    BY <1>1 DEF Task
  <2>2. s \in Sigs
    <3>1. task[p].pending \subseteq Nat /\ task[p].pending # {}
      BY <1>4, <2>1, SignalNumbers
    <3> QED BY <2>1, <3>1, MinOfNat
  <2>3. task' = [task EXCEPT ![p] = t]
    BY <1>1, <1>4 DEF TakeSignal, Task
  <2> HIDE DEF s
  <2>4. t \in Task
    BY <1>1, <2>1, <2>2 DEF Task, Pcs
  <2>5. /\ t.state = "runnable" /\ t.pc = "taken" /\ t.sig = s
        /\ t.active = task[p].active /\ t.frames = task[p].frames
        /\ t.parent_id = task[p].parent_id /\ t.exit_status = task[p].exit_status
        /\ t.pending = task[p].pending
        /\ t.handlers = task[p].handlers /\ t.trampoline = task[p].trampoline
    BY <1>1 DEF Task
  <2> HIDE DEF t
  <2>6. /\ task' \in [Pids -> Task] /\ task'[p] = t
        /\ \A q \in Pids \ {p} : task'[q] = task[q]
    BY <1>1, <2>3, <2>4
  <2>7. TaskInv(t)
    BY <1>1, <2>2, <2>5, SignalNumbers DEF TaskInv, SigreturnSucceeds, ExitPcs
  <2>8. StepBy(p)
    BY <1>1, <1>2, <2>5, <2>6, <2>7, EntryStep
  <2> QED BY <2>5, <2>6, <2>8
<1> QED BY <1>3, <1>4

LEMMA ActOnSignalStep ==
  ASSUME IInv, NEW p \in Pids, ActOnSignal(p)
  PROVE  StepBy(p) /\ task'[p].pending = task[p].snap
<1> DEFINE s == task[p].sig
           T == [task EXCEPT ![p].pending = task[p].snap, ![p].snap = {}]
           v == [task[p] EXCEPT !.pending = task[p].snap, !.snap = {}]
           back(U) == [U EXCEPT ![p].pc = "irqret", ![p].sig = 0]
<1>1. /\ p # 0 /\ task[p].state = "runnable" /\ TableInv(task) /\ current = p
      /\ task \in [Pids -> Task] /\ task[p] \in Task /\ TaskInv(task[p])
      /\ task[p].pc = "taken"
  BY RunningTask DEF ActOnSignal, Kernel
<1>2. kbd' \in 0 .. KbdCap /\ next_pid' = next_pid /\ current' = current
  BY DEF ActOnSignal, IInv, TypeOK
<1>3. s \in Sigs
  BY <1>1 DEF TaskInv, Task
<1>4. v \in Task
  BY <1>1 DEF Task
<1>5. /\ v.state = "runnable" /\ v.pc = "taken" /\ v.sig = s
      /\ v.active = task[p].active /\ v.frames = task[p].frames
      /\ v.parent_id = task[p].parent_id /\ v.exit_status = task[p].exit_status
      /\ v.pending = task[p].snap
      /\ v.handlers = task[p].handlers /\ v.trampoline = task[p].trampoline
  BY <1>1 DEF Task
<1>6. T = [task EXCEPT ![p] = v]
  BY <1>1 DEF Task
<1>7. task' = IF Ignored(T[p], s) THEN back(T)
              ELSE IF Fatal(T[p], s) THEN [T EXCEPT ![p].pc = "exit"]
              ELSE back(PushFrame(T, p, s))
  BY DEF ActOnSignal
<1> HIDE DEF v, T, s
<1>8. T \in [Pids -> Task] /\ T[p] = v /\ \A q \in Pids \ {p} : T[q] = task[q]
  BY <1>1, <1>4, <1>6
<1>9. TaskInv(v)
  BY <1>1, <1>3, <1>5, SignalNumbers DEF TaskInv, SigreturnSucceeds
<1>10. TableInv(T)
  BY <1>1, <1>5, <1>8, <1>9, ReplaceEntry
<1>11. ASSUME NEW U, TableInv(U), \A q \in Pids \ {p} : U[q] = task[q],
              U[p].state = "runnable", U[p].pending = task[p].snap,
              U[p].parent_id = task[p].parent_id, U[p].exit_status = task[p].exit_status,
              task' = back(U)
       PROVE  StepBy(p) /\ task'[p].pending = task[p].snap
  <2> DEFINE t == [U[p] EXCEPT !.pc = "irqret", !.sig = 0]
  <2>1. U \in [Pids -> Task] /\ U[p] \in Task /\ TaskInv(U[p])
    BY <1>11 DEF TableInv
  <2>2. t \in Task
    BY <2>1 DEF Task, Pcs
  <2>3. /\ t.state = "runnable" /\ t.pc = "irqret"
        /\ t.active = U[p].active /\ t.frames = U[p].frames
        /\ t.parent_id = U[p].parent_id /\ t.exit_status = U[p].exit_status
        /\ t.pending = U[p].pending
        /\ t.handlers = U[p].handlers /\ t.trampoline = U[p].trampoline
    BY <1>11, <2>1 DEF Task
  <2>4. task' = [U EXCEPT ![p] = t]
    BY <1>11, <2>1 DEF Task
  <2> HIDE DEF t
  <2>5. /\ task' \in [Pids -> Task] /\ task'[p] = t
        /\ \A q \in Pids \ {p} : task'[q] = task[q]
    BY <1>11, <2>1, <2>2, <2>4
  <2>6. TaskInv(t)
    BY <2>1, <2>3 DEF TaskInv, SigreturnSucceeds, ExitPcs
  <2>7. StepBy(p)
    BY <1>1, <1>2, <1>11, <2>3, <2>5, <2>6, EntryStep
  <2> QED BY <1>11, <2>3, <2>5, <2>7
<1>12. CASE Ignored(T[p], s)
  <2>1. task' = back(T)
    BY <1>7, <1>12
  <2> QED BY <1>5, <1>8, <1>10, <1>11, <2>1
<1>13. CASE ~Ignored(T[p], s) /\ Fatal(T[p], s)
  <2> DEFINE t == [T[p] EXCEPT !.pc = "exit"]
  <2>1. task' = [T EXCEPT ![p] = t]
    BY <1>7, <1>8, <1>13
  <2>2. t \in Task
    BY <1>4, <1>8 DEF Task, Pcs
  <2>3. /\ t.state = "runnable" /\ t.pc = "exit" /\ t.sig = v.sig
        /\ t.active = v.active /\ t.frames = v.frames
        /\ t.parent_id = v.parent_id /\ t.exit_status = v.exit_status
        /\ t.pending = v.pending
        /\ t.handlers = v.handlers /\ t.trampoline = v.trampoline
    BY <1>4, <1>5, <1>8 DEF Task
  <2> HIDE DEF t
  <2>4. /\ task' \in [Pids -> Task] /\ task'[p] = t
        /\ \A q \in Pids \ {p} : task'[q] = task[q]
    BY <1>8, <2>1, <2>2
  <2>5. TaskInv(t)
    BY <1>5, <1>9, <2>3 DEF TaskInv, SigreturnSucceeds, ExitPcs
  <2>6. StepBy(p)
    BY <1>1, <1>2, <1>5, <2>3, <2>4, <2>5, EntryStep
  <2> QED BY <1>5, <2>3, <2>4, <2>6
<1>14. CASE ~Ignored(T[p], s) /\ ~Fatal(T[p], s)
  <2> DEFINE U == PushFrame(T, p, s)
  <2>1. task' = back(U)
    BY <1>7, <1>14
  <2> HIDE DEF U
  <2>2. /\ TableInv(U)
        /\ \A q \in Pids \ {p} : U[q] = T[q]
        /\ U[p].state = T[p].state /\ U[p].parent_id = T[p].parent_id
        /\ U[p].exit_status = T[p].exit_status /\ U[p].pending = T[p].pending
    BY <1>1, <1>3, <1>10, <1>14, PushFrameKeeps DEF U
  <2> QED BY <1>5, <1>8, <1>11, <2>1, <2>2
<1> QED BY <1>12, <1>13, <1>14

LEMMA SetZombieStep ==
  ASSUME IInv, NEW p \in Pids, SetZombie(p)
  PROVE  StepBy(p) /\ task'[p].pending = task[p].pending
<1>1. /\ p # 0 /\ task[p].state = "runnable" /\ TableInv(task) /\ current = p
      /\ task[p] \in Task /\ TaskInv(task[p]) /\ task[p].pc = "exit"
  BY RunningTask DEF SetZombie, Kernel
<1>2. /\ kbd' \in 0 .. KbdCap /\ next_pid' = next_pid /\ current' = current
      /\ current \in Pids
  BY DEF SetZombie, IInv, TypeOK
<1>3. KilledBy(task[p].sig) \in Statuses
  BY <1>1 DEF TaskInv, Task, Statuses, KilledBy
<1>4. "notify" \in ExitPcs
  BY DEF ExitPcs
<1>5. task' = BecomeZombie(task, p, KilledBy(task[p].sig), "notify")
  BY DEF SetZombie, KilledBy
<1>6. /\ TableInv(task')
      /\ \A q \in Pids \ {p} : task'[q] = task[q]
      /\ task'[p].state = "zombie" /\ task'[p].exit_status = KilledBy(task[p].sig)
      /\ task'[p].pc = "notify"
      /\ task'[p].parent_id = task[p].parent_id /\ task'[p].pending = task[p].pending
  BY <1>1, <1>3, <1>4, <1>5, BecomeZombieKeeps
<1>7. Others(task, task', p) /\ Own(task, task', p)
  BY <1>1, <1>3, <1>6 DEF Others, Own
<1>8. CurrentInv'
  BY <1>1, <1>2, <1>6 DEF CurrentInv
<1> QED BY <1>2, <1>6, <1>7, <1>8 DEF StepBy

\* What remains of task_exit() after the zombie state is set.
MovedTo(T, p, where) == [T EXCEPT ![p].pc = where]

LEMMA DyingTask ==
  ASSUME IInv, NEW p \in Pids, current = p, task[p].pc \in {"notify", "leave"},
         NEW where \in ExitPcs, NEW T, T = MovedTo(task, p, where)
  PROVE  /\ TableInv(T) /\ p # 0 /\ task[p].state = "zombie"
         /\ \A q \in Pids \ {p} : T[q] = task[q]
         /\ T[p].state = "zombie" /\ T[p].pc = where
         /\ T[p].parent_id = task[p].parent_id
         /\ T[p].exit_status = task[p].exit_status /\ T[p].pending = task[p].pending
<1> DEFINE t == [task[p] EXCEPT !.pc = where]
<1>1. TableInv(task) /\ task[p].state # "free"
  BY DEF IInv, CurrentInv
<1>2. task \in [Pids -> Task] /\ task[p] \in Task /\ TaskInv(task[p]) /\ p # 0
  BY <1>1 DEF TableInv
<1>3. task[p].state = "zombie"
  BY <1>1, <1>2 DEF TaskInv, ExitPcs
<1>4. t \in Task
  BY <1>2 DEF Task, Pcs
<1>5. /\ t.state = "zombie" /\ t.pc = where
      /\ t.active = task[p].active /\ t.frames = task[p].frames
      /\ t.parent_id = task[p].parent_id /\ t.exit_status = task[p].exit_status
      /\ t.pending = task[p].pending
      /\ t.handlers = task[p].handlers /\ t.trampoline = task[p].trampoline
  BY <1>2, <1>3 DEF Task
<1>6. T = [task EXCEPT ![p] = t]
  BY <1>2 DEF Task, MovedTo
<1> HIDE DEF t
<1>7. T \in [Pids -> Task] /\ T[p] = t /\ \A q \in Pids \ {p} : T[q] = task[q]
  BY <1>2, <1>4, <1>6
<1>8. TaskInv(t) /\ t.pc # "idle"
  BY <1>2, <1>5 DEF TaskInv, SigreturnSucceeds, ExitPcs
<1>9. TableInv(T)
  BY <1>1, <1>2, <1>7, <1>8, ReplaceEntry
<1> QED BY <1>2, <1>3, <1>5, <1>7, <1>9

LEMMA SendSigchldStep ==
  ASSUME IInv, NEW p \in Pids, SendSigchld(p)
  PROVE  StepBy(p) /\ task'[p].pending = task[p].pending
<1> DEFINE T == MovedTo(task, p, "leave")
<1>1. current = p /\ task[p].pc \in {"notify", "leave"} /\ "leave" \in ExitPcs
  BY DEF SendSigchld, Kernel, ExitPcs
<1>2. task' = NotifyParent(T, p)
  BY DEF SendSigchld, MovedTo
<1> HIDE DEF T
<1>3. /\ TableInv(T) /\ task[p].state = "zombie"
      /\ \A q \in Pids \ {p} : T[q] = task[q]
      /\ T[p].state = "zombie" /\ T[p].pc = "leave"
      /\ T[p].parent_id = task[p].parent_id
      /\ T[p].exit_status = task[p].exit_status /\ T[p].pending = task[p].pending
  BY <1>1, DyingTask DEF T
<1>4. TableInv(task') /\ Others(T, task', p) /\ task'[p] = T[p]
  BY <1>2, <1>3, NotifyParentKeeps
<1>5. Others(task, task', p) /\ Own(task, task', p)
  BY <1>3, <1>4 DEF Others, Own
<1>6. /\ kbd' \in 0 .. KbdCap /\ next_pid' = next_pid /\ current' = current
      /\ current \in Pids
  BY DEF SendSigchld, IInv, TypeOK
<1>7. CurrentInv'
  BY <1>1, <1>3, <1>4, <1>6 DEF CurrentInv
<1> QED BY <1>3, <1>4, <1>5, <1>6, <1>7 DEF StepBy

LEMMA LeaveZombieStep ==
  ASSUME IInv, NEW p \in Pids, LeaveZombie(p)
  PROVE  StepBy(p) /\ task'[p].pending = task[p].pending
<1>1. current = p /\ task[p].pc \in {"notify", "leave"} /\ "dead" \in ExitPcs
  BY DEF LeaveZombie, Kernel, ExitPcs
<1>2. task' = MovedTo(task, p, "dead")
  BY DEF LeaveZombie, GoTo, MovedTo
<1>3. /\ TableInv(task') /\ task[p].state = "zombie"
      /\ \A q \in Pids \ {p} : task'[q] = task[q]
      /\ task'[p].state = "zombie" /\ task'[p].pc = "dead"
      /\ task'[p].parent_id = task[p].parent_id
      /\ task'[p].exit_status = task[p].exit_status
      /\ task'[p].pending = task[p].pending
  BY <1>1, <1>2, DyingTask
<1>4. Others(task, task', p) /\ Own(task, task', p)
  BY <1>3 DEF Others, Own
<1>5. current' \in Pids /\ task[current'].state = "runnable"
  BY NextRunnableIsRunnable DEF LeaveZombie, IInv
<1>6. task'[current'].state = "runnable"
  BY <1>3, <1>5
<1>7. kbd' \in 0 .. KbdCap /\ next_pid' = next_pid
  BY DEF LeaveZombie, IInv, TypeOK
<1>8. CurrentInv'
  BY <1>6 DEF CurrentInv
<1> QED BY <1>3, <1>4, <1>5, <1>6, <1>7, <1>8 DEF StepBy

LEMMA TimerKernelStep ==
  ASSUME IInv, NEW p \in Pids, TimerKernel(p)
  PROVE  StepBy(p) /\ task'[p].pending = task[p].pending
<1>1. task' = task /\ next_pid' = next_pid /\ kbd' = kbd /\ TableInv(task)
  BY DEF TimerKernel, IInv
<1>2. current' \in Pids /\ task[current'].state = "runnable"
  BY <1>1, NextRunnableIsRunnable DEF TimerKernel
<1>3. Others(task, task', p) /\ Own(task, task', p)
  BY <1>1 DEF Others, Own
<1>4. CurrentInv' /\ kbd' \in 0 .. KbdCap
  BY <1>1, <1>2 DEF CurrentInv, IInv, TypeOK
<1> QED BY <1>1, <1>2, <1>3, <1>4 DEF StepBy

LEMMA TimerUserStep ==
  ASSUME IInv, NEW p \in Pids, TimerUser(p)
  PROVE  StepBy(p) /\ KillKept(task, task', p)
<1> DEFINE T == Deliver(task, p)
           t == [T[p] EXCEPT !.pc = "irqret"]
<1>1. /\ p # 0 /\ task[p].state = "runnable" /\ TableInv(task) /\ current = p
  BY RunningTask DEF TimerUser
<1>2. task' = IF T[p].state = "runnable" THEN [T EXCEPT ![p].pc = "irqret"] ELSE T
  BY DEF TimerUser
<1> HIDE DEF T
<1>3. /\ TableInv(T)
      /\ Others(task, T, p) /\ Own(task, T, p) /\ KillKept(task, T, p)
  BY <1>1, PreparedUnchanged, DeliverAfter DEF T
<1>4. T \in [Pids -> Task] /\ T[p] \in Task /\ TaskInv(T[p])
  BY <1>3 DEF TableInv
<1>5. /\ TableInv(task')
      /\ Others(task, task', p) /\ Own(task, task', p) /\ KillKept(task, task', p)
  <2>1. CASE T[p].state # "runnable"
    BY <1>2, <1>3, <2>1
  <2>2. CASE T[p].state = "runnable"
    <3>1. task' = [T EXCEPT ![p] = t]
      BY <1>2, <1>4, <2>2
    <3>2. t \in Task
      BY <1>4 DEF Task, Pcs
    <3>3. /\ t.state = "runnable" /\ t.pc = "irqret"
          /\ t.active = T[p].active /\ t.frames = T[p].frames
          /\ t.parent_id = T[p].parent_id /\ t.exit_status = T[p].exit_status
          /\ t.pending = T[p].pending
          /\ t.handlers = T[p].handlers /\ t.trampoline = T[p].trampoline
      BY <1>4, <2>2 DEF Task
    <3> HIDE DEF t
    <3>4. /\ task' \in [Pids -> Task] /\ task'[p] = t
          /\ \A q \in Pids \ {p} : task'[q] = T[q]
      BY <1>4, <3>1, <3>2
    <3>5. TaskInv(t) /\ t.pc # "idle"
      BY <1>4, <3>3 DEF TaskInv, SigreturnSucceeds, ExitPcs
    <3>6. TableInv(task')
      BY <1>1, <1>3, <3>4, <3>5, ReplaceEntry
    <3>7. Others(task, task', p)
      BY <1>3, <3>4 DEF Others
    <3>8. Own(task, task', p) /\ KillKept(task, task', p)
      BY <1>3, <2>2, <3>3, <3>4 DEF Own, KillKept
    <3> QED BY <3>6, <3>7, <3>8
  <2> QED BY <2>1, <2>2
<1>6. current' \in Pids /\ task'[current'].state = "runnable"
  BY <1>5, NextRunnableIsRunnable DEF TimerUser
<1>7. kbd' \in 0 .. KbdCap /\ next_pid' = next_pid
  BY DEF TimerUser, IInv, TypeOK
<1>8. CurrentInv'
  BY <1>6 DEF CurrentInv
<1> QED BY <1>5, <1>6, <1>7, <1>8 DEF StepBy

-----------------------------------------------------------------------------
(* Fork and waitpid: another entry changes before the delivery. *)

Forked(p) ==
  [task EXCEPT ![next_pid] = FreshTask("runnable", p, task[p].handlers, task[p].trampoline,
                                       task[p].frames, "irqret")]

Reaped(c) == [task EXCEPT ![c] = FreeTask]

LEMMA ForkedTable ==
  ASSUME IInv, NEW p \in Pids, SyscallFork(p), NEW T, T = Forked(p)
  PROVE  /\ p # 0 /\ task[p].state = "runnable"
         /\ next_pid \in Pids \ {0} /\ p < next_pid /\ task[next_pid] = FreeTask
         /\ next_pid' = next_pid + 1 /\ next_pid' \in 2 .. MaxPid + 1
         /\ TableInv(T) /\ Family(T, next_pid')
         /\ \A q \in Pids \ {next_pid} : T[q] = task[q]
         /\ T[next_pid].state = "runnable" /\ T[next_pid].parent_id = p
         /\ T[next_pid].exit_status = 0 /\ T[next_pid].pending = {}
<1> DEFINE c == next_pid
           t == FreshTask("runnable", p, task[p].handlers, task[p].trampoline,
                          task[p].frames, "irqret")
<1>1. /\ p # 0 /\ task[p].state = "runnable" /\ TableInv(task) /\ current = p
      /\ task \in [Pids -> Task] /\ task[p] \in Task /\ TaskInv(task[p])
      /\ Family(task, c)
  BY RunningTask DEF SyscallFork
<1>2. c \in Pids \ {0} /\ c' = c + 1 /\ c' \in 2 .. MaxPid + 1 /\ c \in Nat
  BY MaxPidAssumption DEF IInv, TypeOK, SyscallFork, Pids
<1>3. task[c] = FreeTask /\ FreeTask.state = "free"
  BY <1>1, <1>2 DEF Family, FreeTask, FreshTask
<1>4. p < c
  <2>1. ~(p >= c)
    BY <1>1, <1>3 DEF Family
  <2> QED BY <1>2, <2>1 DEF Pids
<1>5. t \in Task
  <2>1. p \in -1 .. MaxPid
    BY DEF Pids
  <2>2. /\ task[p].handlers \in [Sigs -> Dispositions] /\ task[p].trampoline \in BOOLEAN
        /\ task[p].frames \in Seq(Sigs)
    BY <1>1 DEF Task
  <2> QED BY <2>1, <2>2 DEF Task, FreshTask, States, Pcs
<1>6. /\ t.state = "runnable" /\ t.pc = "irqret" /\ t.active = 0 /\ t.frames = task[p].frames
      /\ t.parent_id = p /\ t.exit_status = 0 /\ t.pending = {}
      /\ t.handlers = task[p].handlers /\ t.trampoline = task[p].trampoline
  BY DEF FreshTask
<1>7. T = [task EXCEPT ![c] = t]
  BY DEF Forked
<1> HIDE DEF t
<1>8. T \in [Pids -> Task] /\ T[c] = t /\ \A q \in Pids \ {c} : T[q] = task[q]
  BY <1>1, <1>2, <1>5, <1>7
<1>9. TaskInv(t)
  BY <1>1, <1>6, SignalNumbers DEF TaskInv, ExitPcs
<1>10. TableInv(T)
  BY <1>1, <1>2, <1>6, <1>8, <1>9, ReplaceEntry
<1>11. Family(T, c + 1)
  <2> SUFFICES ASSUME NEW q \in Pids
               PROVE  (q >= c + 1 => T[q] = FreeTask)
                        /\ (T[q].state # "free" => T[q].parent_id < q)
    BY DEF Family
  <2>1. q >= c + 1 => q # c /\ q >= c
    BY <1>2 DEF Pids
  <2>2. q # c => (q >= c => T[q] = FreeTask) /\ (T[q].state # "free" => T[q].parent_id < q)
    BY <1>1, <1>8 DEF Family
  <2>3. T[c].parent_id < c
    BY <1>4, <1>6, <1>8
  <2> QED BY <2>1, <2>2, <2>3
<1> QED BY <1>1, <1>2, <1>3, <1>4, <1>6, <1>8, <1>10, <1>11

LEMMA ReapedTable ==
  ASSUME IInv, NEW p \in Pids, NEW c \in Pids, SyscallWaitpid(p, c), Reapable(p, c),
         NEW T, T = Reaped(c)
  PROVE  /\ p # 0 /\ task[p].state = "runnable" /\ c # p
         /\ TableInv(T) /\ Family(T, next_pid)
         /\ T[c] = FreeTask
         /\ \A q \in Pids \ {c} : T[q] = task[q]
<1>1. /\ p # 0 /\ task[p].state = "runnable" /\ TableInv(task)
      /\ task \in [Pids -> Task] /\ Family(task, next_pid)
  BY RunningTask DEF SyscallWaitpid, Program
<1>2. task[c].state = "zombie" /\ c # p
  BY <1>1 DEF Reapable
<1>3. c # 0
  BY <1>1, <1>2 DEF TableInv
<1>4. FreeTask \in Task
  <2>1. NoHandlers \in [Sigs -> Dispositions]
    BY DEF NoHandlers, Dispositions
  <2>2. -1 \in -1 .. MaxPid
    BY MaxPidAssumption
  <2> QED BY <2>1, <2>2 DEF FreeTask, FreshTask, Task, States, Pcs, ExitPcs
<1>5. /\ FreeTask.state = "free" /\ FreeTask.pc = "dead" /\ FreeTask.active = 0
      /\ FreeTask.handlers = NoHandlers /\ FreeTask.frames = <<>>
  BY DEF FreeTask, FreshTask
<1>6. TaskInv(FreeTask)
  <2>1. \A s \in Sigs : NoHandlers[s] = "default"
    BY DEF NoHandlers
  <2>2. Len(FreeTask.frames) <= MaxFrames
    BY <1>5, MaxFramesAssumption
  <2> QED BY <1>5, <2>1, <2>2, SignalNumbers DEF TaskInv
<1>7. T \in [Pids -> Task] /\ T[c] = FreeTask /\ \A q \in Pids \ {c} : T[q] = task[q]
  BY <1>1, <1>4 DEF Reaped
<1>8. TableInv(T)
  BY <1>1, <1>3, <1>5, <1>6, <1>7, ReplaceEntry
<1>9. Family(T, next_pid)
  BY <1>1, <1>5, <1>7 DEF Family
<1> QED BY <1>1, <1>2, <1>7, <1>8, <1>9

\* The end of a fork, or of a waitpid that reaped: table T, then the delivery.
LEMMA FamilyStep ==
  ASSUME NEW p \in Pids, p # 0, NEW T, TableInv(T), T[p].state = "runnable",
         Family(T, next_pid'), SyscallEnd(T, p)
  PROVE  /\ TableInv(task') /\ Family(task', next_pid')
         /\ Others(T, task', p) /\ Own(T, task', p) /\ KillKept(T, task', p)
         /\ current' \in Pids /\ task'[current'].state = "runnable"
<1>1. task' = Deliver(T, p) /\ current' = Resume(task', p)
  BY DEF SyscallEnd
<1>2. /\ TableInv(task')
      /\ Others(T, task', p) /\ Own(T, task', p) /\ KillKept(T, task', p)
  BY <1>1, DeliverKeeps
<1>3. current' \in Pids /\ task'[current'].state = "runnable"
  BY <1>1, <1>2, ResumeIsRunnable
<1>4. Family(task', next_pid')
  BY <1>2, FamilyKept DEF Own
<1> QED BY <1>2, <1>3, <1>4

LEMMA ForkStep ==
  ASSUME IInv, NEW p \in Pids, SyscallFork(p), NEW T, T = Forked(p)
  PROVE  /\ TableInv(task') /\ Family(task', next_pid') /\ next_pid' \in 2 .. MaxPid + 1
         /\ current' \in Pids /\ task'[current'].state = "runnable" /\ kbd' = kbd
         /\ Others(T, task', p) /\ Own(T, task', p) /\ KillKept(T, task', p)
<1>1. SyscallEnd(T, p) /\ kbd' = kbd
  BY DEF SyscallFork, Forked
<1>2. /\ p # 0 /\ task[p].state = "runnable" /\ next_pid' \in 2 .. MaxPid + 1
      /\ TableInv(T) /\ Family(T, next_pid') /\ p # next_pid
      /\ \A q \in Pids \ {next_pid} : T[q] = task[q]
  BY ForkedTable DEF Pids
<1>3. T[p].state = "runnable"
  BY <1>2
<1> QED BY <1>1, <1>2, <1>3, FamilyStep

LEMMA ReapStep ==
  ASSUME IInv, NEW p \in Pids, NEW c \in Pids, SyscallWaitpid(p, c), Reapable(p, c),
         NEW T, T = Reaped(c)
  PROVE  /\ TableInv(task') /\ Family(task', next_pid') /\ next_pid' = next_pid
         /\ current' \in Pids /\ task'[current'].state = "runnable" /\ kbd' = kbd
         /\ Others(T, task', p) /\ Own(T, task', p) /\ KillKept(T, task', p)
<1>1. SyscallEnd(T, p) /\ kbd' = kbd /\ next_pid' = next_pid
  BY DEF SyscallWaitpid, Reaped
<1>2. /\ p # 0 /\ task[p].state = "runnable" /\ p # c
      /\ TableInv(T) /\ Family(T, next_pid)
      /\ \A q \in Pids \ {c} : T[q] = task[q]
  BY ReapedTable
<1>3. T[p].state = "runnable" /\ Family(T, next_pid')
  BY <1>1, <1>2
<1> QED BY <1>1, <1>2, <1>3, FamilyStep

-----------------------------------------------------------------------------
(***************************************************************************)
(* Every step is one of four kinds: the running process acts on itself     *)
(* (and signals others), it forks, it reaps a child, or a key arrives.     *)
(***************************************************************************)
OwnStep(p) ==
  /\ current = p
  /\ StepBy(p)
  /\ \/ KillKept(task, task', p)
     \/ task[p].pc = "taken" /\ task'[p].pending = task[p].snap

LEMMA SyscallCases ==
  ASSUME IInv, NEW p \in Pids, Syscall(p)
  PROVE  \/ OwnStep(p)
         \/ SyscallFork(p)
         \/ \E c \in Pids : SyscallWaitpid(p, c) /\ Reapable(p, c)
<1>1. CASE SyscallFork(p)
  BY <1>1
<1>2. ASSUME NEW status \in ExitCodes, SyscallExit(p, status) PROVE OwnStep(p)
  <2>1. status \in Statuses
    BY DEF Statuses
  <2>2. /\ current = p /\ task[p].pc = "user" /\ task' = Exit(task, p, status)
        /\ current' = Resume(task', p) /\ UNCHANGED <<next_pid, kbd>>
    BY <1>2 DEF SyscallExit, Program
  <2> QED BY <2>1, <2>2, SyscallExitStep DEF OwnStep
<1>3. ASSUME NEW c \in Pids, SyscallWaitpid(p, c), ~Reapable(p, c) PROVE OwnStep(p)
  <2>1. current = p /\ p # 0 /\ task[p].state = "runnable" /\ TableInv(task)
    BY <1>3, RunningTask DEF SyscallWaitpid, Program
  <2>2. SyscallEnd(task, p) /\ next_pid' = next_pid /\ kbd' \in 0 .. KbdCap
    BY <1>3 DEF SyscallWaitpid, IInv, TypeOK
  <2> QED BY <2>1, <2>2, PreparedUnchanged, SyscallEndKeeps DEF OwnStep
<1>4. ASSUME NEW q \in Pids, NEW s \in Sigs, SyscallKill(p, q, s) PROVE OwnStep(p)
  BY <1>4, SyscallKillStep DEF OwnStep, SyscallKill, Program
<1>5. ASSUME NEW s \in Handled, NEW d \in Dispositions, SyscallSignal(p, s, d)
      PROVE  OwnStep(p)
  BY <1>5, SyscallSignalStep, HandledAssumption DEF OwnStep, SyscallSignal, Program
<1>6. ASSUME SyscallSigreturn(p) PROVE OwnStep(p)
  BY <1>6, SyscallSigreturnStep DEF OwnStep, SyscallSigreturn, Program
<1>7. ASSUME SigreturnFails(p) PROVE OwnStep(p)
  <2>1. 255 \in Statuses
    BY DEF Statuses
  <2>2. /\ current = p /\ task[p].pc = "user" /\ task' = Exit(task, p, 255)
        /\ current' = Resume(task', p) /\ UNCHANGED <<next_pid, kbd>>
    BY <1>7 DEF SigreturnFails, Program
  <2> QED BY <2>1, <2>2, SyscallExitStep DEF OwnStep
<1>8. ASSUME SyscallExecve(p) PROVE OwnStep(p)
  BY <1>8, SyscallExecveStep DEF OwnStep, SyscallExecve, Program
<1>9. ASSUME SyscallGetchar(p) \/ SyscallRead(p) PROVE OwnStep(p)
  BY <1>9, SyscallPollStep DEF OwnStep, SyscallGetchar, SyscallRead, Program
<1>10. ASSUME SyscallReadSleep(p) PROVE OwnStep(p)
  BY <1>10, SyscallReadSleepStep DEF OwnStep, SyscallReadSleep, Program, KillKept
<1> QED BY <1>1, <1>2, <1>3, <1>4, <1>5, <1>6, <1>7, <1>8, <1>9, <1>10 DEF Syscall

LEMMA KernelCases ==
  ASSUME IInv, NEW p \in Pids, KernelStep(p) \/ Timer(p)
  PROVE  OwnStep(p)
<1>1. ASSUME CheckPending(p) \/ PollRing(p) \/ IrqReturn(p) PROVE OwnStep(p)
  BY <1>1, MoveStep DEF OwnStep, CheckPending, PollRing, IrqReturn, Kernel, KillKept
<1>2. ASSUME SetWaiting(p) PROVE OwnStep(p)
  BY <1>2, SetWaitingStep DEF OwnStep, SetWaiting, Kernel, KillKept
<1>3. ASSUME SwitchAway(p) PROVE OwnStep(p)
  BY <1>3, SwitchAwayStep DEF OwnStep, SwitchAway, Kernel, KillKept
<1>4. ASSUME TakeSignal(p) PROVE OwnStep(p)
  BY <1>4, TakeSignalStep DEF OwnStep, TakeSignal, Kernel, KillKept
<1>5. ASSUME ActOnSignal(p) PROVE OwnStep(p)
  BY <1>5, ActOnSignalStep DEF OwnStep, ActOnSignal, Kernel
<1>6. ASSUME SetZombie(p) PROVE OwnStep(p)
  BY <1>6, SetZombieStep DEF OwnStep, SetZombie, Kernel, KillKept
<1>7. ASSUME SendSigchld(p) PROVE OwnStep(p)
  BY <1>7, SendSigchldStep DEF OwnStep, SendSigchld, Kernel, KillKept
<1>8. ASSUME LeaveZombie(p) PROVE OwnStep(p)
  BY <1>8, LeaveZombieStep DEF OwnStep, LeaveZombie, Kernel, KillKept
<1>9. ASSUME TimerUser(p) PROVE OwnStep(p)
  BY <1>9, TimerUserStep DEF OwnStep, TimerUser
<1>10. ASSUME TimerKernel(p) PROVE OwnStep(p)
  BY <1>10, TimerKernelStep DEF OwnStep, TimerKernel, KillKept
<1> QED BY <1>1, <1>2, <1>3, <1>4, <1>5, <1>6, <1>7, <1>8, <1>9, <1>10
        DEF KernelStep, Timer

LEMMA StepCases ==
  ASSUME IInv, Next
  PROVE  \/ \E p \in Pids : OwnStep(p)
         \/ \E p \in Pids : SyscallFork(p)
         \/ \E p, c \in Pids : SyscallWaitpid(p, c) /\ Reapable(p, c)
         \/ KeyboardInterrupt
BY SyscallCases, KernelCases DEF Next

-----------------------------------------------------------------------------
(* The invariant. *)

LEMMA WakeKeeps ==
  ASSUME IInv, KeyboardInterrupt
  PROVE  /\ TableInv(task')
         /\ \A p \in Pids :
              /\ task[p].state = "waiting" => task'[p].state = "runnable"
              /\ task[p].state # "waiting" => task'[p] = task[p]
              /\ task'[p].parent_id = task[p].parent_id
              /\ task'[p].exit_status = task[p].exit_status
              /\ task'[p].pending = task[p].pending
              /\ task'[p].pc = task[p].pc
<1>1. TableInv(task) /\ task \in [Pids -> Task] /\ 0 \in Pids
  BY MaxPidAssumption DEF IInv, TableInv, Pids
<1>2. ASSUME NEW p \in Pids
      PROVE  /\ task'[p] \in Task /\ TaskInv(task'[p])
             /\ task[p].state = "waiting" => task'[p].state = "runnable"
             /\ task[p].state # "waiting" => task'[p] = task[p]
             /\ task'[p].parent_id = task[p].parent_id
             /\ task'[p].exit_status = task[p].exit_status
             /\ task'[p].pending = task[p].pending
             /\ task'[p].pc = task[p].pc
  <2>1. task[p] \in Task /\ TaskInv(task[p])
    BY <1>1 DEF TableInv
  <2>2. CASE task[p].state # "waiting"
    <3>1. task'[p] = task[p]
      BY <2>2 DEF KeyboardInterrupt, Wake
    <3> QED BY <2>1, <2>2, <3>1
  <2>3. CASE task[p].state = "waiting"
    <3> DEFINE t == [task[p] EXCEPT !.state = "runnable"]
    <3>1. task'[p] = t
      BY <2>3 DEF KeyboardInterrupt, Wake
    <3>2. t \in Task
      BY <2>1 DEF Task, States
    <3>3. /\ t.state = "runnable" /\ t.pc = task[p].pc /\ t.sig = task[p].sig
          /\ t.active = task[p].active /\ t.frames = task[p].frames
          /\ t.parent_id = task[p].parent_id /\ t.exit_status = task[p].exit_status
          /\ t.pending = task[p].pending
          /\ t.handlers = task[p].handlers /\ t.trampoline = task[p].trampoline
      BY <2>1 DEF Task
    <3> HIDE DEF t
    <3>4. TaskInv(t)
      BY <2>1, <2>3, <3>3 DEF TaskInv, SigreturnSucceeds, ExitPcs
    <3> QED BY <2>3, <3>1, <3>2, <3>3, <3>4
  <2> QED BY <2>2, <2>3
<1>3. task' \in [Pids -> Task]
  <2>1. task' = [p \in Pids |-> task'[p]]
    BY DEF KeyboardInterrupt, Wake
  <2> QED BY <1>2, <2>1
<1>4. TableInv(task')
  BY <1>1, <1>2, <1>3 DEF TableInv
<1> QED BY <1>2, <1>4

LEMMA InitEstablishes ==
  Init => IInv
<1> SUFFICES ASSUME Init PROVE IInv
  OBVIOUS
<1> DEFINE idle == FreshTask("runnable", -1, NoHandlers, FALSE, <<>>, "idle")
           init == FreshTask("runnable", 0, NoHandlers, FALSE, <<>>, "irqret")
<1>1. 0 \in Pids /\ 1 \in Pids
  BY MaxPidAssumption DEF Pids
<1>2. NoHandlers \in [Sigs -> Dispositions] /\ \A s \in Sigs : NoHandlers[s] = "default"
  BY DEF NoHandlers, Dispositions
<1>3. -1 \in -1 .. MaxPid /\ 0 \in -1 .. MaxPid
  BY MaxPidAssumption
<1>4. <<>> \in Seq(Sigs) /\ Len(<<>>) = 0
  OBVIOUS
<1>5. idle \in Task /\ init \in Task /\ FreeTask \in Task
  BY <1>2, <1>3, <1>4 DEF FreeTask, FreshTask, Task, States, Pcs, ExitPcs
<1>6. /\ idle.state = "runnable" /\ idle.pc = "idle" /\ idle.active = 0
      /\ idle.handlers = NoHandlers /\ idle.frames = <<>> /\ idle.parent_id = -1
      /\ init.state = "runnable" /\ init.pc = "irqret" /\ init.active = 0
      /\ init.handlers = NoHandlers /\ init.frames = <<>> /\ init.parent_id = 0
      /\ FreeTask.state = "free" /\ FreeTask.pc = "dead" /\ FreeTask.active = 0
      /\ FreeTask.handlers = NoHandlers /\ FreeTask.frames = <<>>
  BY DEF FreeTask, FreshTask
<1>7. task = [p \in Pids |-> IF p = 0 THEN idle ELSE IF p = 1 THEN init ELSE FreeTask]
  BY DEF Init
<1> HIDE DEF idle, init
<1>8. TaskInv(idle) /\ TaskInv(init) /\ TaskInv(FreeTask)
  BY <1>2, <1>4, <1>6, SignalNumbers, MaxFramesAssumption DEF TaskInv, ExitPcs
<1>9. task \in [Pids -> Task] /\ \A p \in Pids : TaskInv(task[p])
  BY <1>5, <1>7, <1>8
<1>10. task[0] = idle /\ task[1] = init /\ \A p \in Pids \ {0, 1} : task[p] = FreeTask
  BY <1>1, <1>7
<1>11. \A p \in Pids : task[p].pc = "idle" <=> p = 0
  BY <1>6, <1>10
<1>12. TableInv(task)
  BY <1>6, <1>9, <1>10, <1>11 DEF TableInv
<1>13. current = 0 /\ next_pid = 2 /\ kbd = 0
  BY DEF Init
<1>14. Family(task, next_pid)
  <2> SUFFICES ASSUME NEW p \in Pids
               PROVE  (p >= 2 => task[p] = FreeTask)
                        /\ (task[p].state # "free" => task[p].parent_id < p)
    BY <1>13 DEF Family
  <2>1. p >= 2 => task[p] = FreeTask
    BY <1>10 DEF Pids
  <2>2. task[p].state # "free" => p = 0 \/ p = 1
    BY <1>6, <1>10
  <2> QED BY <1>6, <1>10, <2>1, <2>2
<1>15. CurrentInv
  BY <1>6, <1>10, <1>13 DEF CurrentInv
<1>16. TypeOK
  BY <1>1, <1>9, <1>13, MaxPidAssumption, KbdCapAssumption DEF TypeOK
<1> QED BY <1>12, <1>14, <1>15, <1>16 DEF IInv

LEMMA NextPreserves ==
  IInv /\ [Next]_vars => IInv'
<1> SUFFICES ASSUME IInv, [Next]_vars PROVE IInv'
  OBVIOUS
<1>1. /\ TypeOK /\ TableInv(task) /\ Family(task, next_pid) /\ CurrentInv
      /\ current \in Pids /\ next_pid \in 2 .. MaxPid + 1
  BY DEF IInv, TypeOK
<1>2. CASE UNCHANGED vars
  BY <1>1, <1>2 DEF vars, IInv, TypeOK, TableInv, Family, CurrentInv
<1>3. ASSUME NEW p \in Pids, OwnStep(p) PROVE IInv'
  <2>1. /\ TableInv(task') /\ Others(task, task', p) /\ Own(task, task', p)
        /\ next_pid' = next_pid /\ current' \in Pids /\ CurrentInv' /\ kbd' \in 0 .. KbdCap
        /\ current = p
    BY <1>3 DEF OwnStep, StepBy
  <2>2. task[p].state # "free" /\ task'[p].parent_id = task[p].parent_id
    BY <1>1, <2>1 DEF CurrentInv, Own
  <2>3. Family(task', next_pid)
    BY <1>1, <2>1, <2>2, FamilyKept
  <2>4. TypeOK'
    BY <1>1, <2>1 DEF TypeOK, TableInv
  <2> QED BY <2>1, <2>3, <2>4 DEF IInv
<1>4. ASSUME NEW p \in Pids, SyscallFork(p) PROVE IInv'
  <2>1. /\ TableInv(task') /\ Family(task', next_pid') /\ next_pid' \in 2 .. MaxPid + 1
        /\ current' \in Pids /\ task'[current'].state = "runnable" /\ kbd' = kbd
    BY <1>4, ForkStep
  <2>2. TypeOK' /\ CurrentInv'
    BY <1>1, <2>1 DEF TypeOK, TableInv, CurrentInv
  <2> QED BY <2>1, <2>2 DEF IInv
<1>5. ASSUME NEW p \in Pids, NEW c \in Pids, SyscallWaitpid(p, c), Reapable(p, c)
      PROVE  IInv'
  <2>1. /\ TableInv(task') /\ Family(task', next_pid') /\ next_pid' = next_pid
        /\ current' \in Pids /\ task'[current'].state = "runnable" /\ kbd' = kbd
    BY <1>5, ReapStep
  <2>2. TypeOK' /\ CurrentInv'
    BY <1>1, <2>1 DEF TypeOK, TableInv, CurrentInv
  <2> QED BY <2>1, <2>2 DEF IInv
<1>6. ASSUME KeyboardInterrupt PROVE IInv'
  <2>1. current' = current /\ next_pid' = next_pid /\ kbd' \in 0 .. KbdCap
    BY <1>1, <1>6, KbdCapAssumption DEF KeyboardInterrupt, TypeOK
  <2>2. TableInv(task')
    BY <1>6, WakeKeeps
  <2>3. Family(task', next_pid')
    <3>1. FreeTask.state # "waiting"
      BY DEF FreeTask, FreshTask
    <3>2. \A p \in Pids :
            /\ task[p].state = "waiting" => task'[p].state = "runnable"
            /\ task[p].state # "waiting" => task'[p] = task[p]
            /\ task'[p].parent_id = task[p].parent_id
      BY <1>6, WakeKeeps
    <3> QED BY <1>1, <2>1, <3>1, <3>2 DEF Family
  <2>4. CurrentInv'
    <3>1. /\ task[current].state = "waiting" => task'[current].state = "runnable"
          /\ task[current].state # "waiting" => task'[current] = task[current]
      BY <1>1, <1>6, WakeKeeps
    <3> QED BY <1>1, <2>1, <3>1 DEF CurrentInv
  <2>5. TypeOK'
    BY <1>1, <2>1, <2>2 DEF TypeOK, TableInv
  <2> QED BY <2>2, <2>3, <2>4, <2>5 DEF IInv
<1> QED BY <1>2, <1>3, <1>4, <1>5, <1>6, StepCases

LEMMA Invariance ==
  Spec => []IInv
BY InitEstablishes, NextPreserves, PTL DEF Spec

-----------------------------------------------------------------------------
(***************************************************************************)
(* Every field of every task_t keeps its type, current_task is a task, the *)
(* next PID and the number of queued bytes stay within their bounds.       *)
(***************************************************************************)
THEOREM TypeCorrect ==
  Spec => []TypeOK
<1>1. IInv => TypeOK
  BY DEF IInv
<1> QED BY <1>1, Invariance, PTL

(***************************************************************************)
(* The CPU executes only runnable tasks, except in the last instructions   *)
(* of task_wait_for_keyboard and of task_exit; PID 0 stays runnable.       *)
(***************************************************************************)
THEOREM OnlyRunnableTasksRun ==
  Spec => []RunningIsRunnable
<1>1. IInv => RunningIsRunnable
  <2> SUFFICES ASSUME IInv PROVE RunningIsRunnable
    OBVIOUS
  <2>1. 0 \in Pids /\ current \in Pids
    BY MaxPidAssumption DEF IInv, TypeOK, Pids
  <2>2. task[0].state = "runnable" /\ task[0].pc = "idle"
    BY <2>1 DEF IInv, TableInv
  <2>3. /\ task[current] \in Task /\ TaskInv(task[current])
        /\ task[current].state # "free"
        /\ \/ task[current].pc \in {"notify", "leave"} \/ task[current].pc = "switch"
           \/ task[current].state = "runnable"
    BY <2>1 DEF IInv, TableInv, CurrentInv
  <2>4. task[current].state \in States
    BY <2>3 DEF Task
  <2>5. task[current].pc \in {"notify", "leave"} => task[current].state = "zombie"
    BY <2>3 DEF TaskInv, ExitPcs
  <2>6. task[current].pc = "switch" => task[current].state \in {"waiting", "runnable"}
    BY <2>3, <2>4 DEF TaskInv, ExitPcs, States
  <2> QED BY <2>2, <2>3, <2>5, <2>6 DEF RunningIsRunnable
<1> QED BY <1>1, Invariance, PTL

(***************************************************************************)
(* TASK_WAITING_INPUT is only ever the state of a task inside read(0), and *)
(* a task is a zombie exactly when task_exit is all that is left of it.    *)
(***************************************************************************)
THEOREM StatesMatchCode ==
  Spec => []StateMatchesCode
<1>1. IInv => StateMatchesCode
  BY DEF IInv, TableInv, TaskInv, StateMatchesCode
<1> QED BY <1>1, Invariance, PTL

(***************************************************************************)
(* SIGKILL keeps its default action, a caught signal has its trampoline,   *)
(* an active handler can return, and the frames fit on the user stack.     *)
(***************************************************************************)
THEOREM SignalsStayConsistent ==
  Spec => []SignalStateConsistent
<1>1. IInv => SignalStateConsistent
  BY DEF IInv, TableInv, TaskInv, SignalStateConsistent
<1> QED BY <1>1, Invariance, PTL

(***************************************************************************)
(* switch_task never enters a zombie, a sleeper or a freed task.           *)
(***************************************************************************)
THEOREM SwitchIsSafe ==
  Spec => SwitchesToRunnable
<1>1. IInv /\ [Next]_vars => [current' # current => task'[current'].state = "runnable"]_vars
  <2> SUFFICES ASSUME IInv, Next, current' # current
               PROVE  task'[current'].state = "runnable"
    OBVIOUS
  <2>1. ASSUME NEW p \in Pids, OwnStep(p) PROVE task'[current'].state = "runnable"
    BY <2>1 DEF OwnStep, StepBy
  <2>2. ASSUME NEW p \in Pids, SyscallFork(p) PROVE task'[current'].state = "runnable"
    BY <2>2, ForkStep
  <2>3. ASSUME NEW p \in Pids, NEW c \in Pids, SyscallWaitpid(p, c), Reapable(p, c)
        PROVE  task'[current'].state = "runnable"
    BY <2>3, ReapStep
  <2>4. ASSUME KeyboardInterrupt PROVE FALSE
    BY <2>4 DEF KeyboardInterrupt
  <2> QED BY <2>1, <2>2, <2>3, <2>4, StepCases
<1> QED BY <1>1, Invariance, PTL DEF Spec, SwitchesToRunnable

(***************************************************************************)
(* A pending SIGKILL survives fork, exec, handlers and other signals until *)
(* it kills; the one way to lose it is the interruptible read-modify-write *)
(* of pending_signals by a woken reader.                                   *)
(***************************************************************************)
THEOREM KillLossIsStaleStore ==
  Spec => KillLostOnlyByStaleStore
<1> DEFINE Lost(p) == SIGKILL \in task[p].pending /\ SIGKILL \notin task'[p].pending
           Excused(p) ==
             \/ task'[p].state = "zombie" /\ task'[p].exit_status = 128 + SIGKILL
             \/ task'[p].pc = "exit" /\ task'[p].sig = SIGKILL
             \/ task[p].state = "zombie" /\ task'[p].state = "free"
             \/ /\ task[p].pc = "taken" /\ SIGKILL \notin task[p].snap
                /\ task'[p].pending = task[p].snap
<1>1. IInv /\ [Next]_vars => [\A p \in Pids : Lost(p) => Excused(p)]_vars
  <2> SUFFICES ASSUME IInv, Next, NEW r \in Pids, Lost(r) PROVE Excused(r)
    OBVIOUS
  <2>1. ASSUME NEW p \in Pids, OwnStep(p) PROVE Excused(r)
    <3>1. Others(task, task', p)
      BY <2>1 DEF OwnStep, StepBy
    <3>2. r = p
      BY <3>1 DEF Others
    <3>3. CASE KillKept(task, task', p)
      BY <3>2, <3>3 DEF KillKept, KilledBy
    <3>4. CASE task[p].pc = "taken" /\ task'[p].pending = task[p].snap
      BY <3>2, <3>4
    <3> QED BY <2>1, <3>3, <3>4 DEF OwnStep
  <2>2. ASSUME NEW p \in Pids, SyscallFork(p) PROVE Excused(r)
    <3> DEFINE T == Forked(p)
    <3> HIDE DEF T
    <3>1. Others(T, task', p) /\ KillKept(T, task', p)
      BY <2>2, ForkStep DEF T
    <3>2. task[next_pid] = FreeTask /\ \A q \in Pids \ {next_pid} : T[q] = task[q]
      BY <2>2, ForkedTable DEF T
    <3>3. r # next_pid
      BY <3>2 DEF FreeTask, FreshTask
    <3>4. r = p
      BY <3>1, <3>2, <3>3 DEF Others
    <3> QED BY <3>1, <3>2, <3>3, <3>4 DEF KillKept, KilledBy
  <2>3. ASSUME NEW p \in Pids, NEW c \in Pids, SyscallWaitpid(p, c), Reapable(p, c)
        PROVE  Excused(r)
    <3> DEFINE T == Reaped(c)
    <3> HIDE DEF T
    <3>1. Others(T, task', p) /\ KillKept(T, task', p)
      BY <2>3, ReapStep DEF T
    <3>2. T[c] = FreeTask /\ c # p /\ \A q \in Pids \ {c} : T[q] = task[q]
      BY <2>3, ReapedTable DEF T
    <3>3. CASE r = c
      <4>1. FreeTask.state = "free"
        BY DEF FreeTask, FreshTask
      <4>2. task'[c].state = "free"
        BY <3>1, <3>2, <4>1 DEF Others
      <4> QED BY <2>3, <3>3, <4>2 DEF Reapable
    <3>4. CASE r # c
      <4>1. r = p
        BY <3>1, <3>2, <3>4 DEF Others
      <4> QED BY <3>1, <3>2, <3>4, <4>1 DEF KillKept, KilledBy
    <3> QED BY <3>3, <3>4
  <2>4. ASSUME KeyboardInterrupt PROVE FALSE
    BY <2>4, WakeKeeps
  <2> QED BY <2>1, <2>2, <2>3, <2>4, StepCases
<1>2. IInv /\ [Next]_vars
        => [\A p \in Pids : KillLost(p) =>
              /\ task[p].pc = "taken" /\ SIGKILL \notin task[p].snap
              /\ task'[p].pending = task[p].snap]_vars
  BY <1>1 DEF KillLost
<1> QED BY <1>2, Invariance, PTL DEF Spec, KillLostOnlyByStaleStore
=============================================================================
