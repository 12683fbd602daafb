-------------------------- MODULE TasksRefinement --------------------------
(***************************************************************************)
(* The task list implements Processes: every step of the kernel is, for    *)
(* fork, exit and waitpid, one step of the abstract life cycle or none.    *)
(***************************************************************************)
EXTENDS TasksProofs

-----------------------------------------------------------------------------
(* The refinement mapping of Lifecycle, on a task table. *)

LifeOf(T, n, p) ==
  CASE T[p].state = "zombie" -> "dead"
    [] T[p].state = "free" -> IF p < n THEN "reaped" ELSE "unborn"
    [] OTHER -> "alive"

LifeMap   == [p \in Pids |-> LifeOf(task, next_pid, p)]
ParentMap == [p \in Pids |-> task[p].parent_id]
StatusMap == [p \in Pids |-> task[p].exit_status]

\* What the mapping sees of a process.
SameLife(T, m, U, n, q) ==
  /\ LifeOf(U, n, q) = LifeOf(T, m, q)
  /\ U[q].parent_id = T[q].parent_id
  /\ U[q].exit_status = T[q].exit_status

LEMMA LifeByState ==
  ASSUME NEW T \in [Pids -> Task], NEW n, NEW p \in Pids
  PROVE  /\ T[p].state = "zombie" => LifeOf(T, n, p) = "dead"
         /\ T[p].state = "free" /\ p < n => LifeOf(T, n, p) = "reaped"
         /\ T[p].state = "free" /\ ~(p < n) => LifeOf(T, n, p) = "unborn"
         /\ T[p].state \in {"runnable", "waiting"} => LifeOf(T, n, p) = "alive"
BY DEF LifeOf

LEMMA OthersLive ==
  ASSUME NEW T \in [Pids -> Task], NEW U \in [Pids -> Task], NEW n,
         NEW p \in Pids, Others(T, U, p), NEW q \in Pids, q # p
  PROVE  SameLife(T, n, U, n, q)
<1>1. /\ U[q].parent_id = T[q].parent_id /\ U[q].exit_status = T[q].exit_status
      /\ T[q].state \in {"free", "zombie", "runnable"} => U[q].state = T[q].state
      /\ T[q].state = "waiting" => U[q].state \in {"waiting", "runnable"}
  BY DEF Others
<1>2. T[q].state \in {"free", "zombie", "runnable", "waiting"}
  BY DEF Task, States
<1>3. LifeOf(U, n, q) = LifeOf(T, n, q)
  <2>1. CASE T[q].state \in {"free", "zombie"}
    BY <1>1, <2>1 DEF LifeOf
  <2>2. CASE T[q].state \in {"runnable", "waiting"}
    <3>1. U[q].state \in {"runnable", "waiting"}
      BY <1>1, <2>2
    <3> QED BY <2>2, <3>1, LifeByState
  <2> QED BY <1>2, <2>1, <2>2
<1> QED BY <1>1, <1>3 DEF SameLife

\* The process that runs goes on, or dies with one of the statuses.
LEMMA OwnLives ==
  ASSUME NEW T \in [Pids -> Task], NEW U \in [Pids -> Task], NEW n,
         NEW p \in Pids, Own(T, U, p)
  PROVE  \/ SameLife(T, n, U, n, p)
         \/ /\ LifeOf(T, n, p) = "alive" /\ LifeOf(U, n, p) = "dead"
            /\ U[p].parent_id = T[p].parent_id
            /\ U[p].exit_status \in Statuses
<1>1. CASE U[p].state = T[p].state /\ U[p].exit_status = T[p].exit_status
  BY <1>1 DEF Own, SameLife, LifeOf
<1>2. CASE /\ T[p].state \in {"runnable", "waiting"} /\ U[p].state \in {"runnable", "waiting"}
           /\ U[p].exit_status = T[p].exit_status
  BY <1>2, LifeByState DEF Own, SameLife
<1>3. CASE /\ T[p].state \in {"runnable", "waiting"} /\ U[p].state = "zombie"
           /\ U[p].exit_status \in Statuses
  BY <1>3, LifeByState DEF Own
<1> QED BY <1>1, <1>2, <1>3 DEF Own

-----------------------------------------------------------------------------
LEMMA InitRefines ==
  Init => Lifecycle!Init
<1> SUFFICES ASSUME Init PROVE Lifecycle!Init
  OBVIOUS
<1>1. \A p \in Pids : /\ p <= 1 => task[p].state = "runnable"
                      /\ ~(p <= 1) => task[p] = FreeTask
                      /\ task[p].parent_id = IF p = 1 THEN 0 ELSE -1
                      /\ task[p].exit_status = 0
  BY DEF Init, FreeTask, FreshTask, Pids
<1>2. next_pid = 2 /\ FreeTask.state = "free"
  BY DEF Init, FreeTask, FreshTask
<1>3. \A p \in Pids : LifeOf(task, next_pid, p) = IF p <= 1 THEN "alive" ELSE "unborn"
  <2> TAKE p \in Pids
  <2>1. ~(p <= 1) => ~(p < next_pid)
    BY <1>2 DEF Pids
  <2> QED BY <1>1, <1>2, <2>1 DEF LifeOf
<1>4. LifeMap = [p \in Pids |-> IF p <= 1 THEN "alive" ELSE "unborn"]
  BY <1>3 DEF LifeMap
<1>5. ParentMap = [p \in Pids |-> IF p = 1 THEN 0 ELSE -1]
  BY <1>1 DEF ParentMap
<1>6. StatusMap = [p \in Pids |-> 0]
  BY <1>1 DEF StatusMap
<1> QED BY <1>4, <1>5, <1>6
        DEF Lifecycle!Init, Lifecycle!Pids, Pids, LifeMap, ParentMap, StatusMap, LifeOf

-----------------------------------------------------------------------------
(* Steps.  The primed maps in terms of the unprimed ones. *)

LEMMA StutterRefines ==
  ASSUME \A q \in Pids : SameLife(task, next_pid, task', next_pid', q)
  PROVE  UNCHANGED Lifecycle!procVars
<1>1. LifeMap' = LifeMap /\ ParentMap' = ParentMap /\ StatusMap' = StatusMap
  BY DEF LifeMap, ParentMap, StatusMap, SameLife
<1> QED BY <1>1 DEF Lifecycle!procVars, LifeMap, ParentMap, StatusMap, LifeOf

LEMMA OwnStepRefines ==
  ASSUME IInv, NEW p \in Pids, OwnStep(p)
  PROVE  [Lifecycle!Next]_Lifecycle!procVars
<1>1. /\ task \in [Pids -> Task] /\ task' \in [Pids -> Task] /\ TableInv(task')
      /\ Others(task, task', p) /\ Own(task, task', p) /\ next_pid' = next_pid
  BY DEF OwnStep, StepBy, TableInv, IInv
<1>2. \A q \in Pids \ {p} : SameLife(task, next_pid, task', next_pid', q)
  BY <1>1, OthersLive
<1>3. CASE SameLife(task, next_pid, task', next_pid, p)
  BY <1>1, <1>2, <1>3, StutterRefines
<1>4. CASE /\ LifeOf(task, next_pid, p) = "alive" /\ LifeOf(task', next_pid, p) = "dead"
           /\ task'[p].parent_id = task[p].parent_id
           /\ task'[p].exit_status \in Statuses
  <2> DEFINE st == task'[p].exit_status
  <2>1. /\ LifeMap' = [LifeMap EXCEPT ![p] = "dead"]
        /\ ParentMap' = ParentMap
        /\ StatusMap' = [StatusMap EXCEPT ![p] = st]
    BY <1>1, <1>2, <1>4 DEF LifeMap, ParentMap, StatusMap, SameLife
  <2>2. LifeMap[p] = "alive" /\ p \in Pids \ {0}
    <3>1. task'[0].state = "runnable"
      BY <1>1 DEF TableInv
    <3>2. p # 0
      BY <1>1, <1>4, <3>1, LifeByState
    <3> QED BY <1>4, <3>2 DEF LifeMap
  <2>3. Lifecycle!Die(p)
    BY <1>4, <2>1 DEF Lifecycle!Die, LifeMap, ParentMap, StatusMap, LifeOf
  <2>4. Lifecycle!Next
    BY <2>2, <2>3 DEF Lifecycle!Next, Lifecycle!Pids, Pids, LifeMap, LifeOf
  <2> QED BY <2>4
<1> QED BY <1>1, <1>3, <1>4, OwnLives

LEMMA ForkRefines ==
  ASSUME IInv, NEW p \in Pids, NEW c \in Pids, c = next_pid, SyscallFork(p)
  PROVE  Lifecycle!Next
<1> DEFINE T == Forked(p)
<1> HIDE DEF T
<1>1. /\ p # 0 /\ task[p].state = "runnable"
      /\ c \in Pids \ {0} /\ p < c /\ task[c] = FreeTask /\ next_pid' = c + 1
      /\ T \in [Pids -> Task] /\ task \in [Pids -> Task]
      /\ \A q \in Pids \ {c} : T[q] = task[q]
      /\ T[c].state = "runnable" /\ T[c].parent_id = p /\ T[c].exit_status = 0
  BY ForkedTable DEF T, TableInv, IInv
<1>2. p \in Int /\ c \in Int /\ p # c
  BY <1>1 DEF Pids
<1>3. /\ task' \in [Pids -> Task]
      /\ Others(T, task', p) /\ Own(T, task', p)
  BY ForkStep DEF T, TableInv
<1>4. LifeOf(task, c, c) = "unborn" /\ task[c].exit_status = 0
  <2>1. FreeTask.state = "free" /\ FreeTask.exit_status = 0
    BY DEF FreeTask, FreshTask
  <2> QED BY <1>1, <1>2, <2>1, LifeByState
<1>5. \A q \in Pids : q < c => LifeOf(task, c, q) # "unborn"
  BY DEF LifeOf
<1>6. /\ LifeOf(task', next_pid', c) = "alive" /\ task'[c].parent_id = p
      /\ task'[c].exit_status = 0
  <2>1. SameLife(T, next_pid', task', next_pid', c)
    BY <1>1, <1>2, <1>3, OthersLive
  <2>2. LifeOf(T, next_pid', c) = "alive"
    BY <1>1, LifeByState
  <2> QED BY <1>1, <2>1, <2>2 DEF SameLife
<1>7. \A q \in Pids \ {c} : SameLife(task, c, T, next_pid', q)
  <2> TAKE q \in Pids \ {c}
  <2>1. q < c <=> q < c + 1
    BY <1>2 DEF Pids
  <2> QED BY <1>1, <2>1 DEF SameLife, LifeOf
<1>8. \A q \in Pids \ {p, c} : SameLife(task, c, task', next_pid', q)
  <2> TAKE q \in Pids \ {p, c}
  <2>1. SameLife(T, next_pid', task', next_pid', q)
    BY <1>1, <1>3, OthersLive
  <2> QED BY <1>7, <2>1 DEF SameLife
<1>9. LifeMap[c] = "unborn" /\ \A q \in Pids : q < c => LifeMap[q] # "unborn"
  BY <1>1, <1>4, <1>5 DEF LifeMap
<1>10. LifeMap[p] = "alive"
  BY <1>1, LifeByState DEF LifeMap
<1>11. Lifecycle!Birth(p, c)
  <2>1. CASE SameLife(T, next_pid', task', next_pid', p)
    <3>1. SameLife(task, c, task', next_pid', p)
      BY <1>2, <1>7, <2>1 DEF SameLife
    <3>2. /\ LifeMap' = [LifeMap EXCEPT ![c] = "alive"]
          /\ ParentMap' = [ParentMap EXCEPT ![c] = p]
          /\ StatusMap' = StatusMap
      <4>1. \A q \in Pids \ {c} : SameLife(task, c, task', next_pid', q)
        BY <1>8, <3>1
      <4>2. LifeMap' = [LifeMap EXCEPT ![c] = "alive"]
        BY <1>6, <4>1 DEF LifeMap, SameLife
      <4>3. ParentMap' = [ParentMap EXCEPT ![c] = p]
        BY <1>6, <4>1 DEF ParentMap, SameLife
      <4>4. StatusMap' = StatusMap
        BY <1>4, <1>6, <4>1 DEF StatusMap, SameLife
      <4> QED BY <4>2, <4>3, <4>4
    <3> QED BY <1>9, <3>2
            DEF Lifecycle!Birth, Lifecycle!Pids, Pids, LifeMap, ParentMap, StatusMap, LifeOf
  <2>2. CASE /\ LifeOf(task', next_pid', p) = "dead"
             /\ task'[p].parent_id = T[p].parent_id
             /\ task'[p].exit_status \in Statuses
    <3> DEFINE st == task'[p].exit_status
    <3>1. task'[p].parent_id = task[p].parent_id
      BY <1>1, <1>2, <2>2
    <3>2. /\ LifeMap' = [LifeMap EXCEPT ![c] = "alive", ![p] = "dead"]
          /\ ParentMap' = [ParentMap EXCEPT ![c] = p]
          /\ StatusMap' = [StatusMap EXCEPT ![p] = st]
      <4>1. LifeMap' = [LifeMap EXCEPT ![c] = "alive", ![p] = "dead"]
        BY <1>2, <1>6, <1>8, <2>2 DEF LifeMap, SameLife
      <4>2. ParentMap' = [ParentMap EXCEPT ![c] = p]
        BY <1>6, <1>8, <3>1 DEF ParentMap, SameLife
      <4>3. StatusMap' = [StatusMap EXCEPT ![p] = st]
        BY <1>2, <1>4, <1>6, <1>8 DEF StatusMap, SameLife
      <4> QED BY <4>1, <4>2, <4>3
    <3> QED BY <1>9, <2>2, <3>2
            DEF Lifecycle!Birth, Lifecycle!Pids, Pids, LifeMap, ParentMap, StatusMap, LifeOf
  <2> QED BY <1>1, <1>3, <2>1, <2>2, OwnLives
<1> QED BY <1>1, <1>10, <1>11 DEF Lifecycle!Next, Lifecycle!Pids, Pids, LifeMap, LifeOf

LEMMA ReapRefines ==
  ASSUME IInv, NEW p \in Pids, NEW c \in Pids, SyscallWaitpid(p, c), Reapable(p, c)
  PROVE  Lifecycle!Next
<1> DEFINE T == Reaped(c)
           n == next_pid
<1> HIDE DEF T
<1>1. /\ p # 0 /\ task[p].state = "runnable" /\ c # p
      /\ T \in [Pids -> Task] /\ task \in [Pids -> Task]
      /\ T[c] = FreeTask
      /\ \A q \in Pids \ {c} : T[q] = task[q]
  BY ReapedTable DEF T, TableInv, IInv
<1>2. /\ task' \in [Pids -> Task] /\ n' = n
      /\ Others(T, task', p) /\ Own(T, task', p)
  BY ReapStep DEF T, TableInv
<1>3. task[c].state = "zombie" /\ task[c].parent_id = p
  BY DEF Reapable
<1>4. /\ FreeTask.state = "free" /\ FreeTask.exit_status = 0 /\ FreeTask.parent_id = -1
  BY DEF FreeTask, FreshTask
<1>5. c < n
  <2>1. ~(c >= n)
    BY <1>3, <1>4 DEF IInv, Family
  <2> QED BY <2>1 DEF IInv, TypeOK, Pids
<1>6. /\ LifeOf(task', n, c) = "reaped" /\ task'[c].parent_id = -1
      /\ task'[c].exit_status = 0
  <2>1. task'[c] = FreeTask
    BY <1>1, <1>2, <1>4 DEF Others
  <2> QED BY <1>2, <1>4, <1>5, <2>1, LifeByState
<1>7. \A q \in Pids \ {p, c} : SameLife(task, n, task', n, q)
  <2> TAKE q \in Pids \ {p, c}
  <2>1. SameLife(T, n, task', n, q)
    BY <1>1, <1>2, OthersLive
  <2> QED BY <1>1, <2>1 DEF SameLife, LifeOf
<1>8. LifeMap[c] = "dead" /\ ParentMap[c] = p /\ LifeMap[p] = "alive"
  BY <1>1, <1>3, LifeByState DEF LifeMap, ParentMap
<1>9. Lifecycle!Reap(p, c)
  <2>1. CASE SameLife(T, n, task', n, p)
    <3>1. SameLife(task, n, task', n, p)
      BY <1>1, <2>1 DEF SameLife, LifeOf
    <3>2. /\ LifeMap' = [LifeMap EXCEPT ![c] = "reaped"]
          /\ ParentMap' = [ParentMap EXCEPT ![c] = -1]
          /\ StatusMap' = [StatusMap EXCEPT ![c] = 0]
      BY <1>1, <1>2, <1>6, <1>7, <3>1 DEF LifeMap, ParentMap, StatusMap, SameLife
    <3> QED BY <1>8, <3>2
            DEF Lifecycle!Reap, Lifecycle!Pids, Pids, LifeMap, ParentMap, StatusMap, LifeOf
  <2>2. CASE /\ LifeOf(task', n, p) = "dead"
             /\ task'[p].parent_id = T[p].parent_id
             /\ task'[p].exit_status \in Statuses
    <3> DEFINE st == task'[p].exit_status
    <3>1. task'[p].parent_id = task[p].parent_id
      BY <1>1, <2>2
    <3>2. /\ LifeMap' = [LifeMap EXCEPT ![c] = "reaped", ![p] = "dead"]
          /\ ParentMap' = [ParentMap EXCEPT ![c] = -1]
          /\ StatusMap' = [StatusMap EXCEPT ![c] = 0, ![p] = st]
      BY <1>1, <1>2, <1>6, <1>7, <2>2, <3>1 DEF LifeMap, ParentMap, StatusMap, SameLife
    <3> QED BY <1>8, <2>2, <3>2
            DEF Lifecycle!Reap, Lifecycle!Pids, Pids, LifeMap, ParentMap, StatusMap, LifeOf
  <2> QED BY <1>1, <1>2, <2>1, <2>2, OwnLives
<1> QED BY <1>1, <1>8, <1>9 DEF Lifecycle!Next, Lifecycle!Pids, Pids, LifeMap, LifeOf

LEMMA KeyboardRefines ==
  ASSUME IInv, KeyboardInterrupt
  PROVE  UNCHANGED Lifecycle!procVars
<1> SUFFICES ASSUME NEW q \in Pids PROVE SameLife(task, next_pid, task', next_pid', q)
  BY StutterRefines
<1>1. /\ task[q].state = "waiting" => task'[q].state = "runnable"
      /\ task[q].state # "waiting" => task'[q] = task[q]
      /\ task'[q].parent_id = task[q].parent_id
      /\ task'[q].exit_status = task[q].exit_status
      /\ TableInv(task')
  BY WakeKeeps
<1>2. next_pid' = next_pid /\ task \in [Pids -> Task] /\ task' \in [Pids -> Task]
  BY <1>1 DEF KeyboardInterrupt, IInv, TableInv
<1>3. LifeOf(task', next_pid, q) = LifeOf(task, next_pid, q)
  <2>1. CASE task[q].state = "waiting"
    BY <1>1, <1>2, <2>1, LifeByState
  <2>2. CASE task[q].state # "waiting"
    BY <1>1, <2>2 DEF LifeOf
  <2> QED BY <2>1, <2>2
<1> QED BY <1>1, <1>2, <1>3 DEF SameLife

LEMMA StepRefines ==
  IInv /\ [Next]_vars => [Lifecycle!Next]_Lifecycle!procVars
<1> SUFFICES ASSUME IInv, [Next]_vars PROVE [Lifecycle!Next]_Lifecycle!procVars
  OBVIOUS
<1>1. CASE UNCHANGED vars
  <2>1. \A q \in Pids : SameLife(task, next_pid, task', next_pid', q)
    BY <1>1 DEF vars, SameLife, LifeOf
  <2> QED BY <2>1, StutterRefines
<1>2. CASE Next
  <2>1. ASSUME NEW p \in Pids, SyscallFork(p) PROVE Lifecycle!Next
    <3>1. next_pid \in Pids
      BY <2>1, ForkedTable
    <3> QED BY <2>1, <3>1, ForkRefines
  <2> QED BY <1>2, <2>1, StepCases, OwnStepRefines, ReapRefines, KeyboardRefines
<1> QED BY <1>1, <1>2

(***************************************************************************)
(* The kernel implements the life of processes that fork, exit and waitpid *)
(* promise: each PID is born once, dies at most once with a status that    *)
(* does not change, and is reaped at most once, by the process that forked *)
(* it, for any number of processes, signals and handlers.                  *)
(***************************************************************************)
THEOREM TasksImplementProcesses ==
  Spec => ImplementsProcesses
BY InitRefines, StepRefines, Invariance, PTL DEF Spec, ImplementsProcesses, Lifecycle!Spec
=============================================================================
