------------------------------- MODULE Tasks -------------------------------
(***************************************************************************)
(* Processes, the round-robin scheduler, signals and the blocking read of  *)
(* stdin: task.c, signal.c, and what syscall.c, timer.c, keyboard.c and    *)
(* exec.c do to the task list.                                             *)
(*                                                                         *)
(* Every IDT entry is an interrupt gate, so a system call or an interrupt  *)
(* handler runs with interrupts off and is ONE action.  The exception is   *)
(* what a task does after switch_task() has switched back to it: that      *)
(* function ends in "sti; jmp", so the rest of a read() that slept, the    *)
(* delivery after it and an exit from there run with interrupts ON, and    *)
(* are one action per shared-memory access (the pc values below).          *)
(*                                                                         *)
(* PIDs are handed out in increasing order and tasks are appended at the   *)
(* tail, so the order of the ready list is the order of the PIDs and the   *)
(* list is the set of PIDs whose state is not "free".                      *)
(***************************************************************************)
EXTENDS Integers, Sequences, FiniteSetsExt

CONSTANTS
  MaxPid,      \* bound: the largest PID ever created
  Sigs,        \* the signal numbers used, a subset of 1 .. 31
  Handled,     \* bound: the signals for which programs call signal()
  ExitCodes,   \* statuses passed to exit()
  MaxFrames,   \* signal frames that fit on the two-page user stack
  KbdCap       \* bytes the keyboard ring can hold

SIGKILL == 9
SIGCHLD == 17

ASSUME MaxPidAssumption    == MaxPid \in Nat /\ MaxPid >= 2
ASSUME SigsAssumption      == Sigs \subseteq 1 .. 31 /\ {SIGKILL, SIGCHLD} \subseteq Sigs
ASSUME HandledAssumption   == Handled \subseteq Sigs
ASSUME ExitCodesAssumption == ExitCodes \subseteq Int
ASSUME MaxFramesAssumption == MaxFrames \in Nat \ {0}
ASSUME KbdCapAssumption    == KbdCap \in Nat \ {0}

VARIABLES
  task,        \* task[p]: the task_t of PID p
  current,     \* current_task
  next_pid,
  kbd          \* number of bytes in the keyboard ring

vars == <<task, current, next_pid, kbd>>

Pids == 0 .. MaxPid

(***************************************************************************)
(* Where a task is.  "user": ring 3.  "irqret": in the kernel on its way   *)
(* back to ring 3 with interrupts on.  The others, in order, are the       *)
(* interruptible rest of a read() that slept: "woken" returned from        *)
(* switch_task, "getchar" polls the ring, "sleep" is about to wait again,  *)
(* "switch" has set TASK_WAITING_INPUT, "deliver" and "taken" are inside   *)
(* task_signal_deliver, "exit", "notify" and "leave" inside task_exit.     *)
(***************************************************************************)
ExitPcs == {"notify", "leave", "dead"}
Pcs == {"idle", "user", "irqret", "woken", "getchar", "sleep", "switch",
        "deliver", "taken", "exit"} \cup ExitPcs

\* exit(code), death by a signal, and _exit(255) after a refused sigreturn.
Statuses == ExitCodes \cup {128 + s : s \in Sigs} \cup {255}

States == {"free", "runnable", "waiting", "zombie"}

Dispositions == {"default", "ignore", "catch"}

Task == [state: States, parent_id: -1 .. MaxPid, exit_status: Statuses \cup {0},
         handlers: [Sigs -> Dispositions], trampoline: BOOLEAN,
         pending: SUBSET Sigs,
         active: Sigs \cup {0},     \* signal_active and active_signal; 0: none
         frames: Seq(Sigs),         \* kernel-built frames on the user stack
         pc: Pcs,
         sig: Sigs \cup {0},        \* locals of an interruptible delivery:
         snap: SUBSET Sigs]         \* the signal taken, the word to write back

FreshTask(st, par, h, tr, fr, where) ==
  [state |-> st, parent_id |-> par, exit_status |-> 0, handlers |-> h,
   trampoline |-> tr, pending |-> {}, active |-> 0, frames |-> fr,
   pc |-> where, sig |-> 0, snap |-> {}]

NoHandlers == [s \in Sigs |-> "default"]
FreeTask   == FreshTask("free", -1, NoHandlers, FALSE, <<>>, "dead")

-----------------------------------------------------------------------------
(* Operators on a task table T: what the functions of task.c and signal.c do. *)

(* The Bug_ definitions are seeded defects: each run that checks a property  *)
(* must see it violated when one of them replaces the definition it precedes. *)

Bug_NextRunnableSkipsZombiesOnly(T, c) ==
  LET after == {q \in Pids : q > c /\ T[q].state \in {"runnable", "waiting"}}
  IN  IF after = {} THEN 0 ELSE Min(after)

Bug_NextRunnableFromHead(T, c) ==
  LET ready == {q \in Pids \ {0, c} : T[q].state = "runnable"}
  IN  IF ready = {} THEN 0 ELSE Min(ready)

\* switch_task(): the next runnable entry, wrapping to the head, PID 0.
NextRunnable(T, c) ==
  LET after == {q \in Pids : q > c /\ T[q].state = "runnable"}
  IN  IF after = {} THEN 0 ELSE Min(after)

Ignored(t, s) ==
  t.handlers[s] = "ignore" \/ (t.handlers[s] = "default" /\ s = SIGCHLD)

Bug_SignallableZombie(T, q) == q \in Pids \ {0} /\ T[q].state # "free"

Signallable(T, q) == q \in Pids \ {0} /\ T[q].state \in {"runnable", "waiting"}

\* task_signal_send() of a valid signal to q; a refusal changes nothing.
Send(T, q, s) ==
  IF ~Signallable(T, q) THEN T
  ELSE [T EXCEPT ![q].pending = IF Ignored(T[q], s) THEN @ ELSE @ \cup {s},
                 ![q].state   = "runnable"]

\* task_exit(): the zombie, then SIGCHLD to its parent.
BecomeZombie(T, p, status, where) ==
  [T EXCEPT ![p].exit_status = status, ![p].state = "zombie", ![p].pc = where,
            ![p].sig = 0, ![p].snap = {}]

NotifyParent(T, p) ==
  IF T[p].parent_id > 0 THEN Send(T, T[p].parent_id, SIGCHLD) ELSE T

Exit(T, p, status) == NotifyParent(BecomeZombie(T, p, status, "dead"), p)

\* The checks of task_signal_deliver() that end in task_exit(128 + s).
Fatal(t, s) ==
  \/ t.handlers[s] = "default"
  \/ s = SIGKILL
  \/ Len(t.frames) >= MaxFrames
  \/ ~t.trampoline

PushFrame(T, p, s) ==
  [T EXCEPT ![p].frames = Append(@, s), ![p].active = s]

Dispatch(T, p, s) ==
  IF Ignored(T[p], s) THEN T
  ELSE IF Fatal(T[p], s) THEN Exit(T, p, 128 + s)
  ELSE PushFrame(T, p, s)

\* task_signal_deliver() with interrupts off.
Deliver(T, p) ==
  IF T[p].active # 0 \/ T[p].pending = {} THEN T
  ELSE LET s == Min(T[p].pending)
       IN  Dispatch([T EXCEPT ![p].pending = @ \ {s}], p, s)

Bug_ResumeAlways(T, p) == p

\* After a kernel entry: the same task goes on unless it has exited or waits.
Resume(T, p) == IF T[p].state = "runnable" THEN p ELSE NextRunnable(T, p)

Wake(T) ==
  [p \in Pids |-> IF T[p].state = "waiting" THEN [T[p] EXCEPT !.state = "runnable"]
                                            ELSE T[p]]

-----------------------------------------------------------------------------
(* Boot: PID 0 idles, create_initial_user_process() has appended PID 1. *)

Init ==
  /\ task = [p \in Pids |->
       IF p = 0 THEN FreshTask("runnable", -1, NoHandlers, FALSE, <<>>, "idle")
       ELSE IF p = 1 THEN FreshTask("runnable", 0, NoHandlers, FALSE, <<>>, "irqret")
       ELSE FreeTask]
  /\ current = 0
  /\ next_pid = 2
  /\ kbd = 0

-----------------------------------------------------------------------------
(* System calls, interrupts off.  Each ends in task_signal_deliver(). *)

\* PID 1 is mother_process_entry(): it forks PID 2 and spins.
Program(p) == current = p /\ task[p].pc = "user" /\ p >= 2

SyscallEnd(T, p) == task' = Deliver(T, p) /\ current' = Resume(task', p)

SyscallFork(p) ==
  /\ current = p /\ task[p].pc = "user" /\ (p = 1 => next_pid = 2)
  /\ next_pid <= MaxPid
  /\ SyscallEnd([task EXCEPT ![next_pid] =
                   FreshTask("runnable", p, task[p].handlers, task[p].trampoline,
                             task[p].frames, "irqret")], p)
  /\ next_pid' = next_pid + 1
  /\ UNCHANGED kbd

SyscallExit(p, status) ==
  /\ Program(p)
  /\ task' = Exit(task, p, status)
  /\ current' = Resume(task', p)
  /\ UNCHANGED <<next_pid, kbd>>

Bug_ReapableByAnyone(p, c) == task[c].state = "zombie"

\* The caller's own zombie child is unlinked and freed; otherwise -1 or 0.
Reapable(p, c) == task[c].state = "zombie" /\ task[c].parent_id = p

SyscallWaitpid(p, c) ==
  /\ Program(p)
  /\ SyscallEnd(IF Reapable(p, c) THEN [task EXCEPT ![c] = FreeTask] ELSE task, p)
  /\ UNCHANGED <<next_pid, kbd>>

SyscallKill(p, q, s) ==
  /\ Program(p)
  /\ SyscallEnd(Send(task, q, s), p)
  /\ UNCHANGED <<next_pid, kbd>>

\* task_signal_set_handler() with addresses that pass its checks.
SyscallSignal(p, s, d) ==
  /\ Program(p) /\ s # SIGKILL
  /\ SyscallEnd([task EXCEPT ![p].handlers[s] = d,
                             ![p].trampoline = @ \/ d = "catch"], p)
  /\ UNCHANGED <<next_pid, kbd>>

\* task_signal_return() on the innermost frame, as libc's trampoline calls it.
SigreturnSucceeds(t) ==
  t.active # 0 /\ t.frames # <<>> /\ t.frames[Len(t.frames)] = t.active

PopFrame(T, p) ==
  [T EXCEPT ![p].frames = SubSeq(@, 1, Len(@) - 1), ![p].active = 0]

SyscallSigreturn(p) ==
  /\ Program(p) /\ SigreturnSucceeds(task[p])
  /\ SyscallEnd(PopFrame(task, p), p)
  /\ UNCHANGED <<next_pid, kbd>>

\* -1 sends the trampoline to _exit(255).
SigreturnFails(p) ==
  /\ Program(p) /\ task[p].frames # <<>> /\ ~SigreturnSucceeds(task[p])
  /\ task' = Exit(task, p, 255)
  /\ current' = Resume(task', p)
  /\ UNCHANGED <<next_pid, kbd>>

Bug_ExecResetTrampolineOnly(T, p) ==
  [T EXCEPT ![p].trampoline = FALSE, ![p].active = 0, ![p].frames = <<>>]

Bug_ExecResetClearsPending(T, p) ==
  [T EXCEPT ![p].handlers = [s \in Sigs |-> IF @[s] = "ignore" THEN "ignore" ELSE "default"],
            ![p].trampoline = FALSE, ![p].active = 0, ![p].frames = <<>>,
            ![p].pending = {}]

\* task_signal_exec_reset(); the new image has an empty stack.
ExecReset(T, p) ==
  [T EXCEPT ![p].handlers = [s \in Sigs |-> IF @[s] = "ignore" THEN "ignore" ELSE "default"],
            ![p].trampoline = FALSE, ![p].active = 0, ![p].frames = <<>>]

SyscallExecve(p) ==
  /\ Program(p)
  /\ SyscallEnd(ExecReset(task, p), p)
  /\ UNCHANGED <<next_pid, kbd>>

\* getchar() polls one byte; any other call, or a failing one, only delivers.
SyscallGetchar(p) ==
  /\ Program(p)
  /\ kbd' = IF kbd = 0 THEN 0 ELSE kbd - 1
  /\ SyscallEnd(task, p)
  /\ UNCHANGED next_pid

\* read(0) with bytes queued takes at least one and at most all of them.
SyscallRead(p) ==
  /\ Program(p) /\ kbd > 0
  /\ kbd' \in 0 .. kbd - 1
  /\ SyscallEnd(task, p)
  /\ UNCHANGED next_pid

\* read(0) on an empty ring: task_wait_for_keyboard(), still interrupts off.
SyscallReadSleep(p) ==
  /\ Program(p) /\ kbd = 0
  /\ task' = [task EXCEPT ![p].state = "waiting", ![p].pc = "woken"]
  /\ current' = NextRunnable(task', p)
  /\ UNCHANGED <<next_pid, kbd>>

-----------------------------------------------------------------------------
(* The interruptible rest of a read() that slept. *)

Kernel(p, where) == current = p /\ task[p].pc = where

GoTo(p, where) == task' = [task EXCEPT ![p].pc = where]

\* if (task_has_pending_signal()) return EINTR
CheckPending(p) ==
  /\ Kernel(p, "woken")
  /\ GoTo(p, IF task[p].pending # {} THEN "deliver" ELSE "getchar")
  /\ UNCHANGED <<current, next_pid, kbd>>

PollRing(p) ==
  /\ Kernel(p, "getchar")
  /\ IF kbd = 0 THEN GoTo(p, "sleep") /\ kbd' = 0
                ELSE GoTo(p, "deliver") /\ kbd' \in 0 .. kbd - 1
  /\ UNCHANGED <<current, next_pid>>

SetWaiting(p) ==
  /\ Kernel(p, "sleep")
  /\ task' = [task EXCEPT ![p].state = "waiting", ![p].pc = "switch"]
  /\ UNCHANGED <<current, next_pid, kbd>>

SwitchAway(p) ==
  /\ Kernel(p, "switch")
  /\ GoTo(p, "woken")
  /\ current' = NextRunnable(task, p)
  /\ UNCHANGED <<next_pid, kbd>>

\* take_next_pending_signal(): the load half of pending_signals &= ~bit.
TakeSignal(p) ==
  /\ Kernel(p, "deliver")
  /\ task' = IF task[p].active # 0 \/ task[p].pending = {}
             THEN [task EXCEPT ![p].pc = "irqret"]
             ELSE LET s == Min(task[p].pending)
                  IN  [task EXCEPT ![p].pc = "taken", ![p].sig = s,
                                   ![p].snap = task[p].pending \ {s}]
  /\ UNCHANGED <<current, next_pid, kbd>>

\* The store half, then the disposition of the signal taken.
ActOnSignal(p) ==
  /\ Kernel(p, "taken")
  /\ LET s == task[p].sig
         T == [task EXCEPT ![p].pending = task[p].snap, ![p].snap = {}]
         back(U) == [U EXCEPT ![p].pc = "irqret", ![p].sig = 0]
     IN  task' = IF Ignored(T[p], s) THEN back(T)
                 ELSE IF Fatal(T[p], s) THEN [T EXCEPT ![p].pc = "exit"]
                 ELSE back(PushFrame(T, p, s))
  /\ UNCHANGED <<current, next_pid, kbd>>

SetZombie(p) ==
  /\ Kernel(p, "exit")
  /\ task' = BecomeZombie(task, p, 128 + task[p].sig, "notify")
  /\ UNCHANGED <<current, next_pid, kbd>>

SendSigchld(p) ==
  /\ Kernel(p, "notify")
  /\ task' = NotifyParent([task EXCEPT ![p].pc = "leave"], p)
  /\ UNCHANGED <<current, next_pid, kbd>>

LeaveZombie(p) ==
  /\ Kernel(p, "leave")
  /\ GoTo(p, "dead")
  /\ current' = NextRunnable(task, p)
  /\ UNCHANGED <<next_pid, kbd>>

\* The IRET that ends a kernel entry whose task was switched away.
IrqReturn(p) ==
  /\ Kernel(p, "irqret")
  /\ GoTo(p, "user")
  /\ UNCHANGED <<current, next_pid, kbd>>

-----------------------------------------------------------------------------
(* Interrupts. *)

Bug_TimerUserNoDelivery(p) ==
  /\ current = p /\ task[p].pc = "user"
  /\ task' = [task EXCEPT ![p].pc = "irqret"]
  /\ current' = NextRunnable(task', p)
  /\ UNCHANGED <<next_pid, kbd>>

\* timer_callback() over ring 3: deliver, then switch.
TimerUser(p) ==
  /\ current = p /\ task[p].pc = "user"
  /\ LET T == Deliver(task, p)
     IN  task' = IF T[p].state = "runnable" THEN [T EXCEPT ![p].pc = "irqret"] ELSE T
  /\ current' = NextRunnable(task', p)
  /\ UNCHANGED <<next_pid, kbd>>

\* timer_callback() over kernel code or PID 0: CS is ring 0, so only a switch.
TimerKernel(p) ==
  /\ current = p /\ task[p].pc # "user"
  /\ current' = NextRunnable(task, p)
  /\ UNCHANGED <<task, next_pid, kbd>>

Bug_KeyboardInterruptWhenFull ==
  /\ kbd' = kbd + 1
  /\ task' = Wake(task)
  /\ UNCHANGED <<current, next_pid>>

\* keyboard_interrupt() for a printable key; a full ring drops it.
KeyboardInterrupt ==
  /\ kbd < KbdCap
  /\ kbd' = kbd + 1
  /\ task' = Wake(task)
  /\ UNCHANGED <<current, next_pid>>

-----------------------------------------------------------------------------
Syscall(p) ==
  \/ SyscallFork(p)
  \/ \E status \in ExitCodes : SyscallExit(p, status)
  \/ \E c \in Pids : SyscallWaitpid(p, c)
  \/ \E q \in Pids, s \in Sigs : SyscallKill(p, q, s)
  \/ \E s \in Handled, d \in Dispositions : SyscallSignal(p, s, d)
  \/ SyscallSigreturn(p)
  \/ SigreturnFails(p)
  \/ SyscallExecve(p)
  \/ SyscallGetchar(p)
  \/ SyscallRead(p)
  \/ SyscallReadSleep(p)

KernelStep(p) ==
  \/ CheckPending(p)
  \/ PollRing(p)
  \/ SetWaiting(p)
  \/ SwitchAway(p)
  \/ TakeSignal(p)
  \/ ActOnSignal(p)
  \/ SetZombie(p)
  \/ SendSigchld(p)
  \/ LeaveZombie(p)
  \/ IrqReturn(p)

Timer(p) == TimerUser(p) \/ TimerKernel(p)

Next ==
  \/ \E p \in Pids : Syscall(p) \/ KernelStep(p) \/ Timer(p)
  \/ KeyboardInterrupt

Spec == Init /\ [][Next]_vars

(***************************************************************************)
(* Fairness.  The PIT keeps ticking; and a tick period is much longer than *)
(* the few kernel instructions between two switches, so a kernel step that *)
(* is possible again and again is not preempted every time.  User programs *)
(* owe nothing: no fairness on system calls or on the keyboard.            *)
(***************************************************************************)
Fairness ==
  /\ WF_vars(\E p \in Pids : Timer(p))
  /\ \A p \in Pids : SF_vars(KernelStep(p))

LiveSpec == Spec /\ Fairness
-----------------------------------------------------------------------------
(* Properties. *)

\* Every task_t, current_task, next_pid and the ring count stay in their ranges.
TypeOK ==
  /\ task \in [Pids -> Task]
  /\ current \in Pids
  /\ next_pid \in 2 .. MaxPid + 1
  /\ kbd \in 0 .. KbdCap

(***************************************************************************)
(* The CPU never executes a process that may not run: whenever the current *)
(* task is in user code, or in kernel code that asserts TASK_RUNNABLE      *)
(* (task_wait_for_keyboard), it is runnable; only the last instructions of *)
(* going to sleep or dying run in another state.  PID 0 stays runnable, so *)
(* the search in switch_task terminates.                                   *)
(***************************************************************************)
RunningIsRunnable ==
  /\ task[0].state = "runnable" /\ task[0].pc = "idle"
  /\ task[current].pc = "switch" => task[current].state \in {"waiting", "runnable"}
  /\ task[current].pc \in {"notify", "leave"} => task[current].state = "zombie"
  /\ task[current].pc \notin {"switch", "notify", "leave"}
       => task[current].state = "runnable"

(***************************************************************************)
(* TASK_WAITING_INPUT means "inside read(0)": whoever wakes such a task    *)
(* resumes the reading loop and nothing else.  A zombie has left for good: *)
(* nothing is left to run of it except the end of task_exit.               *)
(***************************************************************************)
StateMatchesCode ==
  \A p \in Pids :
    /\ task[p].state = "waiting" => task[p].pc \in {"switch", "woken"}
    /\ task[p].state = "zombie" <=> task[p].state # "free" /\ task[p].pc \in ExitPcs

(***************************************************************************)
(* Signal state that fork, exec, delivery and sigreturn must keep in step: *)
(* SIGKILL keeps its default disposition; a caught signal always has the   *)
(* trampoline that delivery needs; and while a handler is active the       *)
(* innermost frame is the one it will return through, so that sigreturn    *)
(* of an active handler succeeds.                                          *)
(***************************************************************************)
SignalStateConsistent ==
  \A p \in Pids :
    /\ task[p].handlers[SIGKILL] = "default"
    /\ \A s \in Sigs : task[p].handlers[s] = "catch" => task[p].trampoline
    /\ task[p].active # 0 => SigreturnSucceeds(task[p])
    /\ task[p].active # SIGKILL
    /\ Len(task[p].frames) <= MaxFrames

(***************************************************************************)
(* switch_task never enters a zombie, a sleeper or a freed task: the PANIC *)
(* at the end of task_exit and the assertion after the switch in           *)
(* task_wait_for_keyboard are unreachable.                                 *)
(***************************************************************************)
SwitchesToRunnable ==
  [][current' # current => task'[current'].state = "runnable"]_vars

\* SIGKILL leaves the pending word of p, which neither dies of it nor was dead.
KillLost(p) ==
  /\ SIGKILL \in task[p].pending /\ SIGKILL \notin task'[p].pending
  /\ ~(task'[p].state = "zombie" /\ task'[p].exit_status = 128 + SIGKILL)
  /\ ~(task'[p].pc = "exit" /\ task'[p].sig = SIGKILL)
  /\ ~(task[p].state = "zombie" /\ task'[p].state = "free")

(***************************************************************************)
(* SIGKILL can be lost, see KillNeverLost, but in one way only: a woken    *)
(* reader stores back the pending word it loaded before the signal was     *)
(* sent, while it delivers another signal.  fork, exec, sigreturn, the     *)
(* delivery with interrupts off and every other signal keep it.            *)
(***************************************************************************)
KillLostOnlyByStaleStore ==
  [][\A p \in Pids : KillLost(p) =>
       /\ task[p].pc = "taken" /\ SIGKILL \notin task[p].snap
       /\ task'[p].pending = task[p].snap]_vars

(***************************************************************************)
(* The task list implements the life of processes promised by fork, exit   *)
(* and waitpid: each PID is born once and never reused, so a parent_id     *)
(* kept by an orphan never names a stranger; it dies at most once, keeps   *)
(* its status, and is reaped only by the process that forked it.           *)
(***************************************************************************)
Lifecycle ==
  INSTANCE Processes WITH
    life <- [p \in Pids |->
               CASE task[p].state = "zombie" -> "dead"
                 [] task[p].state = "free" -> IF p < next_pid THEN "reaped" ELSE "unborn"
                 [] OTHER -> "alive"],
    parent <- [p \in Pids |-> task[p].parent_id],
    status <- [p \in Pids |-> task[p].exit_status]

ImplementsProcesses == Lifecycle!Spec

(***************************************************************************)
(* Round robin starves nobody: a runnable process gets the CPU, whatever   *)
(* the others do (fork, sleep, die, be woken).                             *)
(***************************************************************************)
EveryRunnableRuns ==
  \A p \in Pids :
    task[p].state = "runnable" ~> (current = p \/ task[p].state # "runnable")

(***************************************************************************)
(* SIGKILL to a process that keeps running takes effect, even if it makes  *)
(* no system call, unless it is lost as KillNeverLost shows: it stays      *)
(* pending for ever only while a handler is active or the process sleeps   *)
(* in read(0).                                                             *)
(***************************************************************************)
KillTakesEffect ==
  \A p \in Pids \ {0} :
    (SIGKILL \in task[p].pending /\ task[p].active = 0)
      ~> \/ SIGKILL \notin task[p].pending
         \/ task[p].active # 0
         \/ task[p].state # "runnable"

-----------------------------------------------------------------------------
(* What comments in the repository say, and the code does not do. *)

(***************************************************************************)
(* signal.c: "A signal interrupts a blocking stdin read so delivery is not *)
(* postponed."  syscall.c: "Sleep until IRQ1 queues the first byte."  So   *)
(* no process sleeps in read(0) while the ring holds a byte or, without an *)
(* active handler, with a signal pending.                                  *)
(***************************************************************************)
NoSleeperInVain ==
  \A p \in Pids : task[p].state = "waiting" =>
    kbd = 0 /\ (task[p].active = 0 => task[p].pending = {})

(***************************************************************************)
(* signal.h: task_signal_deliver() "consumes one pending signal and either *)
(* applies its default action or redirects the saved CPU frame".  No step  *)
(* takes SIGKILL out of the pending word without killing the process.      *)
(***************************************************************************)
KillNeverLost == [][\A p \in Pids : ~KillLost(p)]_vars

(***************************************************************************)
(* task.c: "Inform a living parent."  A process that has died and left the *)
(* CPU has sent SIGCHLD to a parent that can take it.                      *)
(***************************************************************************)
LivingParentInformed ==
  \A p \in Pids :
    task[p].state = "zombie" /\ current # p /\ Signallable(task, task[p].parent_id)
      => task[p].pc # "notify"

(***************************************************************************)
(* signal.s: "A valid kernel-created frame never fails."  A process with a *)
(* frame on its stack can return through it.                               *)
(***************************************************************************)
FramesNeverFail ==
  \A p \in Pids :
    task[p].state = "runnable" /\ task[p].frames # <<>> => SigreturnSucceeds(task[p])
=============================================================================
