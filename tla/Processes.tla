----------------------------- MODULE Processes -----------------------------
(***************************************************************************)
(* What fork, exit and waitpid promise about processes, without scheduler, *)
(* signals or sleeping: a PID is born once, lives, dies with one status    *)
(* that does not change, and is reaped at most once, by the process that   *)
(* forked it, while that process lives.  Tasks implements this.            *)
(***************************************************************************)
EXTENDS Integers

CONSTANTS MaxPid, Statuses   \* the largest PID; the statuses a process can die with

VARIABLES
  life,      \* "unborn", "alive", "dead" or "reaped"
  parent,    \* who forked it; -1 before birth, and for PID 0
  status     \* what waitpid will report; 0 until it dies

procVars == <<life, parent, status>>

Pids == 0 .. MaxPid

Init ==
  /\ life = [p \in Pids |-> IF p <= 1 THEN "alive" ELSE "unborn"]
  /\ parent = [p \in Pids |-> IF p = 1 THEN 0 ELSE -1]
  /\ status = [p \in Pids |-> 0]

(***************************************************************************)
(* A process acts: it may give birth to the next PID or reap one of its    *)
(* own dead children; a signal may end it at the end of the same call.     *)
(***************************************************************************)
Birth(p, c) ==
  /\ life[c] = "unborn" /\ \A q \in Pids : q < c => life[q] # "unborn"
  /\ parent' = [parent EXCEPT ![c] = p]
  /\ \/ life' = [life EXCEPT ![c] = "alive"] /\ status' = status
     \/ \E st \in Statuses : /\ life' = [life EXCEPT ![c] = "alive", ![p] = "dead"]
                        /\ status' = [status EXCEPT ![p] = st]

Reap(p, c) ==
  /\ life[c] = "dead" /\ parent[c] = p
  /\ parent' = [parent EXCEPT ![c] = -1]
  /\ \/ /\ life' = [life EXCEPT ![c] = "reaped"]
        /\ status' = [status EXCEPT ![c] = 0]
     \/ \E st \in Statuses : /\ life' = [life EXCEPT ![c] = "reaped", ![p] = "dead"]
                        /\ status' = [status EXCEPT ![c] = 0, ![p] = st]

Die(p) ==
  /\ life' = [life EXCEPT ![p] = "dead"]
  /\ \E st \in Statuses : status' = [status EXCEPT ![p] = st]
  /\ parent' = parent

Next ==
  \E p \in Pids \ {0} :
    /\ life[p] = "alive"
    /\ \/ Die(p)
       \/ \E c \in Pids : Birth(p, c) \/ Reap(p, c)

Spec == Init /\ [][Next]_procVars
=============================================================================
