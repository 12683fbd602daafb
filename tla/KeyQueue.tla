------------------------------ MODULE KeyQueue ------------------------------
(***************************************************************************)
(* What the keyboard driver promises its readers: a bounded first-in       *)
(* first-out queue.  Bytes come out once each and in the order the keys    *)
(* were pressed; a key is dropped only when the queue is full.             *)
(***************************************************************************)
EXTENDS Naturals, Sequences

CONSTANTS Capacity, Bytes

VARIABLES
  queue,     \* accepted bytes not yet read
  taken,     \* history: the bytes readers got, oldest first
  dropped    \* history: number of keys dropped

queueVars == <<queue, taken, dropped>>

Init == queue = <<>> /\ taken = <<>> /\ dropped = 0

Accept ==
  /\ Len(queue) < Capacity
  /\ \E b \in Bytes : queue' = Append(queue, b)
  /\ UNCHANGED <<taken, dropped>>

Drop ==
  /\ Len(queue) = Capacity
  /\ dropped' = dropped + 1
  /\ UNCHANGED <<queue, taken>>

Take ==
  /\ queue # <<>>
  /\ taken' = Append(taken, Head(queue))
  /\ queue' = Tail(queue)
  /\ UNCHANGED dropped

Next == Accept \/ Drop \/ Take

Spec == Init /\ [][Next]_queueVars
=============================================================================
