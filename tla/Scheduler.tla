------------------------------ MODULE Scheduler ------------------------------
(***************************************************************************)
(* What the task queue of the kernel promises: a first-in first-out run    *)
(* queue.  A task that yields goes to the end and the one at the front     *)
(* runs; no task is lost or run out of turn.                               *)
(***************************************************************************)
EXTENDS Sequences

CONSTANTS Thread, Kernel, Nobody

VARIABLES run,    \* the thread that runs, or Nobody after a panic
          ready,  \* the others, in the order they will run
          begun   \* the threads that were ever started

vars == <<run, ready, begun>>

Init ==
  /\ run = Kernel
  /\ ready = <<>>
  /\ begun = {Kernel}

Rotate(q) == run' = Head(q) /\ ready' = Tail(q)

Yield ==
  /\ run # Nobody
  /\ Rotate(Append(ready, run))
  /\ UNCHANGED begun

(* A new thread goes to the end, and its maker behind it.                  *)
Start(t) ==
  /\ run # Nobody
  /\ t \notin begun
  /\ begun' = begun \cup {t}
  /\ Rotate(ready \o <<t, run>>)

Finish ==
  /\ run # Nobody
  /\ IF ready = <<>> THEN run' = Nobody /\ UNCHANGED ready ELSE Rotate(ready)
  /\ UNCHANGED begun

Next == Yield \/ (\E t \in Thread : Start(t)) \/ Finish

Spec == Init /\ [][Next]_vars
=============================================================================
