----------------------------- MODULE TaskQueue -----------------------------
(***************************************************************************)
(* What the TinyOS scheduler promises its components: tasks wait in a      *)
(* bounded queue, one runs at a time, each post that is accepted runs      *)
(* exactly once, in the order of the posts.  TosSched.tla is the ring of   *)
(* sched.c that implements it.                                             *)
(***************************************************************************)
EXTENDS Naturals, Sequences

CONSTANTS
  Tasks,      \* what can be posted
  NoTask,     \* no task runs
  Capacity    \* how many tasks can wait

VARIABLES
  waiting,    \* the tasks posted and not yet begun, oldest first
  running     \* the task that runs, or NoTask

vars == <<waiting, running>>

Init == waiting = <<>> /\ running = NoTask

Post(t) ==
  /\ Len(waiting) < Capacity
  /\ waiting' = Append(waiting, t)
  /\ UNCHANGED running

Take ==
  /\ running = NoTask
  /\ waiting # <<>>
  /\ running' = Head(waiting)
  /\ waiting' = Tail(waiting)

Finish ==
  /\ running # NoTask
  /\ running' = NoTask
  /\ UNCHANGED waiting

Next == Take \/ Finish \/ \E t \in Tasks : Post(t)

Spec == Init /\ [][Next]_vars
=============================================================================
