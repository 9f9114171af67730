------------------------------ MODULE TosSched ------------------------------
(***************************************************************************)
(* The TinyOS scheduler the positioning and gateway motes run on           *)
(* (aps_proj/system/sched.c) and the main loop that drives it (MAIN.c).    *)
(*                                                                         *)
(* One processor.  Level 0 is the main loop and the task it calls; level   *)
(* l > 0 is the l-th interrupt handler on top of it.  Only the topmost     *)
(* level executes.  Every level posts tasks with TOS_post, which reads the *)
(* ring's indexes with interrupts enabled and looks again after cli().     *)
(***************************************************************************)
EXTENDS Naturals, Sequences

CONSTANTS
  MAX_THREADS,   \* slots of TOS_queue
  Tasks,         \* the functions that are posted
  NoTask,        \* the null pointer of an unused slot
  MaxNest        \* bound: handlers that interrupt one another

ASSUME SchedAssumption ==
  /\ MAX_THREADS \in Nat /\ MAX_THREADS >= 2
  /\ MaxNest \in Nat
  /\ NoTask \notin Tasks

VARIABLES
  queue,    \* TOS_queue[].tp
  full,     \* TOS_sched_full: the oldest task
  free,     \* TOS_sched_free: where the next one goes
  old,      \* old_full of TOS_schedule_task
  running,  \* the function the main loop is calling
  iflag,    \* the processor's interrupt enable bit
  depth,    \* the level that executes
  pc,       \* where each level is
  quiet,    \* a handler entered with interrupts disabled (SIGNAL)
  tp, org, prev   \* TOS_post's argument and locals, per level
\* A local is reset where the code has no more use for it.

vars == <<queue, full, free, old, running, iflag, depth, pc, quiet,
          tp, org, prev>>

Slots == 0..MAX_THREADS - 1
Levels == 0..MaxNest

Posting == {"post", "store", "posted", "refused"}
MainPcs == {"check", "advance", "call", "zero", "idle", "sleep"}
Pcs == {"off", "run"} \cup Posting \cup MainPcs

\* Variant: the index wraps one too late.
IncLate(i) == IF i = MAX_THREADS THEN 0 ELSE i + 1

(* tmp++; if (tmp == MAX_THREADS) tmp = 0, and ADVANCE *)
Inc(i) == IF i + 1 = MAX_THREADS THEN 0 ELSE i + 1

(* How many tasks wait, and the slot of the i-th of them. *)
Count == IF free >= full THEN free - full ELSE free + MAX_THREADS - full
Slot(i) == IF full + i - 1 < MAX_THREADS THEN full + i - 1
                                         ELSE full + i - 1 - MAX_THREADS

Init ==
  /\ queue = [s \in Slots |-> NoTask]
  /\ full = 0 /\ free = 0 /\ old = 0
  /\ running = NoTask
  /\ iflag = TRUE
  /\ depth = 0
  /\ pc = [l \in Levels |-> IF l = 0 THEN "check" ELSE "off"]
  /\ quiet = [l \in Levels |-> FALSE]
  /\ tp = [l \in Levels |-> NoTask]
  /\ org = [l \in Levels |-> 0]
  /\ prev = [l \in Levels |-> FALSE]

At(l, p) == l = depth /\ pc[l] = p
Goto(l, p) == pc' = [pc EXCEPT ![l] = p]

-----------------------------------------------------------------------------
(* TOS_post, called by a task or by a handler. *)

Post(l, t) ==
  /\ At(l, "run")
  /\ tp' = [tp EXCEPT ![l] = t]
  /\ Goto(l, "post")
  /\ UNCHANGED <<queue, full, free, old, running, iflag, depth, quiet, org,
                 prev>>

\* Variant: the last slot before the wrap counts as the end of the queue.
PostReadNoWrap(l) ==
  /\ At(l, "post")
  /\ IF free + 1 \in {full, MAX_THREADS}
     THEN Goto(l, "refused") /\ UNCHANGED <<prev, org>>
     ELSE /\ prev' = [prev EXCEPT ![l] = iflag]
          /\ org' = [org EXCEPT ![l] = free]
          /\ Goto(l, "store")
  /\ UNCHANGED <<queue, full, free, old, running, iflag, depth, quiet, tp>>

(* The reads with interrupts enabled.  TOS_sched_full is the main loop's,  *)
(* so it keeps its value for as long as the post lasts.                    *)
PostRead(l) ==
  /\ At(l, "post")
  /\ IF Inc(free) = full
     THEN Goto(l, "refused") /\ UNCHANGED <<prev, org>>
     ELSE /\ prev' = [prev EXCEPT ![l] = iflag]
          /\ org' = [org EXCEPT ![l] = free]
          /\ Goto(l, "store")
  /\ UNCHANGED <<queue, full, free, old, running, iflag, depth, quiet, tp>>

\* Variant: cli() without a second look at TOS_sched_free.
PostStoreBlindly(l) ==
  /\ At(l, "store")
  /\ free' = Inc(org[l])
  /\ queue' = [queue EXCEPT ![org[l]] = tp[l]]
  /\ Goto(l, "posted")
  /\ iflag' = prev[l]
  /\ org' = [org EXCEPT ![l] = 0]
  /\ prev' = [prev EXCEPT ![l] = FALSE]
  /\ UNCHANGED <<full, old, running, depth, quiet, tp>>

\* Variant: sei() whatever the flag was.
PostStoreEnabling(l) ==
  /\ At(l, "store")
  /\ IF org[l] = free
     THEN /\ free' = Inc(org[l])
          /\ queue' = [queue EXCEPT ![org[l]] = tp[l]]
          /\ Goto(l, "posted")
     ELSE /\ Goto(l, "post")
          /\ UNCHANGED <<queue, free>>
  /\ iflag' = TRUE
  /\ org' = [org EXCEPT ![l] = 0]
  /\ prev' = [prev EXCEPT ![l] = FALSE]
  /\ UNCHANGED <<full, old, running, depth, quiet, tp>>

(* cli() ... sei(): a handler may have posted since the reads, then again. *)
PostStore(l) ==
  /\ At(l, "store")
  /\ IF org[l] = free
     THEN /\ free' = Inc(org[l])
          /\ queue' = [queue EXCEPT ![org[l]] = tp[l]]
          /\ Goto(l, "posted")
     ELSE /\ Goto(l, "post")
          /\ UNCHANGED <<queue, free>>
  /\ iflag' = prev[l]
  /\ org' = [org EXCEPT ![l] = 0]
  /\ prev' = [prev EXCEPT ![l] = FALSE]
  /\ UNCHANGED <<full, old, running, depth, quiet, tp>>

PostReturn(l) ==
  /\ At(l, "posted") \/ At(l, "refused")
  /\ Goto(l, "run")
  /\ tp' = [tp EXCEPT ![l] = NoTask]
  /\ UNCHANGED <<queue, full, free, old, running, iflag, depth, quiet, org,
                 prev>>

-----------------------------------------------------------------------------
(* TOS_schedule_task and the loop of main. *)

\* Variant: EMPTY takes the last task for none.
CheckAllButOne ==
  /\ At(0, "check")
  /\ IF full = free \/ Inc(full) = free
     THEN Goto(0, "idle") /\ UNCHANGED old
     ELSE Goto(0, "advance") /\ old' = full
  /\ UNCHANGED <<queue, full, free, running, iflag, depth, quiet, tp, org,
                 prev>>

Check ==
  /\ At(0, "check")
  /\ IF full = free
     THEN Goto(0, "idle") /\ UNCHANGED old
     ELSE Goto(0, "advance") /\ old' = full
  /\ UNCHANGED <<queue, full, free, running, iflag, depth, quiet, tp, org,
                 prev>>

Advance ==
  /\ At(0, "advance")
  /\ full' = Inc(full)
  /\ Goto(0, "call")
  /\ UNCHANGED <<queue, free, old, running, iflag, depth, quiet, tp, org,
                 prev>>

Call ==
  /\ At(0, "call")
  /\ running' = queue[old]
  /\ Goto(0, "run")
  /\ UNCHANGED <<queue, full, free, old, iflag, depth, quiet, tp, org, prev>>

TaskEnd ==
  /\ At(0, "run")
  /\ running' = NoTask
  /\ Goto(0, "zero")
  /\ UNCHANGED <<queue, full, free, old, iflag, depth, quiet, tp, org, prev>>

Zero ==
  /\ At(0, "zero")
  /\ queue' = [queue EXCEPT ![old] = NoTask]
  /\ old' = 0
  /\ Goto(0, "check")
  /\ UNCHANGED <<full, free, running, iflag, depth, quiet, tp, org,
                 prev>>

(* The queue was empty: the processor sleeps until the next interrupt,     *)
(* whatever was posted since the look at the queue.                        *)
Sleep ==
  /\ At(0, "idle")
  /\ Goto(0, "sleep")
  /\ UNCHANGED <<queue, full, free, old, running, iflag, depth, quiet, tp,
                 org, prev>>

-----------------------------------------------------------------------------
(* Interrupts.  A SIGNAL handler runs with interrupts disabled, an         *)
(* INTERRUPT handler enables them; an interrupt wakes the processor.       *)

Woken == IF pc[0] = "sleep" THEN "check" ELSE pc[0]

Enter(q) ==
  /\ iflag
  /\ depth < MaxNest
  /\ depth' = depth + 1
  /\ pc' = [pc EXCEPT ![0] = Woken, ![depth + 1] = "run"]
  /\ quiet' = [quiet EXCEPT ![depth + 1] = q]
  /\ iflag' = ~q
  /\ UNCHANGED <<queue, full, free, old, running, tp, org, prev>>

Leave(l) ==
  /\ l > 0
  /\ At(l, "run")
  /\ depth' = l - 1
  /\ Goto(l, "off")
  /\ quiet' = [quiet EXCEPT ![l] = FALSE]
  /\ iflag' = TRUE
  /\ UNCHANGED <<queue, full, free, old, running, tp, org, prev>>

PostStep(l) == PostRead(l) \/ PostStore(l) \/ PostReturn(l)
MainStep == Check \/ Advance \/ Call \/ Zero \/ Sleep

Continue(l) == PostStep(l) \/ (l = 0 /\ MainStep)
Finish(l) == Leave(l) \/ (l = 0 /\ TaskEnd)

Next ==
  \/ \E q \in BOOLEAN : Enter(q)
  \/ \E l \in Levels : Continue(l) \/ Finish(l) \/ \E t \in Tasks : Post(l, t)

Spec == Init /\ [][Next]_vars

(***************************************************************************)
(* The processor executes an instruction of the interrupted level between  *)
(* two handlers, so a level that is interrupted again and again still gets *)
(* on: strong fairness.  Tasks and handlers run to completion.  Interrupts *)
(* (the clock) keep coming.                                                *)
(***************************************************************************)
Fairness ==
  /\ \A l \in Levels : SF_vars(Continue(l)) /\ SF_vars(Finish(l))
  /\ WF_vars(\E q \in BOOLEAN : Enter(q))

FairSpec == Spec /\ Fairness

-----------------------------------------------------------------------------
(* Every variable has its type: the indexes stay inside the ring. *)
TypeOK ==
  /\ queue \in [Slots -> Tasks \cup {NoTask}]
  /\ full \in Slots /\ free \in Slots /\ old \in Slots
  /\ running \in Tasks \cup {NoTask}
  /\ iflag \in BOOLEAN
  /\ depth \in Levels
  /\ pc \in [Levels -> Pcs]
  /\ quiet \in [Levels -> BOOLEAN]
  /\ tp \in [Levels -> Tasks \cup {NoTask}]
  /\ org \in [Levels -> Slots]
  /\ prev \in [Levels -> BOOLEAN]

(* TOS_post refuses only a queue that is full, also when handlers posted   *)
(* while it looked: MAX_THREADS - 1 tasks wait.                            *)
RefusedOnlyWhenFull ==
  \A l \in Levels : pc[l] = "refused" => Count = MAX_THREADS - 1

(* A handler that runs with interrupts disabled is never interrupted,      *)
(* whatever posts it makes: TOS_post enables interrupts only if they were. *)
QuietNotInterrupted == \A l \in 1..depth : quiet[l] => l = depth /\ ~iflag

(* The ring implements the queue of tasks: nothing a handler does between  *)
(* the steps of TOS_schedule_task or of another TOS_post loses a task,     *)
(* runs it twice, overwrites the one that runs, or changes the order.      *)
Queue == INSTANCE TaskQueue WITH
  Capacity <- MAX_THREADS - 1,
  waiting <- [i \in 1..Count |-> queue[Slot(i)]],
  running <- IF pc[0] = "call" THEN queue[old] ELSE running
Implements == Queue!Spec

(* A task that waits is called at last, although the processor may go to   *)
(* sleep just after it was posted: the main loop calls one again and again *)
(* while any waits, and Implements says in which order.                    *)
WaitingRuns == Count > 0 ~> pc[0] = "call"
=============================================================================
