-------------------------- MODULE TosSched_proofs --------------------------
(***************************************************************************)
(* Theorems about TosSched, for every ring size, set of tasks and depth of *)
(* nesting: the ring of sched.c implements the queue of TaskQueue.         *)
(***************************************************************************)
EXTENDS TosSched, SequenceTheorems, TLAPS

(***************************************************************************)
(* The inductive invariant.                                                *)
(***************************************************************************)

\* Which levels are in use, and where they can be.
Shape ==
  /\ pc[0] \in MainPcs \cup Posting \cup {"run"}
  /\ \A l \in 1..depth : pc[l] \in Posting \cup {"run"}
  /\ \A l \in Levels : l > depth => pc[l] = "off"

\* What a post that has looked at the indexes may rely on although handlers
\* move TOS_sched_free under it: the slot it saw is not the last free one, or
\* the queue is full; and it posts a task.
Looked ==
  /\ \A l \in Levels : pc[l] = "store" => Inc(org[l]) # full
  /\ \A l \in Levels : pc[l] = "refused" => Inc(free) = full
  /\ \A l \in Levels : pc[l] \in {"post", "store"} => tp[l] \in Tasks

\* The slot of the task that is called lies just before the oldest one: it is
\* the slot the ring keeps empty.
CalledSlot ==
  /\ pc[0] = "advance" => old = full /\ full # free
  /\ pc[0] \in {"call", "zero", "run"} \cup Posting => Inc(old) = full
  /\ pc[0] = "call" => queue[old] \in Tasks
  /\ pc[0] \in {"run"} \cup Posting <=> running # NoTask

\* The waiting slots hold tasks.
Filled == \A i \in 1..Count : queue[Slot(i)] \in Tasks

\* A post inside a quiet handler has seen the interrupts disabled.
QuietPosts ==
  \A l \in Levels \ {0} : pc[l] = "store" /\ quiet[l] => ~prev[l]

IInv == TypeOK /\ Shape /\ Looked /\ CalledSlot /\ Filled /\ QuietPosts
          /\ QuietNotInterrupted

-----------------------------------------------------------------------------
\* The arithmetic of the ring.
LEMMA RingArithmetic ==
  ASSUME full \in Slots, free \in Slots
  PROVE  /\ Inc(free) \in Slots /\ Inc(full) \in Slots
         /\ Count \in 0..MAX_THREADS - 1
         /\ \A i \in 1..Count : Slot(i) \in Slots /\ Slot(i) # free
         /\ Inc(free) = full <=> Count = MAX_THREADS - 1
         /\ full = free <=> Count = 0
         /\ Inc(free) # full => Slot(Count + 1) = free
BY SchedAssumption DEF Inc, Count, Slot, Slots

\* Type correctness.
LEMMA TypeInit == Init => TypeOK
BY SchedAssumption DEF Init, TypeOK, Slots, Levels, Pcs, MainPcs


LEMMA TypeNext == TypeOK /\ [Next]_vars => TypeOK'
<1> SUFFICES ASSUME TypeOK, [Next]_vars
             PROVE  TypeOK'
  OBVIOUS
<1> USE SchedAssumption DEF TypeOK, Pcs, Posting, MainPcs, Goto, At
<1>0. Inc(free) \in Slots /\ Inc(full) \in Slots
      /\ \A l \in Levels : Inc(org[l]) \in Slots
  BY DEF Inc, Slots
<1>1. CASE UNCHANGED vars
  BY <1>1 DEF vars
<1>2. ASSUME NEW q \in BOOLEAN, Enter(q)
      PROVE  TypeOK'
  <2>1. 0 \in Levels /\ depth + 1 \in Levels
    BY <1>2 DEF Enter, Levels
  <2>2. Woken \in Pcs
    BY <2>1 DEF Woken
  <2> QED
    BY <1>2, <2>1, <2>2 DEF Enter
<1>3. ASSUME NEW l \in Levels, PostStep(l)
      PROVE  TypeOK'
  <2>1. CASE PostRead(l)
    BY <2>1 DEF PostRead
  <2>2. CASE PostStore(l)
    <3>1. 0 \in Slots
      BY DEF Slots
    <3> QED
      BY <1>0, <2>2, <3>1 DEF PostStore
  <2>3. CASE PostReturn(l)
    BY <2>3 DEF PostReturn
  <2> QED
    BY <1>3, <2>1, <2>2, <2>3 DEF PostStep
<1>4. CASE MainStep \/ TaskEnd
  <2>1. 0 \in Levels /\ 0 \in Slots
    BY DEF Levels, Slots
  <2>2. CASE Check \/ Sleep
    BY <2>1, <2>2 DEF Check, Sleep
  <2>3. CASE Advance \/ Call \/ TaskEnd \/ Zero
    BY <1>0, <2>1, <2>3 DEF Advance, Call, TaskEnd, Zero
  <2> QED
    BY <1>4, <2>2, <2>3 DEF MainStep
<1>5. ASSUME NEW l \in Levels, Leave(l)
      PROVE  TypeOK'
  <2>1. l - 1 \in Levels
    BY <1>5 DEF Leave, Levels
  <2> QED
    BY <1>5, <2>1 DEF Leave
<1>6. ASSUME NEW l \in Levels, NEW t \in Tasks, Post(l, t)
      PROVE  TypeOK'
  BY <1>6 DEF Post
<1> QED
  BY <1>1, <1>2, <1>3, <1>4, <1>5, <1>6 DEF Next, Continue, Finish

THEOREM TypeCorrect == Spec => []TypeOK
<1> QED
  BY TypeInit, TypeNext, PTL DEF Spec

-----------------------------------------------------------------------------
\* Only the level that executes moves, and its position has the shape of its
\* level.
LEMMA ShapeNext == TypeOK /\ Shape /\ [Next]_vars => Shape'
<1> SUFFICES ASSUME TypeOK, Shape, [Next]_vars
             PROVE  Shape'
  OBVIOUS
<1> USE SchedAssumption
<1>0. depth \in Levels /\ pc \in [Levels -> Pcs] /\ 0 \in Levels
  BY DEF TypeOK, Levels
<1>1. CASE UNCHANGED <<pc, depth>>
  BY <1>1 DEF Shape
<1>2. ASSUME NEW q \in BOOLEAN, Enter(q)
      PROVE  Shape'
  <2>1. pc' = [pc EXCEPT ![0] = Woken, ![depth + 1] = "run"]
        /\ depth' = depth + 1 /\ depth + 1 \in Levels
    BY <1>0, <1>2 DEF Enter, Levels
  <2>2. pc'[0] \in MainPcs \cup Posting \cup {"run"}
    BY <1>0, <2>1 DEF Levels, Shape, Woken, MainPcs
  <2>3. \A l \in 1..depth' : pc'[l] \in Posting \cup {"run"}
    BY <1>0, <2>1 DEF Levels, Shape
  <2>4. \A l \in Levels : l > depth' => pc'[l] = "off"
    BY <1>0, <2>1 DEF Levels, Shape
  <2> QED
    BY <2>2, <2>3, <2>4 DEF Shape
<1>3. ASSUME NEW l \in Levels, l = depth, pc[l] \in Posting \cup {"run"},
             NEW p \in Posting \cup {"run"}, pc' = [pc EXCEPT ![l] = p],
             depth' = depth
      PROVE  Shape'
  BY <1>0, <1>3 DEF Shape, Levels
<1>4. ASSUME depth = 0, NEW p \in MainPcs \cup {"run"},
             pc' = [pc EXCEPT ![0] = p], depth' = depth
      PROVE  Shape'
  BY <1>0, <1>4 DEF Shape, Levels
<1>5. ASSUME NEW l \in Levels, Leave(l)
      PROVE  Shape'
  <2>1. pc' = [pc EXCEPT ![l] = "off"] /\ l = depth /\ depth' = l - 1 /\ l > 0
    BY <1>5 DEF Leave, At, Goto
  <2> QED
    BY <1>0, <2>1 DEF Shape, Levels
<1>6. ASSUME NEW l \in Levels, PostStep(l)
      PROVE  Shape'
  BY <1>3, <1>6 DEF PostStep, PostRead, PostStore, PostReturn, At, Goto,
     Posting
<1>7. CASE MainStep \/ TaskEnd
  BY <1>4, <1>7 DEF MainStep, Check, Advance, Call, Zero, Sleep, TaskEnd, At,
     Goto, MainPcs
<1>8. ASSUME NEW l \in Levels, NEW t \in Tasks, Post(l, t)
      PROVE  Shape'
  BY <1>3, <1>8 DEF Post, At, Goto, Posting
<1> QED
  BY <1>1, <1>2, <1>5, <1>6, <1>7, <1>8 DEF Next, Continue, Finish, vars

-----------------------------------------------------------------------------
\* A post that stores makes the queue one longer at its end ...
LEMMA RingGrows ==
  ASSUME full \in Slots, free \in Slots, Inc(free) # full,
         full' = full, free' = Inc(free)
  PROVE  /\ Count' = Count + 1
         /\ \A i \in Nat : Slot(i)' = Slot(i)
         /\ Slot(Count + 1) = free
         /\ full # free'
BY SchedAssumption DEF Inc, Count, Slot, Slots

\* ... and the main loop makes it one shorter at its beginning.
LEMMA RingShrinks ==
  ASSUME full \in Slots, free \in Slots, full # free,
         full' = Inc(full), free' = free
  PROVE  /\ Count' = Count - 1
         /\ \A i \in 1..Count - 1 : Slot(i)' = Slot(i + 1)
         /\ Slot(1) = full /\ 1 \in 1..Count
BY SchedAssumption DEF Inc, Count, Slot, Slots

\* The slot before the oldest one is not a waiting one.
LEMMA RingGap ==
  ASSUME full \in Slots, free \in Slots, old \in Slots, Inc(old) = full
  PROVE  \A i \in 1..Count : Slot(i) # old
BY SchedAssumption DEF Inc, Count, Slot, Slots

\* The steps that store in the ring or take from it, and all others.
LEMMA RingSteps ==
  ASSUME TypeOK, Shape, Looked, [Next]_vars
  PROVE  \/ /\ UNCHANGED <<full, free>>
            /\ UNCHANGED queue \/ Zero
         \/ \E l \in Levels : /\ PostStore(l) /\ org[l] = free
                              /\ Inc(free) # full
         \/ Advance
<1>1. ASSUME NEW l \in Levels, PostStore(l)
      PROVE  \/ UNCHANGED <<full, free, queue>>
             \/ org[l] = free /\ Inc(free) # full
  BY <1>1 DEF PostStore, Looked, At
<1> QED
  BY <1>1 DEF Next, Continue, Finish, PostStep, MainStep, Enter, PostRead,
     PostReturn, Check, Call, Zero, Sleep, TaskEnd, Leave, Post, vars

LEMMA LookedNext ==
  TypeOK /\ Shape /\ Looked /\ [Next]_vars => Looked'
<1> SUFFICES ASSUME TypeOK, Shape, Looked, [Next]_vars
             PROVE  Looked'
  OBVIOUS
<1> USE SchedAssumption
<1>0. /\ pc \in [Levels -> Pcs] /\ tp \in [Levels -> Tasks \cup {NoTask}]
      /\ org \in [Levels -> Slots] /\ 0 \in Levels /\ depth \in Levels
  BY DEF TypeOK, Levels
<1>1. CASE UNCHANGED <<full, free, tp, org>>
           /\ \A l \in Levels : pc'[l] \in {"post", "store", "refused"}
                                   => pc'[l] = pc[l]
  BY <1>1 DEF Looked
<1>2. ASSUME NEW q \in BOOLEAN, Enter(q)
      PROVE  Looked'
  BY <1>0, <1>1, <1>2 DEF Enter, Woken
<1>3. ASSUME NEW k \in Levels, PostRead(k)
      PROVE  Looked'
  BY <1>0, <1>3 DEF PostRead, Looked, At, Goto
<1>4. ASSUME NEW k \in Levels, PostStore(k)
      PROVE  Looked'
  <2>1. \A l \in Levels : pc'[l] = "refused" => org[k] # free
    BY <1>0, <1>4 DEF PostStore, Looked, At, Goto
  <2>2. \A l \in Levels : pc'[l] = "refused" => Inc(free') = full'
    BY <1>0, <1>4, <2>1 DEF PostStore, Looked, At, Goto
  <2>3. \A l \in Levels : pc'[l] = "store" => Inc(org'[l]) # full'
    BY <1>0, <1>4 DEF PostStore, Looked, At, Goto
  <2>4. \A l \in Levels : pc'[l] \in {"post", "store"} => tp'[l] \in Tasks
    BY <1>0, <1>4 DEF PostStore, Looked, At, Goto
  <2> QED
    BY <2>2, <2>3, <2>4 DEF Looked, Inc
<1>5. ASSUME NEW k \in Levels, PostReturn(k)
      PROVE  Looked'
  BY <1>0, <1>5 DEF PostReturn, Looked, At, Goto
<1>6. ASSUME NEW k \in Levels, NEW t \in Tasks, Post(k, t)
      PROVE  Looked'
  BY <1>0, <1>6 DEF Post, Looked, At, Goto
<1>7. CASE Advance
  <2>1. \A l \in Levels : l # 0 => pc[l] = "off"
    BY <1>7 DEF Advance, At, Shape, Levels
  <2> QED
    BY <1>0, <1>7, <2>1 DEF Advance, Looked, At, Goto
<1>8. CASE Check \/ Call \/ Zero \/ Sleep \/ TaskEnd
  BY <1>0, <1>1, <1>8 DEF Check, Call, Zero, Sleep, TaskEnd, Goto
<1>9. ASSUME NEW k \in Levels, Leave(k)
      PROVE  Looked'
  BY <1>0, <1>1, <1>9 DEF Leave, Goto
<1>10. CASE UNCHANGED vars
  BY <1>1, <1>10 DEF vars
<1> QED
  BY <1>2, <1>3, <1>4, <1>5, <1>6, <1>7, <1>8, <1>9, <1>10
     DEF Next, Continue, Finish, PostStep, MainStep

LEMMA CalledNext ==
  TypeOK /\ Shape /\ Looked /\ CalledSlot /\ Filled /\ [Next]_vars
    => CalledSlot'
<1> SUFFICES ASSUME TypeOK, Shape, Looked, CalledSlot, Filled, [Next]_vars
             PROVE  CalledSlot'
  OBVIOUS
<1> USE SchedAssumption
<1>0. /\ pc \in [Levels -> Pcs] /\ queue \in [Slots -> Tasks \cup {NoTask}]
      /\ 0 \in Levels /\ depth \in Levels /\ running \in Tasks \cup {NoTask}
      /\ full \in Slots /\ free \in Slots /\ old \in Slots
  BY DEF TypeOK, Levels
<1> DEFINE Where == {"run"} \cup Posting
<1>1. CASE /\ UNCHANGED <<full, free, queue, old, running>>
           /\ pc'[0] \in {"advance", "call", "zero"} => pc'[0] = pc[0]
           /\ pc'[0] \in Where <=> pc[0] \in Where
  BY <1>1 DEF CalledSlot, Inc
<1>2. ASSUME NEW q \in BOOLEAN, Enter(q)
      PROVE  CalledSlot'
  <2>1. pc'[0] = Woken /\ depth + 1 # 0
    BY <1>0, <1>2 DEF Enter, Levels
  <2> QED
    BY <1>1, <1>2, <2>1 DEF Enter, Woken, Posting
<1>3. ASSUME NEW k \in Levels, PostRead(k) \/ PostReturn(k) \/ Leave(k)
      PROVE  CalledSlot'
  BY <1>0, <1>1, <1>3 DEF PostRead, PostReturn, Leave, At, Goto, Posting
<1>4. ASSUME NEW k \in Levels, PostStore(k)
      PROVE  CalledSlot'
  <2>0. pc'[0] \in {"advance", "call", "zero"} => pc'[0] = pc[0]
    BY <1>0, <1>4 DEF PostStore, At, Goto, Posting
  <2>1. pc'[0] \in Where <=> pc[0] \in Where
    BY <1>0, <1>4 DEF PostStore, At, Goto, Posting
  <2>2. CASE org[k] # free
    BY <1>1, <1>4, <2>0, <2>1, <2>2 DEF PostStore
  <2>3. CASE org[k] = free
    <3>1. Inc(free) # full
      BY <1>4, <2>3 DEF PostStore, Looked, At
    <3>2. full' = full /\ free' = Inc(free) /\ old' = old
          /\ running' = running /\ queue' = [queue EXCEPT ![free] = tp[k]]
      BY <1>4, <2>3 DEF PostStore
    <3>3. pc[0] = "call" => queue'[old] = queue[old]
      BY <1>0, <3>1, <3>2 DEF CalledSlot
    <3> QED
      BY <1>0, <2>0, <2>1, <3>1, <3>2, <3>3 DEF CalledSlot, Inc
  <2> QED
    BY <2>2, <2>3
<1>5. ASSUME NEW k \in Levels, NEW t \in Tasks, Post(k, t)
      PROVE  CalledSlot'
  BY <1>0, <1>1, <1>5 DEF Post, At, Goto, Posting
<1>6. CASE Check
  BY <1>0, <1>6 DEF Check, At, Goto, CalledSlot, Posting
<1>7. CASE Advance
  <2>1. queue[full] \in Tasks
    BY <1>0, <1>7, RingShrinks DEF Advance, At, CalledSlot, Filled
  <2> QED
    BY <1>0, <1>7, <2>1 DEF Advance, At, Goto, CalledSlot, Posting, Inc
<1>8. CASE Call
  BY <1>0, <1>8 DEF Call, At, Goto, CalledSlot, Posting, Inc
<1>9. CASE TaskEnd \/ Zero \/ Sleep
  BY <1>0, <1>9 DEF TaskEnd, Zero, Sleep, At, Goto, CalledSlot, Posting, Inc
<1>10. CASE UNCHANGED vars
  BY <1>1, <1>10 DEF vars
<1> QED
  BY <1>2, <1>3, <1>4, <1>5, <1>6, <1>7, <1>8, <1>9, <1>10
     DEF Next, Continue, Finish, PostStep, MainStep

LEMMA FilledNext ==
  TypeOK /\ Shape /\ Looked /\ CalledSlot /\ Filled /\ [Next]_vars => Filled'
<1> SUFFICES ASSUME TypeOK, Shape, Looked, CalledSlot, Filled, [Next]_vars
             PROVE  Filled'
  OBVIOUS
<1>0. /\ queue \in [Slots -> Tasks \cup {NoTask}]
      /\ full \in Slots /\ free \in Slots /\ old \in Slots
      /\ Count \in Nat
  BY RingArithmetic DEF TypeOK
<1>1. CASE UNCHANGED <<full, free, queue>>
  BY <1>1 DEF Filled, Count, Slot
<1>2. CASE UNCHANGED <<full, free>> /\ Zero
  <2>1. \A i \in 1..Count : Slot(i) # old
    BY <1>0, <1>2, RingGap DEF Zero, At, CalledSlot
  <2>2. queue' = [queue EXCEPT ![old] = NoTask]
    BY <1>2 DEF Zero
  <2>3. \A i \in 1..Count : Slot(i) \in Slots /\ queue'[Slot(i)] = queue[Slot(i)]
    BY <1>0, <2>1, <2>2, RingArithmetic
  <2> QED
    BY <1>2, <2>3 DEF Filled, Count, Slot
<1>3. ASSUME NEW l \in Levels, PostStore(l), org[l] = free, Inc(free) # full
      PROVE  Filled'
  <2>1. /\ queue' = [queue EXCEPT ![free] = tp[l]] /\ tp[l] \in Tasks
        /\ full' = full /\ free' = Inc(free)
    BY <1>3 DEF PostStore, Looked, At
  <2>2. /\ Count' = Count + 1 /\ Slot(Count + 1) = free
        /\ \A i \in Nat : Slot(i)' = Slot(i)
    BY <1>0, <1>3, <2>1, RingGrows
  <2>3. ASSUME NEW i \in 1..Count + 1
        PROVE  queue'[Slot(i)] \in Tasks
    <3>1. CASE i = Count + 1
      BY <1>0, <2>1, <2>2, <3>1
    <3>2. CASE i \in 1..Count
      BY <1>0, <2>1, <3>2, RingArithmetic DEF Filled
    <3> QED
      BY <1>0, <3>1, <3>2
  <2> QED
    BY <1>0, <2>2, <2>3 DEF Filled
<1>4. CASE Advance
  <2>1. full # free /\ full' = Inc(full) /\ free' = free /\ queue' = queue
    BY <1>4 DEF Advance, At, CalledSlot
  <2>2. /\ Count' = Count - 1
        /\ \A i \in 1..Count - 1 : Slot(i)' = Slot(i + 1)
    BY <1>0, <2>1, RingShrinks
  <2> QED
    BY <1>0, <2>1, <2>2 DEF Filled
<1> QED
  BY <1>1, <1>2, <1>3, <1>4, RingSteps

\* Interrupts are disabled in a quiet handler until it ends.
LEMMA QuietNext ==
  TypeOK /\ QuietPosts /\ QuietNotInterrupted /\ [Next]_vars
    => QuietPosts' /\ QuietNotInterrupted'
<1> SUFFICES ASSUME TypeOK, QuietPosts, QuietNotInterrupted, [Next]_vars
             PROVE  QuietPosts' /\ QuietNotInterrupted'
  OBVIOUS
<1> USE SchedAssumption
<1>0. /\ pc \in [Levels -> Pcs] /\ quiet \in [Levels -> BOOLEAN]
      /\ prev \in [Levels -> BOOLEAN] /\ iflag \in BOOLEAN
      /\ 0 \in Levels /\ depth \in Levels
  BY DEF TypeOK, Levels
<1>1. CASE UNCHANGED <<iflag, depth, quiet, prev>>
           /\ \A l \in Levels : pc'[l] = "store" => pc[l] = "store"
  BY <1>1 DEF QuietPosts, QuietNotInterrupted
<1>2. ASSUME NEW q \in BOOLEAN, Enter(q)
      PROVE  QuietPosts' /\ QuietNotInterrupted'
  <2>1. /\ depth + 1 \in Levels /\ depth' = depth + 1 /\ iflag' = ~q /\ iflag
        /\ quiet' = [quiet EXCEPT ![depth + 1] = q] /\ prev' = prev
        /\ pc' = [pc EXCEPT ![0] = Woken, ![depth + 1] = "run"]
    BY <1>0, <1>2 DEF Enter, Levels
  <2>2. \A l \in 1..depth : ~quiet[l]
    BY <2>1 DEF QuietNotInterrupted
  <2>3. \A l \in Levels : pc'[l] = "store" => pc[l] = "store" /\ l # depth + 1
    BY <1>0, <2>1 DEF Woken
  <2>4. QuietPosts'
    BY <1>0, <2>1, <2>3 DEF QuietPosts
  <2>5. QuietNotInterrupted'
    <3> SUFFICES ASSUME NEW l \in 1..depth', quiet'[l]
                 PROVE  l = depth' /\ ~iflag'
      BY DEF QuietNotInterrupted
    <3>1. l # depth + 1 => ~quiet'[l]
      BY <1>0, <2>1, <2>2 DEF Levels
    <3>2. l = depth + 1 => quiet'[l] = q
      BY <1>0, <2>1
    <3> QED
      BY <2>1, <3>1, <3>2
  <2> QED
    BY <2>4, <2>5
<1>3. ASSUME NEW k \in Levels, PostRead(k)
      PROVE  QuietPosts' /\ QuietNotInterrupted'
  <2>1. quiet[k] /\ k # 0 => ~iflag
    BY <1>0, <1>3 DEF PostRead, At, QuietNotInterrupted, Levels
  <2> QED
    BY <1>0, <1>3, <2>1 DEF PostRead, At, Goto, QuietPosts,
       QuietNotInterrupted
<1>4. ASSUME NEW k \in Levels, PostStore(k)
      PROVE  QuietPosts' /\ QuietNotInterrupted'
  BY <1>0, <1>4 DEF PostStore, At, Goto, QuietPosts, QuietNotInterrupted
<1>5. ASSUME NEW k \in Levels, Leave(k)
      PROVE  QuietPosts' /\ QuietNotInterrupted'
  BY <1>0, <1>5 DEF Leave, At, Goto, QuietPosts, QuietNotInterrupted, Levels
<1>6. ASSUME NEW k \in Levels,
             PostReturn(k) \/ \E t \in Tasks : Post(k, t)
      PROVE  QuietPosts' /\ QuietNotInterrupted'
  BY <1>0, <1>1, <1>6 DEF Post, PostReturn, Goto
<1>7. CASE MainStep \/ TaskEnd
  BY <1>0, <1>1, <1>7 DEF MainStep, Check, Advance, Call, Zero, Sleep,
     TaskEnd, Goto
<1>8. CASE UNCHANGED vars
  BY <1>1, <1>8 DEF vars
<1> QED
  BY <1>2, <1>3, <1>4, <1>5, <1>6, <1>7, <1>8
     DEF Next, Continue, Finish, PostStep

THEOREM Inductive == Spec => []IInv
<1>1. Init => IInv
  <2> SUFFICES ASSUME Init PROVE IInv
    OBVIOUS
  <2> USE SchedAssumption
  <2>1. Shape /\ Looked /\ CalledSlot /\ QuietPosts /\ QuietNotInterrupted
    BY DEF Init, Shape, Looked, CalledSlot, QuietPosts, QuietNotInterrupted,
       Levels, MainPcs, Posting
  <2>2. Filled
    BY DEF Init, Filled, Count
  <2> QED
    BY <2>1, <2>2, TypeInit DEF IInv
<1>2. IInv /\ [Next]_vars => IInv'
  BY TypeNext, ShapeNext, LookedNext, CalledNext, FilledNext, QuietNext
     DEF IInv
<1> QED
  BY <1>1, <1>2, PTL DEF Spec

\* A post is refused only while MAX_THREADS - 1 tasks wait.
THEOREM RefusedSound == Spec => []RefusedOnlyWhenFull
<1>1. IInv => RefusedOnlyWhenFull
  BY RingArithmetic DEF IInv, TypeOK, Looked, RefusedOnlyWhenFull
<1> QED
  BY <1>1, Inductive, PTL

\* A handler that runs with interrupts disabled is not interrupted.
THEOREM QuietSound == Spec => []QuietNotInterrupted
<1>1. IInv => QuietNotInterrupted
  BY DEF IInv
<1> QED
  BY <1>1, Inductive, PTL

-----------------------------------------------------------------------------
(***************************************************************************)
(* The ring implements the queue.                                          *)
(***************************************************************************)

Waiting == [i \in 1..Count |-> queue[Slot(i)]]
Runs == IF pc[0] = "call" THEN queue[old] ELSE running

WaitingIsSeq ==
  /\ Waiting \in Seq(Tasks) /\ Len(Waiting) = Count
  /\ \A i \in 1..Count : Waiting[i] = queue[Slot(i)]
  /\ Count \in 0..MAX_THREADS - 1

LEMMA WaitingSeq == IInv => WaitingIsSeq
<1> SUFFICES ASSUME IInv PROVE WaitingIsSeq
  OBVIOUS
<1>1. Count \in 0..MAX_THREADS - 1
  BY RingArithmetic DEF IInv, TypeOK
<1>2. Count \in Nat
  BY <1>1, SchedAssumption
<1>3. Waiting \in [1..Count -> Tasks]
  BY DEF IInv, Filled, Waiting
<1>4. Waiting \in Seq(Tasks)
  BY <1>2, <1>3, SeqDef
<1>5. Len(Waiting) = Count
  BY <1>2, <1>3
<1> QED
  BY <1>1, <1>4, <1>5 DEF Waiting, WaitingIsSeq

LEMMA WaitingSeqNext == IInv' => WaitingIsSeq'
BY WaitingSeq, PTL

\* A step that leaves the waiting tasks in their slots is none of the queue.
LEMMA WaitingKept ==
  ASSUME IInv, UNCHANGED <<full, free>>,
         \A i \in 1..Count : queue'[Slot(i)] = queue[Slot(i)]
  PROVE  Waiting' = Waiting
BY DEF Waiting, Count, Slot

\* A post that stores is the abstract Post.
LEMMA StorePosts ==
  ASSUME IInv, IInv', NEW l \in Levels, PostStore(l), org[l] = free,
         Inc(free) # full
  PROVE  /\ Len(Waiting) < MAX_THREADS - 1
         /\ Waiting' = Append(Waiting, tp[l])
         /\ tp[l] \in Tasks
<1>1. /\ queue \in [Slots -> Tasks \cup {NoTask}]
      /\ full \in Slots /\ free \in Slots
  BY DEF IInv, TypeOK
<1>2. /\ queue' = [queue EXCEPT ![free] = tp[l]] /\ tp[l] \in Tasks
      /\ full' = full /\ free' = Inc(free)
  BY DEF PostStore, IInv, Looked, At
<1>3. /\ Count' = Count + 1 /\ Slot(Count + 1) = free
      /\ \A i \in Nat : Slot(i)' = Slot(i)
  BY <1>1, <1>2, RingGrows
<1>4. Count < MAX_THREADS - 1
  BY <1>1, RingArithmetic, SchedAssumption
<1>5. /\ Waiting \in Seq(Tasks) /\ Len(Waiting) = Count /\ Count \in Nat
      /\ Waiting' \in Seq(Tasks) /\ Len(Waiting') = Count + 1
  BY <1>3, WaitingSeq, WaitingSeqNext, SchedAssumption DEF WaitingIsSeq
<1>6. /\ Append(Waiting, tp[l]) \in Seq(Tasks)
      /\ Len(Append(Waiting, tp[l])) = Count + 1
      /\ \A i \in 1..Count : Append(Waiting, tp[l])[i] = Waiting[i]
      /\ Append(Waiting, tp[l])[Count + 1] = tp[l]
  BY <1>2, <1>5
<1>7. ASSUME NEW i \in 1..Count + 1
      PROVE  Waiting'[i] = Append(Waiting, tp[l])[i]
  <2>1. Waiting'[i] = queue'[Slot(i)]
    BY <1>3, <1>5, WaitingSeqNext DEF WaitingIsSeq
  <2>2. CASE i = Count + 1
    BY <1>1, <1>2, <1>3, <1>6, <2>1, <2>2
  <2>3. CASE i \in 1..Count
    <3>1. Slot(i) \in Slots /\ Slot(i) # free
      BY <1>1, <2>3, RingArithmetic
    <3>2. Waiting[i] = queue[Slot(i)]
      BY <2>3, WaitingSeq DEF WaitingIsSeq
    <3> QED
      BY <1>1, <1>2, <1>6, <2>1, <2>3, <3>1, <3>2
  <2> QED
    BY <1>5, <2>2, <2>3
<1>8. Waiting' = Append(Waiting, tp[l])
  BY <1>5, <1>6, <1>7, SeqEqual
<1> QED
  BY <1>2, <1>4, <1>5, <1>8

\* ADVANCE is the abstract Take.
LEMMA AdvanceTakes ==
  ASSUME IInv, IInv', Advance
  PROVE  /\ Waiting # <<>>
         /\ Runs = NoTask /\ Runs' = Head(Waiting)
         /\ Waiting' = Tail(Waiting)
<1>1. /\ full \in Slots /\ free \in Slots /\ pc \in [Levels -> Pcs]
      /\ 0 \in Levels
  BY SchedAssumption DEF IInv, TypeOK, Levels
<1>2. /\ full # free /\ old = full /\ full' = Inc(full) /\ free' = free
      /\ queue' = queue /\ old' = old /\ pc[0] = "advance"
      /\ pc'[0] = "call"
  BY <1>1 DEF Advance, At, Goto, IInv, CalledSlot
<1>3. /\ Count' = Count - 1 /\ Slot(1) = full /\ 1 \in 1..Count
      /\ \A i \in 1..Count - 1 : Slot(i)' = Slot(i + 1)
  BY <1>1, <1>2, RingShrinks
<1>4. /\ Waiting \in Seq(Tasks) /\ Len(Waiting) = Count /\ Count \in Nat
      /\ Waiting' \in Seq(Tasks) /\ Len(Waiting') = Count - 1
      /\ Waiting[1] = queue[full]
  BY <1>3, WaitingSeq, WaitingSeqNext, SchedAssumption DEF WaitingIsSeq
<1>5. Waiting # <<>>
  BY <1>3, <1>4, EmptySeq
<1>6. /\ Tail(Waiting) \in Seq(Tasks) /\ Len(Tail(Waiting)) = Count - 1
      /\ \A i \in 1..Count - 1 : Tail(Waiting)[i] = Waiting[i + 1]
  BY <1>4, <1>5, HeadTailProperties
<1>7. ASSUME NEW i \in 1..Count - 1
      PROVE  Waiting'[i] = Tail(Waiting)[i]
  <2>1. Waiting'[i] = queue'[Slot(i)']
    BY <1>3, <1>4, WaitingSeqNext DEF WaitingIsSeq
  <2>2. i + 1 \in 1..Count
    BY <1>4
  <2>3. Waiting[i + 1] = queue[Slot(i + 1)]
    BY <2>2, WaitingSeq DEF WaitingIsSeq
  <2> QED
    BY <1>2, <1>3, <1>6, <2>1, <2>3
<1>8. Waiting' = Tail(Waiting)
  BY <1>4, <1>6, <1>7, SeqEqual
<1>9. Runs = NoTask /\ Runs' = Head(Waiting)
  <2>1. running = NoTask
    BY <1>2 DEF IInv, CalledSlot, Posting
  <2>2. Head(Waiting) = Waiting[1]
    BY <1>4, <1>5
  <2> QED
    BY <1>2, <1>4, <2>1, <2>2 DEF Runs
<1> QED
  BY <1>5, <1>8, <1>9

\* The task that runs changes when it is taken and when it ends.
LEMMA RunsKept ==
  ASSUME IInv, [Next]_vars, ~Advance, ~TaskEnd
  PROVE  Runs' = Runs
<1>0. /\ pc \in [Levels -> Pcs] /\ 0 \in Levels /\ depth \in Levels
      /\ queue \in [Slots -> Tasks \cup {NoTask}] /\ free \in Slots
      /\ old \in Slots
  BY SchedAssumption DEF IInv, TypeOK, Levels
<1>1. CASE /\ UNCHANGED <<queue, old, running>>
           /\ pc'[0] = "call" <=> pc[0] = "call"
  BY <1>1 DEF Runs
<1>2. ASSUME NEW q \in BOOLEAN, Enter(q)
      PROVE  Runs' = Runs
  <2>1. pc'[0] = Woken /\ depth + 1 # 0
    BY <1>0, <1>2, SchedAssumption DEF Enter, Levels
  <2> QED
    BY <1>1, <1>2, <2>1 DEF Enter, Woken
<1>3. ASSUME NEW k \in Levels, PostStore(k)
      PROVE  Runs' = Runs
  <2>1. pc'[0] = "call" <=> pc[0] = "call"
    BY <1>0, <1>3 DEF PostStore, At, Goto
  <2>2. pc[0] = "call" => queue'[old] = queue[old]
    BY <1>0, <1>3 DEF PostStore, IInv, Looked, CalledSlot, At
  <2> QED
    BY <1>3, <2>1, <2>2 DEF Runs, PostStore
<1>4. ASSUME NEW k \in Levels,
             PostRead(k) \/ PostReturn(k) \/ Leave(k)
               \/ \E t \in Tasks : Post(k, t)
      PROVE  Runs' = Runs
  BY <1>0, <1>1, <1>4 DEF PostRead, PostReturn, Leave, Post, At, Goto
<1>5. CASE Check \/ Call \/ Zero \/ Sleep
  <2>1. pc[0] = "check" => running = NoTask
    BY DEF IInv, CalledSlot, Posting
  <2> QED
    BY <1>0, <1>5, <2>1 DEF Check, Call, Zero, Sleep, At, Goto, Runs
<1>6. CASE UNCHANGED vars
  BY <1>1, <1>6 DEF vars
<1> QED
  BY <1>2, <1>3, <1>4, <1>5, <1>6
     DEF Next, Continue, Finish, PostStep, MainStep

\* A task that ends leaves the queue alone.
LEMMA EndFinishes ==
  ASSUME IInv, TaskEnd
  PROVE  Runs # NoTask /\ Runs' = NoTask /\ Waiting' = Waiting
<1>1. pc \in [Levels -> Pcs] /\ 0 \in Levels
  BY SchedAssumption DEF IInv, TypeOK, Levels
<1>2. /\ pc[0] = "run" /\ pc'[0] = "zero" /\ running' = NoTask
      /\ UNCHANGED <<full, free, queue>>
  BY <1>1 DEF TaskEnd, At, Goto
<1>3. running # NoTask
  BY <1>2 DEF IInv, CalledSlot
<1> QED
  BY <1>2, <1>3, WaitingKept DEF Runs

\* The ring of sched.c implements a bounded queue of tasks: nothing that
\* interrupt handlers post between the steps of TOS_schedule_task or of
\* another TOS_post loses a task, runs one twice or out of order, or
\* overwrites the one that runs.
THEOREM RingImplementsQueue == Spec => Implements
<1>1. Init => Queue!Init
  BY SchedAssumption DEF Init, Queue!Init, Count, Levels
<1>2. IInv /\ IInv' /\ [Next]_vars => [Queue!Next]_(Queue!vars)
  <2> SUFFICES ASSUME IInv, IInv', [Next]_vars
               PROVE  [Queue!Next]_(Queue!vars)
    OBVIOUS
  <2> USE DEF Queue!vars, Queue!Next, Runs, Waiting
  <2>1. CASE Advance
    BY <2>1, AdvanceTakes DEF Queue!Take
  <2>2. CASE TaskEnd
    BY <2>2, EndFinishes DEF Queue!Finish
  <2>3. CASE ~Advance /\ ~TaskEnd
    <3>1. Runs' = Runs
      BY <2>3, RunsKept
    <3>2. CASE UNCHANGED <<full, free>> /\ (UNCHANGED queue \/ Zero)
      <4>1. Waiting' = Waiting
        BY <3>2, WaitingKept, RingGap, RingArithmetic
           DEF Zero, At, IInv, TypeOK, CalledSlot
      <4> QED
        BY <3>1, <4>1
    <3>3. ASSUME NEW l \in Levels, PostStore(l), org[l] = free,
                 Inc(free) # full
          PROVE  \E t \in Tasks : Queue!Post(t)
      BY <3>1, <3>3, StorePosts DEF Queue!Post
    <3> QED
      BY <2>3, <3>2, <3>3, RingSteps DEF IInv
  <2> QED
    BY <2>1, <2>2, <2>3
<1> QED
  BY <1>1, <1>2, Inductive, PTL DEF Spec, Implements, Queue!Spec
=============================================================================
