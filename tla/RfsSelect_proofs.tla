-------------------------- MODULE RfsSelect_proofs --------------------------
(***************************************************************************)
(* The two loops of select_peer return what RfsTables says, for every      *)
(* number of servers and files and every length of index[].                *)
(***************************************************************************)
EXTENDS RfsSelect, TLAPS, WellFoundedInduction

-----------------------------------------------------------------------------
(* Loops                                                                   *)

\* What holds at the start of a loop of n passes and is kept by each of them
\* holds after every pass.
LEMMA EveryPass ==
  ASSUME NEW P, NEW n \in Nat, 0 \in P,
         \A i \in 1 .. n : i - 1 \in P => i \in P
  PROVE  \A i \in 0 .. n : i \in P
<1> DEFINE bad == {i \in 0 .. n : i \notin P}
<1>1. bad \in SUBSET Nat
  OBVIOUS
<1>2. SUFFICES ASSUME bad # {} PROVE FALSE
  OBVIOUS
<1>3. PICK m \in bad : \A k \in bad : ~ (<<k, m>> \in OpToRel(<, Nat))
  <2> HIDE DEF bad
  <2> QED BY <1>1, <1>2, NatLessThanWellFounded, WFMin
<1>4. m \in 1 .. n /\ m \notin P
  <2>1. m \in 0 .. n /\ m \notin P
    BY <1>3
  <2>2. m # 0
    BY <2>1
  <2> QED BY <2>1, <2>2
<1>5. <<m - 1, m>> \in OpToRel(<, Nat)
  BY <1>4 DEF OpToRel
<1>6. m - 1 \notin bad
  BY <1>3, <1>5
<1>7. m - 1 \in P
  BY <1>4, <1>6
<1> QED
  BY <1>4, <1>7

\* The locals after each of n passes, from init and with step in each pass.
Runs(n, S, init, step) ==
  {g \in [0 .. n -> S] :
     g[0] = init /\ \A i \in 1 .. n : g[i] = step[<<i, g[i - 1]>>]}

\* A loop of n passes computes something.
LEMMA LoopRuns ==
  ASSUME NEW S, NEW init \in S, NEW step \in [Nat \X S -> S], NEW n \in Nat
  PROVE  Runs(n, S, init, step) # {}
<1> DEFINE P == {m \in Nat : Runs(m, S, init, step) # {}}
<1>1. Runs(0, S, init, step) # {}
  <2>1. [i \in 0 .. 0 |-> init] \in Runs(0, S, init, step)
    BY DEF Runs
  <2> QED BY <2>1
<1>2. ASSUME NEW m \in Nat, Runs(m, S, init, step) # {}
      PROVE  Runs(m + 1, S, init, step) # {}
  <2>1. PICK g : g \in Runs(m, S, init, step)
    BY <1>2
  <2>2. g \in [0 .. m -> S] /\ g[0] = init
    BY <2>1 DEF Runs
  <2>3. \A i \in 1 .. m : g[i] = step[<<i, g[i - 1]>>]
    BY <2>1 DEF Runs
  <2>4. PICK w : w = step[<<m + 1, g[m]>>]
    OBVIOUS
  <2>5. w \in S
    <3>1. <<m + 1, g[m]>> \in Nat \X S
      BY <2>2
    <3> QED BY <2>4, <3>1
  <2>6. PICK h : h = [i \in 0 .. m + 1 |-> IF i = m + 1 THEN w ELSE g[i]]
    OBVIOUS
  <2>7. h \in [0 .. m + 1 -> S] /\ h[0] = init
    BY <2>2, <2>5, <2>6
  <2>8. ASSUME NEW i \in 1 .. m + 1
        PROVE  h[i] = step[<<i, h[i - 1]>>]
    <3>1. h[i - 1] = g[i - 1]
      BY <2>6
    <3>2. CASE i = m + 1
      <4>1. i - 1 = m /\ h[i] = w
        BY <3>2, <2>6
      <4> QED BY <4>1, <3>1, <3>2, <2>4
    <3>3. CASE i # m + 1
      <4>1. i \in 1 .. m /\ h[i] = g[i]
        BY <3>3, <2>6
      <4> QED BY <4>1, <3>1, <2>3
    <3> QED BY <3>2, <3>3
  <2>9. h \in Runs(m + 1, S, init, step)
    BY <2>7, <2>8 DEF Runs
  <2> QED BY <2>9
<1>3. \A i \in 1 .. n : i - 1 \in P => i \in P
  <2> SUFFICES ASSUME NEW i \in 1 .. n, Runs(i - 1, S, init, step) # {}
               PROVE  Runs(i, S, init, step) # {}
    OBVIOUS
  <2>1. Runs((i - 1) + 1, S, init, step) # {}
    BY <1>2
  <2>2. (i - 1) + 1 = i
    OBVIOUS
  <2> QED BY <2>1, <2>2
<1>4. 0 \in P
  BY <1>1
<1>5. n \in P
  <2> HIDE DEF P
  <2>1. \A i \in 0 .. n : i \in P
    BY <1>3, <1>4, EveryPass
  <2> QED BY <2>1
<1> QED
  BY <1>5

-----------------------------------------------------------------------------
(* The first loop                                                          *)

FirstPass(table) ==
  [x \in Nat \X Servers |->
     IF x[1] - 1 \in Servers /\ table[x[1] - 1].free > table[x[2]].free
     THEN x[1] - 1 ELSE x[2]]

\* The loop of MaxFreeAfter makes these passes.
LEMMA FirstLoop ==
  ASSUME NEW table \in ServerTable
  PROVE  \E l : /\ MaxFreeAfter(table) = l[NServers]
                /\ l[0] = 0
                /\ \A i \in 1 .. NServers :
                     l[i] = IF table[i - 1].free > table[l[i - 1]].free
                            THEN i - 1 ELSE l[i - 1]
<1> USE SizesAssumption
<1> DEFINE Body(l) ==
      [i \in 0 .. NServers |->
         IF i = 0 THEN 0
         ELSE IF table[i - 1].free > table[l[i - 1]].free THEN i - 1
         ELSE l[i - 1]]
    loop == CHOOSE l : l = Body(l)
<1>1. MaxFreeAfter(table) = loop[NServers]
  BY DEF MaxFreeAfter
<1>2. 0 \in Servers /\ FirstPass(table) \in [Nat \X Servers -> Servers]
  BY DEF FirstPass, Servers
<1>3. PICK g : g \in Runs(NServers, Servers, 0, FirstPass(table))
  <2> HIDE DEF Body, loop
  <2>1. NServers \in Nat
    OBVIOUS
  <2>2. Runs(NServers, Servers, 0, FirstPass(table)) # {}
    BY ONLY <1>2, <2>1, LoopRuns
  <2> QED BY ONLY <2>2
<1>4. ASSUME NEW l \in [0 .. NServers -> Servers], NEW i \in 1 .. NServers
      PROVE  FirstPass(table)[<<i, l[i - 1]>>] = Body(l)[i]
  <2>1. i - 1 \in Servers /\ l[i - 1] \in Servers /\ i \in Nat
    BY DEF Servers
  <2>2. <<i, l[i - 1]>> \in Nat \X Servers
    BY <2>1
  <2> QED
    BY <2>1, <2>2 DEF FirstPass
<1>5. g = Body(g)
  <2>1. g \in [0 .. NServers -> Servers] /\ g[0] = 0
    BY <1>3 DEF Runs
  <2>2. \A i \in 1 .. NServers : g[i] = FirstPass(table)[<<i, g[i - 1]>>]
    BY <1>3 DEF Runs
  <2>3. \A i \in 1 .. NServers : g[i] = Body(g)[i]
    BY <2>1, <2>2, <1>4
  <2>4. \A i \in 0 .. NServers : g[i] = Body(g)[i]
    <3> SUFFICES ASSUME NEW i \in 0 .. NServers PROVE g[i] = Body(g)[i]
      OBVIOUS
    <3>1. CASE i = 0
      BY <3>1, <2>1
    <3>2. CASE i # 0
      <4>1. i \in 1 .. NServers
        BY <3>2
      <4> HIDE DEF Body
      <4> QED BY <4>1, <2>3
    <3> QED BY <3>1, <3>2
  <2> QED
    BY <2>1, <2>4
<1>6. loop = Body(loop)
  <2> HIDE DEF Body
  <2> QED BY <1>5
<1>7. loop[0] = 0
  <2> HIDE DEF loop
  <2>1. 0 \in 0 .. NServers
    OBVIOUS
  <2> QED BY <1>6, <2>1
<1>8. ASSUME NEW i \in 1 .. NServers
      PROVE  loop[i] = IF table[i - 1].free > table[loop[i - 1]].free
                       THEN i - 1 ELSE loop[i - 1]
  <2> HIDE DEF loop
  <2>1. i \in 0 .. NServers /\ i # 0
    OBVIOUS
  <2> QED BY <1>6, <2>1
<1> QED
  <2> HIDE DEF loop
  <2> QED BY <1>1, <1>7, <1>8

\* It ends at the first most free server.
LEMMA FirstLoopAgrees ==
  ASSUME NEW table \in ServerTable
  PROVE  MaxFreeAfter(table) = MostFree(table)
<1> USE SizesAssumption
<1>1. PICK l : /\ MaxFreeAfter(table) = l[NServers]
               /\ l[0] = 0
               /\ \A i \in 1 .. NServers :
                    l[i] = IF table[i - 1].free > table[l[i - 1]].free
                           THEN i - 1 ELSE l[i - 1]
  BY FirstLoop
<1>2. \A k \in Servers : table[k].free \in Nat
  BY DEF Servers, Slots, ServerTable, ServerEntry
<1> DEFINE Ahead(i, m) ==
             /\ m \in Servers /\ (m < i \/ m = 0)
             /\ \A k \in Servers : k < i =>
                  /\ table[k].free <= table[m].free
                  /\ k < m => table[k].free < table[m].free
           P == {i \in 0 .. NServers : Ahead(i, l[i])}
<1>3. 0 \in P
  BY <1>1 DEF Servers
<1>4. ASSUME NEW i \in 1 .. NServers, i - 1 \in P
      PROVE  i \in P
  <2>1. PICK m : m = l[i - 1]
    OBVIOUS
  <2>2. PICK w : w = l[i]
    OBVIOUS
  <2>3. Ahead(i - 1, m)
    BY <1>4, <2>1
  <2>4. w = IF table[i - 1].free > table[m].free THEN i - 1 ELSE m
    BY <1>1, <2>1, <2>2
  <2>5. i - 1 \in Servers
    BY DEF Servers
  <2>6. Ahead(i, w)
    <3>1. CASE table[i - 1].free > table[m].free
      <4>1. w = i - 1
        BY <2>4, <3>1
      <4>2. ASSUME NEW k \in Servers, k < i
            PROVE  /\ table[k].free <= table[w].free
                   /\ k < w => table[k].free < table[w].free
        <5>1. k < i - 1 => table[k].free <= table[m].free
          BY <2>3, <4>2
        <5>2. k \in Int /\ table[k].free \in Nat /\ table[m].free \in Nat
              /\ table[i - 1].free \in Nat
          BY <1>2, <2>3, <2>5 DEF Servers
        <5>3. k < i - 1 \/ k = i - 1
          BY <4>2, <5>2
        <5> QED BY <3>1, <4>1, <5>1, <5>2, <5>3
      <4> QED BY <2>5, <4>1, <4>2
    <3>2. CASE ~ (table[i - 1].free > table[m].free)
      <4>1. w = m
        BY <2>4, <3>2
      <4>2. m \in Servers /\ (m < i \/ m = 0)
        BY <2>3 DEF Servers
      <4>3. ASSUME NEW k \in Servers, k < i
            PROVE  /\ table[k].free <= table[m].free
                   /\ k < m => table[k].free < table[m].free
        <5>1. CASE k < i - 1
          BY <2>3, <5>1
        <5>2. CASE ~ (k < i - 1)
          <6>1. k = i - 1
            BY <4>3, <5>2 DEF Servers
          <6>2. table[i - 1].free <= table[m].free
            BY <1>2, <2>5, <3>2, <4>2
          <6>3. ~ (k < m)
            BY <2>3, <6>1 DEF Servers
          <6> QED BY <6>1, <6>2, <6>3
        <5> QED BY <5>1, <5>2
      <4> QED BY <4>1, <4>2, <4>3
    <3> QED BY <3>1, <3>2
  <2> QED BY <2>2, <2>6
<1>5. \A i \in 0 .. NServers : i \in P
  <2> HIDE DEF P
  <2> QED BY <1>3, <1>4, EveryPass
<1>6. PICK m : m = l[NServers]
  OBVIOUS
<1>7. Ahead(NServers, m)
  <2>1. NServers \in P
    BY <1>5
  <2> QED BY <1>6, <2>1
<1> DEFINE First(i) == /\ \A k \in Servers : table[k].free <= table[i].free
                       /\ \A k \in Servers : k < i => table[k].free < table[i].free
<1>8. m \in Servers /\ First(m)
  BY <1>7 DEF Servers
<1>9. ASSUME NEW i \in Servers, First(i)
      PROVE  i = m
  <2>1. table[i].free = table[m].free
    <3>1. table[i].free <= table[m].free /\ table[m].free <= table[i].free
      BY <1>8, <1>9
    <3> QED BY <1>2, <1>8, <3>1
  <2>2. ~ (i < m) /\ ~ (m < i)
    <3>1. i < m => table[i].free < table[m].free
      BY <1>8
    <3>2. m < i => table[m].free < table[i].free
      BY <1>8, <1>9
    <3> QED BY <1>2, <1>8, <2>1, <3>1, <3>2
  <2> QED BY <1>8, <2>2 DEF Servers
<1>10. (CHOOSE i \in Servers : First(i)) = m
  <2> HIDE DEF First
  <2> QED BY <1>8, <1>9
<1>11. MostFree(table) = m
  BY <1>10 DEF MostFree
<1> QED
  BY <1>1, <1>6, <1>11

-----------------------------------------------------------------------------
(* The second loop                                                         *)

Locals == [max_pair : Nat, s_idx : Int]
NoLocals == [max_pair |-> 0, s_idx |-> -1]

\* The pass at position p, when the locals are q.
Passed(table, row, p, q) ==
  IF Score(table, row, p) > q.max_pair
  THEN [max_pair |-> Score(table, row, p), s_idx |-> p] ELSE q

SecondPass(table, row) ==
  [x \in Nat \X Locals |->
     IF x[1] - 1 \in Positions(row) THEN Passed(table, row, x[1] - 1, x[2]) ELSE x[2]]

LEMMA ScoreType ==
  ASSUME NEW table \in ServerTable, NEW row \in FileEntry
  PROVE  /\ \A p \in Positions(row) : Score(table, row, p) \in Nat
         /\ \A p \in Positions(row), q \in Locals : Passed(table, row, p, q) \in Locals
<1>1. \A p \in Positions(row) : Score(table, row, p) \in Nat
  BY SizesAssumption DEF Score, Positions, Slots, ServerTable, ServerEntry, FileEntry
<1>2. \A p \in Positions(row) : p \in Int
  BY DEF Positions, Slots
<1> QED
  BY <1>1, <1>2 DEF Passed, Locals

\* The loop of SelectPeerAfter makes these passes.
LEMMA SecondLoop ==
  ASSUME NEW table \in ServerTable, NEW row \in FileEntry,
         Len(row.index) <= MAX_SERVERS
  PROVE  \E l : /\ SelectPeerAfter(table, row) = l[Len(row.index)].s_idx
                /\ l[0] = NoLocals
                /\ \A i \in 1 .. Len(row.index) :
                     l[i] = Passed(table, row, i - 1, l[i - 1])
<1> USE SizesAssumption
<1> DEFINE Body(l) ==
      [j \in 0 .. Len(row.index) |->
         IF j = 0 THEN [max_pair |-> 0, s_idx |-> -1]
         ELSE LET tmp == table[j - 1].free + row.request
              IN  IF tmp > l[j - 1].max_pair
                  THEN [max_pair |-> tmp, s_idx |-> j - 1]
                  ELSE l[j - 1]]
    loop == CHOOSE l : l = Body(l)
<1>1. SelectPeerAfter(table, row) = loop[Len(row.index)].s_idx
  BY DEF SelectPeerAfter
<1> PICK n \in Nat : n = Len(row.index)
  BY DEF FileEntry
<1>2. NoLocals \in Locals /\ SecondPass(table, row) \in [Nat \X Locals -> Locals]
  BY ScoreType DEF SecondPass, NoLocals, Locals
<1>3. PICK g : g \in Runs(n, Locals, NoLocals, SecondPass(table, row))
  <2>1. PICK step : step = SecondPass(table, row)
    OBVIOUS
  <2>2. Runs(n, Locals, NoLocals, step) # {}
    BY <1>2, <2>1, LoopRuns
  <2> QED BY <2>1, <2>2
<1>4. \A i \in 1 .. n : i - 1 \in Positions(row) /\ i \in Nat
  BY DEF Positions, Slots
<1>5. g \in [0 .. n -> Locals] /\ g[0] = NoLocals
  BY <1>3 DEF Runs
<1>6. \A i \in 1 .. n : g[i] = SecondPass(table, row)[<<i, g[i - 1]>>]
  BY <1>3 DEF Runs
<1>7. ASSUME NEW i \in 1 .. n
      PROVE  g[i] = Passed(table, row, i - 1, g[i - 1])
  <2>1. g[i - 1] \in Locals /\ i \in Nat /\ i - 1 \in Positions(row)
    BY <1>4, <1>5
  <2> QED BY <1>6, <2>1 DEF SecondPass
<1>8. ASSUME NEW l, NEW j \in 0 .. n
      PROVE  Body(l)[j] = IF j = 0 THEN NoLocals ELSE Passed(table, row, j - 1, l[j - 1])
  BY DEF NoLocals, Passed, Score
<1>9. g = Body(g)
  <2>1. \A j \in 0 .. n : g[j] = Body(g)[j]
    <3> SUFFICES ASSUME NEW j \in 0 .. n PROVE g[j] = Body(g)[j]
      OBVIOUS
    <3>1. j = 0 \/ j \in 1 .. n
      OBVIOUS
    <3> HIDE DEF Body
    <3> QED BY <1>5, <1>7, <1>8, <3>1
  <2> QED
    BY <1>5, <2>1
<1>10. loop = Body(loop)
  <2> HIDE DEF Body
  <2> QED BY <1>9
<1>11. \A j \in 0 .. n : loop[j] = IF j = 0 THEN NoLocals
                                   ELSE Passed(table, row, j - 1, loop[j - 1])
  <2> HIDE DEF Body, loop
  <2> QED BY <1>8, <1>10
<1> HIDE DEF loop
<1>12. loop[0] = NoLocals
  <2>1. 0 \in 0 .. n
    OBVIOUS
  <2> QED BY <1>11, <2>1
<1>13. \A i \in 1 .. n : loop[i] = Passed(table, row, i - 1, loop[i - 1])
  <2> SUFFICES ASSUME NEW i \in 1 .. n
               PROVE  loop[i] = Passed(table, row, i - 1, loop[i - 1])
    OBVIOUS
  <2>1. i \in 0 .. n /\ i # 0
    OBVIOUS
  <2> QED BY <1>11, <2>1
<1> QED
  BY <1>1, <1>12, <1>13

\* It ends at the first position of largest free + request, provided that
\* this is positive, and at -1 otherwise.
LEMMA SecondLoopAgrees ==
  ASSUME NEW table \in ServerTable, NEW row \in FileEntry,
         Len(row.index) <= MAX_SERVERS
  PROVE  SelectPeerAfter(table, row) = SelectPeer(table, row)
<1> USE SizesAssumption
<1>1. PICK l : /\ SelectPeerAfter(table, row) = l[Len(row.index)].s_idx
               /\ l[0] = NoLocals
               /\ \A i \in 1 .. Len(row.index) :
                    l[i] = Passed(table, row, i - 1, l[i - 1])
  BY SecondLoop
<1> PICK n \in Nat : n = Len(row.index)
  BY DEF FileEntry
<1>2. Positions(row) = 0 .. n - 1
  BY DEF Positions, Slots
<1>3. PICK score : score = [k \in 0 .. n - 1 |-> Score(table, row, k)]
  OBVIOUS
<1>4. /\ \A k \in 0 .. n - 1 : score[k] \in Nat /\ score[k] = Score(table, row, k)
      /\ \A k \in Positions(row) : score[k] = Score(table, row, k)
  BY <1>2, <1>3, ScoreType
<1> DEFINE
  Best(i, q) ==
    /\ q \in Locals
    /\ q.s_idx = -1 => /\ q.max_pair = 0
                       /\ \A k \in 0 .. n - 1 : k < i => score[k] <= 0
    /\ q.s_idx # -1 =>
         /\ q.s_idx \in 0 .. n - 1 /\ q.s_idx < i
         /\ q.max_pair = score[q.s_idx] /\ q.max_pair > 0
         /\ \A k \in 0 .. n - 1 : k < i =>
              /\ score[k] <= q.max_pair
              /\ k < q.s_idx => score[k] < q.max_pair
  P == {i \in 0 .. n : Best(i, l[i])}
<1>5. 0 \in P
  BY <1>1 DEF NoLocals, Locals
<1>6. ASSUME NEW i \in 1 .. n, i - 1 \in P
      PROVE  i \in P
  <2>1. PICK q : q = l[i - 1]
    OBVIOUS
  <2>2. PICK w : w = l[i]
    OBVIOUS
  <2>3. Best(i - 1, q)
    BY <1>6, <2>1
  <2>4. i - 1 \in 0 .. n - 1
    OBVIOUS
  <2>5. w = Passed(table, row, i - 1, q)
    BY <1>1, <2>1, <2>2
  <2>6. Best(i, w)
    <3>1. CASE score[i - 1] > q.max_pair
      <4>1. w = [max_pair |-> score[i - 1], s_idx |-> i - 1]
        BY <1>4, <2>4, <2>5, <3>1 DEF Passed
      <4>2. w \in Locals /\ w.s_idx = i - 1 /\ w.max_pair = score[i - 1]
            /\ w.max_pair > 0
        BY <1>4, <2>3, <2>4, <3>1, <4>1 DEF Locals
      <4>3. ASSUME NEW k \in 0 .. n - 1, k < i
            PROVE  /\ score[k] <= w.max_pair
                   /\ k < w.s_idx => score[k] < w.max_pair
        <5>1. k < i - 1 => score[k] <= q.max_pair
          BY <2>3, <4>3
        <5>2. q.max_pair \in Nat /\ score[k] \in Nat /\ score[i - 1] \in Nat
          BY <1>4, <2>3, <2>4 DEF Locals
        <5>3. k < i - 1 \/ k = i - 1
          BY <4>3
        <5> QED BY <3>1, <4>2, <5>1, <5>2, <5>3
      <4> QED BY <2>4, <4>2, <4>3
    <3>2. CASE ~ (score[i - 1] > q.max_pair)
      <4>1. w = q
        BY <1>4, <2>4, <2>5, <3>2 DEF Passed
      <4>2. q.max_pair \in Nat /\ score[i - 1] \in Nat
            /\ score[i - 1] <= q.max_pair
        BY <1>4, <2>3, <2>4, <3>2 DEF Locals
      <4>3. \A k \in 0 .. n - 1 : k < i => k < i - 1 \/ k = i - 1
        OBVIOUS
      <4>4. CASE q.s_idx = -1
        BY <2>3, <4>1, <4>2, <4>3, <4>4
      <4>5. CASE q.s_idx # -1
        <5>1. q.s_idx < i /\ ~ (i - 1 < q.s_idx)
          BY <2>3, <4>5
        <5> QED BY <2>3, <4>1, <4>2, <4>3, <4>5, <5>1
      <4> QED BY <4>4, <4>5
    <3> QED BY <3>1, <3>2
  <2> QED BY <2>2, <2>6
<1>7. \A i \in 0 .. n : i \in P
  <2> HIDE DEF P
  <2> QED BY <1>5, <1>6, EveryPass
<1>8. PICK q : q = l[n]
  OBVIOUS
<1>9. Best(n, q)
  <2>1. n \in P
    BY <1>7
  <2> QED BY <1>8, <2>1
<1> DEFINE best == {j \in Positions(row) :
                      /\ Score(table, row, j) > 0
                      /\ \A k \in Positions(row) :
                           /\ Score(table, row, k) <= Score(table, row, j)
                           /\ k < j => Score(table, row, k) < Score(table, row, j)}
<1>10. SelectPeer(table, row) = IF best = {} THEN NoPeer ELSE CHOOSE j \in best : TRUE
  BY DEF SelectPeer
<1>11. CASE q.s_idx = -1
  <2>1. \A j \in Positions(row) : ~ (Score(table, row, j) > 0)
    BY <1>2, <1>4, <1>9, <1>11
  <2>2. best = {}
    BY <2>1
  <2> QED BY <1>1, <1>8, <1>10, <1>11, <2>2 DEF NoPeer
<1>12. CASE q.s_idx # -1
  <2>1. PICK m \in 0 .. n - 1 : m = q.s_idx
    BY <1>9, <1>12
  <2>2. /\ score[m] > 0
        /\ \A k \in 0 .. n - 1 : score[k] <= score[m] /\ (k < m => score[k] < score[m])
    BY <1>9, <1>12, <2>1
  <2>3. m \in best
    BY <1>2, <1>4, <2>2
  <2>4. ASSUME NEW j \in best
        PROVE  j = m
    <3>1. /\ j \in 0 .. n - 1
          /\ score[m] <= score[j] /\ (m < j => score[m] < score[j])
      BY <1>2, <1>4
    <3>2. score[j] <= score[m] /\ (j < m => score[j] < score[m])
      BY <2>2, <3>1
    <3> QED BY <1>4, <3>1, <3>2
  <2> HIDE DEF best
  <2>5. (CHOOSE j \in best : TRUE) = m
    BY <2>3, <2>4
  <2> QED BY <1>1, <1>8, <1>10, <2>1, <2>3, <2>5
<1> QED
  BY <1>11, <1>12

-----------------------------------------------------------------------------
(* The tables that opens and replications reach                            *)

\* The tables have their types, and no index[] is longer than the array.
TablesType ==
  /\ st \in ServerTable /\ ft \in FileTable
  /\ \A f \in Files : Len(ft[f].index) <= MAX_SERVERS

\* Every table that opens and replications reach is one.
THEOREM TablesTypeHolds == Spec => []TablesType
<1> USE SizesAssumption
<1>1. Init => TablesType
  <2> SUFFICES ASSUME Init PROVE TablesType
    OBVIOUS
  <2>1. st \in ServerTable
    BY DEF Init, ServerTable, ServerEntry, ZeroServer, NoFd
  <2>2. PICK s \in [Files -> Servers] :
          ft = [f \in Files |-> [request |-> 0, index |-> <<s[f]>>]]
    BY DEF Init
  <2>3. \A f \in Files : s[f] \in Nat
    BY <2>2 DEF Servers
  <2>4. \A x \in Nat : <<x>> \in Seq(Nat) /\ Len(<<x>>) = 1
    OBVIOUS
  <2>5. ft \in FileTable /\ \A f \in Files : Len(ft[f].index) <= MAX_SERVERS
    <3>1. \A f \in Files : ft[f] = [request |-> 0, index |-> <<s[f]>>]
      BY <2>2
    <3>2. ASSUME NEW f \in Files
          PROVE  ft[f] \in FileEntry /\ Len(ft[f].index) <= MAX_SERVERS
      <4>1. PICK q : q = <<s[f]>>
        OBVIOUS
      <4>2. q \in Seq(Nat) /\ Len(q) = 1 /\ ft[f] = [request |-> 0, index |-> q]
        BY <2>3, <2>4, <3>1, <4>1
      <4>3. PICK e : e = [request |-> 0, index |-> q]
        OBVIOUS
      <4>4. e \in FileEntry /\ e.index = q
        BY <4>2, <4>3 DEF FileEntry
      <4>5. e = ft[f]
        BY <4>2, <4>3
      <4>6. 1 <= MAX_SERVERS
        OBVIOUS
      <4>7. Len(e.index) <= MAX_SERVERS
        BY <4>2, <4>4, <4>6
      <4> QED BY <4>4, <4>5, <4>7
    <3> QED BY <2>2, <3>2 DEF FileTable
  <2> QED BY <2>1, <2>5 DEF TablesType
<1>2. TablesType /\ [Next]_<<st, ft>> => TablesType'
  <2> SUFFICES ASSUME TablesType, [Next]_<<st, ft>> PROVE TablesType'
    OBVIOUS
  <2> USE DEF TablesType
  <2>1. CASE UNCHANGED <<st, ft>>
    BY <2>1
  <2>2. ASSUME NEW s \in Servers, NEW f \in Files, Open(s, f)
        PROVE  TablesType'
    <3>1. \A i \in Slots : FreeAfterOpen(st, s)[i] \in ServerEntry
      <4>1. \A n \in 0 .. MAX_FREE : Bumped(n) \in 0 .. MAX_FREE /\ Less2(n) \in 0 .. MAX_FREE
        BY DEF Bumped, Less2
      <4> QED BY <4>1 DEF FreeAfterOpen, ServerTable, ServerEntry
    <3>2. st' \in ServerTable
      BY <2>2, <3>1 DEF Open, FreeAfterOpen, ServerTable
    <3>3. PICK e : e = ft[f]
      OBVIOUS
    <3>4. PICK r : r = [e EXCEPT !.request = @ + 1]
      OBVIOUS
    <3>5. e \in FileEntry
      BY <3>3 DEF FileTable
    <3>6. r \in FileEntry /\ r.index = e.index
      BY <3>4, <3>5 DEF FileEntry
    <3>7. ft' = [ft EXCEPT ![f] = r]
      BY <2>2, <3>3, <3>4 DEF Open, Popular, FileTable, FileEntry
    <3> QED BY <3>2, <3>3, <3>6, <3>7 DEF FileTable
  <2>3. ASSUME NEW to \in Servers, NEW f \in Files, Replicated(to, f)
        PROVE  TablesType'
    <3>1. PICK q \in Seq(Nat) : q = ft[f].index
      BY DEF FileTable, FileEntry
    <3>2. Append(q, to) \in Seq(Nat) /\ Len(Append(q, to)) = Len(q) + 1
      BY DEF Servers
    <3>3. PICK r : r = [ft[f] EXCEPT !.index = Append(q, to)]
      OBVIOUS
    <3>4. r \in FileEntry /\ r.index = Append(q, to)
      BY <3>2, <3>3 DEF FileTable, FileEntry
    <3>5. ft' = [ft EXCEPT ![f] = r] /\ st' = st
      BY <2>3, <3>1, <3>3 DEF Replicated, AddReplica, FileTable, FileEntry
    <3>6. Len(r.index) <= MAX_SERVERS
      BY <2>3, <3>1, <3>2, <3>4 DEF Replicated
    <3> QED BY <3>4, <3>5, <3>6 DEF FileTable
  <2> QED BY <2>1, <2>2, <2>3 DEF Next
<1> QED
  BY <1>1, <1>2, PTL DEF Spec

\* In every table that opens and replications reach, the loops of select_peer
\* find the first most free server, and the first position of largest
\* free + request or -1, as RfsTables says.
THEOREM LoopsAgreeHolds == Spec => []LoopsAgree
<1>1. TablesType => LoopsAgree
  <2> SUFFICES ASSUME TablesType PROVE LoopsAgree
    OBVIOUS
  <2>1. MaxFreeAfter(st) = MostFree(st)
    BY FirstLoopAgrees DEF TablesType
  <2>2. ASSUME NEW f \in Files
        PROVE  SelectPeerAfter(st, ft[f]) = SelectPeer(st, ft[f])
    <3>1. ft[f] \in FileEntry /\ Len(ft[f].index) <= MAX_SERVERS /\ st \in ServerTable
      BY DEF TablesType, FileTable
    <3> QED BY <3>1, SecondLoopAgrees
  <2> QED BY <2>1, <2>2 DEF LoopsAgree
<1> QED
  BY <1>1, TablesTypeHolds, PTL
=============================================================================
