---------------------------- MODULE DvHop_proofs ----------------------------
(* Proofs about DvHop for every network, lossy or not, with or without clock *)
(* interrupts between the stores of a message.                               *)
EXTENDS DvHop, FiniteSetTheorems, TLAPS

(* Whatever is in a table or on its way names motes that are landmarks: the  *)
(* part of the inductive invariant that keeps a mote, when a query makes it  *)
(* a landmark, from having a row for itself already.                         *)
OfLandmarks(t) == is_landmark[t.x] /\ is_landmark[t.y]
PlacesKnown ==
  /\ \A n \in Nodes : \A i \in 1..Len(lms[n]) : OfLandmarks(lms[n][i])
  /\ \A n \in Nodes : data[n] # Reply => OfLandmarks(data[n])

IInv == TypeOK /\ HopsSound /\ RowsDistinct /\ PlacesKnown

(* A triplet is not the empty sequence. *)
LEMMA TripletNotReply == Reply \notin Triplets
  BY DEF Reply, Triplets

LEMMA OwnFacts ==
  ASSUME NEW n \in Nodes
  PROVE  /\ Own(n) \in Triplets
         /\ Own(n).x = n /\ Own(n).y = n /\ Own(n).hops = 0
  BY DEF Own, Triplet, Triplets

(* The beginning: every landmark has its own row, no other mote has any. *)
LEMMA InitInv == Init => IInv
<1> SUFFICES ASSUME Init PROVE IInv
  OBVIOUS
<1> USE DvHopAssumption, DistAssumption, OwnFacts DEF Init
<1>1. \A n \in Nodes : \/ n \in Landmarks /\ lms[n] = <<Own(n)>>
                       \/ n \notin Landmarks /\ lms[n] = <<>>
  OBVIOUS
<1>2. TypeOK
  <2>1. lms \in [Nodes -> Seq(Triplets)]
    OBVIOUS
  <2>2. \A n \in Nodes : Len(lms[n]) <= NUM_LANDMARKS_TO_USE
    BY <1>1
  <2> QED
    BY <2>1, <2>2 DEF TypeOK
<1>3. \A n \in Nodes : \A i \in 1..Len(lms[n]) :
        n \in Landmarks /\ i = 1 /\ lms[n][i] = Own(n)
  BY <1>1
<1>4. \A n \in Nodes : data[n] = Reply
  OBVIOUS
<1>5. HopsSound
  <2>1. \A n \in Nodes : \A i \in 1..Len(lms[n]) : NotNearer(n, lms[n][i])
    BY <1>3 DEF NotNearer
  <2>2. \A n \in Nodes : is_landmark[n] => lms[n] # <<>> /\ lms[n][1] = Own(n)
    BY <1>1
  <2> QED
    BY <1>4, <2>1, <2>2 DEF HopsSound
<1>6. RowsDistinct
  BY <1>3 DEF RowsDistinct
<1>7. PlacesKnown
  <2>1. ASSUME NEW n \in Nodes, NEW i \in 1..Len(lms[n])
        PROVE  OfLandmarks(lms[n][i])
    <3>1. n \in Landmarks /\ lms[n][i].x = n /\ lms[n][i].y = n
      BY <1>3, <2>1
    <3>2. is_landmark[n]
      BY <3>1, Zenon
    <3> QED
      BY <3>1, <3>2 DEF OfLandmarks
  <2> QED
    BY <1>4, <2>1 DEF PlacesKnown
<1> QED
  BY <1>2, <1>5, <1>6, <1>7 DEF IInv

-----------------------------------------------------------------------------
(* What the parts of a step do to one table and one buffer. *)

(* The new row of a landmark goes first, the old first row last. *)
LEMMA ToFrontFacts ==
  ASSUME NEW s \in Seq(Triplets), NEW t \in Triplets
  PROVE  /\ ToFront(s, t) \in Seq(Triplets)
         /\ Len(ToFront(s, t)) = Len(s) + 1
         /\ ToFront(s, t)[1] = t
         /\ \A k \in 2..Len(s) : ToFront(s, t)[k] = s[k]
         /\ s # <<>> => ToFront(s, t)[Len(s) + 1] = s[1]
  BY DEF ToFront

(* What a message may say: the triplet itself, or a mixture with the beacon. *)
LEMMA WrittenFacts ==
  ASSUME IInv, NEW n \in Nodes, NEW t \in Triplets, OfLandmarks(t),
         NotNearer(n, t), NEW d \in Written(n, t)
  PROVE  d \in Triplets /\ OfLandmarks(d) /\ NotNearer(n, d)
<1> USE DvHopAssumption, DistAssumption
<1>1. CASE d = t
  BY <1>1
<1>2. CASE d # t
  <2>1. is_landmark[n] /\ lms[n] # <<>> /\ lms[n][1] = Own(n)
    BY <1>2 DEF Written, IInv, HopsSound
  <2>2. \/ d = [t EXCEPT !.x = n]
        \/ d = [Own(n) EXCEPT !.hops = t.hops]
        \/ d = Own(n)
    BY <1>2, <2>1, OwnFacts DEF Written
  <2>3. t.x \in Nodes /\ t.y \in Nodes /\ t.hops \in Nat
    BY DEF Triplets
  <2>4. CASE d = [t EXCEPT !.x = n]
    <3>1. d \in Triplets /\ d.x = n /\ d.y = t.y /\ d.hops = t.hops
      BY <2>3, <2>4 DEF Triplets
    <3> QED
      BY <2>1, <2>3, <3>1 DEF OfLandmarks, NotNearer
  <2>5. CASE d = [Own(n) EXCEPT !.hops = t.hops]
    <3>1. d \in Triplets /\ d.x = n /\ d.y = n /\ d.hops = t.hops
      BY <2>3, <2>5 DEF Triplets, Own, Triplet
    <3> QED
      BY <2>1, <2>3, <3>1 DEF OfLandmarks, NotNearer
  <2>6. CASE d = Own(n)
    BY <2>1, <2>6, OwnFacts DEF OfLandmarks, NotNearer
  <2> QED
    BY <2>2, <2>4, <2>5, <2>6
<1> QED
  BY <1>1, <1>2

(* One hop on, a triplet is still not too near. *)
LEMMA FartherFacts ==
  ASSUME IInv, NEW n \in Nodes, NEW m \in Nodes, <<n, m>> \in Links,
         data[m] # Reply
  PROVE  /\ Farther(data[m]) \in Triplets
         /\ OfLandmarks(Farther(data[m]))
         /\ NotNearer(n, Farther(data[m]))
<1>1. data[m] \in Triplets /\ OfLandmarks(data[m]) /\ NotNearer(m, data[m])
  BY DEF IInv, TypeOK, HopsSound, PlacesKnown
<1> DEFINE t == data[m]
<1>2. t.x \in Nodes /\ t.y \in Nodes /\ t.hops \in Nat
  BY <1>1 DEF Triplets
<1>3. /\ Farther(t) \in Triplets
      /\ Farther(t).x = t.x /\ Farther(t).y = t.y
      /\ Farther(t).hops = t.hops + 1
  BY <1>1 DEF Triplets, Farther
<1>4. /\ Dist[n][t.x] \in Nat /\ Dist[m][t.x] \in Nat
      /\ Dist[n][t.x] <= Dist[m][t.x] + 1
  BY <1>2, DistAssumption
<1> QED
  BY <1>1, <1>2, <1>3, <1>4 DEF OfLandmarks, NotNearer

(* What a handler does with a triplet t that n hears. *)
Appends(n, t) == /\ Len(lms[n]) < NUM_LANDMARKS_TO_USE /\ RowsOf(n, t) = {}
                 /\ lms' = [lms EXCEPT ![n] = Append(@, t)]
Improves(n, t, i) == /\ i \in RowsOf(n, t) /\ t.hops <= lms[n][i].hops
                     /\ lms' = [lms EXCEPT ![n][i].hops = t.hops]

LEMMA InputFacts ==
  ASSUME NEW n \in Nodes, NEW t \in Triplets, Input(n, t)
  PROVE  /\ \/ lms' = lms
            \/ Appends(n, t)
            \/ \E i \in RowsOf(n, t) : Improves(n, t, i)
         /\ UNCHANGED out \/ \E d \in Written(n, t) : Send(n, d)
<1>1. CASE RowsOf(n, t) = {}
  BY <1>1 DEF Input, Append_landmark, Appends
<1>2. CASE RowsOf(n, t) # {}
  <2>1. PICK i \in RowsOf(n, t) : Update(n, i, t)
    BY <1>2 DEF Input
  <2>2. CASE t.hops <= lms[n][i].hops
    BY <2>1, <2>2 DEF Update, Output, Improves
  <2>3. CASE ~(t.hops <= lms[n][i].hops)
    BY <2>1, <2>3 DEF Update, out
  <2> QED
    BY <2>2, <2>3
<1> QED
  BY <1>1, <1>2

(* The rows of a table after a triplet is appended, or made nearer. *)
LEMMA AppendedRows ==
  ASSUME TypeOK, NEW n \in Nodes, NEW t \in Triplets, Appends(n, t)
  PROVE  /\ lms' \in [Nodes -> Seq(Triplets)]
         /\ \A k \in Nodes \ {n} : lms'[k] = lms[k]
         /\ Len(lms'[n]) = Len(lms[n]) + 1
         /\ \A i \in 1..Len(lms[n]) : lms'[n][i] = lms[n][i]
         /\ lms'[n][Len(lms[n]) + 1] = t
<1>1. lms[n] \in Seq(Triplets) /\ lms \in [Nodes -> Seq(Triplets)]
  BY DEF TypeOK
<1>2. lms'[n] = Append(lms[n], t)
  BY <1>1 DEF Appends
<1>3. Append(lms[n], t) \in Seq(Triplets)
  BY <1>1
<1>4. lms' \in [Nodes -> Seq(Triplets)]
  BY <1>1, <1>3 DEF Appends
<1>5. \A k \in Nodes \ {n} : lms'[k] = lms[k]
  BY <1>1 DEF Appends
<1> QED
  BY <1>1, <1>2, <1>4, <1>5

LEMMA ImprovedRows ==
  ASSUME TypeOK, NEW n \in Nodes, NEW t \in Triplets, NEW j \in RowsOf(n, t),
         Improves(n, t, j)
  PROVE  /\ lms' \in [Nodes -> Seq(Triplets)]
         /\ \A k \in Nodes \ {n} : lms'[k] = lms[k]
         /\ j \in 1..Len(lms[n]) /\ Len(lms'[n]) = Len(lms[n])
         /\ \A i \in 1..Len(lms[n]) : i # j => lms'[n][i] = lms[n][i]
         /\ lms[n][j].x = t.x /\ lms[n][j].y = t.y /\ t.hops <= lms[n][j].hops
         /\ lms'[n][j] = t
<1>1. lms[n] \in Seq(Triplets) /\ lms \in [Nodes -> Seq(Triplets)]
  BY DEF TypeOK
<1>2. j \in 1..Len(lms[n]) /\ lms[n][j].x = t.x /\ lms[n][j].y = t.y
  BY DEF RowsOf
<1>3. lms[n][j] \in Triplets
  BY <1>1, <1>2
<1>4. [lms[n][j] EXCEPT !.hops = t.hops] = t
  BY <1>2, <1>3 DEF Triplets
<1>5. lms' = [lms EXCEPT ![n] = [lms[n] EXCEPT ![j] = t]]
  BY <1>1, <1>2, <1>4 DEF Improves
<1>6. /\ [lms[n] EXCEPT ![j] = t] \in Seq(Triplets)
      /\ Len([lms[n] EXCEPT ![j] = t]) = Len(lms[n])
      /\ [lms[n] EXCEPT ![j] = t][j] = t
      /\ \A i \in 1..Len(lms[n]) : i # j => [lms[n] EXCEPT ![j] = t][i] = lms[n][i]
  BY <1>1, <1>2
<1>7. lms'[n] = [lms[n] EXCEPT ![j] = t] /\ \A k \in Nodes \ {n} : lms'[k] = lms[k]
  BY <1>1, <1>5
<1>8. lms' \in [Nodes -> Seq(Triplets)]
  BY <1>1, <1>5, <1>6
<1> QED
  BY <1>2, <1>6, <1>7, <1>8 DEF Improves

-----------------------------------------------------------------------------
(* The inductive invariant, buffers and tables apart. *)
SoundData ==
  /\ pending \in [Nodes -> BOOLEAN]
  /\ data \in [Nodes -> Triplets \cup {Reply}]
  /\ \A n \in Nodes :
       data[n] # Reply => OfLandmarks(data[n]) /\ NotNearer(n, data[n])

SoundRow(n) ==
  /\ Len(lms[n]) <= NUM_LANDMARKS_TO_USE
  /\ \A i \in 1..Len(lms[n]) :
       OfLandmarks(lms[n][i]) /\ NotNearer(n, lms[n][i])
  /\ \A i, j \in 1..Len(lms[n]) :
       lms[n][i].x = lms[n][j].x /\ lms[n][i].y = lms[n][j].y => i = j
  /\ is_landmark[n] => lms[n] # <<>> /\ lms[n][1] = Own(n)

Flags == is_landmark \in [Nodes -> BOOLEAN] /\ heard \in [Nodes -> SUBSET Nodes]

LEMMA Parts ==
  IInv <=> /\ SoundData /\ Flags
           /\ lms \in [Nodes -> Seq(Triplets)]
           /\ \A n \in Nodes : SoundRow(n)
  BY DEF IInv, TypeOK, HopsSound, RowsDistinct, PlacesKnown, SoundData,
         SoundRow, Flags

LEMMA PartsNext ==
  /\ SoundData' /\ Flags'
  /\ (lms \in [Nodes -> Seq(Triplets)])'
  /\ (\A n \in Nodes : SoundRow(n))'
  => IInv'
  BY Parts, PTL

(* Landmarks stay landmarks. *)
Grows == \A n \in Nodes : is_landmark[n] => is_landmark'[n]

LEMMA SendKeeps ==
  ASSUME IInv, Grows, NEW n \in Nodes, NEW d \in Triplets \cup {Reply},
         d # Reply => OfLandmarks(d) /\ NotNearer(n, d), Send(n, d)
  PROVE  SoundData'
<1>1. SoundData
  BY Parts
<1>2. /\ data' \in [Nodes -> Triplets \cup {Reply}]
      /\ data'[n] = d /\ \A k \in Nodes \ {n} : data'[k] = data[k]
  BY <1>1 DEF SoundData, Send
<1>3. pending' \in [Nodes -> BOOLEAN]
  BY <1>1 DEF SoundData, Send
<1>4. ASSUME NEW k \in Nodes, data'[k] # Reply
      PROVE  /\ is_landmark'[data'[k].x] /\ is_landmark'[data'[k].y]
             /\ NotNearer(k, data'[k])
  <2>1. data'[k] \in Triplets /\ OfLandmarks(data'[k]) /\ NotNearer(k, data'[k])
    BY <1>1, <1>2, <1>4 DEF SoundData
  <2> QED
    BY <2>1 DEF Grows, OfLandmarks, Triplets
<1> QED
  BY <1>2, <1>3, <1>4 DEF SoundData, OfLandmarks, NotNearer

LEMMA SameDataKeeps ==
  ASSUME IInv, Grows, UNCHANGED out
  PROVE  SoundData'
<1>1. SoundData
  BY Parts
<1>2. \A k \in Nodes : data[k] # Reply => data[k].x \in Nodes /\ data[k].y \in Nodes
  BY <1>1 DEF SoundData, Triplets
<1> QED
  BY <1>1, <1>2 DEF SoundData, out, Grows, OfLandmarks, NotNearer

(* A table that a step leaves alone, in a mote it does not appoint. *)
LEMMA SameRowKeeps ==
  ASSUME IInv, Grows, NEW k \in Nodes, lms'[k] = lms[k],
         is_landmark'[k] = is_landmark[k]
  PROVE  SoundRow(k)'
<1>1. SoundRow(k) /\ lms[k] \in Seq(Triplets)
  BY Parts
<1>2. ASSUME NEW i \in 1..Len(lms[k])
      PROVE  lms[k][i].x \in Nodes /\ lms[k][i].y \in Nodes
  <2>1. lms[k][i] \in Triplets
    BY <1>1
  <2> QED
    BY <2>1 DEF Triplets
<1> QED
  BY <1>1, <1>2 DEF SoundRow, Grows, OfLandmarks, NotNearer

-----------------------------------------------------------------------------
(* Every action keeps the invariant. *)

LEMMA SendDoneKeeps ==
  ASSUME IInv, NEW n \in Nodes, SendDone(n) PROVE IInv'
<1>1. Grows /\ \A k \in Nodes : lms'[k] = lms[k] /\ is_landmark'[k] = is_landmark[k]
  BY DEF SendDone, Grows
<1>2. \A k \in Nodes : SoundRow(k)'
  BY <1>1, SameRowKeeps
<1>3. SoundData'
  <2>1. SoundData
    BY Parts
  <2>2. \A k \in Nodes : data'[k] # Reply => data'[k] = data[k]
    BY <2>1 DEF SendDone, SoundData
  <2> QED
    BY <2>1, <2>2 DEF SendDone, SoundData, OfLandmarks, NotNearer
<1>4. Flags' /\ lms' \in [Nodes -> Seq(Triplets)]
  BY Parts DEF Flags, SendDone
<1> QED
  BY <1>2, <1>3, <1>4, PartsNext

LEMMA BeaconKeeps ==
  ASSUME IInv, NEW n \in Nodes, Beacon(n) PROVE IInv'
<1>1. Grows /\ \A k \in Nodes : lms'[k] = lms[k] /\ is_landmark'[k] = is_landmark[k]
  BY DEF Beacon, Grows
<1>2. \A k \in Nodes : SoundRow(k)'
  BY <1>1, SameRowKeeps
<1>3. SoundData'
  <2>1. SoundRow(n) /\ is_landmark[n]
    BY Parts DEF Beacon
  <2>2. lms[n][1] = Own(n)
    BY <2>1 DEF SoundRow
  <2>3. OfLandmarks(Own(n)) /\ NotNearer(n, Own(n))
    BY <2>1, OwnFacts, DistAssumption DEF OfLandmarks, NotNearer
  <2> QED
    BY <1>1, <2>2, <2>3, OwnFacts, SendKeeps DEF Beacon
<1>4. Flags' /\ lms' \in [Nodes -> Seq(Triplets)]
  BY Parts DEF Flags, Beacon
<1> QED
  BY <1>2, <1>3, <1>4, PartsNext

LEMMA ReceiveKeeps ==
  ASSUME IInv, NEW n \in Nodes, NEW m \in Nodes, Receive(n, m) PROVE IInv'
<1> DEFINE t == Farther(data[m])
<1>1. t \in Triplets /\ OfLandmarks(t) /\ NotNearer(n, t) /\ Input(n, t)
  BY FartherFacts DEF Receive
<1> HIDE DEF t
<1>2. Grows /\ \A k \in Nodes : is_landmark'[k] = is_landmark[k]
  BY DEF Receive, Grows
<1>3. SoundData'
  <2>1. CASE UNCHANGED out
    BY <1>2, <2>1, SameDataKeeps
  <2>2. CASE \E d \in Written(n, t) : Send(n, d)
    BY <1>1, <1>2, <2>2, WrittenFacts, SendKeeps
  <2> QED
    BY <1>1, <2>1, <2>2, InputFacts
<1>4. /\ lms' \in [Nodes -> Seq(Triplets)]
      /\ \A k \in Nodes \ {n} : lms'[k] = lms[k]
      /\ SoundRow(n)'
  <2>0. TypeOK /\ SoundRow(n) /\ lms[n] \in Seq(Triplets)
    BY Parts DEF IInv
  <2>1. CASE lms' = lms
    BY <1>2, <2>1, Parts, SameRowKeeps
  <2>2. CASE Appends(n, t)
    <3>1. /\ lms' \in [Nodes -> Seq(Triplets)]
          /\ \A k \in Nodes \ {n} : lms'[k] = lms[k]
          /\ Len(lms'[n]) = Len(lms[n]) + 1
          /\ \A i \in 1..Len(lms[n]) : lms'[n][i] = lms[n][i]
          /\ lms'[n][Len(lms[n]) + 1] = t
      BY <1>1, <2>0, <2>2, AppendedRows
    <3>2. Len(lms'[n]) <= NUM_LANDMARKS_TO_USE
      BY <2>0, <2>2, <3>1, DvHopAssumption DEF Appends
    <3>3. \A i \in 1..Len(lms'[n]) :
            OfLandmarks(lms'[n][i]) /\ NotNearer(n, lms'[n][i])
      <4>1. \A i \in 1..Len(lms[n]) :
              OfLandmarks(lms[n][i]) /\ NotNearer(n, lms[n][i])
        BY <2>0 DEF SoundRow
      <4>2. \A i \in 1..Len(lms'[n]) :
              i \in 1..Len(lms[n]) \/ i = Len(lms[n]) + 1
        BY <2>0, <3>1
      <4> SUFFICES ASSUME NEW i \in 1..Len(lms'[n])
                   PROVE  OfLandmarks(lms'[n][i]) /\ NotNearer(n, lms'[n][i])
        OBVIOUS
      <4>3. CASE i \in 1..Len(lms[n])
        BY <3>1, <4>1, <4>3
      <4>4. CASE i = Len(lms[n]) + 1
        BY <1>1, <3>1, <4>4
      <4> QED BY <4>2, <4>3, <4>4
    <3>4. \A i \in 1..Len(lms[n]) : ~(lms[n][i].x = t.x /\ lms[n][i].y = t.y)
      BY <2>2 DEF Appends, RowsOf
    <3>5. \A i, j \in 1..Len(lms'[n]) :
            lms'[n][i].x = lms'[n][j].x /\ lms'[n][i].y = lms'[n][j].y => i = j
      <4>1. TAKE i, j \in 1..Len(lms'[n])
      <4>2. HAVE lms'[n][i].x = lms'[n][j].x /\ lms'[n][i].y = lms'[n][j].y
      <4>3. CASE i <= Len(lms[n]) /\ j <= Len(lms[n])
        <5>1. /\ lms'[n][i] = lms[n][i] /\ i \in 1..Len(lms[n])
              /\ lms'[n][j] = lms[n][j] /\ j \in 1..Len(lms[n])
          BY <2>0, <3>1, <4>3
        <5> QED
          BY <2>0, <4>2, <5>1 DEF SoundRow
      <4>4. CASE i <= Len(lms[n]) /\ j = Len(lms[n]) + 1
        <5>1. lms'[n][i] = lms[n][i] /\ lms'[n][j] = t /\ i \in 1..Len(lms[n])
          BY <2>0, <3>1, <4>4
        <5> QED
          BY <3>4, <4>2, <5>1
      <4>5. CASE i = Len(lms[n]) + 1 /\ j <= Len(lms[n])
        <5>1. lms'[n][j] = lms[n][j] /\ lms'[n][i] = t /\ j \in 1..Len(lms[n])
          BY <2>0, <3>1, <4>5
        <5> QED
          BY <3>4, <4>2, <5>1
      <4> QED
        BY <2>0, <3>1, <4>3, <4>4, <4>5
    <3>6. is_landmark[n] => lms'[n] # <<>> /\ lms'[n][1] = Own(n)
      BY <2>0, <3>1 DEF SoundRow
    <3> QED
      BY <1>2, <3>1, <3>2, <3>3, <3>5, <3>6 DEF SoundRow, OfLandmarks, NotNearer,
         Receive
  <2>3. CASE \E i \in RowsOf(n, t) : Improves(n, t, i)
    <3>1. PICK j \in RowsOf(n, t) : Improves(n, t, j)
      BY <2>3
    <3>2. /\ lms' \in [Nodes -> Seq(Triplets)]
          /\ \A k \in Nodes \ {n} : lms'[k] = lms[k]
          /\ j \in 1..Len(lms[n]) /\ Len(lms'[n]) = Len(lms[n])
          /\ \A i \in 1..Len(lms[n]) : i # j => lms'[n][i] = lms[n][i]
          /\ lms[n][j].x = t.x /\ lms[n][j].y = t.y /\ t.hops <= lms[n][j].hops
          /\ lms'[n][j] = t
      BY <1>1, <2>0, <3>1, ImprovedRows
    <3>3. \A i \in 1..Len(lms'[n]) :
            OfLandmarks(lms'[n][i]) /\ NotNearer(n, lms'[n][i])
      BY <1>1, <2>0, <3>2 DEF SoundRow
    <3>4. \A i \in 1..Len(lms'[n]) :
            lms'[n][i].x = lms[n][i].x /\ lms'[n][i].y = lms[n][i].y
      BY <3>2
    <3>5. \A i, k \in 1..Len(lms'[n]) :
            lms'[n][i].x = lms'[n][k].x /\ lms'[n][i].y = lms'[n][k].y => i = k
      BY <2>0, <3>2, <3>4 DEF SoundRow
    <3>6. is_landmark[n] => lms'[n] # <<>> /\ lms'[n][1] = Own(n)
      <4>1. SUFFICES ASSUME is_landmark[n]
                     PROVE  lms'[n] # <<>> /\ lms'[n][1] = Own(n)
        OBVIOUS
      <4>2. lms[n] # <<>> /\ lms[n][1] = Own(n)
        BY <2>0, <4>1 DEF SoundRow
      <4>3. CASE j # 1
        BY <2>0, <3>2, <4>2, <4>3
      <4>4. CASE j = 1
        <5>1. t.x = n /\ t.y = n /\ t.hops <= 0 /\ t.hops \in Nat
          BY <1>1, <3>2, <4>2, <4>4, OwnFacts DEF Triplets
        <5>2. t = Own(n)
          BY <1>1, <5>1 DEF Triplets, Own, Triplet
        <5> QED
          BY <2>0, <3>2, <4>2, <4>4, <5>2
      <4> QED
        BY <4>3, <4>4
    <3> QED
      BY <1>2, <2>0, <3>2, <3>3, <3>5, <3>6 DEF SoundRow, OfLandmarks, NotNearer,
         Receive
  <2> QED
    BY <1>1, <2>1, <2>2, <2>3, InputFacts
<1>5. \A k \in Nodes : SoundRow(k)'
  BY <1>2, <1>4, SameRowKeeps
<1>6. Flags'
  BY Parts DEF Flags, Receive
<1> QED
  BY <1>3, <1>4, <1>5, <1>6, PartsNext

(* A mote that a query makes a landmark gets the first row; no row named it. *)
LEMMA SetLmKeeps ==
  ASSUME IInv, NEW n \in Nodes, SetLm(n) PROVE IInv'
<1> DEFINE s == lms[n]
           t == Own(n)
<1>1. /\ SoundRow(n) /\ SoundData /\ Flags /\ lms \in [Nodes -> Seq(Triplets)]
      /\ s \in Seq(Triplets) /\ t \in Triplets
  BY Parts, OwnFacts
<1>2. /\ Grows /\ is_landmark'[n] /\ Flags'
      /\ \A k \in Nodes \ {n} : is_landmark'[k] = is_landmark[k]
  <2>1. /\ is_landmark' \in [Nodes -> BOOLEAN]
        /\ is_landmark'[n]
        /\ \A k \in Nodes \ {n} : is_landmark'[k] = is_landmark[k]
    BY <1>1 DEF SetLm, Flags
  <2>2. Grows
    BY <2>1 DEF Grows
  <2> QED
    BY <1>1, <2>1, <2>2 DEF SetLm, Flags
<1>3. /\ lms'[n] = ToFront(s, t)
      /\ \A k \in Nodes \ {n} : lms'[k] = lms[k]
      /\ lms' \in [Nodes -> Seq(Triplets)]
  <2>1. ToFront(s, t) \in Seq(Triplets)
    BY <1>1, ToFrontFacts
  <2> QED
    BY <1>1, <2>1 DEF SetLm
<1>4. SoundData'
  <2>1. CASE UNCHANGED out
    BY <1>2, <2>1, SameDataKeeps
  <2>2. CASE Send(n, Reply)
    BY <1>2, <2>2, SendKeeps
  <2> QED
    BY <2>1, <2>2 DEF SetLm
<1>5. SoundRow(n)'
  <2>1. /\ Len(lms'[n]) = Len(s) + 1 /\ lms'[n][1] = t
        /\ \A k \in 2..Len(s) : lms'[n][k] = s[k]
        /\ s # <<>> => lms'[n][Len(s) + 1] = s[1]
    <3>1. /\ Len(ToFront(s, t)) = Len(s) + 1
          /\ ToFront(s, t)[1] = t
          /\ \A k \in 2..Len(s) : ToFront(s, t)[k] = s[k]
          /\ s # <<>> => ToFront(s, t)[Len(s) + 1] = s[1]
      <4> HIDE DEF s, t
      <4> QED
        BY <1>1, ToFrontFacts
    <3> QED
      BY <1>3, <3>1
  <2> DEFINE Old(k) == IF k = Len(s) + 1 THEN 1 ELSE k
  <2>2. \A k \in 2..Len(s) + 1 :
          Old(k) \in 1..Len(s) /\ lms'[n][k] = s[Old(k)]
    BY <1>1, <2>1
  <2>3. ASSUME NEW i \in 1..Len(s)
        PROVE  /\ s[i].x \in Nodes /\ s[i].y \in Nodes /\ s[i].x # n
               /\ OfLandmarks(s[i]) /\ NotNearer(n, s[i])
    <3>1. s[i] \in Triplets /\ OfLandmarks(s[i]) /\ NotNearer(n, s[i])
      BY <1>1 DEF SoundRow
    <3>2. ~is_landmark[n]
      BY DEF SetLm
    <3> QED
      BY <3>1, <3>2 DEF OfLandmarks, Triplets
  <2>4. ASSUME NEW i \in 1..Len(lms'[n])
        PROVE  /\ is_landmark'[lms'[n][i].x] /\ is_landmark'[lms'[n][i].y]
               /\ NotNearer(n, lms'[n][i])
    <3>1. CASE i = 1
      BY <1>2, <2>1, <3>1, OwnFacts, DistAssumption DEF NotNearer
    <3>2. CASE i # 1
      <4>1. i \in 2..Len(s) + 1
        BY <1>1, <2>1, <3>2
      <4> HIDE DEF Old, s
      <4>2. Old(i) \in 1..Len(s) /\ lms'[n][i] = s[Old(i)]
        BY <2>2, <4>1
      <4> QED
        BY <1>2, <2>3, <4>2 DEF Grows, OfLandmarks
    <3> QED
      BY <3>1, <3>2
  <2>5. ASSUME NEW i \in 1..Len(lms'[n]), NEW j \in 1..Len(lms'[n]),
               lms'[n][i].x = lms'[n][j].x, lms'[n][i].y = lms'[n][j].y
        PROVE  i = j
    <3>1. \A k \in 1..Len(lms'[n]) : k = 1 \/ k \in 2..Len(s) + 1
      BY <1>1, <2>1
    <3>2. lms'[n][1].x = n
      BY <2>1, OwnFacts
    <3>3. \A k \in 2..Len(s) + 1 : lms'[n][k].x # n
      <4> HIDE DEF Old, s
      <4> QED
        BY <2>2, <2>3
    <3>4. CASE i = 1 \/ j = 1
      BY <2>5, <3>1, <3>2, <3>3, <3>4
    <3>5. CASE i # 1 /\ j # 1
      <4>1. i \in 2..Len(s) + 1 /\ j \in 2..Len(s) + 1
        BY <3>1, <3>5
      <4>2. /\ Old(i) \in 1..Len(s) /\ lms'[n][i] = s[Old(i)]
            /\ Old(j) \in 1..Len(s) /\ lms'[n][j] = s[Old(j)]
        <5> HIDE DEF Old, s
        <5> QED
          BY <2>2, <4>1
      <4>3. Old(i) = Old(j)
        <5>1. \A a, b \in 1..Len(s) : s[a].x = s[b].x /\ s[a].y = s[b].y => a = b
          BY <1>1 DEF SoundRow
        <5> HIDE DEF Old, s
        <5> QED
          BY <2>5, <4>2, <5>1
      <4> QED
        BY <1>1, <4>1, <4>3
    <3> QED
      BY <3>4, <3>5
  <2>6. Len(lms'[n]) <= NUM_LANDMARKS_TO_USE /\ lms'[n] # <<>>
    BY <1>1, <1>3, <2>1, DvHopAssumption DEF SetLm
  <2> QED
    BY <2>1, <2>4, <2>5, <2>6 DEF SoundRow, OfLandmarks, NotNearer
<1>6. \A k \in Nodes : SoundRow(k)'
  BY <1>2, <1>3, <1>5, SameRowKeeps
<1> QED
  BY <1>2, <1>3, <1>4, <1>6, PartsNext

LEMMA Step == IInv /\ [Next]_vars => IInv'
<1> SUFFICES ASSUME IInv, [Next]_vars PROVE IInv'
  OBVIOUS
<1>1. CASE UNCHANGED vars
  <2>1. /\ Grows /\ UNCHANGED out
        /\ \A k \in Nodes : lms'[k] = lms[k] /\ is_landmark'[k] = is_landmark[k]
    BY <1>1 DEF vars, out, Grows
  <2>2. Flags' /\ lms' \in [Nodes -> Seq(Triplets)]
    BY <1>1, Parts DEF vars, Flags
  <2> QED
    BY <2>1, <2>2, SameDataKeeps, SameRowKeeps, PartsNext
<1>2. ASSUME NEW n \in Nodes, Beacon(n) PROVE IInv'
  BY <1>2, BeaconKeeps
<1>3. ASSUME NEW n \in Nodes, SendDone(n) PROVE IInv'
  BY <1>3, SendDoneKeeps
<1>4. ASSUME NEW n \in Nodes, SetLm(n) PROVE IInv'
  BY <1>4, SetLmKeeps
<1>5. ASSUME NEW n \in Nodes, NEW m \in Nodes, Receive(n, m) PROVE IInv'
  BY <1>5, ReceiveKeeps
<1> QED
  BY <1>1, <1>2, <1>3, <1>4, <1>5 DEF Next

LEMMA Invariant == Spec => []IInv
  BY InitInv, Step, PTL DEF Spec

(* lms[] keeps to NUM_LANDMARKS_TO_USE rows, and every variable has its type *)
(* whatever is lost, torn or answered.                                       *)
THEOREM TypeCorrect == Spec => []TypeOK
<1>1. IInv => TypeOK
  BY DEF IInv
<1> QED
  BY <1>1, Invariant, PTL

(* In every network, no mote ever believes a landmark nearer than it is, and *)
(* a landmark always broadcasts its own place at no hops (row 0).            *)
THEOREM HopsSoundHolds == Spec => []HopsSound
<1>1. IInv => HopsSound
  BY DEF IInv
<1> QED
  BY <1>1, Invariant, PTL

(* No landmark ever has two rows of the same place in a mote's table.        *)
THEOREM RowsDistinctHolds == Spec => []RowsDistinct
<1>1. IInv => RowsDistinct
  BY DEF IInv
<1> QED
  BY <1>1, Invariant, PTL

-----------------------------------------------------------------------------
(* What a mote knows it keeps, no farther away: the action property.         *)
LEMMA StepKeeps ==
  ASSUME IInv, [Next]_vars, NEW k \in Nodes PROVE Keeps(k)
<1>1. TypeOK /\ lms[k] \in Seq(Triplets) /\ lms \in [Nodes -> Seq(Triplets)]
  BY DEF IInv, TypeOK
<1>2. \A i \in 1..Len(lms[k]) : lms[k][i] \in Triplets /\ lms[k][i].hops \in Nat
  <2>1. \A i \in 1..Len(lms[k]) : lms[k][i] \in Triplets
    BY <1>1
  <2> QED
    BY <2>1 DEF Triplets
<1>3. ASSUME lms'[k] = lms[k] PROVE Keeps(k)
  BY <1>1, <1>2, <1>3 DEF Keeps
<1>4. ASSUME NEW n \in Nodes, NEW m \in Nodes, Receive(n, m) PROVE Keeps(k)
  <2> DEFINE t == Farther(data[m])
  <2>1. t \in Triplets /\ Input(n, t)
    BY <1>4, FartherFacts DEF Receive
  <2> HIDE DEF t
  <2>2. CASE lms' = lms
    BY <1>3, <2>2
  <2>3. CASE Appends(n, t)
    <3>1. k # n => lms'[k] = lms[k]
      BY <1>1, <2>1, <2>3, AppendedRows
    <3>2. /\ Len(lms'[n]) = Len(lms[n]) + 1
          /\ \A i \in 1..Len(lms[n]) : lms'[n][i] = lms[n][i]
      BY <1>1, <2>1, <2>3, AppendedRows
    <3>3. CASE k = n
      BY <1>1, <1>2, <3>2, <3>3 DEF Keeps
    <3> QED
      BY <1>3, <3>1, <3>3
  <2>4. CASE \E j \in RowsOf(n, t) : Improves(n, t, j)
    <3>1. PICK j \in RowsOf(n, t) : Improves(n, t, j)
      BY <2>4
    <3>2. /\ k # n => lms'[k] = lms[k]
          /\ Len(lms'[n]) = Len(lms[n])
          /\ \A i \in 1..Len(lms[n]) : i # j => lms'[n][i] = lms[n][i]
          /\ lms[n][j].x = t.x /\ lms[n][j].y = t.y /\ t.hops <= lms[n][j].hops
          /\ lms'[n][j] = t
      BY <1>1, <2>1, <3>1, ImprovedRows
    <3>3. CASE k = n
      <4>1. ASSUME NEW i \in 1..Len(lms[k])
            PROVE  /\ i \in 1..Len(lms'[k]) /\ lms'[k][i].x = lms[k][i].x
                   /\ lms'[k][i].y = lms[k][i].y
                   /\ lms'[k][i].hops <= lms[k][i].hops
        BY <1>2, <3>2, <3>3
      <4> QED
        BY <4>1 DEF Keeps
    <3> QED
      BY <1>3, <3>2, <3>3
  <2> QED
    BY <2>1, <2>2, <2>3, <2>4, InputFacts
<1>5. ASSUME NEW n \in Nodes, SetLm(n) PROVE Keeps(k)
  <2>1. k # n => lms'[k] = lms[k]
    BY <1>1, <1>5 DEF SetLm
  <2>2. CASE k = n
    <3>1. lms'[k] = ToFront(lms[k], Own(k))
      BY <1>1, <1>5, <2>2 DEF SetLm
    <3>2. /\ Len(lms'[k]) = Len(lms[k]) + 1
          /\ \A i \in 2..Len(lms[k]) : lms'[k][i] = lms[k][i]
          /\ lms[k] # <<>> => lms'[k][Len(lms[k]) + 1] = lms[k][1]
      BY <1>1, <3>1, OwnFacts, ToFrontFacts
    <3>3. ASSUME NEW i \in 1..Len(lms[k])
          PROVE  \E j \in 1..Len(lms'[k]) : lms'[k][j] = lms[k][i]
      <4>1. CASE i = 1
        BY <1>1, <3>2, <4>1
      <4>2. CASE i # 1
        BY <1>1, <3>2, <4>2
      <4> QED
        BY <4>1, <4>2
    <3>4. ASSUME NEW i \in 1..Len(lms[k])
          PROVE  \E j \in 1..Len(lms'[k]) : /\ lms'[k][j].x = lms[k][i].x
                                            /\ lms'[k][j].y = lms[k][i].y
                                            /\ lms'[k][j].hops <= lms[k][i].hops
      <4>1. PICK j \in 1..Len(lms'[k]) : lms'[k][j] = lms[k][i]
        BY <3>3
      <4>2. lms[k][i].hops \in Nat
        BY <1>2
      <4>3. lms[k][i].hops <= lms[k][i].hops
        BY <4>2
      <4> WITNESS j \in 1..Len(lms'[k])
      <4> QED
        BY <4>1, <4>3
    <3> QED
      BY <3>4 DEF Keeps
  <2> QED
    BY <1>3, <2>1, <2>2
<1>6. ASSUME NEW n \in Nodes, Beacon(n) \/ SendDone(n) PROVE Keeps(k)
  BY <1>3, <1>6 DEF Beacon, SendDone
<1>7. CASE UNCHANGED vars
  BY <1>3, <1>7 DEF vars
<1> QED
  BY <1>4, <1>5, <1>6, <1>7 DEF Next

(* What a mote knows it keeps, no farther away, also when a query makes it a *)
(* landmark and its rows move.                                               *)
THEOREM NeverWorseHolds == Spec => NeverWorse
<1>1. IInv /\ [Next]_vars => [\A n \in Nodes : Keeps(n)]_vars
  BY StepKeeps
<1> QED
  BY <1>1, Invariant, PTL DEF Spec, NeverWorse

-----------------------------------------------------------------------------
(* Nothing travels in a circle.  A triplet with h hops went through a mote   *)
(* that knew its place at 0 hops, one at 1, ..., one at h, all different:    *)
(* each of these passed it on because it knew no nearer way.                 *)

(* The motes that know the place of t at i hops or nearer. *)
Near(rows, t, i) ==
  {n \in Nodes : \E j \in 1..Len(rows[n]) :
                   rows[n][j].x = t.x /\ rows[n][j].y = t.y /\ rows[n][j].hops <= i}

Laddered(rows, t) == \A i \in 0..t.hops : i + 1 <= Cardinality(Near(rows, t, i))

Ladders == /\ \A n \in Nodes : \A i \in 1..Len(lms[n]) : Laddered(lms, lms[n][i])
           /\ \A n \in Nodes : data[n] # Reply => Laddered(lms, data[n])

LEMMA NearCounts ==
  ASSUME IsFiniteSet(Nodes), NEW rows, NEW t, NEW i
  PROVE  /\ IsFiniteSet(Near(rows, t, i))
         /\ Cardinality(Near(rows, t, i)) \in Nat /\ Cardinality(Nodes) \in Nat
         /\ Cardinality(Near(rows, t, i)) <= Cardinality(Nodes)
<1>1. Near(rows, t, i) \in SUBSET Nodes
  BY DEF Near
<1> QED
  BY <1>1, FS_Subset, FS_CardinalityType

(* By NeverWorse, who is near stays near. *)
LEMMA LaddersStand ==
  ASSUME IsFiniteSet(Nodes), IInv, [Next]_vars,
         NEW t, t.hops \in Nat, Laddered(lms, t)
  PROVE  Laddered(lms', t)
<1> SUFFICES ASSUME NEW i \in 0..t.hops
             PROVE  i + 1 <= Cardinality(Near(lms', t, i))
  BY DEF Laddered
<1>1. Near(lms, t, i) \in SUBSET Near(lms', t, i)
  <2> SUFFICES ASSUME NEW n \in Near(lms, t, i) PROVE n \in Near(lms', t, i)
    OBVIOUS
  <2>1. n \in Nodes
    BY DEF Near
  <2>2. PICK j \in 1..Len(lms[n]) :
               lms[n][j].x = t.x /\ lms[n][j].y = t.y /\ lms[n][j].hops <= i
    BY DEF Near
  <2>3. PICK k \in 1..Len(lms'[n]) :
               lms'[n][k].x = lms[n][j].x /\ lms'[n][k].y = lms[n][j].y
                 /\ lms'[n][k].hops <= lms[n][j].hops
    BY <2>1, StepKeeps DEF Keeps
  <2>4. lms[n][j].hops \in Nat /\ lms'[n][k].hops \in Nat
    <3>1. lms[n] \in Seq(Triplets) /\ lms'[n] \in Seq(Triplets)
      BY <2>1, Step DEF IInv, TypeOK
    <3>2. lms[n][j] \in Triplets /\ lms'[n][k] \in Triplets
      BY <3>1
    <3> QED
      BY <3>2 DEF Triplets
  <2>5. lms'[n][k].hops <= i
    BY <2>2, <2>3, <2>4
  <2> QED
    BY <2>1, <2>2, <2>3, <2>5 DEF Near
<1>2. Cardinality(Near(lms, t, i)) <= Cardinality(Near(lms', t, i))
  BY <1>1, NearCounts, FS_Subset
<1>3. i + 1 <= Cardinality(Near(lms, t, i))
  BY DEF Laddered
<1>4. Cardinality(Near(lms, t, i)) \in Nat /\ Cardinality(Near(lms', t, i)) \in Nat
  BY NearCounts
<1> QED
  BY <1>2, <1>3, <1>4

(* One hop more: a mote that was not near yet has got the triplet. *)
LEMMA Rung ==
  ASSUME IsFiniteSet(Nodes), IInv, [Next]_vars, NEW n \in Nodes, NEW m \in Nodes,
         data[m] # Reply, Laddered(lms, data[m]),
         n \notin Near(lms, data[m], data[m].hops),
         \E j \in 1..Len(lms'[n]) : lms'[n][j] = Farther(data[m])
  PROVE  Laddered(lms', Farther(data[m]))
<1> DEFINE h == data[m].hops
           t == Farther(data[m])
<1>1. /\ data[m] \in Triplets /\ h \in Nat
      /\ t.x = data[m].x /\ t.y = data[m].y /\ t.hops = h + 1
  <2>1. data[m] \in Triplets
    BY DEF IInv, TypeOK
  <2> QED
    BY <2>1 DEF Triplets, Farther
<1>2. PICK d : d = data[m]
  OBVIOUS
<1>3. Laddered(lms', d)
  BY <1>1, <1>2, LaddersStand
<1>4. \A i : Near(lms', t, i) = Near(lms', d, i)
  BY <1>1, <1>2 DEF Near
<1>5. \A i \in 0..h : i + 1 <= Cardinality(Near(lms', t, i))
  BY <1>2, <1>3, <1>4 DEF Laddered
<1>6. h + 2 <= Cardinality(Near(lms', t, h + 1))
  <2>1. n \in Near(lms', t, h + 1)
    BY <1>1 DEF Near
  <2>2. \A k \in Nodes \ {n} : k \in Near(lms, d, h) => k \in Near(lms', t, h + 1)
    <3> SUFFICES ASSUME NEW k \in Nodes, k \in Near(lms, d, h)
                 PROVE  k \in Near(lms', t, h + 1)
      OBVIOUS
    <3>1. PICK j \in 1..Len(lms[k]) :
                 lms[k][j].x = d.x /\ lms[k][j].y = d.y /\ lms[k][j].hops <= h
      BY DEF Near
    <3>2. PICK i \in 1..Len(lms'[k]) :
                 lms'[k][i].x = lms[k][j].x /\ lms'[k][i].y = lms[k][j].y
                   /\ lms'[k][i].hops <= lms[k][j].hops
      BY StepKeeps DEF Keeps
    <3>3. lms[k][j].hops \in Nat /\ lms'[k][i].hops \in Nat
      <4>1. lms[k] \in Seq(Triplets) /\ lms'[k] \in Seq(Triplets)
        BY Step DEF IInv, TypeOK
      <4>2. lms[k][j] \in Triplets /\ lms'[k][i] \in Triplets
        BY <4>1
      <4> QED
        BY <4>2 DEF Triplets
    <3>4. lms'[k][i].hops <= h + 1 /\ lms'[k][i].x = t.x /\ lms'[k][i].y = t.y
      BY <1>1, <1>2, <3>1, <3>2, <3>3
    <3> QED
      BY <3>4 DEF Near
  <2>3. Near(lms, d, h) \cup {n} \in SUBSET Near(lms', t, h + 1)
    BY <2>1, <2>2 DEF Near
  <2>4. n \notin Near(lms, d, h) /\ h + 1 <= Cardinality(Near(lms, d, h))
    BY <1>1, <1>2 DEF Laddered
  <2>5. Cardinality(Near(lms, d, h) \cup {n}) = Cardinality(Near(lms, d, h)) + 1
    BY <2>4, NearCounts, FS_AddElement
  <2>6. Cardinality(Near(lms, d, h) \cup {n}) <= Cardinality(Near(lms', t, h + 1))
    BY <2>3, NearCounts, FS_Subset
  <2>7. Cardinality(Near(lms, d, h)) \in Nat /\ Cardinality(Near(lms', t, h + 1)) \in Nat
    BY NearCounts
  <2> QED
    BY <1>1, <2>4, <2>5, <2>6, <2>7
<1>7. \A i \in 0..t.hops : i \in 0..h \/ i = h + 1
  BY <1>1
<1> QED
  BY <1>1, <1>5, <1>6, <1>7 DEF Laddered

(* What an action leaves in tables and buffers, without clock interrupts. *)
LEMMA RowsComeFrom ==
  ASSUME IInv, [Next]_vars, NEW n \in Nodes, NEW j \in 1..Len(lms'[n])
  PROVE  \/ \E i \in 1..Len(lms[n]) : lms'[n][j] = lms[n][i]
         \/ lms'[n][j] = Own(n)
         \/ \E m \in Nodes : /\ data[m] # Reply /\ lms'[n][j] = Farther(data[m])
                             /\ n \notin Near(lms, data[m], data[m].hops)
<1> USE DEF Near
<1>1. TypeOK /\ lms \in [Nodes -> Seq(Triplets)] /\ lms[n] \in Seq(Triplets)
  BY DEF IInv, TypeOK
<1>2. lms'[n] = lms[n] => \E i \in 1..Len(lms[n]) : lms'[n][j] = lms[n][i]
  OBVIOUS
<1>3. ASSUME NEW k \in Nodes, NEW m \in Nodes, Receive(k, m), lms'[n] # lms[n]
      PROVE  \/ \E i \in 1..Len(lms[n]) : lms'[n][j] = lms[n][i]
             \/ /\ data[m] # Reply /\ lms'[n][j] = Farther(data[m])
                /\ n \notin Near(lms, data[m], data[m].hops)
  <2> PICK t : t = Farther(data[m])
    OBVIOUS
  <2>1. data[m] # Reply /\ t \in Triplets /\ Input(k, t)
    BY <1>3, FartherFacts DEF Receive
  <2>2. t.x = data[m].x /\ t.y = data[m].y /\ t.hops = data[m].hops + 1
        /\ data[m].hops \in Nat
    <3>1. data[m] \in Triplets
      BY <2>1 DEF IInv, TypeOK
    <3> QED
      BY <3>1 DEF Triplets, Farther
  <2>3. CASE Appends(k, t)
    <3>1. k = n /\ Len(lms'[n]) = Len(lms[n]) + 1 /\ lms'[n][Len(lms[n]) + 1] = t
          /\ \A i \in 1..Len(lms[n]) : lms'[n][i] = lms[n][i]
      BY <1>1, <1>3, <2>1, <2>3, AppendedRows
    <3>2. \A i \in 1..Len(lms[n]) : ~(lms[n][i].x = t.x /\ lms[n][i].y = t.y)
      BY <2>3, <3>1 DEF Appends, RowsOf
    <3>3. j \in 1..Len(lms[n]) \/ j = Len(lms[n]) + 1
      BY <1>1, <3>1
    <3> QED
      BY <2>1, <2>2, <3>1, <3>2, <3>3
  <2>4. CASE \E i \in RowsOf(k, t) : Improves(k, t, i)
    <3>1. PICK i \in RowsOf(k, t) : Improves(k, t, i)
      BY <2>4
    <3>2. /\ k = n /\ i \in 1..Len(lms[n]) /\ Len(lms'[n]) = Len(lms[n])
          /\ \A r \in 1..Len(lms[n]) : r # i => lms'[n][r] = lms[n][r]
          /\ lms[n][i].x = t.x /\ lms[n][i].y = t.y /\ t.hops <= lms[n][i].hops
          /\ lms'[n][i] = t
      BY <1>1, <1>3, <2>1, <3>1, ImprovedRows
    <3>3. ASSUME NEW r \in 1..Len(lms[n]), lms[n][r].x = t.x, lms[n][r].y = t.y
          PROVE  ~(lms[n][r].hops <= data[m].hops)
      <4>1. r = i
        BY <3>2, <3>3 DEF IInv, RowsDistinct
      <4>2. lms[n][i] \in Triplets
        BY <1>1, <3>2
      <4>3. lms[n][i].hops \in Nat /\ data[m].hops + 1 <= lms[n][i].hops
        BY <2>2, <3>2, <4>2 DEF Triplets
      <4> QED
        BY <2>2, <4>1, <4>3
    <3>4. n \notin Near(lms, data[m], data[m].hops)
      BY <2>2, <3>3
    <3> QED
      BY <2>1, <3>2, <3>4
  <2>5. lms' # lms
    BY <1>3
  <2> QED
    BY <2>1, <2>3, <2>4, <2>5, InputFacts
<1>4. ASSUME NEW k \in Nodes, SetLm(k), lms'[n] # lms[n]
      PROVE  lms'[n][j] = Own(n) \/ \E i \in 1..Len(lms[n]) : lms'[n][j] = lms[n][i]
  <2>1. k = n /\ lms'[n] = ToFront(lms[n], Own(n))
    BY <1>1, <1>4 DEF SetLm
  <2>2. /\ Len(lms'[n]) = Len(lms[n]) + 1 /\ lms'[n][1] = Own(n)
        /\ \A i \in 2..Len(lms[n]) : lms'[n][i] = lms[n][i]
        /\ lms[n] # <<>> => lms'[n][Len(lms[n]) + 1] = lms[n][1]
    <3> PICK s \in Seq(Triplets), t \in Triplets : s = lms[n] /\ t = Own(n)
      BY <1>1, OwnFacts
    <3>1. /\ Len(ToFront(s, t)) = Len(s) + 1 /\ ToFront(s, t)[1] = t
          /\ \A i \in 2..Len(s) : ToFront(s, t)[i] = s[i]
          /\ s # <<>> => ToFront(s, t)[Len(s) + 1] = s[1]
      BY ToFrontFacts
    <3> QED
      BY <2>1, <3>1
  <2>3. CASE j = 1
    BY <2>2, <2>3
  <2>4. CASE j \in 2..Len(lms[n])
    BY <1>1, <2>2, <2>4
  <2>5. CASE j = Len(lms[n]) + 1 /\ j # 1
    <3>1. 1 \in 1..Len(lms[n]) /\ lms[n] # <<>>
      BY <1>1, <2>5
    <3> QED
      BY <2>2, <2>5, <3>1
  <2> QED
    BY <1>1, <2>2, <2>3, <2>4, <2>5
<1>5. (\E k \in Nodes : Beacon(k) \/ SendDone(k)) \/ UNCHANGED vars => lms' = lms
  BY DEF Beacon, SendDone, vars
<1> QED
  BY <1>2, <1>3, <1>4, <1>5 DEF Next

LEMMA BuffersComeFrom ==
  ASSUME Preempts = FALSE, IInv, [Next]_vars, NEW n \in Nodes, data'[n] # Reply
  PROVE  \/ data'[n] = data[n]
         \/ \E j \in 1..Len(lms'[n]) : data'[n] = lms'[n][j]
<1>1. TypeOK /\ lms \in [Nodes -> Seq(Triplets)] /\ lms[n] \in Seq(Triplets)
      /\ data \in [Nodes -> Triplets \cup {Reply}]
  BY DEF IInv, TypeOK
<1>2. ASSUME NEW k \in Nodes, Beacon(k), data'[n] # data[n]
      PROVE  \E j \in 1..Len(lms'[n]) : data'[n] = lms'[n][j]
  <2>1. k = n /\ data'[n] = lms[n][1] /\ lms' = lms /\ is_landmark[n]
    BY <1>1, <1>2 DEF Beacon, Send
  <2>2. lms[n] # <<>>
    BY <2>1 DEF IInv, HopsSound
  <2>3. 1 \in 1..Len(lms[n])
    BY <1>1, <2>2
  <2> QED
    BY <2>1, <2>3
<1>3. ASSUME NEW k \in Nodes, SendDone(k) \/ SetLm(k) PROVE data'[n] = data[n]
  BY <1>1, <1>3 DEF SendDone, SetLm, Send, out
<1>4. ASSUME NEW k \in Nodes, NEW m \in Nodes, Receive(k, m), data'[n] # data[n]
      PROVE  \E j \in 1..Len(lms'[n]) : data'[n] = lms'[n][j]
  <2> PICK t : t = Farther(data[m])
    OBVIOUS
  <2>1. t \in Triplets /\ Input(k, t)
    BY <1>4, FartherFacts DEF Receive
  <2>2. RowsOf(k, t) # {}
    BY <1>4, <2>1 DEF Input, Append_landmark, out
  <2>3. PICK i \in RowsOf(k, t) : Update(k, i, t)
    BY <2>1, <2>2 DEF Input
  <2>4. Improves(k, t, i) /\ Output(k, t)
    BY <1>4, <2>3 DEF Update, Improves, out
  <2>5. Written(k, t) = {t}
    BY DEF Written
  <2>6. Send(k, t)
    BY <1>4, <2>4, <2>5 DEF Output, out
  <2>7. k = n /\ data'[n] = t
    BY <1>1, <1>4, <2>6 DEF Send
  <2>8. i \in 1..Len(lms'[n]) /\ lms'[n][i] = t
    BY <1>1, <2>1, <2>3, <2>4, <2>7, ImprovedRows
  <2> QED
    BY <2>7, <2>8
<1>5. UNCHANGED vars => data'[n] = data[n]
  BY DEF vars, out
<1> QED
  BY <1>2, <1>3, <1>4, <1>5 DEF Next

LEMMA LaddersNext ==
  ASSUME IsFiniteSet(Nodes), Preempts = FALSE, IInv, Ladders, [Next]_vars
  PROVE  Ladders'
<1>1. ASSUME NEW n \in Nodes, NEW j \in 1..Len(lms'[n])
      PROVE  Laddered(lms', lms'[n][j])
  <2>1. lms[n] \in Seq(Triplets)
    BY DEF IInv, TypeOK
  <2>2. ASSUME NEW i \in 1..Len(lms[n]), lms'[n][j] = lms[n][i]
        PROVE  Laddered(lms', lms'[n][j])
    <3> PICK t : t = lms[n][i]
      OBVIOUS
    <3>1. t \in Triplets /\ Laddered(lms, t)
      BY <2>1 DEF Ladders
    <3>2. Laddered(lms', t)
      BY <3>1, LaddersStand DEF Triplets
    <3> QED
      BY <2>2, <3>2
  <2>3. ASSUME lms'[n][j] = Own(n) PROVE Laddered(lms', lms'[n][j])
    <3>1. n \in Near(lms', Own(n), 0)
      BY <2>3, OwnFacts DEF Near
    <3>2. Cardinality(Near(lms', Own(n), 0)) # 0 /\ Cardinality(Near(lms', Own(n), 0)) \in Nat
      BY <3>1, NearCounts, FS_EmptySet
    <3> QED
      BY <2>3, <3>2, OwnFacts DEF Laddered
  <2>4. ASSUME NEW m \in Nodes, data[m] # Reply, lms'[n][j] = Farther(data[m]),
               n \notin Near(lms, data[m], data[m].hops)
        PROVE  Laddered(lms', lms'[n][j])
    <3>1. Laddered(lms, data[m])
      BY <2>4 DEF Ladders
    <3> QED
      BY <2>4, <3>1, Rung
  <2> QED
    BY <2>2, <2>3, <2>4, RowsComeFrom
<1>2. ASSUME NEW n \in Nodes, data'[n] # Reply PROVE Laddered(lms', data'[n])
  <2>1. CASE data'[n] = data[n]
    <3> PICK t : t = data[n]
      OBVIOUS
    <3>1. t \in Triplets /\ Laddered(lms, t)
      BY <1>2, <2>1 DEF IInv, TypeOK, Ladders
    <3>2. Laddered(lms', t)
      BY <3>1, LaddersStand DEF Triplets
    <3> QED
      BY <2>1, <3>2
  <2>2. CASE \E j \in 1..Len(lms'[n]) : data'[n] = lms'[n][j]
    BY <1>1, <2>2
  <2> QED
    BY <1>2, <2>1, <2>2, BuffersComeFrom
<1> QED
  BY <1>1, <1>2 DEF Ladders

(* In every finite network in which no message is torn, the hops of a        *)
(* triplet, in a table or on its way, are fewer than there are motes:        *)
(* nothing circulates, and a char holds the hops of up to 128 motes.         *)
THEOREM PathsSimpleHolds ==
  ASSUME IsFiniteSet(Nodes), Preempts = FALSE
  PROVE  Spec => []PathsSimple
<1>1. Init => Ladders
  <2> SUFFICES ASSUME Init PROVE Ladders
    OBVIOUS
  <2>1. \A n \in Nodes : data[n] = Reply
    BY DEF Init
  <2>2. ASSUME NEW n \in Nodes, NEW i \in 1..Len(lms[n])
        PROVE  Laddered(lms, lms[n][i])
    <3>1. lms[n] = <<Own(n)>> /\ i = 1
      BY DEF Init
    <3>2. lms[n][1] = Own(n)
      BY <3>1
    <3>3. n \in Near(lms, Own(n), 0)
      BY <3>1, <3>2, OwnFacts DEF Near
    <3>4. Cardinality(Near(lms, Own(n), 0)) # 0 /\ Cardinality(Near(lms, Own(n), 0)) \in Nat
      BY <3>3, NearCounts, FS_EmptySet
    <3> QED
      BY <3>1, <3>2, <3>4, OwnFacts DEF Laddered
  <2> QED
    BY <2>1, <2>2 DEF Ladders
<1>2. IInv /\ Ladders /\ [Next]_vars => Ladders'
  BY LaddersNext
<1>3. IInv /\ Ladders => PathsSimple
  <2> SUFFICES ASSUME IInv, Ladders PROVE PathsSimple
    OBVIOUS
  <2>1. ASSUME NEW t \in Triplets, Laddered(lms, t) PROVE t.hops < Cardinality(Nodes)
    <3>1. t.hops \in Nat
      BY DEF Triplets
    <3>2. t.hops + 1 <= Cardinality(Near(lms, t, t.hops))
      BY <2>1, <3>1 DEF Laddered
    <3> QED
      BY <3>1, <3>2, NearCounts
  <2>2. /\ \A n \in Nodes : \A i \in 1..Len(lms[n]) : lms[n][i] \in Triplets
        /\ \A n \in Nodes : data[n] # Reply => data[n] \in Triplets
    <3>1. \A n \in Nodes : lms[n] \in Seq(Triplets)
      BY DEF IInv, TypeOK
    <3>2. \A n \in Nodes : \A i \in 1..Len(lms[n]) : lms[n][i] \in Triplets
      BY <3>1
    <3> QED
      BY <3>2 DEF IInv, TypeOK
  <2> QED
    BY <2>1, <2>2 DEF Ladders, PathsSimple
<1> QED
  BY <1>1, <1>2, <1>3, Invariant, PTL DEF Spec
=============================================================================
