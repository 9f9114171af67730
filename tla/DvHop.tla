------------------------------- MODULE DvHop -------------------------------
(***************************************************************************)
(* The DV-hop positioning of aps_proj (DV_HOP.c over SEND_DV_FP.c): every  *)
(* mote learns the landmarks' coordinates, and how many hops away each is, *)
(* from beacons that landmarks broadcast and other motes relay.            *)
(*                                                                         *)
(* Coordinates are named by the landmark they belong to, x and y apart: a  *)
(* triplet is [x, y, hops] and those with x = y are places of landmarks.   *)
(* The clock's period is left out: a landmark may send at any time.  A     *)
(* broadcast is heard by any of the neighbours, in any order, or lost.     *)
(***************************************************************************)
EXTENDS Integers, Sequences, FiniteSets

CONSTANTS
  Nodes,                  \* motes
  Links,                  \* pairs <<n, m>>: n hears m
  Dist,                   \* hops between motes (the properties', not the code's)
  Landmarks,              \* landmarks from the start (check_if_landmark)
  Appointed,              \* motes that a query makes landmarks, once each
  NUM_LANDMARKS_TO_USE,   \* rows of lms[]
  Preempts                \* the clock interrupts handlers (not so in FULLPC)

ASSUME DvHopAssumption ==
  /\ Links \subseteq Nodes \X Nodes
  /\ Landmarks \subseteq Nodes /\ Appointed \subseteq Nodes \ Landmarks
  /\ NUM_LANDMARKS_TO_USE \in Nat \ {0}
  /\ Preempts \in BOOLEAN

ASSUME DistAssumption ==
  /\ Dist \in [Nodes -> [Nodes -> Nat]]
  /\ \A n \in Nodes : Dist[n][n] = 0
  /\ \A n, m, l \in Nodes : <<n, m>> \in Links => Dist[n][l] <= Dist[m][l] + 1

VARIABLES
  lms,          \* mote -> its rows 0..no_landmarks-1, as a sequence from 1
  is_landmark,  \* mote -> BOOLEAN
  pending,      \* mote -> a message is being sent ...
  data,         \* ... from this buffer ...
  heard         \* ... and these neighbours have had it

out == <<pending, data>>
vars == <<lms, is_landmark, out, heard>>

Reply == <<>>                   \* a query's reply, which no mote handles
Triplets == [x : Nodes, y : Nodes, hops : Nat]
Triplet(x, y, h) == [x |-> x, y |-> y, hops |-> h]

(* Variant: the hops stay as DVHOP_FP_INIT has set them. *)
OwnUnset(n) == Triplet(n, n, -1)

Own(n) == Triplet(n, n, 0)

(* check_if_landmark *)
Init ==
  /\ is_landmark = [n \in Nodes |-> n \in Landmarks]
  /\ lms = [n \in Nodes |-> IF n \in Landmarks THEN <<Own(n)>> ELSE <<>>]
  /\ pending = [n \in Nodes |-> FALSE]
  /\ data = [n \in Nodes |-> Reply]
  /\ heard = [n \in Nodes |-> {}]

-----------------------------------------------------------------------------
(* SEND_DV_FP: one buffer, and pending until it is sent. *)

Send(n, d) == /\ pending' = [pending EXCEPT ![n] = TRUE]
              /\ data' = [data EXCEPT ![n] = d]

(* What OUTPUT leaves in the buffer of n.  A clock interrupt between its    *)
(* stores finds pending still 0, fills the buffer with the beacon and sends *)
(* it; the stores that are left then go into the message on its way.        *)
Written(n, t) ==
  {t} \cup IF Preempts /\ is_landmark[n]
           THEN LET own == lms[n][1]
                IN  {[t EXCEPT !.x = own.x], [own EXCEPT !.hops = t.hops], own}
           ELSE {}

(* SEND_DV_FP_OUTPUT of a handler: dropped while a message is being sent. *)
Output(n, t) ==
  IF pending[n] THEN UNCHANGED out ELSE \E d \in Written(n, t) : Send(n, d)

(* SEND_DV_FP_SUB_MSG_SEND_DONE; who has not heard the message has lost it. *)
SendDone(n) ==
  /\ pending[n]
  /\ pending' = [pending EXCEPT ![n] = FALSE]
  /\ data' = [data EXCEPT ![n] = Reply]
  /\ heard' = [heard EXCEPT ![n] = {}]
  /\ UNCHANGED <<lms, is_landmark>>

-----------------------------------------------------------------------------
(* DVHOP_FP_CLOCK_EVENT: a landmark broadcasts its row 0. *)
Beacon(n) ==
  /\ is_landmark[n] /\ ~pending[n]
  /\ Send(n, lms[n][1])
  /\ UNCHANGED <<lms, is_landmark, heard>>

(* Variant: row 0 is never compared. *)
RowsOfFromOne(n, t) ==
  {i \in 2..Len(lms[n]) : lms[n][i].x = t.x /\ lms[n][i].y = t.y}

(* is_already_there, which also looks at the unused row after the last one: *)
(* its hops are -1 and it never matches.                                    *)
RowsOf(n, t) == {i \in 1..Len(lms[n]) : lms[n][i].x = t.x /\ lms[n][i].y = t.y}

(* Variant: a triplet is kept and relayed as it came. *)
FartherNot(t) == t

Farther(t) == [t EXCEPT !.hops = @ + 1]

(* append_landmark, called only while there is room; nothing is relayed. *)
Append_landmark(n, t) ==
  /\ lms' = IF Len(lms[n]) < NUM_LANDMARKS_TO_USE
            THEN [lms EXCEPT ![n] = Append(@, t)] ELSE lms
  /\ UNCHANGED out

(* Variant: only a shorter way is relayed. *)
UpdateShorter(n, i, t) ==
  IF t.hops < lms[n][i].hops
  THEN lms' = [lms EXCEPT ![n][i].hops = t.hops] /\ Output(n, t)
  ELSE UNCHANGED <<lms, out>>

(* Variant: whatever comes is relayed. *)
UpdateAlways(n, i, t) ==
  /\ lms' = IF t.hops <= lms[n][i].hops
            THEN [lms EXCEPT ![n][i].hops = t.hops] ELSE lms
  /\ Output(n, t)

(* A known landmark, no farther than known: store the hops and relay. *)
Update(n, i, t) ==
  IF t.hops <= lms[n][i].hops
  THEN lms' = [lms EXCEPT ![n][i].hops = t.hops] /\ Output(n, t)
  ELSE UNCHANGED <<lms, out>>

(* DVHOP_FP_INPUT of t at n, without the task it may post (ifdef'd out) *)
Input(n, t) ==
  IF RowsOf(n, t) = {} THEN Append_landmark(n, t)
  ELSE \E i \in RowsOf(n, t) : Update(n, i, t)

(* n hears m's message. *)
Receive(n, m) ==
  /\ <<n, m>> \in Links /\ pending[m] /\ data[m] # Reply /\ n \notin heard[m]
  /\ Input(n, Farther(data[m]))
  /\ heard' = [heard EXCEPT ![m] = @ \cup {n}]
  /\ UNCHANGED is_landmark

(* Variant: the new row takes the place of row 0. *)
ToFrontOver(s, t) == IF s = <<>> THEN <<t>> ELSE <<t>> \o Tail(s)

(* The new row goes first and row 0 goes last. *)
ToFront(s, t) ==
  IF s = <<>> THEN <<t>> ELSE <<t>> \o Tail(s) \o <<Head(s)>>

(* DVHOP_FP_QUERY_INPUT, Q_SET_LM 1 with the mote's coordinates and hops 0; *)
(* bounded to a table with room, since the code writes past a full one.     *)
SetLm(n) ==
  /\ n \in Appointed /\ ~is_landmark[n]
  /\ Len(lms[n]) < NUM_LANDMARKS_TO_USE
  /\ is_landmark' = [is_landmark EXCEPT ![n] = TRUE]
  /\ lms' = [lms EXCEPT ![n] = ToFront(@, Own(n))]
  /\ IF pending[n] THEN UNCHANGED out ELSE Send(n, Reply)
  /\ UNCHANGED heard

-----------------------------------------------------------------------------
Next ==
  \E n \in Nodes :
    \/ Beacon(n) \/ SendDone(n) \/ SetLm(n)
    \/ \E m \in Nodes : Receive(n, m)

Spec == Init /\ [][Next]_vars

(* The clock ticks and messages are sent for good; of what a neighbour      *)
(* sends again and again, some is heard.                                     *)
Fairness ==
  \A n \in Nodes :
    /\ WF_vars(Beacon(n)) /\ WF_vars(SendDone(n))
    /\ \A m \in Nodes :
         <<n, m>> \in Links => SF_vars(Receive(n, m))

FairSpec == Spec /\ Fairness

-----------------------------------------------------------------------------
(* Every variable has its type; lms[] keeps to its rows. *)
TypeOK ==
  /\ lms \in [Nodes -> Seq(Triplets)]
  /\ \A n \in Nodes : Len(lms[n]) <= NUM_LANDMARKS_TO_USE
  /\ is_landmark \in [Nodes -> BOOLEAN]
  /\ pending \in [Nodes -> BOOLEAN]
  /\ data \in [Nodes -> Triplets \cup {Reply}]
  /\ heard \in [Nodes -> SUBSET Nodes]

Rows(n) == {lms[n][i] : i \in 1..Len(lms[n])}

(* No mote believes a landmark nearer than it is, nor says so in a message   *)
(* on its way, whatever is lost, late or torn; and row 0 of a landmark, the  *)
(* one it broadcasts, is its own place at no hops.                           *)
NotNearer(n, t) == t.x = t.y => Dist[n][t.x] <= t.hops
HopsSound ==
  /\ \A n \in Nodes : \A i \in 1..Len(lms[n]) : NotNearer(n, lms[n][i])
  /\ \A n \in Nodes : data[n] # Reply => NotNearer(n, data[n])
  /\ \A n \in Nodes : is_landmark[n] => lms[n] # <<>> /\ lms[n][1] = Own(n)

(* A landmark has one row: is_already_there finds it wherever beacons,       *)
(* relays and queries have put it (a second row would take the place of      *)
(* another landmark and count it twice in the position).                     *)
RowsDistinct ==
  \A n \in Nodes : \A i, j \in 1..Len(lms[n]) :
    lms[n][i].x = lms[n][j].x /\ lms[n][i].y = lms[n][j].y => i = j

(* No triplet travels in a circle: its hops are those of a path that visits  *)
(* no mote twice, so that a char holds them and relaying comes to an end.    *)
PathsSimple ==
  \A n \in Nodes :
    /\ \A i \in 1..Len(lms[n]) : lms[n][i].hops < Cardinality(Nodes)
    /\ data[n] # Reply => data[n].hops < Cardinality(Nodes)

(* What a mote knows it keeps, no farther away, also when a query makes it   *)
(* a landmark and its rows move.                                             *)
Keeps(n) ==
  \A i \in 1..Len(lms[n]) :
    \E j \in 1..Len(lms'[n]) : /\ lms'[n][j].x = lms[n][i].x
                              /\ lms'[n][j].y = lms[n][i].y
                              /\ lms'[n][j].hops <= lms[n][i].hops
NeverWorse == [][\A n \in Nodes : Keeps(n)]_vars

(* While there is one landmark, every mote gets it at the true number of     *)
(* hops (DV_HOP.c: "every node stores the (x,y,hop) triplets of all known    *)
(* landmarks"), although the first triplet it hears is not relayed and later *)
(* ones may be lost or dropped.  With more, a mote busy with the relays of   *)
(* one landmark can drop those of another again and again.                   *)
Exact ==
  \A n, l \in Nodes :
    is_landmark[l] => \E t \in Rows(n) : t = Triplet(l, l, Dist[n][l])
OneLandmark == Cardinality({n \in Nodes : is_landmark[n]}) = 1
Converges == []OneLandmark => <>[]Exact
=============================================================================
