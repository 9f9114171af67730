-------------------------- MODULE PortFwd_proofs --------------------------
(***************************************************************************)
(* Theorems about PortFwd, for any number of motes, rows and connections.  *)
(***************************************************************************)
EXTENDS PortFwd, FiniteSetTheorems, WellFoundedInduction, TLAPS

(***************************************************************************)
(* The inductive invariant.                                                *)
(***************************************************************************)

\* No descriptor is open that is not in a row.
Covered == Opened = UNION {FdsOf(i) : i \in Used}

\* A mote has one row.
OneRow == \A i, j \in Used : MoteOf(i) = MoteOf(j) => i = j

\* The events that are left are counted; the first of them may be an accept.
Counted == pc = "accept" => nevents > 0

\* What select watches.
Watched ==
  pc = "select" => /\ sock_read = {accept_sock} \cup Opened
                   /\ \A f \in Opened : f <= sock_max

\* What is still marked was found readable by select, and still is, or was
\* accepted after it.
MarkedReadable ==
  pc \in {"accept", "events"} =>
    \A i \in Used : \A e \in Ends :
      row[i][e] \in sock_read =>
        \/ waiting[MoteOf(i)][e] \/ shut[MoteOf(i)][e]
        \/ MoteOf(i) \in fresh

IInv == TypeOK /\ RowsPaired /\ Covered /\ OneRow /\ Counted /\ Watched
          /\ MarkedReadable

-----------------------------------------------------------------------------
(* Least and greatest elements, free descriptors. *)

LEMMA LeastExists ==
  ASSUME NEW S \in SUBSET Nat, S # {}
  PROVE  \E x \in S : \A y \in S : x <= y
<1>1. PICK x \in S : \A y \in S : ~ (<<y, x>> \in OpToRel(<, Nat))
  BY NatLessThanWellFounded, WFMin
<1>2. ASSUME NEW y \in S PROVE x <= y
  <2>1. <<y, x>> \in OpToRel(<, Nat) <=> y < x
    BY DEF OpToRel
  <2>2. ~ (y < x)
    BY <1>1, <2>1
  <2> QED
    BY <2>2
<1> QED
  BY <1>2

LEMMA LowestIn ==
  ASSUME NEW S \in SUBSET Nat, S # {}
  PROVE  Lowest(S) \in S
BY LeastExists DEF Lowest

LEMMA MaxIn ==
  ASSUME NEW n \in Nat, NEW S \in SUBSET (0..n), S # {}
  PROVE  Max(S) \in S /\ \A f \in S : f <= Max(S)
<1> DEFINE T == {n - f : f \in S}
<1>1. T \in SUBSET Nat /\ T # {}
  <2>1. \A f \in S : n - f \in Nat
    OBVIOUS
  <2> QED
    BY <2>1
<1>2. PICK x \in T : \A y \in T : x <= y
  <2> HIDE DEF T
  <2> QED
    BY <1>1, LeastExists
<1>3. PICK g \in S : x = n - g
  BY <1>2
<1>4. ASSUME NEW f \in S PROVE f <= g
  <2>1. n - f \in T
    OBVIOUS
  <2>2. x <= n - f
    BY <1>2, <2>1
  <2> QED
    BY <1>3, <2>2
<1> QED
  BY <1>3, <1>4 DEF Max

LEMMA EndsFinite == IsFiniteSet(Ends) /\ Cardinality(Ends) = 2
<1>1. Ends = {"uart"} \cup {"client"} /\ "client" \notin {"uart"}
  BY DEF Ends
<1>2. IsFiniteSet({"uart"}) /\ Cardinality({"uart"}) = 1
  BY FS_Singleton
<1> HIDE DEF Ends
<1> QED
  BY <1>1, <1>2, FS_AddElement

LEMMA RowsFinite ==
  /\ IsFiniteSet(Rows) /\ Cardinality(Rows) = MAX_CONN
  /\ IsFiniteSet(Used) /\ Cardinality(Used) <= MAX_CONN
  /\ Cardinality(Used) \in Nat /\ Used \subseteq Rows
<1>1. IsFiniteSet(Rows) /\ Cardinality(Rows) = MAX_CONN
  BY PortFwdAssumption, FS_Interval DEF Rows
<1>2. Used \subseteq Rows
  BY DEF Used
<1> QED
  BY <1>1, <1>2, FS_Subset, FS_CardinalityType

(* Two descriptors for each row in use. *)
LEMMA OpenedBound ==
  ASSUME TypeOK, Covered
  PROVE  /\ IsFiniteSet(Opened) /\ Cardinality(Opened) \in Nat
         /\ Cardinality(Opened) <= 2 * MAX_CONN
<1> DEFINE D == Used \X Ends
           g == [p \in D |-> row[p[1]][p[2]]]
<1>1. IsFiniteSet(D) /\ Cardinality(D) = Cardinality(Used) * 2
  BY RowsFinite, EndsFinite, FS_Product
<1>2. g \in Surjection(D, Opened)
  <2>1. \A p \in D : g[p] \in FdsOf(p[1]) /\ p[1] \in Used
    BY DEF FdsOf
  <2>2. g \in [D -> Opened]
    BY <2>1 DEF Covered
  <2>3. ASSUME NEW f \in Opened PROVE \E p \in D : g[p] = f
    <3>1. PICK i \in Used, e \in Ends : f = row[i][e]
      BY <2>3 DEF Covered, FdsOf
    <3>2. <<i, e>> \in D /\ g[<<i, e>>] = f
      BY <3>1
    <3> QED
      BY <3>2
  <2> QED
    BY <2>2, <2>3 DEF Surjection
<1> HIDE DEF D, g
<1>3. IsFiniteSet(Opened) /\ Cardinality(Opened) <= Cardinality(D)
  BY <1>1, <1>2, FS_Surjection
<1> QED
  BY <1>1, <1>3, RowsFinite, FS_CardinalityType, PortFwdAssumption

(* accept and socket always have a number to give. *)
LEMMA FreeFds ==
  ASSUME TypeOK, Covered
  PROVE  LET u == Lowest(Fds \ Opened)
             c == Lowest(Fds \ (Opened \cup {u}))
         IN  /\ u \in Fds \ Opened
             /\ c \in Fds \ Opened /\ c # u
<1>1. /\ IsFiniteSet(Fds) /\ Cardinality(Fds) = 2 * MAX_CONN + 2
      /\ Fds \subseteq Nat
  BY FS_Interval, PortFwdAssumption DEF Fds
<1>2. ASSUME NEW u PROVE Fds \ (Opened \cup {u}) # {}
  <2>1. /\ IsFiniteSet(Opened \cup {u})
        /\ Cardinality(Opened \cup {u}) <= 2 * MAX_CONN + 1
        /\ Cardinality(Opened \cup {u}) \in Nat
    BY OpenedBound, FS_AddElement, FS_CardinalityType, PortFwdAssumption
  <2>2. CASE Fds \subseteq Opened \cup {u}
    <3>1. Cardinality(Fds) <= Cardinality(Opened \cup {u})
      BY <2>1, <2>2, FS_Subset
    <3> QED
      BY <1>1, <2>1, <3>1, PortFwdAssumption
  <2> QED
    BY <2>2
<1>3. Fds \ Opened # {}
  BY <1>2
<1> QED
  BY <1>1, <1>2, <1>3, LowestIn

-----------------------------------------------------------------------------
(* What the invariant says of a row in use. *)
LEMMA UsedRow ==
  ASSUME TypeOK, RowsPaired, NEW i \in Used
  PROVE  /\ i \in Rows /\ MoteOf(i) \in Conns /\ phase[MoteOf(i)] = "open"
         /\ \A e \in Ends :
              /\ row[i][e] \in Opened /\ row[i][e] \in Fds
              /\ row[i][e] # accept_sock
              /\ owner[row[i][e]] = <<MoteOf(i), e>>
         /\ FdsOf(i) = {row[i][e] : e \in Ends}
<1>1. i \in Rows /\ "uart" \in Ends
  BY DEF Used, Ends
<1>2. \A e \in Ends : /\ row[i][e] \in Opened
                     /\ owner[row[i][e]] = <<MoteOf(i), e>>
  BY DEF RowsPaired, FdsOf
<1>3. \A f \in Opened : f \in Fds /\ owner[f] \in Conns \X Ends
  BY DEF TypeOK
<1>4. \A f \in Fds : f # accept_sock
  BY PortFwdAssumption DEF Fds, accept_sock
<1>5. MoteOf(i) \in Conns
  BY <1>1, <1>2, <1>3 DEF MoteOf
<1>6. phase[MoteOf(i)] = "open"
  BY DEF RowsPaired
<1> QED
  BY <1>1, <1>2, <1>3, <1>4, <1>5, <1>6 DEF FdsOf

(* A step that leaves the table alone and keeps its motes open. *)
LEMMA KeptTable ==
  ASSUME IInv, UNCHANGED table, \A i \in Used : phase'[MoteOf(i)] = "open"
  PROVE  /\ Used' = Used /\ Opened' = Opened
         /\ \A i \in Used : MoteOf(i)' = MoteOf(i) /\ FdsOf(i)' = FdsOf(i)
         /\ RowsPaired' /\ Covered' /\ OneRow'
         /\ len' = Cardinality(Used')
<1> USE DEF table
<1>1. Used' = Used /\ Opened' = Opened
  BY DEF Used, Opened
<1>2. \A i \in Used : MoteOf(i)' = MoteOf(i) /\ FdsOf(i)' = FdsOf(i)
  BY DEF MoteOf, FdsOf
<1>3. RowsPaired'
  BY <1>1, <1>2 DEF IInv, RowsPaired
<1>4. Covered'
  BY <1>1, <1>2 DEF IInv, Covered
<1>5. OneRow'
  BY <1>1, <1>2 DEF IInv, OneRow
<1>6. len' = Cardinality(Used')
  BY <1>1 DEF IInv, TypeOK
<1> QED
  BY <1>1, <1>2, <1>3, <1>4, <1>5, <1>6

LEMMA InitInv == Init => IInv
<1> SUFFICES ASSUME Init PROVE IInv
  OBVIOUS
<1> USE DEF Init
<1>1. Used = {}
  BY DEF Used
<1>2. Opened = {}
  BY DEF Opened
<1>3. TypeOK
  <2>1. EmptyRow \in [Ends -> Fds \cup {NoFd}]
    BY DEF EmptyRow
  <2>2. len = Cardinality(Used)
    BY <1>1, FS_EmptySet
  <2>3. nevents \in 0..2 * MAX_CONN + 1 /\ connects \in 0..MAX_CONNECTS
    BY PortFwdAssumption
  <2> QED
    BY <1>2, <2>1, <2>2, <2>3 DEF TypeOK, Opened
<1> QED
  BY <1>1, <1>2, <1>3 DEF IInv, RowsPaired, Covered, OneRow, Counted, Watched,
                          MarkedReadable

(* One flag of the two ends of a connection. *)
LEMMA Flags ==
  ASSUME NEW w \in [Conns -> [Ends -> BOOLEAN]], NEW c \in Conns, NEW e \in Ends,
         NEW b \in BOOLEAN
  PROVE  [w EXCEPT ![c][e] = b] \in [Conns -> [Ends -> BOOLEAN]]
<1>1. w[c] \in [Ends -> BOOLEAN]
  OBVIOUS
<1>2. [w[c] EXCEPT ![e] = b] \in [Ends -> BOOLEAN]
  BY <1>1, Zenon
<1>3. [w EXCEPT ![c] = [w[c] EXCEPT ![e] = b]] \in [Conns -> [Ends -> BOOLEAN]]
  BY <1>2, Zenon
<1> QED
  BY <1>3

LEMMA Raised ==
  ASSUME NEW w \in [Conns -> [Ends -> BOOLEAN]], NEW c \in Conns, NEW e \in Ends,
         NEW d \in Conns, NEW x \in Ends, w[d][x]
  PROVE  [w EXCEPT ![c][e] = TRUE][d][x]
<1>1. w[c] \in [Ends -> BOOLEAN] /\ w[d] \in [Ends -> BOOLEAN]
  OBVIOUS
<1>2. CASE d # c
  <2>1. [w EXCEPT ![c][e] = TRUE][d] = w[d]
    BY <1>2
  <2> QED
    BY <2>1, Zenon
<1>3. CASE d = c
  <2>1. [w EXCEPT ![c][e] = TRUE][d] = [w[d] EXCEPT ![e] = TRUE]
    BY <1>3
  <2>2. [w[d] EXCEPT ![e] = TRUE][x]
    BY <1>1, Zenon
  <2> QED
    BY <2>1, <2>2, Zenon
<1> QED
  BY <1>2, <1>3

(* The two ends of a connection: what is readable stays so. *)
LEMMA OutsideStep ==
  ASSUME IInv, NEW c \in Conns,
         Connect(c) \/ \E e \in Ends : Send(c, e) \/ Shut(c, e)
  PROVE  IInv'
<1>1. UNCHANGED table /\ UNCHANGED loop
  BY DEF Connect, Send, Shut
<1>2. \A d \in Conns : phase[d] = "open" => phase'[d] = "open"
  BY DEF Connect, Send, Shut, IInv, TypeOK
<1>3. \A d \in Conns : \A e \in Ends :
        /\ waiting[d][e] => waiting'[d][e]
        /\ shut[d][e] => shut'[d][e]
  <2>1. CASE Connect(c)
    BY <2>1, Zenon DEF Connect
  <2>2. ASSUME NEW e \in Ends, Send(c, e) PROVE <1>3!:
    <3>1. UNCHANGED shut /\ waiting' = [waiting EXCEPT ![c][e] = TRUE]
      BY <2>2 DEF Send
    <3> QED
      BY <3>1, Raised DEF IInv, TypeOK
  <2>3. ASSUME NEW e \in Ends, Shut(c, e) PROVE <1>3!:
    <3>1. UNCHANGED waiting /\ shut' = [shut EXCEPT ![c][e] = TRUE]
      BY <2>3 DEF Shut
    <3> QED
      BY <3>1, Raised DEF IInv, TypeOK
  <2> QED
    BY <2>1, <2>2, <2>3
<1>4. /\ phase' \in [Conns -> {"off", "queued", "open"}]
      /\ waiting' \in [Conns -> [Ends -> BOOLEAN]]
      /\ shut' \in [Conns -> [Ends -> BOOLEAN]]
      /\ connects' \in 0..MAX_CONNECTS
  <2> USE DEF IInv, TypeOK
  <2>1. CASE Connect(c)
    BY <2>1, PortFwdAssumption DEF Connect
  <2>2. ASSUME NEW e \in Ends, Send(c, e) PROVE <1>4!:
    BY <2>2, Flags DEF Send
  <2>3. ASSUME NEW e \in Ends, Shut(c, e) PROVE <1>4!:
    BY <2>3, Flags DEF Shut
  <2> QED
    BY <2>1, <2>2, <2>3
<1>5. \A i \in Used : MoteOf(i) \in Conns /\ phase'[MoteOf(i)] = "open"
  BY <1>2, UsedRow DEF IInv
<1>6. /\ Used' = Used /\ Opened' = Opened
      /\ \A i \in Used : MoteOf(i)' = MoteOf(i)
      /\ RowsPaired' /\ Covered' /\ OneRow' /\ len' = Cardinality(Used')
  BY <1>1, <1>5, KeptTable
<1>7. TypeOK'
  BY <1>1, <1>4, <1>6 DEF IInv, TypeOK, loop, table
<1>8. Counted' /\ Watched'
  BY <1>1, <1>6 DEF IInv, Counted, Watched, loop
<1>9. MarkedReadable'
  <2>1. SUFFICES ASSUME pc \in {"accept", "events"}, NEW i \in Used, NEW e \in Ends,
                        row[i][e] \in sock_read
                 PROVE  \/ waiting'[MoteOf(i)][e] \/ shut'[MoteOf(i)][e]
                        \/ MoteOf(i) \in fresh
    BY <1>1, <1>6 DEF MarkedReadable, loop, table
  <2>2. \/ waiting[MoteOf(i)][e] \/ shut[MoteOf(i)][e] \/ MoteOf(i) \in fresh
    BY <2>1 DEF IInv, MarkedReadable
  <2>3. MoteOf(i) \in Conns
    BY <1>5
  <2>4. /\ waiting[MoteOf(i)][e] => waiting'[MoteOf(i)][e]
        /\ shut[MoteOf(i)][e] => shut'[MoteOf(i)][e]
    BY <1>3, <2>3, Zenon
  <2> QED
    BY <2>2, <2>4
<1> QED
  BY <1>6, <1>7, <1>8, <1>9 DEF IInv

LEMMA SelectStep ==
  ASSUME IInv, Select
  PROVE  IInv'
<1> DEFINE ready == {f \in sock_read : f <= sock_max /\ Readable(f)}
<1>1. /\ pc = "select" /\ ready # {} /\ sock_read' = ready
      /\ nevents' = Cardinality(ready) /\ pc' \in {"accept", "events"}
      /\ fresh' = {}
      /\ UNCHANGED outside /\ UNCHANGED table /\ UNCHANGED <<sock_max, connects>>
  BY DEF Select, Goto
<1>2. ready \subseteq {accept_sock} \cup Opened
  BY <1>1 DEF IInv, Watched
<1>3. /\ IsFiniteSet(ready) /\ Cardinality(ready) \in 1..2 * MAX_CONN + 1
  <2>1. /\ IsFiniteSet(Opened \cup {accept_sock})
        /\ Cardinality(Opened \cup {accept_sock}) <= 2 * MAX_CONN + 1
        /\ Cardinality(Opened \cup {accept_sock}) \in Nat
    BY OpenedBound, FS_AddElement, FS_CardinalityType, PortFwdAssumption DEF IInv
  <2>2. IsFiniteSet(ready) /\ Cardinality(ready) <= Cardinality(Opened \cup {accept_sock})
    <3> HIDE DEF ready
    <3> QED
      BY <1>2, <2>1, FS_Subset
  <2>3. Cardinality(ready) \in Nat /\ Cardinality(ready) # 0
    <3> HIDE DEF ready
    <3> QED
      BY <1>1, <2>2, FS_CardinalityType, FS_EmptySet
  <2> HIDE DEF ready
  <2> QED
    BY <2>1, <2>2, <2>3, PortFwdAssumption
<1>4. \A i \in Used : phase'[MoteOf(i)] = "open"
  BY <1>1, UsedRow DEF IInv, outside
<1>5. /\ Used' = Used /\ \A i \in Used : MoteOf(i)' = MoteOf(i)
      /\ RowsPaired' /\ Covered' /\ OneRow' /\ len' = Cardinality(Used')
  BY <1>1, <1>4, KeptTable
<1>6. MarkedReadable'
  <2>1. ASSUME NEW i \in Used, NEW e \in Ends, row[i][e] \in ready
        PROVE  waiting[MoteOf(i)][e] \/ shut[MoteOf(i)][e]
    <3>1. /\ row[i][e] # accept_sock
          /\ owner[row[i][e]] = <<MoteOf(i), e>>
      BY UsedRow DEF IInv
    <3>2. Readable(row[i][e])
      BY <2>1
    <3>3. owner[row[i][e]][1] = MoteOf(i) /\ owner[row[i][e]][2] = e
      BY <3>1
    <3> QED
      BY <3>1, <3>2, <3>3, Zenon DEF Readable
  <2> QED
    BY <1>1, <1>5, <2>1 DEF MarkedReadable, outside, table
<1>7. TypeOK'
  BY <1>1, <1>3, <1>5 DEF IInv, TypeOK, outside, table, Opened
<1>8. Counted'
  BY <1>1, <1>3 DEF Counted
<1>9. Watched'
  BY <1>1 DEF Watched
<1> QED
  BY <1>5, <1>6, <1>7, <1>8, <1>9 DEF IInv

(* The connection of a mote ends: the others keep theirs. *)
LEMMA OverFacts ==
  ASSUME TypeOK, NEW c \in Conns, Over(c)
  PROVE  /\ phase' \in [Conns -> {"off", "queued", "open"}]
         /\ waiting' \in [Conns -> [Ends -> BOOLEAN]]
         /\ shut' \in [Conns -> [Ends -> BOOLEAN]]
         /\ \A d \in Conns \ {c} : /\ phase'[d] = phase[d]
                                  /\ waiting'[d] = waiting[d]
                                  /\ shut'[d] = shut[d]
  BY DEF TypeOK, Over

LEMMA AcceptStep ==
  ASSUME IInv, Accept_connect
  PROVE  IInv'
<1> DEFINE u == Lowest(Fds \ Opened)
           k == Lowest(Fds \ (Opened \cup {u}))
           highest == Max({sock_max, u, k})
<1>1. PICK c \in Conns :
        /\ pc = "accept" /\ phase[c] = "queued"
        /\ \/ /\ Used # Rows
              /\ phase' = [phase EXCEPT ![c] = "open"]
              /\ owner' = [f \in Opened \cup {u, k} |->
                             IF f = u THEN <<c, "uart">>
                             ELSE IF f = k THEN <<c, "client">> ELSE owner[f]]
              /\ row' = [row EXCEPT ![Lowest(Rows \ Used)] =
                           [e \in Ends |-> IF e = "uart" THEN u ELSE k]]
              /\ len' = len + 1
              /\ sock_read' = sock_read \cup {u, k}
              /\ fresh' = fresh \cup {c}
              /\ sock_max' = highest
              /\ UNCHANGED <<waiting, shut>>
           \/ /\ Reject(c, u) /\ sock_max' \in {sock_max, highest}
              /\ UNCHANGED <<sock_read, fresh>>
        /\ nevents' = nevents - 1 /\ pc' = "events"
        /\ UNCHANGED connects
  BY DEF Accept_connect, Goto
<1>2. u \in Fds \ Opened /\ k \in Fds \ Opened /\ k # u
  BY FreeFds DEF IInv
<1> HIDE DEF u, k
<1>3. highest \in {accept_sock} \cup Fds
  <2>1. {sock_max, u, k} \in SUBSET (0..2 * (MAX_CONN + 1))
    BY <1>2, PortFwdAssumption DEF IInv, TypeOK, Fds, accept_sock
  <2>2. 2 * (MAX_CONN + 1) \in Nat
    BY PortFwdAssumption
  <2>3. highest \in {sock_max, u, k}
    BY <2>1, <2>2, MaxIn
  <2> QED
    BY <1>2, <2>3 DEF IInv, TypeOK
<1> HIDE DEF highest
<1>4. nevents' \in 0..2 * MAX_CONN + 1
  BY <1>1, PortFwdAssumption DEF IInv, TypeOK, Counted
<1>5. \A i \in Used : MoteOf(i) \in Conns \ {c}
  BY <1>1, UsedRow DEF IInv
<1>6. Counted' /\ Watched'
  BY <1>1 DEF Counted, Watched
<1>7. CASE Reject(c, u) /\ sock_max' \in {sock_max, highest}
             /\ UNCHANGED <<sock_read, fresh>>
  <2>1. Over(c) /\ UNCHANGED table
    BY <1>7 DEF Reject
  <2>2. \A i \in Used : phase'[MoteOf(i)] = "open"
    BY <1>5, <2>1, OverFacts, UsedRow DEF IInv
  <2>3. /\ Used' = Used /\ Opened' = Opened
        /\ \A i \in Used : MoteOf(i)' = MoteOf(i)
        /\ RowsPaired' /\ Covered' /\ OneRow' /\ len' = Cardinality(Used')
    BY <2>1, <2>2, KeptTable
  <2>4. TypeOK'
    BY <1>1, <1>3, <1>4, <1>7, <2>1, <2>3, OverFacts DEF IInv, TypeOK, table
  <2>5. MarkedReadable'
    <3>1. \A i \in Used : /\ waiting'[MoteOf(i)] = waiting[MoteOf(i)]
                          /\ shut'[MoteOf(i)] = shut[MoteOf(i)]
      BY <1>5, <2>1, OverFacts DEF IInv
    <3> QED
      BY <1>1, <1>7, <2>1, <2>3, <3>1 DEF IInv, MarkedReadable, table
  <2> QED
    BY <1>6, <2>3, <2>4, <2>5 DEF IInv
<1>8. CASE /\ Used # Rows
           /\ phase' = [phase EXCEPT ![c] = "open"]
           /\ owner' = [f \in Opened \cup {u, k} |->
                          IF f = u THEN <<c, "uart">>
                          ELSE IF f = k THEN <<c, "client">> ELSE owner[f]]
           /\ row' = [row EXCEPT ![Lowest(Rows \ Used)] =
                        [e \in Ends |-> IF e = "uart" THEN u ELSE k]]
           /\ len' = len + 1
           /\ sock_read' = sock_read \cup {u, k}
           /\ fresh' = fresh \cup {c}
           /\ sock_max' = highest
           /\ UNCHANGED <<waiting, shut>>
  <2>1. PICK r \in Rows \ Used :
          row' = [row EXCEPT ![r] = [e \in Ends |-> IF e = "uart" THEN u ELSE k]]
    <3>1. Rows \ Used \in SUBSET Nat /\ Rows \ Used # {}
      BY <1>8, PortFwdAssumption DEF Rows, Used
    <3>2. Lowest(Rows \ Used) \in Rows \ Used
      BY <3>1, LowestIn
    <3> QED
      BY <1>8, <3>2
  <2>2. /\ row'[r] = [e \in Ends |-> IF e = "uart" THEN u ELSE k]
        /\ row'[r]["uart"] = u /\ row'[r]["client"] = k
        /\ \A i \in Rows \ {r} : row'[i] = row[i]
    BY <2>1 DEF IInv, TypeOK, Ends
  <2>3. Used' = Used \cup {r}
    <3>1. u # NoFd
      BY <1>2, PortFwdAssumption DEF Fds, NoFd
    <3>2. row'[r] # EmptyRow'
      BY <2>2, <3>1 DEF EmptyRow, Ends
    <3> QED
      BY <2>1, <2>2, <3>2 DEF Used, EmptyRow
  <2>4. /\ Opened' = Opened \cup {u, k}
        /\ owner'[u] = <<c, "uart">> /\ owner'[k] = <<c, "client">>
        /\ \A f \in Opened : owner'[f] = owner[f]
    BY <1>2, <1>8 DEF Opened
  <2>5. /\ FdsOf(r)' = {u, k} /\ MoteOf(r)' = c
    BY <2>2, <2>4 DEF FdsOf, MoteOf, Ends
  <2>6. ASSUME NEW i \in Used
        PROVE  /\ row'[i] = row[i] /\ FdsOf(i)' = FdsOf(i) /\ FdsOf(i) \subseteq Opened
               /\ \A e \in Ends : owner'[row[i][e]] = owner[row[i][e]]
               /\ MoteOf(i)' = MoteOf(i)
    <3>1. i \in Rows \ {r} /\ "uart" \in Ends
      BY <2>1 DEF Used, Ends
    <3>2. row'[i] = row[i]
      BY <2>2, <3>1
    <3>3. \A e \in Ends : owner'[row[i][e]] = owner[row[i][e]]
      BY <2>4, UsedRow DEF IInv
    <3>4. FdsOf(i) \subseteq Opened
      BY DEF IInv, RowsPaired
    <3> QED
      BY <3>1, <3>2, <3>3, <3>4 DEF FdsOf, MoteOf
  <2>7. RowsPaired'
    <3>1. ASSUME NEW i \in Used'
          PROVE  /\ FdsOf(i)' \subseteq Opened'
                 /\ \A e \in Ends : owner'[row'[i][e]] = <<MoteOf(i)', e>>
                 /\ phase'[MoteOf(i)'] = "open"
      <4>1. CASE i = r
        BY <1>8, <2>2, <2>4, <2>5, <4>1 DEF Ends, IInv, TypeOK
      <4>2. CASE i \in Used
        <5>1. MoteOf(i)' = MoteOf(i) /\ row'[i] = row[i]
          BY <2>6, <4>2
        <5>2. FdsOf(i)' \subseteq Opened'
          BY <2>4, <2>6, <4>2
        <5>3. \A e \in Ends : owner'[row[i][e]] = <<MoteOf(i), e>>
          BY <2>6, <4>2, UsedRow DEF IInv
        <5>4. phase'[MoteOf(i)] = "open"
          <6>1. phase[MoteOf(i)] = "open" /\ MoteOf(i) \in Conns \ {c}
            BY <1>5, <4>2, UsedRow DEF IInv
          <6> QED
            BY <1>8, <6>1 DEF IInv, TypeOK
        <5> QED
          BY <5>1, <5>2, <5>3, <5>4
      <4> QED
        BY <2>3, <4>1, <4>2
    <3>2. ASSUME NEW i \in Used', NEW j \in Used', FdsOf(i)' \cap FdsOf(j)' # {}
          PROVE  i = j
      BY <1>2, <2>3, <2>5, <2>6, <3>2 DEF IInv, RowsPaired
    <3> QED
      BY <3>1, <3>2 DEF RowsPaired
  <2>8. Covered'
    BY <2>3, <2>4, <2>5, <2>6 DEF IInv, Covered
  <2>9. OneRow'
    BY <1>5, <2>3, <2>5, <2>6 DEF IInv, OneRow
  <2>10. TypeOK'
    <3>1. len' = Cardinality(Used')
      BY <1>8, <2>1, <2>3, RowsFinite, FS_AddElement DEF IInv, TypeOK
    <3>2. \A f \in Opened' : owner'[f] \in Conns \X Ends
      <4>1. <<c, "uart">> \in Conns \X Ends /\ <<c, "client">> \in Conns \X Ends
        BY DEF Ends
      <4>2. \A f \in Opened : owner[f] \in Conns \X Ends
        BY DEF IInv, TypeOK
      <4> QED
        BY <2>4, <4>1, <4>2
    <3>3. row' \in [Rows -> [Ends -> Fds \cup {NoFd}]]
      BY <1>2, <2>1 DEF IInv, TypeOK
    <3>4. phase' \in [Conns -> {"off", "queued", "open"}]
      BY <1>8 DEF IInv, TypeOK
    <3>5. Opened' \subseteq Fds /\ sock_read' \subseteq {accept_sock} \cup Fds
      BY <1>2, <1>8, <2>4 DEF IInv, TypeOK
    <3> QED
      BY <1>1, <1>3, <1>4, <1>8, <3>1, <3>2, <3>3, <3>4, <3>5 DEF IInv, TypeOK
  <2>11. MarkedReadable'
    <3>1. SUFFICES ASSUME NEW i \in Used', NEW e \in Ends, row'[i][e] \in sock_read',
                          MoteOf(i)' \notin fresh'
                   PROVE  waiting[MoteOf(i)'][e] \/ shut[MoteOf(i)'][e]
      BY <1>8 DEF MarkedReadable
    <3>2. i \in Used
      BY <1>8, <2>3, <2>5, <3>1
    <3>3. row[i][e] \in sock_read
      <4>1. row[i][e] \in Opened /\ row'[i][e] = row[i][e]
        BY <2>6, <3>1, <3>2, UsedRow DEF IInv
      <4>2. row[i][e] # u /\ row[i][e] # k
        BY <1>2, <4>1
      <4> QED
        BY <1>8, <3>1, <4>1, <4>2
    <3>4. waiting[MoteOf(i)][e] \/ shut[MoteOf(i)][e]
      BY <1>1, <1>8, <2>6, <3>1, <3>2, <3>3 DEF IInv, MarkedReadable
    <3>5. MoteOf(i)' = MoteOf(i)
      BY <2>6, <3>2
    <3> QED
      BY <3>4, <3>5
  <2> QED
    BY <1>6, <2>7, <2>8, <2>9, <2>10, <2>11 DEF IInv
<1> QED
  BY <1>1, <1>7, <1>8

(* What an event does: nothing is marked, or one descriptor is read. *)
EventOf(i, e) ==
  /\ row[i][e] \in sock_read
  /\ Read_write(i, e)
  /\ sock_read' = sock_read \ {row[i][e]}

LEMMA EventCases ==
  ASSUME IInv, Event
  PROVE  /\ pc = "events" /\ nevents > 0 /\ nevents' = nevents - 1
         /\ UNCHANGED <<sock_max, fresh, connects>>
         /\ \/ pc' = "readd" /\ UNCHANGED <<outside, table, sock_read>>
            \/ \E i \in Used : \E e \in Ends : EventOf(i, e)
<1>1. CASE Marked = {}
  BY <1>1 DEF Event, Goto
<1>2. CASE Marked # {}
  <2> DEFINE i == Lowest(Marked)
  <2>1. i \in Marked
    <3>1. Marked \in SUBSET Nat
      BY PortFwdAssumption DEF Marked, Used, Rows
    <3> QED
      BY <1>2, <3>1, LowestIn
  <2>2. Read_write(i, End(i)) /\ sock_read' = sock_read \ {row[i][End(i)]}
    BY <1>2 DEF Event
  <2> HIDE DEF i
  <2>3. i \in Used /\ End(i) \in Ends /\ row[i][End(i)] \in sock_read
    BY <2>1, UsedRow DEF Marked, End, Ends, IInv
  <2>4. EventOf(i, End(i))
    BY <2>2, <2>3 DEF EventOf
  <2> QED
    BY <2>3, <2>4 DEF Event
<1> QED
  BY <1>1, <1>2

LEMMA OtherEnd == \A e \in Ends : Other(e) \in Ends /\ Other(e) # e
  BY DEF Ends, Other

(* Bytes are forwarded: the table stays, one descriptor is done with. *)
LEMMA ForwardStep ==
  ASSUME IInv, Event, NEW i \in Used, NEW e \in Ends,
         row[i][e] \in sock_read, sock_read' = sock_read \ {row[i][e]},
         waiting' = [waiting EXCEPT ![MoteOf(i)][e] = FALSE],
         UNCHANGED <<phase, shut, table>>, pc' = "events"
  PROVE  IInv'
<1>1. /\ pc = "events" /\ nevents > 0 /\ nevents' = nevents - 1
      /\ UNCHANGED <<sock_max, fresh, connects>>
  BY EventCases
<1>2. \A j \in Used : phase'[MoteOf(j)] = "open"
  BY UsedRow DEF IInv
<1>3. /\ Used' = Used /\ Opened' = Opened
      /\ \A j \in Used : MoteOf(j)' = MoteOf(j)
      /\ RowsPaired' /\ Covered' /\ OneRow' /\ len' = Cardinality(Used')
  BY <1>2, KeptTable
<1>4. waiting' \in [Conns -> [Ends -> BOOLEAN]]
  BY UsedRow, Flags DEF IInv, TypeOK
<1>5. nevents' \in 0..2 * MAX_CONN + 1
  BY <1>1, PortFwdAssumption DEF IInv, TypeOK
<1>6. TypeOK'
  BY <1>1, <1>3, <1>4, <1>5 DEF IInv, TypeOK, table
<1>7. Counted' /\ Watched'
  BY DEF Counted, Watched
<1>8. MarkedReadable'
  <2>1. SUFFICES ASSUME NEW j \in Used, NEW x \in Ends, row[j][x] \in sock_read',
                        MoteOf(j) \notin fresh
                 PROVE  waiting'[MoteOf(j)][x] \/ shut[MoteOf(j)][x]
    BY <1>1, <1>3 DEF MarkedReadable, table
  <2>2. waiting[MoteOf(j)][x] \/ shut[MoteOf(j)][x]
    BY <1>1, <2>1 DEF IInv, MarkedReadable
  <2>3. MoteOf(j) # MoteOf(i) \/ x # e
    BY <2>1 DEF IInv, OneRow
  <2>4. waiting'[MoteOf(j)][x] = waiting[MoteOf(j)][x]
    BY <2>3, UsedRow DEF IInv, TypeOK
  <2> QED
    BY <2>2, <2>4
<1> QED
  BY <1>3, <1>6, <1>7, <1>8 DEF IInv

(* A pair is closed: the other rows stay as they are. *)
LEMMA CloseStep ==
  ASSUME IInv, Event, NEW i \in Used, NEW e \in Ends,
         Del_sockindex(i), sock_read' = sock_read \ {row[i][e]}, pc' = "readd"
  PROVE  IInv'
<1>1. /\ pc = "events" /\ nevents > 0 /\ nevents' = nevents - 1
      /\ UNCHANGED <<sock_max, fresh, connects>>
  BY EventCases
<1>2. /\ i \in Rows /\ MoteOf(i) \in Conns /\ Over(MoteOf(i))
      /\ owner' = [f \in Opened \ FdsOf(i) |-> owner[f]]
      /\ row' = [row EXCEPT ![i] = EmptyRow] /\ len' = len - 1
  BY UsedRow DEF IInv, Del_sockindex
<1>3. /\ row'[i] = EmptyRow /\ \A j \in Rows \ {i} : row'[j] = row[j]
  BY <1>2 DEF IInv, TypeOK
<1>4. Used' = Used \ {i}
  BY <1>3 DEF Used, EmptyRow
<1>5. /\ Opened' = Opened \ FdsOf(i)
      /\ \A f \in Opened' : owner'[f] = owner[f]
  BY <1>2 DEF Opened
<1>6. ASSUME NEW j \in Used \ {i}
      PROVE  /\ FdsOf(j)' = FdsOf(j) /\ FdsOf(j) \subseteq Opened' /\ row'[j] = row[j]
             /\ MoteOf(j)' = MoteOf(j) /\ MoteOf(j) # MoteOf(i)
             /\ \A x \in Ends : owner'[row[j][x]] = owner[row[j][x]]
  <2>1. row'[j] = row[j] /\ "uart" \in Ends
    BY <1>3 DEF Used, Ends
  <2>2. FdsOf(j)' = FdsOf(j)
    BY <2>1 DEF FdsOf
  <2>3. FdsOf(j) \subseteq Opened'
    BY <1>5 DEF IInv, RowsPaired
  <2>4. \A x \in Ends : owner'[row[j][x]] = owner[row[j][x]]
    BY <1>5, <2>3 DEF FdsOf
  <2>5. MoteOf(j)' = MoteOf(j)
    BY <2>1, <2>4 DEF MoteOf
  <2>6. MoteOf(j) # MoteOf(i)
    BY DEF IInv, OneRow
  <2> QED
    BY <2>1, <2>2, <2>3, <2>4, <2>5, <2>6
<1>7. RowsPaired'
  <2>1. ASSUME NEW j \in Used'
        PROVE  /\ FdsOf(j)' \subseteq Opened'
               /\ \A x \in Ends : owner'[row'[j][x]] = <<MoteOf(j)', x>>
               /\ phase'[MoteOf(j)'] = "open"
    <3>1. j \in Used \ {i}
      BY <1>4
    <3>2. \A x \in Ends : owner[row[j][x]] = <<MoteOf(j), x>>
      BY <3>1, UsedRow DEF IInv
    <3>3. phase'[MoteOf(j)] = "open"
      <4>1. MoteOf(j) \in Conns \ {MoteOf(i)} /\ phase[MoteOf(j)] = "open"
        BY <1>6, <3>1, UsedRow DEF IInv
      <4> QED
        BY <1>2, <4>1, OverFacts DEF IInv
    <3> QED
      BY <1>6, <3>1, <3>2, <3>3
  <2>2. ASSUME NEW j \in Used', NEW k \in Used', FdsOf(j)' \cap FdsOf(k)' # {}
        PROVE  j = k
    BY <1>4, <1>6, <2>2 DEF IInv, RowsPaired
  <2> QED
    BY <2>1, <2>2 DEF RowsPaired
<1>8. Covered'
  <2>1. ASSUME NEW f \in Opened' PROVE \E j \in Used' : f \in FdsOf(j)'
    BY <1>4, <1>5, <1>6, <2>1 DEF IInv, Covered
  <2>2. \A j \in Used' : FdsOf(j)' \subseteq Opened'
    BY <1>4, <1>6
  <2> QED
    BY <2>1, <2>2 DEF Covered
<1>9. OneRow'
  BY <1>4, <1>6 DEF IInv, OneRow
<1>10. TypeOK'
  <2>1. len' = Cardinality(Used')
    BY <1>2, <1>4, RowsFinite, FS_RemoveElement DEF IInv, TypeOK
  <2>2. row' \in [Rows -> [Ends -> Fds \cup {NoFd}]]
    BY <1>2 DEF IInv, TypeOK, EmptyRow
  <2>3. nevents' \in 0..2 * MAX_CONN + 1
    BY <1>1, PortFwdAssumption DEF IInv, TypeOK
  <2>4. Opened' \subseteq Fds /\ \A f \in Opened' : owner'[f] \in Conns \X Ends
    BY <1>5 DEF IInv, TypeOK
  <2>5. sock_read' \subseteq {accept_sock} \cup Fds
    BY DEF IInv, TypeOK
  <2> QED
    BY <1>1, <1>2, <2>1, <2>2, <2>3, <2>4, <2>5, OverFacts DEF IInv, TypeOK
<1> QED
  BY <1>7, <1>8, <1>9, <1>10 DEF IInv, Counted, Watched, MarkedReadable

LEMMA EventStep ==
  ASSUME IInv, Event
  PROVE  IInv'
<1>1. CASE pc' = "readd" /\ UNCHANGED <<outside, table, sock_read>>
  <2>1. \A i \in Used : phase'[MoteOf(i)] = "open"
    BY <1>1, UsedRow DEF IInv, outside
  <2>2. RowsPaired' /\ Covered' /\ OneRow' /\ Opened' = Opened
        /\ len' = Cardinality(Used')
    BY <1>1, <2>1, KeptTable
  <2>3. nevents' \in 0..2 * MAX_CONN + 1
    BY EventCases, PortFwdAssumption DEF IInv, TypeOK
  <2>4. TypeOK'
    BY <1>1, <2>2, <2>3, EventCases DEF IInv, TypeOK, outside, table
  <2> QED
    BY <1>1, <2>2, <2>4 DEF IInv, Counted, Watched, MarkedReadable
<1>2. ASSUME NEW i \in Used, NEW e \in Ends, EventOf(i, e)
      PROVE  IInv'
  <2>1. owner[row[i][e]] = <<MoteOf(i), e>>
    BY UsedRow DEF IInv
  <2>2. \/ /\ waiting' = [waiting EXCEPT ![MoteOf(i)][e] = FALSE]
           /\ UNCHANGED <<phase, shut, table>> /\ pc' = "events"
        \/ Del_sockindex(i) /\ pc' = "readd"
    BY <1>2, <2>1 DEF EventOf, Read_write, Goto
  <2> QED
    BY <1>2, <2>2, ForwardStep, CloseStep DEF EventOf
<1> QED
  BY <1>1, <1>2, EventCases

LEMMA ReaddStep ==
  ASSUME IInv, Readd
  PROVE  IInv'
<1>1. /\ sock_read' = {accept_sock} \cup Opened /\ sock_max' = Max({accept_sock} \cup Opened)
      /\ pc' = "select" /\ UNCHANGED <<outside, table, nevents, fresh, connects>>
  BY DEF Readd, Goto, IInv, Covered
<1>2. /\ sock_max' \in {accept_sock} \cup Opened
      /\ \A f \in {accept_sock} \cup Opened : f <= sock_max'
  <2>1. {accept_sock} \cup Opened \in SUBSET (0..2 * (MAX_CONN + 1))
    BY PortFwdAssumption DEF IInv, TypeOK, Fds, accept_sock
  <2>2. 2 * (MAX_CONN + 1) \in Nat
    BY PortFwdAssumption
  <2> QED
    BY <1>1, <2>1, <2>2, MaxIn
<1>3. \A i \in Used : phase'[MoteOf(i)] = "open"
  BY <1>1, UsedRow DEF IInv, outside
<1>4. /\ RowsPaired' /\ Covered' /\ OneRow' /\ Opened' = Opened
      /\ len' = Cardinality(Used')
  BY <1>1, <1>3, KeptTable
<1>5. TypeOK'
  BY <1>1, <1>2, <1>4 DEF IInv, TypeOK, outside, table
<1>6. Watched'
  BY <1>1, <1>2, <1>4 DEF Watched
<1> QED
  BY <1>1, <1>4, <1>5, <1>6 DEF IInv, Counted, MarkedReadable

LEMMA StutterStep ==
  ASSUME IInv, UNCHANGED vars
  PROVE  IInv'
<1>1. UNCHANGED <<phase, waiting, shut, owner, row, len, sock_read, sock_max, nevents,
                 pc, fresh, connects>>
  BY DEF vars, outside, table, loop
<1>2. Opened' = Opened /\ Used' = Used
  BY <1>1 DEF Used, Opened
<1>3. (\A i : FdsOf(i)' = FdsOf(i)) /\ \A i : MoteOf(i)' = MoteOf(i)
  BY <1>1 DEF FdsOf, MoteOf
<1>4. TypeOK'
  BY <1>1, <1>2 DEF IInv, TypeOK
<1>5. RowsPaired' /\ Covered' /\ OneRow'
  BY <1>1, <1>2, <1>3 DEF IInv, RowsPaired, Covered, OneRow
<1>6. Counted' /\ Watched'
  BY <1>1, <1>2 DEF IInv, Counted, Watched
<1>7. MarkedReadable'
  BY <1>1, <1>2, <1>3 DEF IInv, MarkedReadable
<1> QED
  BY <1>4, <1>5, <1>6, <1>7 DEF IInv

LEMMA NextInv == IInv /\ [Next]_vars => IInv'
<1> SUFFICES ASSUME IInv, [Next]_vars PROVE IInv'
  OBVIOUS
<1>1. CASE \E c \in Conns : Connect(c) \/ \E e \in Ends : Send(c, e) \/ Shut(c, e)
  BY <1>1, OutsideStep
<1>2. CASE Select
  BY <1>2, SelectStep
<1>3. CASE Accept_connect
  BY <1>3, AcceptStep
<1>4. CASE Event
  BY <1>4, EventStep
<1>5. CASE Readd
  BY <1>5, ReaddStep
<1>6. CASE UNCHANGED vars
  BY <1>6, StutterStep
<1> QED
  BY <1>1, <1>2, <1>3, <1>4, <1>5, <1>6 DEF Next, MainLoop

THEOREM Invariant == Spec => []IInv
  BY InitInv, NextInv, PTL DEF Spec

-----------------------------------------------------------------------------
(* Every variable has its type for any number of rows: nevents never goes    *)
(* below 0, sock_pair.len counts the rows in use, numbers never run out.     *)
THEOREM TypeCorrect == Spec => []TypeOK
<1>1. IInv => TypeOK
  BY DEF IInv
<1> QED
  BY <1>1, Invariant, PTL

(* However many motes connect and however numbers are reused, a row pairs    *)
(* the two ends of one mote.                                                 *)
THEOREM RowsPairedHolds == Spec => []RowsPaired
<1>1. IInv => RowsPaired
  BY DEF IInv
<1> QED
  BY <1>1, Invariant, PTL

(* Before each select every open descriptor is in a row and watched.         *)
THEOREM WatchesAllHolds == Spec => []WatchesAll
<1>1. IInv => WatchesAll
  BY DEF IInv, WatchesAll, Covered, Watched
<1> QED
  BY <1>1, Invariant, PTL

(* A connection is closed only when one of its ends has closed, or when it   *)
(* was accepted since the last select.                                       *)
THEOREM ClosedForACauseHolds == Spec => ClosedForACause
<1> DEFINE Cause(c) == phase[c] = "open" /\ phase'[c] # "open"
                         => shut[c]["uart"] \/ shut[c]["client"] \/ c \in fresh
<1>1. ASSUME IInv, [Next]_vars, NEW c \in Conns PROVE Cause(c)
  <2>1. CASE UNCHANGED phase
    BY <2>1
  <2>2. ASSUME NEW d \in Conns, Connect(d) PROVE Cause(c)
    BY <2>2 DEF Connect, IInv, TypeOK
  <2>3. CASE Accept_connect
    <3>1. PICK d \in Conns : /\ phase[d] = "queued"
                            /\ \/ phase' = [phase EXCEPT ![d] = "open"]
                               \/ phase' = [phase EXCEPT ![d] = "off"]
      BY <2>3 DEF Accept_connect, Reject, Over
    <3>2. c # d => phase'[c] = phase[c]
      BY <1>1, <3>1 DEF IInv, TypeOK
    <3> QED
      BY <3>1, <3>2
  <2>4. CASE Event
    <3>1. SUFFICES ASSUME NEW i \in Used, NEW e \in Ends, EventOf(i, e),
                          phase[c] = "open", phase'[c] # "open"
                   PROVE  shut[c]["uart"] \/ shut[c]["client"] \/ c \in fresh
      BY <1>1, <2>4, EventCases DEF outside
    <3>2. /\ owner[row[i][e]] = <<MoteOf(i), e>> /\ MoteOf(i) \in Conns
          /\ owner[row[i][Other(e)]] = <<MoteOf(i), Other(e)>>
      BY <1>1, UsedRow, OtherEnd DEF IInv
    <3>3. /\ Del_sockindex(i)
          /\ waiting[MoteOf(i)][e] => shut[MoteOf(i)][Other(e)]
      BY <3>1, <3>2 DEF EventOf, Read_write
    <3>4. c = MoteOf(i)
      BY <3>1, <3>2, <3>3 DEF Del_sockindex, Over
    <3>5. waiting[c][e] \/ shut[c][e] \/ c \in fresh
      BY <1>1, <2>4, <3>1, <3>4, EventCases DEF IInv, MarkedReadable, EventOf
    <3>6. shut[c][Other(e)] \/ shut[c][e] \/ c \in fresh
      BY <3>3, <3>4, <3>5
    <3>7. e \in {"uart", "client"} /\ Other(e) \in {"uart", "client"}
      BY OtherEnd DEF Ends
    <3> QED
      BY <3>6, <3>7
  <2> QED
    BY <1>1, <2>1, <2>2, <2>3, <2>4
      DEF Next, MainLoop, Send, Shut, Select, Readd, vars, outside
<1>2. IInv /\ [Next]_vars
        => [\A c \in Conns :
              phase[c] = "open" /\ phase'[c] # "open"
                => shut[c]["uart"] \/ shut[c]["client"] \/ c \in fresh]_vars
  BY <1>1
<1> QED
  BY <1>2, Invariant, PTL DEF Spec, ClosedForACause
=============================================================================
