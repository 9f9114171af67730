--------------------------- MODULE RfsJoin_proofs ---------------------------
(***************************************************************************)
(* Theorems about RfsJoin, for every number of hosts, files and rows: the  *)
(* tables never outgrow server_list, and joins made one at a time leave    *)
(* every server with the same, true tables.                                *)
(***************************************************************************)
EXTENDS RfsJoin, FiniteSetTheorems, TLAPS

-----------------------------------------------------------------------------
(* The inductive invariant                                                 *)

\* Started, and not yet in a table it can tell to others; or in no index.
Unnamed == {h \in Hosts : pc[h] = "wSt" \/ (pc[h] = "input" /\ st[h] = <<>>)}
Unfilled == Unnamed \cup {h \in Hosts : pc[h] = "wFt"}

StTables == {st[x] : x \in Hosts} \cup {hand[x[1]][x[2]].st : x \in Hosts \X Lives}
FtTables == {ft[x] : x \in Hosts} \cup {hand[x[1]][x[2]].ft : x \in Hosts \X Lives}

\* The table T has room for the hosts of U, n starts having been made.
Fits(T, U, s, n) ==
  /\ \A g \in Hosts : Occurrences(T, g) + (IF g \in U THEN 1 ELSE 0) <= s[g]
  /\ Len(T) + Cardinality(U) <= n
FtFits(F, U, n) == \A f \in Files : Len(F[f]) + Cardinality(U) <= n

Room ==
  /\ \A T \in StTables : Fits(T, Unnamed, starts, Started)
  /\ \A F \in FtTables : FtFits(F, Unfilled, Started)

\* What the main thread knows where it is.
MainThread ==
  /\ Started <= MAX_STARTS
  /\ \A h \in Hosts :
       /\ starts[h] <= Started
       /\ pc[h] # "off" => starts[h] >= 1
       /\ pc[h] \in Joining \ {"input"} => todo[h] # <<>>
       /\ pc[h] = "wSt" => st[h] = <<>>
       /\ pc[h] = "wFt" => h \in ToSet(st[h])
       /\ pc[h] \in {"wSetSt", "wSetFt"} => st[h] # <<>>

-----------------------------------------------------------------------------
(* Sequences                                                               *)

\* The occurrences of a host: none in an empty table, one more after an
\* append of it, no more in a prefix.
LEMMA OccursType ==
  ASSUME NEW T \in Seq(Hosts), NEW g \in Hosts
  PROVE  /\ IsFiniteSet({i \in 1 .. Len(T) : T[i] = g})
         /\ Occurrences(T, g) \in Nat
<1>1. IsFiniteSet(1 .. Len(T))
  BY FS_Interval
<1>2. {i \in 1 .. Len(T) : T[i] = g} \subseteq 1 .. Len(T)
  OBVIOUS
<1>3. IsFiniteSet({i \in 1 .. Len(T) : T[i] = g})
  BY <1>1, <1>2, FS_Subset
<1> QED
  BY <1>3, FS_CardinalityType DEF Occurrences

LEMMA OccursNone ==
  ASSUME NEW g
  PROVE  Occurrences(<<>>, g) = 0
<1>1. {i \in 1 .. Len(<<>>) : <<>>[i] = g} = {}
  OBVIOUS
<1> QED
  BY <1>1, FS_EmptySet DEF Occurrences

LEMMA OccursAppend ==
  ASSUME NEW T \in Seq(Hosts), NEW h \in Hosts, NEW g \in Hosts
  PROVE  Occurrences(Append(T, h), g) = Occurrences(T, g) + (IF g = h THEN 1 ELSE 0)
<1> DEFINE I == {i \in 1 .. Len(T) : T[i] = g}
<1>1. PICK n \in Nat : n = Len(T)
  OBVIOUS
<1>2. PICK A : A = Append(T, h)
  OBVIOUS
<1>3. A \in Seq(Hosts) /\ Len(A) = n + 1 /\ A[n + 1] = h /\ \A i \in 1 .. n : A[i] = T[i]
  BY <1>1, <1>2
<1>4. IsFiniteSet(I) /\ Cardinality(I) \in Nat /\ Occurrences(T, g) = Cardinality(I)
  BY OccursType, FS_CardinalityType DEF Occurrences
<1>5. PICK J : J = {i \in 1 .. Len(A) : A[i] = g}
  OBVIOUS
<1>6. Occurrences(A, g) = Cardinality(J)
  BY <1>5 DEF Occurrences
<1>7. CASE g = h
  <2>1. J = I \cup {n + 1} /\ (n + 1) \notin I
    BY <1>1, <1>3, <1>5, <1>7
  <2>2. Cardinality(I \cup {n + 1}) = Cardinality(I) + 1
    <3> HIDE DEF I
    <3> QED BY <1>4, <2>1, FS_AddElement
  <2> QED BY <1>2, <1>4, <1>6, <1>7, <2>1, <2>2
<1>8. CASE g # h
  <2>1. J = I
    BY <1>1, <1>3, <1>5, <1>8
  <2> QED BY <1>2, <1>4, <1>6, <1>8, <2>1
<1> QED
  BY <1>7, <1>8

LEMMA OccursPrefix ==
  ASSUME NEW T \in Seq(Hosts), NEW n \in 0 .. Len(T), NEW g \in Hosts
  PROVE  /\ SubSeq(T, 1, n) \in Seq(Hosts) /\ Len(SubSeq(T, 1, n)) = n
         /\ Occurrences(SubSeq(T, 1, n), g) <= Occurrences(T, g)
<1>1. PICK A : A = SubSeq(T, 1, n)
  OBVIOUS
<1>2. A \in Seq(Hosts) /\ Len(A) = n /\ \A i \in 1 .. n : A[i] = T[i]
  BY <1>1
<1>3. PICK I : I = {i \in 1 .. Len(T) : T[i] = g}
  OBVIOUS
<1>4. PICK J : J = {i \in 1 .. Len(A) : A[i] = g}
  OBVIOUS
<1>5. J \subseteq I
  BY <1>2, <1>3, <1>4
<1>6. Cardinality(J) <= Cardinality(I)
  BY <1>3, <1>5, OccursType, FS_Subset
<1> QED
  BY <1>1, <1>2, <1>3, <1>4, <1>6 DEF Occurrences

\* get_this_host_idx finds a row of the host, if there is one, and the first.
LEMMA FirstRow ==
  ASSUME NEW T \in Seq(Hosts), NEW h \in ToSet(T)
  PROVE  LET i == SelectInSeq(T, LAMBDA g : g = h) IN
         i \in 1 .. Len(T) /\ T[i] = h
<1> DEFINE I == {i \in 1 .. Len(T) : T[i] = h}
<1>1. I # {} /\ I \in SUBSET Nat
  BY DEF ToSet
<1>2. SelectInSeq(T, LAMBDA g : g = h) = Min(I)
  BY <1>1 DEF SelectInSeq
<1>3. PICK m \in I : \A k \in I : ~ (<<k, m>> \in OpToRel(<, Nat))
  <2> HIDE DEF I
  <2> QED BY <1>1, NatLessThanWellFounded, WFMin
<1>4. \A k \in I : m <= k
  <2>1. \A x, y \in Nat : y < x => <<y, x>> \in OpToRel(<, Nat)
    BY DEF OpToRel
  <2>2. \A k \in I : ~ (k < m)
    <3> HIDE DEF I
    <3> QED BY <1>1, <1>3, <2>1, Zenon
  <2> QED BY <2>2
<1>5. Min(I) \in I
  <2> HIDE DEF I
  <2>1. \E x \in I : \A y \in I : x <= y
    BY <1>4
  <2> QED BY <2>1 DEF Min
<1> QED
  BY <1>2, <1>5

\* ToSet of an append.
LEMMA AppendedSet ==
  ASSUME NEW S, NEW T \in Seq(S), NEW h \in S
  PROVE  ToSet(Append(T, h)) = ToSet(T) \cup {h}
<1>1. PICK A : A = Append(T, h)
  OBVIOUS
<1>2. PICK n \in Nat : n = Len(T)
  OBVIOUS
<1>3. A \in Seq(S) /\ Len(A) = n + 1 /\ A[n + 1] = h /\ \A i \in 1 .. n : A[i] = T[i]
  BY <1>1, <1>2
<1>4. DOMAIN A = 1 .. n + 1 /\ DOMAIN T = 1 .. n
  BY <1>2, <1>3
<1>5. {A[i] : i \in DOMAIN A} = {T[i] : i \in DOMAIN T} \cup {h}
  BY <1>3, <1>4
<1> QED
  BY <1>1, <1>5 DEF ToSet

-----------------------------------------------------------------------------
(* Steps                                                                   *)

HandType == [pc : Phases, n : Nat, st : Seq(Hosts), ft : Tables]

\* TypeOK without the bound on the rows, which Room gives.
Types ==
  /\ starts \in [Hosts -> 0 .. MAX_STARTS]
  /\ pc \in [Hosts -> Pcs]
  /\ todo \in [Hosts -> Seq(Hosts)]
  /\ st \in [Hosts -> Seq(Hosts)]
  /\ ft \in [Hosts -> Tables]
  /\ hand \in [Hosts -> [Lives -> HandType]]
  /\ stuck \in [Hosts -> SUBSET {"s_lock", "f_lock"}]
  /\ careful \in BOOLEAN

JoinInv == TypeOK /\ Room /\ MainThread

\* Every table after the step was there before, or is empty.
TablesStay ==
  /\ \A x \in Hosts : st'[x] \in StTables \cup {<<>>} /\ ft'[x] \in FtTables \cup {NoFiles}
  /\ \A x \in Hosts, y \in Lives : /\ hand'[x][y].st \in StTables \cup {<<>>}
                                   /\ hand'[x][y].ft \in FtTables \cup {NoFiles}

\* No host is started, and none starts over.
NobodyNew ==
  /\ starts' = starts
  /\ \A x \in Hosts : /\ x \in Unnamed' => x \in Unnamed
                      /\ x \in Unfilled' => x \in Unfilled

LEMMA EmptyTypes ==
  /\ NoFiles \in Tables /\ <<>> \in Seq(Hosts)
  /\ \A p \in Phases : Phase(p) \in HandType /\ Phase(p).pc = p
                       /\ Phase(p).st = <<>> /\ Phase(p).ft = NoFiles /\ Phase(p).n = 0
  /\ NoThread = Phase("none") /\ "none" \in Phases
<1>1. NoFiles \in Tables
  BY DEF NoFiles, Tables
<1> QED
  BY <1>1 DEF Phase, NoThread, HandType, Phases

\* The tables of the variables are among the tables.
LEMMA OwnTables ==
  /\ \A x \in Hosts : st[x] \in StTables /\ ft[x] \in FtTables
  /\ \A x \in Hosts, y \in Lives : hand[x][y].st \in StTables /\ hand[x][y].ft \in FtTables
<1>1. ASSUME NEW x \in Hosts, NEW y \in Lives
      PROVE  hand[x][y].st \in StTables /\ hand[x][y].ft \in FtTables
  <2>1. <<x, y>> \in Hosts \X Lives /\ <<x, y>>[1] = x /\ <<x, y>>[2] = y
    OBVIOUS
  <2> QED BY <2>1 DEF StTables, FtTables
<1> QED
  BY <1>1 DEF StTables, FtTables

\* A step that stores r in one thread.
LEMMA ThreadStep ==
  ASSUME Types, NEW s \in Hosts, NEW c \in Lives, NEW r \in HandType, Thread(s, c, r)
  PROVE  /\ hand' \in [Hosts -> [Lives -> HandType]]
         /\ hand'[s][c] = r
         /\ \A x \in Hosts, y \in Lives : x # s \/ y # c => hand'[x][y] = hand[x][y]
         /\ r.st \in StTables \cup {<<>>} =>
              \A x \in Hosts, y \in Lives : hand'[x][y].st \in StTables \cup {<<>>}
         /\ r.ft \in FtTables \cup {NoFiles} =>
              \A x \in Hosts, y \in Lives : hand'[x][y].ft \in FtTables \cup {NoFiles}
<1>1. hand \in [Hosts -> [Lives -> HandType]]
  BY DEF Types
<1>2. hand' = [hand EXCEPT ![s] = [hand[s] EXCEPT ![c] = r]]
  BY DEF Thread
<1>3. hand' \in [Hosts -> [Lives -> HandType]]
  BY <1>1, <1>2
<1>4. hand'[s][c] = r
  BY <1>1, <1>2
<1>5. \A x \in Hosts, y \in Lives : x # s \/ y # c => hand'[x][y] = hand[x][y]
  BY <1>1, <1>2
<1> QED
  BY <1>3, <1>4, <1>5, OwnTables

\* A host that serves has its place on its own list of threads.
LEMMA CallerTypes ==
  ASSUME JoinInv, NEW h \in Hosts
  PROVE  /\ pc[h] # "off" => Life(h) \in Lives
         /\ pc[h] \in Joining \ {"input"} => Peer(h) \in Hosts
         /\ todo[h] # <<>> => Peer(h) \in Hosts /\ Tail(todo[h]) \in Seq(Hosts)
<1>1. starts[h] \in 0 .. MAX_STARTS /\ todo[h] \in Seq(Hosts)
  BY DEF JoinInv, TypeOK
<1>2. pc[h] # "off" => Life(h) \in Lives
  BY <1>1 DEF JoinInv, MainThread, Life, Lives
<1>3. todo[h] # <<>> => Peer(h) \in Hosts /\ Tail(todo[h]) \in Seq(Hosts)
  BY <1>1 DEF Peer
<1> QED
  BY <1>2, <1>3 DEF JoinInv, MainThread

LEMMA TypesOf ==
  ASSUME JoinInv
  PROVE  Types
BY DEF JoinInv, TypeOK, Types, HandType

\* Sets of hosts, and the starts, can be counted.
LEMMA Counts ==
  ASSUME Types
  PROVE  /\ Started \in Nat
         /\ IsFiniteSet({c \in Lives : c[2] <= starts[c[1]]})
         /\ \A U \in SUBSET Hosts : IsFiniteSet(U) /\ Cardinality(U) \in Nat
         /\ Unnamed \in SUBSET Hosts /\ Unfilled \in SUBSET Hosts
         /\ \A T \in StTables : T \in Seq(Hosts)
         /\ \A F \in FtTables : F \in Tables
<1>1. IsFiniteSet(Hosts) /\ MAX_STARTS \in Nat
  BY RfsJoinAssumption
<1>2. IsFiniteSet(1 .. MAX_STARTS)
  BY <1>1, FS_Interval
<1>3. IsFiniteSet(Lives)
  BY <1>1, <1>2, FS_Product DEF Lives
<1>4. {c \in Lives : c[2] <= starts[c[1]]} \subseteq Lives
  OBVIOUS
<1>5. IsFiniteSet({c \in Lives : c[2] <= starts[c[1]]})
  BY <1>3, <1>4, FS_Subset
<1>6. \A U \in SUBSET Hosts : IsFiniteSet(U) /\ Cardinality(U) \in Nat
  BY <1>1, FS_Subset, FS_CardinalityType
<1>7. \A T \in StTables : T \in Seq(Hosts)
  BY DEF StTables, Types, HandType
<1>8. \A F \in FtTables : F \in Tables
  BY DEF FtTables, Types, HandType
<1>9. Started \in Nat
  BY <1>5, FS_CardinalityType DEF Started
<1>10. Unnamed \in SUBSET Hosts /\ Unfilled \in SUBSET Hosts
  BY DEF Unnamed, Unfilled
<1> QED
  BY <1>5, <1>6, <1>7, <1>8, <1>9, <1>10

LEMMA HostSets ==
  ASSUME NEW U \in SUBSET Hosts
  PROVE  IsFiniteSet(U) /\ Cardinality(U) \in Nat
BY RfsJoinAssumption, FS_Subset, FS_CardinalityType

LEMMA StartsType ==
  ASSUME Types
  PROVE  starts \in [Hosts -> Nat] /\ MAX_STARTS \in Nat
BY RfsJoinAssumption DEF Types

\* Fewer hosts, or an empty table, need less room.
LEMMA FitsLess ==
  ASSUME NEW T \in Seq(Hosts), NEW U \in SUBSET Hosts, NEW V \in SUBSET U,
         NEW n \in Nat, NEW s \in [Hosts -> Nat], Fits(T, U, s, n)
  PROVE  Fits(T, V, s, n) /\ Fits(<<>>, V, s, n)
<1>1. Cardinality(V) <= Cardinality(U) /\ Cardinality(V) \in Nat /\ Cardinality(U) \in Nat
  BY HostSets, FS_Subset
<1>2. Len(T) \in Nat /\ Len(<<>>) = 0
  OBVIOUS
<1>3. ASSUME NEW g \in Hosts
      PROVE  /\ Occurrences(T, g) + (IF g \in V THEN 1 ELSE 0) <= s[g]
             /\ Occurrences(<<>>, g) + (IF g \in V THEN 1 ELSE 0) <= s[g]
  <2>1. Occurrences(T, g) \in Nat /\ Occurrences(<<>>, g) = 0 /\ s[g] \in Nat
    BY OccursType, OccursNone
  <2>2. Occurrences(T, g) + (IF g \in U THEN 1 ELSE 0) <= s[g]
    BY DEF Fits
  <2>3. g \in V => g \in U
    OBVIOUS
  <2> QED BY <2>1, <2>2, <2>3
<1>4. Len(T) + Cardinality(U) <= n
  BY DEF Fits
<1>5. Len(T) + Cardinality(V) <= n /\ Len(<<>>) + Cardinality(V) <= n
  BY <1>1, <1>2, <1>4
<1> QED
  BY <1>3, <1>5 DEF Fits

LEMMA FtFitsLess ==
  ASSUME NEW F \in Tables, NEW U \in SUBSET Hosts, NEW V \in SUBSET U,
         NEW n \in Nat, FtFits(F, U, n)
  PROVE  FtFits(F, V, n) /\ FtFits(NoFiles, V, n)
<1>1. Cardinality(V) <= Cardinality(U) /\ Cardinality(V) \in Nat /\ Cardinality(U) \in Nat
  BY HostSets, FS_Subset
<1>2. ASSUME NEW f \in Files
      PROVE  Len(F[f]) + Cardinality(V) <= n /\ Len(NoFiles[f]) + Cardinality(V) <= n
  <2>1. Len(F[f]) \in Nat /\ Len(NoFiles[f]) = 0
    BY DEF Tables, NoFiles
  <2>2. Len(F[f]) + Cardinality(U) <= n
    BY DEF FtFits
  <2> QED BY <1>1, <2>1, <2>2
<1> QED
  BY <1>2 DEF FtFits

\* The tables after the step.
LEMMA TablesAfter ==
  ASSUME NEW A, NEW B,
         \A x \in Hosts : st'[x] \in A /\ ft'[x] \in B,
         \A x \in Hosts, y \in Lives : hand'[x][y].st \in A /\ hand'[x][y].ft \in B
  PROVE  StTables' \subseteq A /\ FtTables' \subseteq B
<1>1. \A x \in Hosts \X Lives : hand'[x[1]][x[2]].st \in A /\ hand'[x[1]][x[2]].ft \in B
  OBVIOUS
<1> QED
  BY <1>1 DEF StTables, FtTables

\* There is room after a step that stores tables that are there, and perhaps
\* T and F, which fit.
LEMMA RoomKept ==
  ASSUME JoinInv, NobodyNew, NEW T0, NEW F0,
         StTables' \subseteq StTables \cup {<<>>, T0},
         FtTables' \subseteq FtTables \cup {NoFiles, F0},
         T0 = <<>> \/ Fits(T0, Unnamed', starts, Started),
         F0 = NoFiles \/ FtFits(F0, Unfilled', Started)
  PROVE  Room'
<1> Types
  BY TypesOf
<1>1. PICK A : A = StTables \cup {<<>>, T0}
  OBVIOUS
<1>2. PICK B : B = FtTables \cup {NoFiles, F0}
  OBVIOUS
<1>3. StTables' \subseteq A /\ FtTables' \subseteq B
  BY <1>1, <1>2
<1>4. PICK n \in Nat : n = Started
  BY Counts
<1>5. Started' = n /\ starts' = starts
  BY <1>4 DEF NobodyNew, Started
<1>6. PICK U \in SUBSET Hosts : U = Unnamed
  BY Counts
<1>7. PICK V \in SUBSET U : V = Unnamed'
  BY <1>6 DEF NobodyNew, Unnamed
<1>8. PICK M \in SUBSET Hosts : M = Unfilled
  BY Counts
<1>9. PICK N \in SUBSET M : N = Unfilled'
  BY <1>8 DEF NobodyNew, Unfilled, Unnamed
<1>10. ASSUME NEW T \in A
       PROVE  Fits(T, V, starts, n)
  <2>1. CASE T \in StTables
    <3>1. T \in Seq(Hosts) /\ Fits(T, U, starts, n)
      BY <1>4, <1>6, <2>1, Counts DEF JoinInv, Room
    <3> QED BY <3>1, StartsType, FitsLess
  <2>2. CASE T = <<>>
    <3>1. SUFFICES ASSUME Hosts # {} PROVE Fits(T, V, starts, n)
      <4>1. CASE Hosts = {}
        <5>1. V = {} /\ Cardinality(V) = 0
          BY <4>1, FS_EmptySet
        <5>2. Len(T) = 0
          BY <2>2
        <5>3. \A g \in Hosts : FALSE
          BY <4>1
        <5> QED BY <5>1, <5>2, <5>3 DEF Fits
      <4> QED BY <4>1, <3>1
    <3>2. PICK h \in Hosts : TRUE
      BY <3>1
    <3>3. st[h] \in StTables
      BY OwnTables
    <3>4. st[h] \in Seq(Hosts) /\ Fits(st[h], U, starts, n)
      BY <1>4, <1>6, <3>3, Counts DEF JoinInv, Room
    <3> QED BY <2>2, <3>4, StartsType, FitsLess
  <2>3. CASE T = T0 /\ T0 # <<>>
    BY <1>4, <1>7, <2>3
  <2> QED BY <1>1, <2>1, <2>2, <2>3
<1>11. ASSUME NEW F \in B
       PROVE  FtFits(F, N, n)
  <2>1. CASE F \in FtTables
    <3>1. F \in Tables /\ FtFits(F, M, n)
      BY <1>4, <1>8, <2>1, Counts DEF JoinInv, Room
    <3> QED BY <3>1, FtFitsLess
  <2>2. CASE F = NoFiles
    <3>1. SUFFICES ASSUME Hosts # {} PROVE FtFits(F, N, n)
      <4>1. CASE Hosts = {}
        <5>1. N = {} /\ Cardinality(N) = 0
          BY <4>1, FS_EmptySet
        <5>2. \A f \in Files : Len(F[f]) = 0
          BY <2>2 DEF NoFiles
        <5> QED BY <5>1, <5>2 DEF FtFits
      <4> QED BY <4>1, <3>1
    <3>2. PICK h \in Hosts : TRUE
      BY <3>1
    <3>3. ft[h] \in FtTables
      BY OwnTables
    <3>4. ft[h] \in Tables /\ FtFits(ft[h], M, n)
      BY <1>4, <1>8, <3>3, Counts DEF JoinInv, Room
    <3> QED BY <2>2, <3>4, FtFitsLess
  <2>3. CASE F = F0 /\ F0 # NoFiles
    BY <1>4, <1>9, <2>3
  <2> QED BY <1>2, <2>1, <2>2, <2>3
<1> QED
  BY <1>3, <1>5, <1>7, <1>9, <1>10, <1>11 DEF Room

LEMMA StayKeepsRoom ==
  ASSUME JoinInv, TablesStay, NobodyNew
  PROVE  Room'
<1>1. PICK A : A = StTables \cup {<<>>}
  OBVIOUS
<1>2. PICK B : B = FtTables \cup {NoFiles}
  OBVIOUS
<1>3. StTables' \subseteq A /\ FtTables' \subseteq B
  <2>1. \A x \in Hosts : st'[x] \in A /\ ft'[x] \in B
    BY <1>1, <1>2 DEF TablesStay
  <2>2. \A x \in Hosts, y \in Lives : hand'[x][y].st \in A /\ hand'[x][y].ft \in B
    BY <1>1, <1>2 DEF TablesStay
  <2> QED BY <2>1, <2>2, TablesAfter
<1>4. StTables' \subseteq StTables \cup {<<>>, <<>>} /\ FtTables' \subseteq FtTables \cup {NoFiles, NoFiles}
  BY <1>1, <1>2, <1>3
<1> QED
  BY <1>4, RoomKept

\* A step that stores tables that are there and starts nobody.
Plain == Types' /\ MainThread' /\ TablesStay /\ NobodyNew

\* The threads of the connections.
LEMMA ServePlain ==
  ASSUME JoinInv, NEW s \in Hosts, NEW c \in Lives,
         \/ Serve(s, c) \/ Keeps(s, c)
         \/ Hangup(s, c) /\ ~ Dies(s)
  PROVE  Plain
<1> Types
  BY TypesOf
<1>1. PICK q \in HandType : q = hand[s][c]
  BY DEF Types
<1>2. q.st \in StTables /\ q.ft \in FtTables
  BY <1>1, OwnTables
<1> DEFINE Effect ==
      /\ pc[s] = "up" /\ starts' = starts /\ pc' = pc /\ todo' = todo /\ careful' = careful
      /\ stuck' \in [Hosts -> SUBSET {"s_lock", "f_lock"}]
      /\ \/ st' = st
         \/ st' = [st EXCEPT ![s] = q.st]
      /\ \/ ft' = ft
         \/ ft' = [ft EXCEPT ![s] = q.ft]
      /\ \E r \in HandType : /\ Thread(s, c, r)
                             /\ r.st \in StTables \cup {<<>>} /\ r.ft \in FtTables \cup {NoFiles}
<1>3. Effect
  <2>0. /\ NoThread \in HandType
         /\ NoThread.st \in StTables \cup {<<>>} /\ NoThread.ft \in FtTables \cup {NoFiles}
    BY EmptyTypes
  <2>1. CASE Ack_get_st(s, c)
    <3>1. Len(st[s]) \in Nat
      BY DEF Types
    <3>2. PICK r : r = [Phase("ST_LOCK") EXCEPT !.n = Len(st[s])]
      OBVIOUS
    <3>3. r \in HandType /\ r.st = <<>> /\ r.ft = NoFiles
      BY <3>1, <3>2, EmptyTypes DEF Phase, HandType, Phases
    <3> QED BY <2>1, <3>2, <3>3, EmptyTypes, OwnTables DEF Is, Types, Ack_get_st
  <2>2. CASE Get_st(s, c)
    <3>1. PICK r : r = [q EXCEPT !.pc = "ST_SENT", !.st = st[s]]
      OBVIOUS
    <3>2. r \in HandType /\ r.st = st[s] /\ r.ft = q.ft
      BY <3>1, EmptyTypes, OwnTables DEF HandType, Phases, Types
    <3> QED BY <1>1, <1>2, <2>2, <3>1, <3>2, EmptyTypes, OwnTables DEF Is, Types, Get_st
  <2>3. CASE Ack_get_ft(s, c)
    <3>1. Total_files(ft[s]) \in Nat
      <4>1. {f \in Files : ft[s][f] # <<>>} \subseteq Files /\ IsFiniteSet(Files)
        BY RfsJoinAssumption
      <4>2. IsFiniteSet({f \in Files : ft[s][f] # <<>>})
        BY <4>1, FS_Subset
      <4> QED BY <4>2, FS_CardinalityType DEF Total_files
    <3>2. PICK r : r = [Phase("FT_LOCK") EXCEPT !.n = Total_files(ft[s])]
      OBVIOUS
    <3>3. r \in HandType /\ r.st = <<>> /\ r.ft = NoFiles
      BY <3>1, <3>2, EmptyTypes DEF Phase, HandType, Phases
    <3> QED BY <2>3, <3>2, <3>3, EmptyTypes, OwnTables DEF Is, Types, Ack_get_ft
  <2>4. CASE Get_ft(s, c)
    <3>1. PICK r : r = [q EXCEPT !.pc = "FT_SENT", !.ft = ft[s]]
      OBVIOUS
    <3>2. r \in HandType /\ r.st = q.st /\ r.ft = ft[s]
      BY <3>1, EmptyTypes, OwnTables DEF HandType, Phases, Types
    <3> QED BY <1>1, <1>2, <2>4, <3>1, <3>2, EmptyTypes, OwnTables DEF Is, Types, Get_ft
  <2>5. CASE Ack_set(s, c)
    BY <2>5, EmptyTypes, OwnTables DEF Is, Types, Ack_set, Phases
  <2>6. CASE Set_st(s, c)
    BY <1>1, <2>6, EmptyTypes, OwnTables DEF Is, Types, Set_st, Phases
  <2>7. CASE Set_ft(s, c)
    BY <1>1, <2>7, EmptyTypes, OwnTables DEF Is, Types, Set_ft, Phases
  <2>8. CASE Keeps(s, c)
    <3>1. Thread(s, c, NoThread) /\ pc[s] = "up" /\ UNCHANGED <<starts, pc, todo, st, ft, careful>>
      BY <2>8 DEF Keeps, Is
    <3>2. \E lock \in {"s_lock", "f_lock"} : stuck' = [stuck EXCEPT ![s] = @ \cup {lock}]
      BY <2>8 DEF Keeps
    <3>3. stuck' \in [Hosts -> SUBSET {"s_lock", "f_lock"}]
      BY <3>2 DEF Types
    <3> QED BY <2>0, <3>1, <3>3
  <2>9. CASE Hangup(s, c) /\ ~ Dies(s)
    <3>1. /\ Thread(s, c, NoThread) /\ pc[s] = "up"
          /\ UNCHANGED <<starts, pc, todo, st, ft, stuck, careful>>
      BY <2>9 DEF Hangup
    <3> QED BY <2>0, <3>1 DEF Types
  <2> HIDE DEF Effect
  <2> QED
    BY <2>1, <2>2, <2>3, <2>4, <2>5, <2>6, <2>7, <2>8, <2>9 DEF Serve
<1>4. PICK r \in HandType : /\ Thread(s, c, r)
                            /\ r.st \in StTables \cup {<<>>} /\ r.ft \in FtTables \cup {NoFiles}
  BY <1>3
<1>5. hand' \in [Hosts -> [Lives -> HandType]]
  BY <1>4, ThreadStep
<1>6. \A x \in Hosts : /\ st'[x] = st[x] \/ (x = s /\ st'[x] = q.st)
                       /\ ft'[x] = ft[x] \/ (x = s /\ ft'[x] = q.ft)
  BY <1>3 DEF Types
<1>7. TablesStay
  BY <1>2, <1>4, <1>6, ThreadStep, OwnTables DEF TablesStay
<1>8. Types'
  BY <1>1, <1>3, <1>5 DEF Types, HandType
<1>9. NobodyNew
  BY <1>3, <1>6 DEF NobodyNew, Unnamed, Unfilled
<1>10. MainThread'
  <2>1. Started' = Started
    BY <1>3 DEF Started
  <2> QED BY <1>3, <1>6, <2>1 DEF JoinInv, MainThread, Joining
<1> QED
  BY <1>7, <1>8, <1>9, <1>10 DEF Plain

\* The end of a process.
LEMMA DiesPlain ==
  ASSUME JoinInv, NEW h \in Hosts, Dies(h), careful' \in BOOLEAN
  PROVE  Plain
<1> Types
  BY TypesOf
<1> USE EmptyTypes DEF Dies, Types, Goto
<1>1. PICK none : none = [c \in Lives |-> NoThread]
  OBVIOUS
<1>2. none \in [Lives -> HandType]
  BY <1>1
<1>3. Types'
  BY <1>1, <1>2 DEF Pcs, Joining
<1>4. \A x \in Hosts : /\ st'[x] = IF x = h THEN <<>> ELSE st[x]
                       /\ ft'[x] = IF x = h THEN NoFiles ELSE ft[x]
                       /\ pc'[x] = IF x = h THEN "off" ELSE pc[x]
                       /\ hand'[x] = IF x = h THEN none ELSE hand[x]
  BY <1>1
<1>5. TablesStay
  BY <1>1, <1>4, OwnTables DEF TablesStay
<1>6. NobodyNew
  BY <1>4 DEF NobodyNew, Unnamed, Unfilled
<1>7. MainThread'
  <2>1. Started' = Started
    BY DEF Started
  <2>2. \A x \in Hosts : x # h => todo'[x] = todo[x]
    OBVIOUS
  <2> QED BY <1>4, <2>1, <2>2 DEF JoinInv, MainThread, Joining
<1> QED
  BY <1>3, <1>5, <1>6, <1>7 DEF Plain

\* The main thread, when it goes to p and its tables stay as they are.
LEMMA GotoPlain ==
  ASSUME JoinInv, NEW h \in Hosts, NEW p \in Pcs, Goto(h, p),
         UNCHANGED <<starts, st, ft, stuck, careful>>,
         \/ UNCHANGED hand
         \/ \E s \in Hosts, r \in HandType :
              /\ Thread(s, Life(h), r) /\ Life(h) \in Lives
              /\ r.st \in StTables \cup {<<>>} /\ r.ft \in FtTables \cup {NoFiles},
         \/ UNCHANGED todo
         \/ p = "input" /\ todo' = [todo EXCEPT ![h] = Tail(@)] /\ todo[h] # <<>>,
         p # "off" => pc[h] # "off",
         p \in Joining \ {"input"} => todo[h] # <<>>,
         p \notin {"wFt", "off"},
         p = "wSt" => st[h] = <<>> /\ h \in Unnamed,
         p \in {"wSetSt", "wSetFt"} => st[h] # <<>>,
         p = "input" => st[h] # <<>> \/ pc[h] = "input"
  PROVE  Plain
<1> Types
  BY TypesOf
<1>1. \A x \in Hosts : /\ pc'[x] = IF x = h THEN p ELSE pc[x]
                       /\ x # h => todo'[x] = todo[x]
                       /\ p # "input" => todo' = todo
  BY DEF Goto, Types
<1>2. todo' \in [Hosts -> Seq(Hosts)] /\ pc' \in [Hosts -> Pcs]
  BY CallerTypes DEF Goto, Types
<1>3. /\ hand' \in [Hosts -> [Lives -> HandType]]
      /\ \A x \in Hosts, y \in Lives : /\ hand'[x][y].st \in StTables \cup {<<>>}
                                       /\ hand'[x][y].ft \in FtTables \cup {NoFiles}
  <2>1. CASE UNCHANGED hand
    BY <2>1, OwnTables DEF Types
  <2>2. ASSUME NEW s \in Hosts, NEW r \in HandType,
               Thread(s, Life(h), r), Life(h) \in Lives,
               r.st \in StTables \cup {<<>>}, r.ft \in FtTables \cup {NoFiles}
        PROVE  <1>3!:
    BY <2>2, ThreadStep
  <2> QED BY <2>1, <2>2
<1>4. Types'
  BY <1>2, <1>3 DEF Types
<1>5. TablesStay
  BY <1>3, OwnTables DEF TablesStay
<1>6. NobodyNew
  BY <1>1 DEF NobodyNew, Unnamed, Unfilled
<1>7. MainThread'
  <2>1. Started' = Started
    BY DEF Started
  <2> QED BY <1>1, <2>1 DEF JoinInv, MainThread, Joining
<1> QED
  BY <1>4, <1>5, <1>6, <1>7 DEF Plain

\* The steps of a join that name nobody.
LEMMA JoinPlain ==
  ASSUME JoinInv, NEW h \in Hosts,
         \/ EndInput(h) /\ st[h] # <<>>
         \/ Refused(h) \/ Connect(h)
         \/ Update_local_st(h) /\ pc'[h] = "hung"
         \/ Update_local_ft(h) /\ pc'[h] = "hung"
         \/ Update_remote_st(h) \/ Update_remote_ft(h)
         \/ PeerGone(h) /\ ~ Dies(h)
  PROVE  Plain
<1> Types
  BY TypesOf
<1> USE DEF Pcs, Joining
<1>1. CASE EndInput(h) /\ st[h] # <<>>
  BY <1>1, GotoPlain DEF EndInput
<1>2. CASE Refused(h)
  <2>1. Goto(h, "input")
    BY <1>2 DEF Refused, Tries, Goto, Types
  <2> QED BY <1>2, <2>1, GotoPlain DEF Refused, Tries
<1>3. CASE Connect(h)
  <2>1. pc[h] = "input" /\ todo[h] # <<>> /\ Peer(h) \in Hosts /\ Life(h) \in Lives
    BY <1>3, CallerTypes DEF Connect, Tries
  <2>2. CASE st[h] = <<>>
    <3>1. h \in Unnamed
      BY <2>1, <2>2 DEF Unnamed
    <3>2. Thread(Peer(h), Life(h), Phase("GET_ST")) /\ Goto(h, "wSt")
      BY <1>3, <2>2 DEF Connect, Request
    <3>3. \E s \in Hosts, r \in HandType :
              /\ Thread(s, Life(h), r) /\ Life(h) \in Lives
              /\ r.st \in StTables \cup {<<>>} /\ r.ft \in FtTables \cup {NoFiles}
      BY <2>1, <3>2, EmptyTypes DEF Phases
    <3> QED BY <1>3, <2>1, <2>2, <3>1, <3>2, <3>3, GotoPlain DEF Connect
  <2>3. CASE st[h] # <<>>
    <3>2. Thread(Peer(h), Life(h), Phase("SET_ST")) /\ Goto(h, "wSetSt")
      BY <1>3, <2>3 DEF Connect, Request
    <3>3. \E s \in Hosts, r \in HandType :
              /\ Thread(s, Life(h), r) /\ Life(h) \in Lives
              /\ r.st \in StTables \cup {<<>>} /\ r.ft \in FtTables \cup {NoFiles}
      BY <2>1, <3>2, EmptyTypes DEF Phases
    <3> QED BY <1>3, <2>1, <2>3, <3>2, <3>3, GotoPlain DEF Connect
  <2> QED BY <2>2, <2>3
<1>4. CASE Update_local_st(h) /\ pc'[h] = "hung"
  <2>1. pc[h] = "wSt" /\ Goto(h, "hung") /\ UNCHANGED <<st, hand>>
    BY <1>4 DEF Update_local_st, Request, Goto, Types
  <2> QED BY <1>4, <2>1, GotoPlain DEF Update_local_st
<1>5. CASE Update_local_ft(h) /\ pc'[h] = "hung"
  <2>1. pc[h] = "wFt" /\ Goto(h, "hung") /\ UNCHANGED <<st, ft, hand>>
    BY <1>5 DEF Update_local_ft, Request, Goto, Types
  <2> QED BY <1>5, <2>1, GotoPlain DEF Update_local_ft
<1>6. CASE Update_remote_st(h)
  <2>1. /\ pc[h] = "wSetSt" /\ todo[h] # <<>> /\ st[h] # <<>>
        /\ Peer(h) \in Hosts /\ Life(h) \in Lives
    BY <1>6, CallerTypes DEF Update_remote_st, JoinInv, MainThread
  <2>2. PICK r : r = [Phase("ST_STORE") EXCEPT !.st = st[h]]
    OBVIOUS
  <2>3. r \in HandType /\ r.st = st[h] /\ r.ft = NoFiles
    BY <2>2, EmptyTypes DEF Phase, HandType, Phases, Types
  <2>4. Thread(Peer(h), Life(h), r) /\ Goto(h, "wSetFt")
    BY <1>6, <2>2 DEF Update_remote_st
  <2>5. \E s \in Hosts, q \in HandType :
              /\ Thread(s, Life(h), q) /\ Life(h) \in Lives
              /\ q.st \in StTables \cup {<<>>} /\ q.ft \in FtTables \cup {NoFiles}
    BY <2>1, <2>3, <2>4, OwnTables
  <2> QED BY <1>6, <2>1, <2>4, <2>5, GotoPlain DEF Update_remote_st
<1>7. CASE Update_remote_ft(h)
  <2>1. /\ pc[h] = "wSetFt" /\ todo[h] # <<>> /\ st[h] # <<>>
        /\ Peer(h) \in Hosts /\ Life(h) \in Lives
    BY <1>7, CallerTypes DEF Update_remote_ft, JoinInv, MainThread
  <2>2. PICK r : r = [Phase("FT_STORE") EXCEPT !.ft = ft[h]]
    OBVIOUS
  <2>3. r \in HandType /\ r.ft = ft[h] /\ r.st = <<>>
    BY <2>2, EmptyTypes DEF Phase, HandType, Phases, Types
  <2>4. Thread(Peer(h), Life(h), r) /\ Goto(h, "input")
    BY <1>7, <2>2 DEF Update_remote_ft
  <2>5. \E s \in Hosts, q \in HandType :
              /\ Thread(s, Life(h), q) /\ Life(h) \in Lives
              /\ q.st \in StTables \cup {<<>>} /\ q.ft \in FtTables \cup {NoFiles}
    BY <2>1, <2>3, <2>4, OwnTables
  <2> QED BY <1>7, <2>1, <2>4, <2>5, GotoPlain DEF Update_remote_ft
<1>8. CASE PeerGone(h) /\ ~ Dies(h)
  BY <1>8, GotoPlain DEF PeerGone
<1> QED
  BY <1>1, <1>2, <1>3, <1>4, <1>5, <1>6, <1>7, <1>8

\* One more start.
LEMMA StartKeeps ==
  ASSUME JoinInv, NEW h \in Hosts, NEW names \in Names(h), Start(h, names)
  PROVE  Types' /\ MainThread' /\ Room'
<1> Types
  BY TypesOf
<1>1. PICK n \in Nat : n = Started
  BY Counts
<1>2. n < MAX_STARTS /\ starts[h] <= n /\ MAX_STARTS \in Nat /\ starts[h] \in Nat
  BY <1>1, RfsJoinAssumption DEF Start, JoinInv, MainThread, Types
<1>3. PICK s : s = [starts EXCEPT ![h] = starts[h] + 1]
  OBVIOUS
<1>4. /\ starts' = s /\ s \in [Hosts -> 0 .. MAX_STARTS]
      /\ \A x \in Hosts : s[x] = IF x = h THEN starts[h] + 1 ELSE starts[x]
  BY <1>2, <1>3 DEF Start, Types
<1>5. Started' = n + 1
  <2>1. PICK A : A = {c \in Lives : c[2] <= starts[c[1]]}
    OBVIOUS
  <2>2. PICK B : B = {c \in Lives : c[2] <= s[c[1]]}
    OBVIOUS
  <2>3. PICK w : w = <<h, starts[h] + 1>>
    OBVIOUS
  <2>4. w \in Lives /\ w \notin A /\ w[1] = h /\ w[2] = starts[h] + 1
    BY <1>2, <2>1, <2>3 DEF Lives
  <2>5. \A c \in Lives : c[1] \in Hosts /\ c[2] \in Nat /\ c = <<c[1], c[2]>>
    BY <1>2 DEF Lives
  <2>6. ASSUME NEW c \in Lives
        PROVE  c \in B <=> c \in A \cup {w}
    <3>1. c[1] \in Hosts /\ c[2] \in Nat /\ c = <<c[1], c[2]>>
      BY <2>5
    <3>2. CASE c[1] = h
      <4>1. c = w <=> c[2] = starts[h] + 1
        BY <2>3, <3>1, <3>2
      <4>2. c \in A <=> c[2] <= starts[h]
        BY <2>1, <3>2
      <4>3. c \in B <=> c[2] <= starts[h] + 1
        BY <1>4, <2>2, <3>2
      <4> QED BY <1>2, <3>1, <4>1, <4>2, <4>3
    <3>3. CASE c[1] # h
      <4>1. c # w
        BY <2>4, <3>3
      <4> QED BY <1>4, <2>1, <2>2, <3>1, <3>3, <4>1
    <3> QED BY <3>2, <3>3
  <2>7. B = A \cup {w}
    BY <2>1, <2>2, <2>4, <2>6
  <2>8. IsFiniteSet(A) /\ Cardinality(A) = n
    BY <1>1, <2>1, Counts DEF Started
  <2>9. Cardinality(B) = n + 1
    BY <2>4, <2>7, <2>8, FS_AddElement
  <2> QED BY <1>4, <2>2, <2>9 DEF Started
<1>6. names \in Seq(Hosts)
  <2>1. PICK m : m \in 0 .. Cardinality(Hosts) - 1 /\ names \in [1 .. m -> Hosts \ {h}]
    BY DEF Names
  <2> QED BY <2>1, RfsJoinAssumption, FS_CardinalityType
<1>7. Types'
  BY <1>4, <1>6 DEF Start, Goto, Types, Pcs, Joining
<1>8. \A x \in Hosts : /\ pc'[x] = IF x = h THEN "input" ELSE pc[x]
                       /\ todo'[x] = IF x = h THEN names ELSE todo[x]
  BY DEF Start, Goto, Types
<1>9. MainThread'
  <2>1. Started' <= MAX_STARTS
    BY <1>1, <1>2, <1>5
  <2>2. ASSUME NEW x \in Hosts
        PROVE  /\ starts'[x] <= Started'
               /\ pc'[x] # "off" => starts'[x] >= 1
               /\ pc'[x] \in Joining \ {"input"} => todo'[x] # <<>>
               /\ pc'[x] = "wSt" => st'[x] = <<>>
               /\ pc'[x] = "wFt" => x \in ToSet(st'[x])
               /\ pc'[x] \in {"wSetSt", "wSetFt"} => st'[x] # <<>>
    <3>1. CASE x = h
      BY <1>2, <1>4, <1>5, <1>8, <3>1
    <3>2. CASE x # h
      <4>1. /\ starts'[x] = starts[x] /\ pc'[x] = pc[x] /\ todo'[x] = todo[x]
            /\ st' = st
        BY <1>4, <1>8, <3>2 DEF Start
      <4>2. starts[x] <= n /\ starts[x] \in Nat
        BY <1>1, RfsJoinAssumption DEF JoinInv, MainThread, Types
      <4>3. starts'[x] <= Started'
        BY <1>5, <4>1, <4>2
      <4> QED BY <4>1, <4>3 DEF JoinInv, MainThread
    <3> QED BY <3>1, <3>2
  <2> QED BY <2>1, <2>2 DEF MainThread
<1>10. h \notin Unfilled /\ h \notin Unnamed
  BY DEF Start, Unfilled, Unnamed
<1>11. \A x \in Hosts : /\ x \in Unnamed' => x \in Unnamed \cup {h}
                        /\ x \in Unfilled' => x \in Unfilled \cup {h}
  BY <1>8 DEF Start, Unfilled, Unnamed
<1>12. PICK U \in SUBSET Hosts : U = Unnamed
  BY Counts
<1>13. PICK M \in SUBSET Hosts : M = Unfilled
  BY Counts
<1>14. /\ U \cup {h} \in SUBSET Hosts /\ Cardinality(U \cup {h}) = Cardinality(U) + 1
       /\ M \cup {h} \in SUBSET Hosts /\ Cardinality(M \cup {h}) = Cardinality(M) + 1
       /\ Cardinality(U) \in Nat /\ Cardinality(M) \in Nat
  BY <1>10, <1>12, <1>13, Counts, FS_AddElement
<1>15. ASSUME NEW T \in StTables
       PROVE  T \in Seq(Hosts) /\ Fits(T, U \cup {h}, s, n + 1)
  <2>1. T \in Seq(Hosts) /\ Fits(T, U, starts, n)
    BY <1>1, <1>12, Counts DEF JoinInv, Room
  <2>2. Len(T) + Cardinality(U \cup {h}) <= n + 1
    BY <1>14, <2>1 DEF Fits
  <2>3. ASSUME NEW g \in Hosts
        PROVE  Occurrences(T, g) + (IF g \in U \cup {h} THEN 1 ELSE 0) <= s[g]
    <3>1. Occurrences(T, g) + (IF g \in U THEN 1 ELSE 0) <= starts[g]
      BY <2>1 DEF Fits
    <3>2. Occurrences(T, g) \in Nat /\ starts[g] \in Nat
      BY <2>1, OccursType, StartsType
    <3> QED BY <1>4, <3>1, <3>2
  <2> QED BY <2>1, <2>2, <2>3 DEF Fits
<1>16. ASSUME NEW F \in FtTables
       PROVE  F \in Tables /\ FtFits(F, M \cup {h}, n + 1)
  <2>1. F \in Tables /\ FtFits(F, M, n)
    BY <1>1, <1>13, Counts DEF JoinInv, Room
  <2>2. \A f \in Files : Len(F[f]) \in Nat
    BY <2>1 DEF Tables
  <2> QED BY <1>14, <2>1, <2>2 DEF FtFits
<1>17. StTables' = StTables /\ FtTables' = FtTables
  BY DEF Start, StTables, FtTables
<1>18. PICK V \in SUBSET (U \cup {h}) : V = Unnamed'
  BY <1>11, <1>12 DEF Unnamed
<1>19. PICK N \in SUBSET (M \cup {h}) : N = Unfilled'
  BY <1>11, <1>13 DEF Unfilled, Unnamed
<1>20. s \in [Hosts -> Nat]
  BY <1>2, <1>4
<1>21. \A T \in StTables : Fits(T, V, s, n + 1)
  BY <1>14, <1>15, <1>20, FitsLess
<1>22. \A F \in FtTables : FtFits(F, N, n + 1)
  BY <1>14, <1>16, FtFitsLess
<1>23. Room'
  BY <1>4, <1>5, <1>17, <1>18, <1>19, <1>21, <1>22 DEF Room
<1> QED
  BY <1>7, <1>9, <1>23

\* A host that gets its row, or its files their place, no longer needs one.
LEMMA NamedFits ==
  ASSUME NEW T \in Seq(Hosts), NEW U \in SUBSET Hosts, NEW h \in U,
         NEW k \in 0 .. Len(T), NEW n \in Nat, NEW s \in [Hosts -> Nat], Fits(T, U, s, n)
  PROVE  LET R == Append(SubSeq(T, 1, k), h) IN
         R \in Seq(Hosts) /\ Len(R) = k + 1 /\ Fits(R, U \ {h}, s, n)
<1>1. PICK Q : Q = SubSeq(T, 1, k)
  OBVIOUS
<1>2. /\ Q \in Seq(Hosts) /\ Len(Q) = k
      /\ \A g \in Hosts : Occurrences(Q, g) <= Occurrences(T, g)
  BY <1>1, OccursPrefix
<1>3. PICK R : R = Append(Q, h)
  OBVIOUS
<1>4. R \in Seq(Hosts) /\ Len(R) = k + 1
  BY <1>2, <1>3
<1>5. Cardinality(U \ {h}) = Cardinality(U) - 1 /\ Cardinality(U) \in Nat
  BY HostSets, FS_RemoveElement
<1>6. Len(R) + Cardinality(U \ {h}) <= n
  <2>1. Len(T) + Cardinality(U) <= n /\ Len(T) \in Nat /\ k \in Nat /\ k <= Len(T)
    BY DEF Fits
  <2> QED BY <1>4, <1>5, <2>1
<1>7. ASSUME NEW g \in Hosts
      PROVE  Occurrences(R, g) + (IF g \in U \ {h} THEN 1 ELSE 0) <= s[g]
  <2>1. Occurrences(R, g) = Occurrences(Q, g) + (IF g = h THEN 1 ELSE 0)
    BY <1>2, <1>3, OccursAppend
  <2>2. Occurrences(Q, g) \in Nat /\ Occurrences(T, g) \in Nat /\ s[g] \in Nat
    BY <1>2, OccursType
  <2>3. Occurrences(T, g) + (IF g \in U THEN 1 ELSE 0) <= s[g]
    BY DEF Fits
  <2> QED BY <1>2, <2>1, <2>2, <2>3
<1> QED
  BY <1>1, <1>3, <1>4, <1>6, <1>7 DEF Fits

LEMMA FilledFits ==
  ASSUME NEW F \in Tables, NEW U \in SUBSET Hosts, NEW h \in U, NEW n \in Nat,
         FtFits(F, U, n), This_host_idx(h) \in 1 .. MAX_SERVERS
  PROVE  Filled(h, F) \in Tables /\ FtFits(Filled(h, F), U \ {h}, n)
<1>1. PICK G : G = Filled(h, F)
  OBVIOUS
<1>2. PICK i \in 1 .. MAX_SERVERS : i = This_host_idx(h)
  OBVIOUS
<1>3. ASSUME NEW f \in Files
      PROVE  G[f] \in Seq(1 .. MAX_SERVERS) /\ Len(G[f]) \in Nat /\ Len(G[f]) <= Len(F[f]) + 1
  <2>1. PICK q \in Seq(1 .. MAX_SERVERS) : q = F[f]
    BY DEF Tables
  <2>2. PICK a : a = Append(q, i)
    OBVIOUS
  <2>3. a \in Seq(1 .. MAX_SERVERS) /\ Len(a) = Len(q) + 1 /\ Len(q) \in Nat
    BY <2>2
  <2>4. G[f] = a \/ G[f] = q
    BY <1>1, <1>2, <2>1, <2>2 DEF Filled
  <2>5. PICK b : b = G[f]
    OBVIOUS
  <2>6. b \in Seq(1 .. MAX_SERVERS) /\ Len(b) \in Nat /\ Len(b) <= Len(q) + 1
    BY <2>3, <2>4, <2>5
  <2> QED BY <2>1, <2>5, <2>6
<1>4. G \in Tables
  BY <1>1, <1>3 DEF Tables, Filled
<1>5. Cardinality(U \ {h}) = Cardinality(U) - 1 /\ Cardinality(U) \in Nat
  BY HostSets, FS_RemoveElement
<1>6. \A f \in Files : Len(G[f]) + Cardinality(U \ {h}) <= n
  <2> SUFFICES ASSUME NEW f \in Files
               PROVE  Len(G[f]) + Cardinality(U \ {h}) <= n
    OBVIOUS
  <2>1. Len(F[f]) \in Nat /\ Len(F[f]) + Cardinality(U) <= n
    BY DEF Tables, FtFits
  <2> QED BY <1>3, <1>5, <2>1
<1> QED
  BY <1>1, <1>4, <1>6 DEF FtFits

\* The end of input of a host that begins the tables.
LEMMA EndInputKeeps ==
  ASSUME JoinInv, NEW h \in Hosts, EndInput(h), st[h] = <<>>
  PROVE  Types' /\ MainThread' /\ Room'
<1> Types
  BY TypesOf
<1>1. PICK T : T = <<h>>
  OBVIOUS
<1>2. T \in Seq(Hosts) /\ Len(T) = 1 /\ T[1] = h /\ T = Append(SubSeq(st[h], 1, 0), h)
  BY <1>1
<1>3. /\ pc[h] = "input" /\ st' = [st EXCEPT ![h] = T] /\ pc' = [pc EXCEPT ![h] = "up"]
      /\ ft' = [ft EXCEPT ![h] = Filled(h, ft[h])]
      /\ UNCHANGED <<starts, todo, hand, stuck, careful>>
  BY <1>1 DEF EndInput, Goto
<1>4. \A x \in Hosts : /\ st'[x] = IF x = h THEN T ELSE st[x]
                       /\ pc'[x] = IF x = h THEN "up" ELSE pc[x]
  BY <1>3 DEF Types
<1>5. PICK n \in Nat : n = Started
  BY Counts
<1>6. PICK U \in SUBSET Hosts : U = Unnamed /\ h \in U
  BY <1>3, Counts DEF Unnamed
<1>7. PICK M \in SUBSET Hosts : M = Unfilled /\ h \in M
  BY <1>6, Counts DEF Unfilled
<1>8. Unnamed' = U \ {h} /\ Unfilled' = M \ {h}
  BY <1>3, <1>4, <1>6, <1>7 DEF Unnamed, Unfilled
<1>9. Fits(T, U \ {h}, starts, n)
  <2>1. PICK Q : Q = st[h]
    OBVIOUS
  <2>2. Q \in Seq(Hosts) /\ Fits(Q, U, starts, n) /\ 0 \in 0 .. Len(Q)
    BY <1>5, <1>6, <2>1, OwnTables DEF JoinInv, Room, Types
  <2>3. Fits(Append(SubSeq(Q, 1, 0), h), U \ {h}, starts, n)
    BY <1>6, <2>2, StartsType, NamedFits
  <2> QED BY <1>2, <2>1, <2>3
<1>10. 1 <= n /\ n <= MAX_SERVERS
  BY <1>3, <1>5, RfsJoinAssumption, StartsType DEF JoinInv, MainThread
<1>11. This_host_idx(h) \in 1 .. MAX_SERVERS
  <2>1. h \in ToSet(T)
    BY <1>2 DEF ToSet
  <2>2. st'[h] = T
    BY <1>4
  <2>3. SelectInSeq(T, LAMBDA g : g = h) \in 1 .. Len(T)
    BY <1>2, <2>1, FirstRow
  <2> QED BY <1>2, <1>10, <2>2, <2>3, RfsJoinAssumption DEF This_host_idx
<1>12. PICK F : F = Filled(h, ft[h])
  OBVIOUS
<1>13. F \in Tables /\ FtFits(F, M \ {h}, n)
  <2>1. ft[h] \in Tables /\ FtFits(ft[h], M, n)
    BY <1>5, <1>7, OwnTables DEF JoinInv, Room, Types
  <2> QED BY <1>7, <1>11, <1>12, <2>1, FilledFits
<1>14. Types'
  BY <1>2, <1>3, <1>12, <1>13 DEF Types, Pcs
<1>15. NobodyNew
  BY <1>3, <1>6, <1>7, <1>8 DEF NobodyNew
<1>16. Room'
  <2>1. PICK A : A = StTables \cup {<<>>, T}
    OBVIOUS
  <2>2. PICK B : B = FtTables \cup {NoFiles, F}
    OBVIOUS
  <2>3. \A x \in Hosts : st'[x] \in A /\ ft'[x] \in B
    BY <1>3, <1>4, <1>12, <2>1, <2>2, OwnTables DEF Types
  <2>4. \A x \in Hosts, y \in Lives : hand'[x][y].st \in A /\ hand'[x][y].ft \in B
    BY <1>3, <2>1, <2>2, OwnTables
  <2>5. StTables' \subseteq A /\ FtTables' \subseteq B
    BY <2>3, <2>4, TablesAfter
  <2> QED BY <1>5, <1>8, <1>9, <1>13, <1>15, <2>1, <2>2, <2>5, RoomKept
<1>17. MainThread'
  <2>1. Started' = Started
    BY <1>3 DEF Started
  <2> QED BY <1>3, <1>4, <2>1 DEF JoinInv, MainThread, Joining
<1> QED
  BY <1>14, <1>16, <1>17

\* The server table of the first server, with the host at its end.
LEMMA Update_local_stKeeps ==
  ASSUME JoinInv, NEW h \in Hosts, Update_local_st(h), pc'[h] # "hung"
  PROVE  Types' /\ MainThread' /\ Room'
<1> Types
  BY TypesOf
<1>1. /\ pc[h] = "wSt" /\ st[h] = <<>> /\ todo[h] # <<>>
      /\ Peer(h) \in Hosts /\ Life(h) \in Lives
  BY CallerTypes DEF Update_local_st, JoinInv, MainThread, Joining
<1>2. PICK q \in HandType : q = At(h)
  BY <1>1 DEF At, Types
<1>3. PICK k \in Nat : k = q.n
  BY DEF HandType
<1>4. q.st \in Seq(Hosts) /\ q.st \in StTables
  BY <1>1, <1>2, OwnTables DEF At, HandType
<1>5. k <= Len(q.st)
  BY <1>2, <1>3, <1>4 DEF Update_local_st, Goto, Types, Pcs
<1>6. PICK T : T = Append(SubSeq(q.st, 1, k), h)
  OBVIOUS
<1>7. PICK p \in {"misled", "wFt"} : Request(h, "GET_FT", p)
  BY <1>2, <1>3, <1>4, <1>5 DEF Update_local_st
<1>8. /\ st' = [st EXCEPT ![h] = T] /\ Thread(Peer(h), Life(h), Phase("GET_FT")) /\ Goto(h, p)
      /\ UNCHANGED <<starts, todo, ft, stuck, careful>>
  BY <1>2, <1>3, <1>4, <1>5, <1>6, <1>7 DEF Update_local_st, Request
<1>9. \A x \in Hosts : /\ st'[x] = IF x = h THEN T ELSE st[x]
                       /\ pc'[x] = IF x = h THEN p ELSE pc[x]
  BY <1>8 DEF Types, Goto
<1>10. PICK n \in Nat : n = Started
  BY Counts
<1>11. PICK U \in SUBSET Hosts : U = Unnamed /\ h \in U
  BY <1>1, Counts DEF Unnamed
<1>12. Unnamed' = U \ {h}
  BY <1>9, <1>11 DEF Unnamed
<1>13. T \in Seq(Hosts) /\ Len(T) = k + 1 /\ Fits(T, U \ {h}, starts, n)
  <2>1. Fits(q.st, U, starts, n) /\ k \in 0 .. Len(q.st)
    BY <1>4, <1>5, <1>10, <1>11 DEF JoinInv, Room
  <2> QED BY <1>4, <1>6, <1>11, <2>1, StartsType, NamedFits
<1>14. T[Len(T)] = h /\ Len(T) \in 1 .. Len(T)
  <2>1. PICK Q : Q = SubSeq(q.st, 1, k)
    OBVIOUS
  <2>2. Q \in Seq(Hosts) /\ Len(Q) = k
    BY <1>4, <1>5, <2>1
  <2> QED BY <1>6, <1>13, <2>1, <2>2
<1>15. h \in ToSet(T)
  BY <1>13, <1>14 DEF ToSet
<1>16. \A x \in Hosts, y \in Lives : /\ hand'[x][y].st \in StTables \cup {<<>>}
                                     /\ hand'[x][y].ft \in FtTables \cup {NoFiles}
  BY <1>1, <1>8, EmptyTypes, ThreadStep DEF Phases
<1>17. hand' \in [Hosts -> [Lives -> HandType]]
  BY <1>1, <1>8, EmptyTypes, ThreadStep DEF Phases
<1>18. Types'
  BY <1>8, <1>9, <1>13, <1>17 DEF Types, Pcs, Joining, Goto
<1>19. NobodyNew
  <2>1. \A x \in Hosts : x \in Unfilled' => x \in Unfilled
    BY <1>8, <1>9, <1>11, <1>12 DEF Unfilled
  <2> QED BY <1>8, <1>11, <1>12, <2>1 DEF NobodyNew
<1>20. Room'
  <2>1. PICK A : A = StTables \cup {<<>>, T}
    OBVIOUS
  <2>2. PICK B : B = FtTables \cup {NoFiles, NoFiles}
    OBVIOUS
  <2>3. \A x \in Hosts : st'[x] \in A /\ ft'[x] \in B
    BY <1>8, <1>9, <2>1, <2>2, OwnTables
  <2>4. \A x \in Hosts, y \in Lives : hand'[x][y].st \in A /\ hand'[x][y].ft \in B
    BY <1>16, <2>1, <2>2
  <2>5. StTables' \subseteq A /\ FtTables' \subseteq B
    BY <2>3, <2>4, TablesAfter
  <2> QED BY <1>10, <1>12, <1>13, <1>19, <2>1, <2>2, <2>5, RoomKept
<1>21. MainThread'
  <2>1. Started' = Started
    BY <1>8 DEF Started
  <2> QED BY <1>1, <1>8, <1>9, <1>15, <2>1 DEF JoinInv, MainThread, Joining
<1> QED
  BY <1>18, <1>20, <1>21

\* The file table of the first server, with the files of the host.
LEMMA Update_local_ftKeeps ==
  ASSUME JoinInv, NEW h \in Hosts, Update_local_ft(h), pc'[h] # "hung"
  PROVE  Types' /\ MainThread' /\ Room'
<1> Types
  BY TypesOf
<1>1. /\ pc[h] = "wFt" /\ h \in ToSet(st[h]) /\ todo[h] # <<>>
      /\ Peer(h) \in Hosts /\ Life(h) \in Lives /\ st' = st
  BY CallerTypes DEF Update_local_ft, JoinInv, MainThread, Joining
<1>2. PICK q \in HandType : q = At(h)
  BY <1>1 DEF At, Types
<1>3. q.ft \in Tables /\ q.ft \in FtTables
  BY <1>1, <1>2, OwnTables DEF At, HandType
<1>4. PICK F : F = Filled(h, q.ft)
  OBVIOUS
<1>5. ~ (At(h).n > Total_files(At(h).ft))
  BY DEF Update_local_ft, Goto, Types, Pcs
<1>6. PICK p \in {"misled", "wSetSt"} : Request(h, "SET_ST", p)
  BY <1>5 DEF Update_local_ft
<1>7. /\ ft' = [ft EXCEPT ![h] = F] /\ Thread(Peer(h), Life(h), Phase("SET_ST")) /\ Goto(h, p)
      /\ UNCHANGED <<starts, todo, st, stuck, careful>>
  BY <1>2, <1>4, <1>5, <1>6 DEF Update_local_ft, Request
<1>8. \A x \in Hosts : /\ ft'[x] = IF x = h THEN F ELSE ft[x]
                       /\ pc'[x] = IF x = h THEN p ELSE pc[x]
  BY <1>7 DEF Types, Goto
<1>9. PICK n \in Nat : n = Started
  BY Counts
<1>10. PICK M \in SUBSET Hosts : M = Unfilled /\ h \in M
  BY <1>1, Counts DEF Unfilled
<1>11. Unfilled' = M \ {h} /\ \A x \in Hosts : x \in Unnamed' => x \in Unnamed
  BY <1>1, <1>8, <1>10 DEF Unfilled, Unnamed
<1>12. This_host_idx(h) \in 1 .. MAX_SERVERS
  <2>1. SelectInSeq(st[h], LAMBDA g : g = h) \in 1 .. Len(st[h])
    BY <1>1, FirstRow DEF Types
  <2>2. Len(st[h]) <= MAX_SERVERS /\ Len(st[h]) \in Nat /\ MAX_SERVERS \in Nat
    BY RfsJoinAssumption DEF JoinInv, TypeOK
  <2> QED BY <1>1, <2>1, <2>2 DEF This_host_idx
<1>13. F \in Tables /\ FtFits(F, M \ {h}, n)
  <2>1. FtFits(q.ft, M, n)
    BY <1>3, <1>9, <1>10 DEF JoinInv, Room
  <2> QED BY <1>3, <1>4, <1>10, <1>12, <2>1, FilledFits
<1>14. \A x \in Hosts, y \in Lives : /\ hand'[x][y].st \in StTables \cup {<<>>}
                                     /\ hand'[x][y].ft \in FtTables \cup {NoFiles}
  BY <1>1, <1>7, EmptyTypes, ThreadStep DEF Phases
<1>15. hand' \in [Hosts -> [Lives -> HandType]]
  BY <1>1, <1>7, EmptyTypes, ThreadStep DEF Phases
<1>16. Types'
  BY <1>7, <1>13, <1>15 DEF Types, Pcs, Joining, Goto
<1>17. NobodyNew
  BY <1>7, <1>10, <1>11 DEF NobodyNew
<1>18. Room'
  <2>1. PICK A : A = StTables \cup {<<>>, <<>>}
    OBVIOUS
  <2>2. PICK B : B = FtTables \cup {NoFiles, F}
    OBVIOUS
  <2>3. \A x \in Hosts : st'[x] \in A /\ ft'[x] \in B
    BY <1>7, <1>8, <2>1, <2>2, OwnTables
  <2>4. \A x \in Hosts, y \in Lives : hand'[x][y].st \in A /\ hand'[x][y].ft \in B
    BY <1>14, <2>1, <2>2
  <2>5. StTables' \subseteq A /\ FtTables' \subseteq B
    BY <2>3, <2>4, TablesAfter
  <2> QED BY <1>9, <1>11, <1>13, <1>17, <2>1, <2>2, <2>5, RoomKept
<1>19. MainThread'
  <2>1. Started' = Started
    BY <1>7 DEF Started
  <2>2. st[h] # <<>>
    BY <1>1 DEF ToSet
  <2> QED BY <1>1, <1>7, <1>8, <2>1, <2>2 DEF JoinInv, MainThread, Joining
<1> QED
  BY <1>16, <1>18, <1>19

-----------------------------------------------------------------------------
(* However joins overlap                                                   *)

LEMMA JoinInvInit == Init => JoinInv
<1> SUFFICES ASSUME Init PROVE JoinInv
  OBVIOUS
<1> USE EmptyTypes, RfsJoinAssumption DEF Init
<1>1. Types
  BY DEF Types, Pcs
<1>2. Started = 0 /\ Unnamed = {} /\ Unfilled = {}
  <2>1. {c \in Lives : c[2] <= starts[c[1]]} = {}
    BY DEF Lives
  <2> QED BY <2>1, FS_EmptySet DEF Started, Unnamed, Unfilled
<1>3. \A T \in StTables : T = <<>>
  BY DEF StTables
<1>4. \A F \in FtTables : F = NoFiles
  BY DEF FtTables
<1>5. Room
  <2>1. Cardinality({}) = 0 /\ Len(<<>>) = 0 /\ \A f \in Files : Len(NoFiles[f]) = 0
    BY FS_EmptySet DEF NoFiles
  <2>2. Fits(<<>>, {}, starts, 0)
    BY <2>1, OccursNone DEF Fits
  <2>3. FtFits(NoFiles, {}, 0)
    BY <2>1 DEF FtFits
  <2> QED BY <1>2, <1>3, <1>4, <2>2, <2>3 DEF Room
<1>6. MainThread
  BY <1>2 DEF MainThread, Joining
<1>7. TypeOK
  BY <1>1 DEF Types, TypeOK, HandType
<1> QED
  BY <1>5, <1>6, <1>7 DEF JoinInv

\* Every table has room for its rows in server_list.
LEMMA RoomBounds ==
  ASSUME Types, Room, MainThread
  PROVE  /\ \A T \in StTables : Len(T) <= MAX_SERVERS /\ Len(T) <= Started
         /\ \A F \in FtTables, f \in Files : Len(F[f]) <= Started
         /\ \A T \in StTables, g \in Hosts : Occurrences(T, g) <= starts[g]
<1>1. Started \in Nat /\ Started <= MAX_SERVERS /\ MAX_SERVERS \in Nat
  BY Counts, RfsJoinAssumption DEF MainThread
<1>2. /\ Unnamed \in SUBSET Hosts /\ Unfilled \in SUBSET Hosts
      /\ Cardinality(Unnamed) \in Nat /\ Cardinality(Unfilled) \in Nat
  BY Counts
<1>3. ASSUME NEW T \in StTables
      PROVE  /\ Len(T) <= MAX_SERVERS /\ Len(T) <= Started
             /\ \A g \in Hosts : Occurrences(T, g) <= starts[g]
  <2>1. T \in Seq(Hosts) /\ Fits(T, Unnamed, starts, Started)
    BY Counts DEF Room
  <2>2. Len(T) \in Nat /\ Len(T) + Cardinality(Unnamed) <= Started
    BY <2>1 DEF Fits
  <2>3. ASSUME NEW g \in Hosts
        PROVE  Occurrences(T, g) <= starts[g]
    <3>1. Occurrences(T, g) \in Nat /\ starts[g] \in Nat
      BY <2>1, OccursType, StartsType
    <3>2. Occurrences(T, g) + (IF g \in Unnamed THEN 1 ELSE 0) <= starts[g]
      BY <2>1 DEF Fits
    <3> QED BY <3>1, <3>2
  <2> QED BY <1>1, <1>2, <2>2, <2>3
<1>4. ASSUME NEW F \in FtTables, NEW f \in Files
      PROVE  Len(F[f]) <= Started
  <2>1. F \in Tables /\ Len(F[f]) + Cardinality(Unfilled) <= Started
    BY Counts DEF Room, FtFits
  <2>2. Len(F[f]) \in Nat
    BY <2>1 DEF Tables
  <2> QED BY <1>1, <1>2, <2>1, <2>2
<1> QED
  BY <1>3, <1>4

LEMMA TypesAndRoom ==
  ASSUME Types, Room, MainThread
  PROVE  JoinInv
<1>1. \A h \in Hosts : Len(st[h]) <= MAX_SERVERS
  BY RoomBounds, OwnTables
<1> QED
  BY <1>1 DEF Types, TypeOK, HandType, JoinInv

LEMMA JoinInvNext == JoinInv /\ [Next]_vars => JoinInv'
<1> SUFFICES ASSUME JoinInv, [Next]_vars
             PROVE  Types' /\ MainThread' /\ Room'
  BY TypesAndRoom, PTL
<1> USE DEF Plain
<1>1. ASSUME UNCHANGED vars
      PROVE  Types' /\ MainThread' /\ Room'
  <2>1. Types' /\ MainThread'
    BY <1>1, TypesOf DEF vars, Types, JoinInv, MainThread, Started
  <2>2. Room'
    BY <1>1 DEF vars, JoinInv, Room, StTables, FtTables, Unnamed, Unfilled, Started
  <2> QED BY <2>1, <2>2
<1>2. ASSUME NEW h \in Hosts, NEW names \in Names(h), Start(h, names)
      PROVE  Types' /\ MainThread' /\ Room'
  BY <1>2, StartKeeps
<1>3. ASSUME NEW h \in Hosts, Join(h)
      PROVE  Types' /\ MainThread' /\ Room'
  <2>1. CASE EndInput(h)
    BY <2>1, JoinPlain, EndInputKeeps, StayKeepsRoom
  <2>2. CASE Refused(h) \/ Connect(h) \/ Update_remote_st(h) \/ Update_remote_ft(h)
    BY <2>2, JoinPlain, StayKeepsRoom
  <2>3. CASE Update_local_st(h)
    BY <2>3, JoinPlain, Update_local_stKeeps, StayKeepsRoom
  <2>4. CASE Update_local_ft(h)
    BY <2>4, JoinPlain, Update_local_ftKeeps, StayKeepsRoom
  <2> QED BY <1>3, <2>1, <2>2, <2>3, <2>4 DEF Join
<1>4. ASSUME NEW h \in Hosts, Exit(h) \/ PeerGone(h) \/ Kill(h)
      PROVE  Types' /\ MainThread' /\ Room'
  <2>1. careful' \in BOOLEAN
    BY <1>4, TypesOf DEF Exit, PeerGone, Kill, Types
  <2>2. CASE Dies(h)
    BY <2>1, <2>2, DiesPlain, StayKeepsRoom
  <2>3. CASE ~ Dies(h)
    <3>1. PeerGone(h)
      BY <1>4, <2>3 DEF Exit, Kill
    <3> QED BY <2>3, <3>1, JoinPlain, StayKeepsRoom
  <2> QED BY <2>2, <2>3
<1>5. ASSUME NEW s \in Hosts, NEW c \in Lives, Serve(s, c) \/ Keeps(s, c) \/ Hangup(s, c)
      PROVE  Types' /\ MainThread' /\ Room'
  <2>1. CASE Hangup(s, c) /\ Dies(s)
    <3>1. careful' \in BOOLEAN
      BY <2>1, TypesOf DEF Hangup, Types
    <3> QED BY <2>1, <3>1, DiesPlain, StayKeepsRoom
  <2>2. CASE ~ (Hangup(s, c) /\ Dies(s))
    BY <1>5, <2>2, ServePlain, StayKeepsRoom
  <2> QED BY <2>1, <2>2
<1> QED
  BY <1>1, <1>2, <1>3, <1>4, <1>5 DEF Next

THEOREM JoinInvariant == Spec => []JoinInv
BY JoinInvInit, JoinInvNext, PTL DEF Spec

\* Every variable has its type: no table outgrows server_list, and no index
\* names a row past its end, however joins overlap and servers die.
THEOREM TypeCorrect == Spec => []TypeOK
<1>1. JoinInv => TypeOK
  BY DEF JoinInv
<1> QED
  BY <1>1, JoinInvariant, PTL

\* No table names a host more often than its server was started.
THEOREM NamedOncePerStartHolds == Spec => []NamedOncePerStart
<1>1. JoinInv => NamedOncePerStart
  BY TypesOf, RoomBounds, OwnTables DEF JoinInv, NamedOncePerStart
<1> QED
  BY <1>1, JoinInvariant, PTL

-----------------------------------------------------------------------------
(* Joins made one at a time                                                *)

\* The tables S and F name the hosts of U and their files, once each.
TrueOf(S, F, U) ==
  /\ IsInjective(S) /\ ToSet(S) = U
  /\ \A f \in Files :
       /\ IsInjective(F[f]) /\ ToSet(F[f]) \subseteq 1 .. Len(S)
       /\ {S[i] : i \in ToSet(F[f])} = {g \in U : f \in Disk[g]}

\* What the first server's thread r answers out of the tables S and F.
AnswersSt(r, S) ==
  /\ r.pc \in {"GET_ST", "ST_LOCK", "ST_SENT"}
  /\ r.pc # "GET_ST" => r.n = Len(S)
  /\ r.pc = "ST_SENT" => r.st = S
AnswersFt(r, F) ==
  /\ r.pc \in {"GET_FT", "FT_LOCK", "FT_SENT"}
  /\ r.pc # "GET_FT" => r.n = Total_files(F)
  /\ r.pc = "FT_SENT" => r.ft = F

\* h asks for the tables S and F that the servers of U have.
Asking(h, U, S, F) ==
  /\ pc[h] \in {"input", "wSt", "wFt"} /\ Ups = U
  /\ \A x \in Hosts \ {h} : pc[x] \in {"off", "up"}
  /\ ft[h] = NoFiles /\ U \subseteq ToSet(todo[h])
  /\ \A x \in U : st[x] = S /\ ft[x] = F
  /\ \A x \in Hosts, c \in Lives :
       hand[x][c] # NoThread =>
         c = <<h, 1>> /\ x \in U /\ pc[h] # "input" /\ x = Head(todo[h])
  /\ pc[h] = "input" => st[h] = <<>>
  /\ pc[h] = "wSt" => /\ st[h] = <<>> /\ Head(todo[h]) \in U
                      /\ AnswersSt(hand[Head(todo[h])][<<h, 1>>], S)
  /\ pc[h] = "wFt" => /\ st[h] = Append(S, h) /\ Head(todo[h]) \in U
                      /\ AnswersFt(hand[Head(todo[h])][<<h, 1>>], F)

\* h tells the servers of U its tables S and F, or has done so: each is still
\* to do, or has them but perhaps for the store of F.
Telling(h, U, S, F) ==
  /\ pc[h] \in {"input", "wSetSt", "wSetFt", "up"} /\ Ups \ {h} = U /\ h \notin U
  /\ \A x \in Hosts \ {h} : pc[x] \in {"off", "up"}
  /\ st[h] = S /\ ft[h] = F
  /\ \A x \in U : \/ x \in ToSet(todo[h])
                  \/ st[x] = S /\ (ft[x] = F \/ hand[x][<<h, 1>>].pc = "FT_STORE")
  /\ \A x \in Hosts, c \in Lives :
       hand[x][c] # NoThread =>
         /\ c = <<h, 1>> /\ x \in U
         /\ \/ hand[x][c].pc = "FT_STORE" /\ hand[x][c].ft = F
            \/ pc[h] \in {"wSetSt", "wSetFt"} /\ x = Head(todo[h])
  /\ pc[h] = "up" => todo[h] = <<>>
  /\ pc[h] = "wSetSt" => /\ Head(todo[h]) \in U
                         /\ hand[Head(todo[h])][<<h, 1>>].pc \in {"SET_ST", "ST_ACKED"}
  /\ pc[h] = "wSetFt" =>
       /\ Head(todo[h]) \in U
       /\ \/ /\ hand[Head(todo[h])][<<h, 1>>].pc = "ST_STORE"
             /\ hand[Head(todo[h])][<<h, 1>>].st = S
          \/ /\ hand[Head(todo[h])][<<h, 1>>].pc \in {"SET_FT", "FT_ACKED"}
             /\ st[Head(todo[h])] = S

Nobody == /\ \A x \in Hosts : pc[x] = "off"
          /\ \A x \in Hosts, c \in Lives : hand[x][c] = NoThread

\* Nobody has started twice, and who is off has no tables.
Once == \A x \in Hosts :
          IF pc[x] = "off" THEN starts[x] = 0 /\ st[x] = <<>> /\ ft[x] = NoFiles
                           ELSE starts[x] = 1

\* One host at a time, with true tables.
OneAsks == \E h \in Hosts, U \in SUBSET Hosts, S \in Seq(Hosts), F \in Tables :
             Asking(h, U, S, F) /\ TrueOf(S, F, U)
OneTells == \E h \in Hosts : /\ Telling(h, Ups \ {h}, st[h], ft[h])
                            /\ TrueOf(st[h], ft[h], Ups \cup {h})
OneJoins == OneAsks \/ OneTells

OneAtATime == careful => Once /\ (Nobody \/ OneJoins)

\* Everybody stays on or off, and who is off as it is.
LEMMA OnceKept ==
  ASSUME Once, UNCHANGED starts,
         \A x \in Hosts : /\ pc'[x] = "off" <=> pc[x] = "off"
                          /\ pc[x] = "off" => st'[x] = st[x] /\ ft'[x] = ft[x]
  PROVE  Once'
BY DEF Once

\* A host appended, with its files, to true tables.
LEMMA TrueAppend ==
  ASSUME NEW U \in SUBSET Hosts, NEW S \in Seq(Hosts), NEW F \in Tables,
         TrueOf(S, F, U), NEW h \in Hosts \ U, NEW G,
         G = [f \in Files |-> IF f \in Disk[h] THEN Append(F[f], Len(S) + 1) ELSE F[f]]
  PROVE  TrueOf(Append(S, h), G, U \cup {h})
<1>1. PICK n \in Nat : n = Len(S)
  OBVIOUS
<1>2. PICK T : T = Append(S, h)
  OBVIOUS
<1>3. /\ T \in Seq(Hosts) /\ Len(T) = n + 1 /\ T[n + 1] = h
      /\ \A i \in 1 .. n : T[i] = S[i]
  BY <1>1, <1>2
<1>4. DOMAIN S = 1 .. n /\ DOMAIN T = 1 .. n + 1
  BY <1>1, <1>3
<1>5. \A i \in 1 .. n : S[i] \in U /\ S[i] # h
  BY <1>4 DEF TrueOf, ToSet
<1>6. IsInjective(T)
  <2>1. \A i, j \in 1 .. n : S[i] = S[j] => i = j
    BY <1>4 DEF TrueOf, IsInjective
  <2>2. \A i \in 1 .. n + 1 : i \in 1 .. n \/ i = n + 1
    OBVIOUS
  <2>3. \A i, j \in 1 .. n + 1 : T[i] = T[j] => i = j
    BY <1>3, <1>5, <2>1, <2>2
  <2> QED BY <1>4, <2>3 DEF IsInjective
<1>7. ToSet(T) = U \cup {h}
  BY <1>2, AppendedSet DEF TrueOf
<1>8. ASSUME NEW f \in Files
      PROVE  /\ IsInjective(G[f]) /\ ToSet(G[f]) \subseteq 1 .. n + 1
             /\ {T[i] : i \in ToSet(G[f])} = {g \in U \cup {h} : f \in Disk[g]}
  <2>1. PICK q : q = F[f]
    OBVIOUS
  <2>2. /\ q \in Seq(1 .. MAX_SERVERS)
        /\ IsInjective(q) /\ ToSet(q) \subseteq 1 .. n
        /\ {S[i] : i \in ToSet(q)} = {g \in U : f \in Disk[g]}
    BY <1>1, <2>1 DEF TrueOf, Tables
  <2>3. {T[i] : i \in ToSet(q)} = {S[i] : i \in ToSet(q)}
    <3>1. \A i \in ToSet(q) : T[i] = S[i]
      BY <1>3, <2>2
    <3> QED BY ONLY <3>1
  <2>4. CASE f \notin Disk[h]
    <3>1. G[f] = q
      BY <2>1, <2>4
    <3>2. {g \in U \cup {h} : f \in Disk[g]} = {g \in U : f \in Disk[g]}
      BY <2>4
    <3>3. 1 .. n \subseteq 1 .. n + 1
      OBVIOUS
    <3> QED BY <2>2, <2>3, <3>1, <3>2, <3>3
  <2>5. CASE f \in Disk[h]
    <3>1. PICK a : a = Append(q, n + 1)
      OBVIOUS
    <3>2. G[f] = a
      BY <1>1, <2>1, <2>5, <3>1
    <3>3. PICK m \in Nat : m = Len(q)
      BY <2>2
    <3>4. q \in Seq(Nat)
      <4>1. PICK R : R = 1 .. MAX_SERVERS
        OBVIOUS
      <4>2. q \in Seq(R)
        BY <2>2, <4>1
      <4>3. q \in [1 .. m -> R]
        BY <3>3, <4>2
      <4>4. R \subseteq Nat
        BY <4>1
      <4>5. q \in [1 .. m -> Nat]
        BY <4>3, <4>4
      <4> QED BY <4>5
    <3>5. /\ a \in Seq(Nat) /\ Len(a) = m + 1 /\ a[m + 1] = n + 1
          /\ \A i \in 1 .. m : a[i] = q[i]
      BY <3>1, <3>3, <3>4
    <3>6. ToSet(a) = ToSet(q) \cup {n + 1}
      BY <3>1, <3>4, AppendedSet
    <3>7. DOMAIN q = 1 .. m /\ DOMAIN a = 1 .. m + 1
      BY <3>3, <3>4, <3>5
    <3>8. \A i \in 1 .. m : q[i] \in 1 .. n
      BY <2>2, <3>7 DEF ToSet
    <3>9. IsInjective(a)
      <4>1. \A i, j \in 1 .. m : q[i] = q[j] => i = j
        BY <2>2, <3>7 DEF IsInjective
      <4>2. \A i \in 1 .. m + 1 : i \in 1 .. m \/ i = m + 1
        OBVIOUS
      <4>3. \A i, j \in 1 .. m + 1 : a[i] = a[j] => i = j
        BY <3>5, <3>8, <4>1, <4>2
      <4> QED BY <3>7, <4>3 DEF IsInjective
    <3>10. {T[i] : i \in ToSet(a)} = {T[i] : i \in ToSet(q)} \cup {h}
      BY <1>3, <3>6
    <3>11. {g \in U \cup {h} : f \in Disk[g]} = {g \in U : f \in Disk[g]} \cup {h}
      BY <2>5
    <3>12. ToSet(a) \subseteq 1 .. n + 1
      BY <2>2, <3>6
    <3>13. {T[i] : i \in ToSet(a)} = {g \in U \cup {h} : f \in Disk[g]}
      BY ONLY <2>2, <2>3, <3>10, <3>11
    <3> QED BY ONLY <3>2, <3>9, <3>12, <3>13
  <2> QED BY <2>4, <2>5
<1>9. TrueOf(T, G, U \cup {h})
  BY ONLY <1>3, <1>6, <1>7, <1>8 DEF TrueOf
<1> QED
  BY <1>2, <1>9

\* The row that get_this_host_idx finds is the one just appended.
LEMMA LastRow ==
  ASSUME NEW S \in Seq(Hosts), NEW h \in Hosts \ ToSet(S), st'[h] = Append(S, h)
  PROVE  This_host_idx(h) = Len(S) + 1
<1>1. PICK T : T = Append(S, h)
  OBVIOUS
<1>2. PICK n \in Nat : n = Len(S)
  OBVIOUS
<1>3. /\ T \in Seq(Hosts) /\ Len(T) = n + 1 /\ \A i \in 1 .. n : T[i] = S[i]
  BY <1>1, <1>2
<1>4. PICK i : i = SelectInSeq(T, LAMBDA g : g = h)
  OBVIOUS
<1>5. i \in 1 .. n + 1 /\ T[i] = h
  <2>1. h \in ToSet(T)
    BY <1>1, AppendedSet
  <2> QED BY <1>3, <1>4, <2>1, FirstRow
<1>6. \A k \in 1 .. n : S[k] # h
  BY <1>2 DEF ToSet
<1>7. i = n + 1
  BY <1>3, <1>5, <1>6
<1> QED
  BY <1>1, <1>2, <1>4, <1>7 DEF This_host_idx

\* The connection of the host that joins.
LEMMA OnlyLife ==
  ASSUME JoinInv, Once, NEW h \in Hosts, pc[h] # "off"
  PROVE  /\ starts[h] = 1 /\ Life(h) = <<h, 1>> /\ <<h, 1>> \in Lives
         /\ At(h) = hand[Head(todo[h])][<<h, 1>>] /\ Peer(h) = Head(todo[h])
<1>1. starts[h] = 1
  BY DEF Once
<1>2. 1 \in 1 .. MAX_STARTS
  BY <1>1, RfsJoinAssumption, TypesOf DEF Types
<1> QED
  BY <1>1, <1>2 DEF Life, Lives, At, Peer

\* A step of a thread at s, which leaves h where it is.
LEMMA AskingServe ==
  ASSUME JoinInv, Once, NEW h \in Hosts, NEW U \in SUBSET Hosts, NEW S \in Seq(Hosts),
         NEW F \in Tables, Asking(h, U, S, F),
         NEW s \in Hosts, NEW c \in Lives, Serve(s, c)
  PROVE  Asking(h, U, S, F)' /\ Once'
<1> Types
  BY TypesOf
<1>1. pc[s] = "up" /\ hand[s][c] # NoThread
  BY DEF Serve, Ack_get_st, Get_st, Ack_get_ft, Get_ft, Ack_set, Set_st, Set_ft, Is,
         NoThread, Phase
<1>2. c = <<h, 1>> /\ s \in U /\ pc[h] \in {"wSt", "wFt"} /\ s = Head(todo[h])
  BY <1>1 DEF Asking
<1>3. PICK r \in HandType : r = hand[s][c]
  BY DEF Types
<1>4. /\ pc[h] = "wSt" => AnswersSt(r, S)
      /\ pc[h] = "wFt" => AnswersFt(r, F)
      /\ st[s] = S /\ ft[s] = F
  BY <1>2, <1>3 DEF Asking
<1>5. \E q \in HandType :
        /\ Thread(s, c, q) /\ q # NoThread
        /\ pc[h] = "wSt" => AnswersSt(q, S)
        /\ pc[h] = "wFt" => AnswersFt(q, F)
  <2>1. Total_files(F) \in Nat /\ Len(S) \in Nat
    <3>1. {f \in Files : F[f] # <<>>} \subseteq Files
      OBVIOUS
    <3> QED BY <3>1, RfsJoinAssumption, FS_Subset, FS_CardinalityType DEF Total_files
  <2>2. CASE Ack_get_st(s, c)
    <3>1. PICK q : q = [Phase("ST_LOCK") EXCEPT !.n = Len(S)]
      OBVIOUS
    <3>2. pc[h] = "wSt"
      BY <1>2, <1>3, <1>4, <2>2 DEF Ack_get_st, Is, AnswersFt
    <3>3. q \in HandType /\ q.pc = "ST_LOCK" /\ q.n = Len(S)
      BY <2>1, <3>1, EmptyTypes DEF Phase, HandType, Phases
    <3>4. Thread(s, c, q)
      BY <1>4, <2>2, <3>1 DEF Ack_get_st
    <3>5. q # NoThread
      BY <3>3, EmptyTypes
    <3>6. AnswersSt(q, S)
      BY <3>3 DEF AnswersSt
    <3> QED BY <3>2, <3>3, <3>4, <3>5, <3>6
  <2>3. CASE Get_st(s, c)
    <3>1. PICK q : q = [r EXCEPT !.pc = "ST_SENT", !.st = S]
      OBVIOUS
    <3>2. pc[h] = "wSt" /\ r.pc = "ST_LOCK"
      BY <1>2, <1>3, <1>4, <2>3 DEF Get_st, Is, AnswersFt
    <3>3. q \in HandType /\ q.pc = "ST_SENT" /\ q.n = r.n /\ q.st = S
      BY <3>1 DEF HandType, Phases
    <3>4. Thread(s, c, q)
      BY <1>3, <1>4, <2>3, <3>1 DEF Get_st
    <3>5. q # NoThread
      BY <3>3, EmptyTypes
    <3>6. AnswersSt(q, S)
      BY <1>4, <3>2, <3>3 DEF AnswersSt
    <3> QED BY <3>2, <3>3, <3>4, <3>5, <3>6
  <2>4. CASE Ack_get_ft(s, c)
    <3>1. PICK q : q = [Phase("FT_LOCK") EXCEPT !.n = Total_files(F)]
      OBVIOUS
    <3>2. pc[h] = "wFt"
      BY <1>2, <1>3, <1>4, <2>4 DEF Ack_get_ft, Is, AnswersSt
    <3>3. q \in HandType /\ q.pc = "FT_LOCK" /\ q.n = Total_files(F)
      BY <2>1, <3>1, EmptyTypes DEF Phase, HandType, Phases
    <3>4. Thread(s, c, q)
      BY <1>4, <2>4, <3>1 DEF Ack_get_ft
    <3>5. q # NoThread
      BY <3>3, EmptyTypes
    <3>6. AnswersFt(q, F)
      BY <3>3 DEF AnswersFt
    <3> QED BY <3>2, <3>3, <3>4, <3>5, <3>6
  <2>5. CASE Get_ft(s, c)
    <3>1. PICK q : q = [r EXCEPT !.pc = "FT_SENT", !.ft = F]
      OBVIOUS
    <3>2. pc[h] = "wFt" /\ r.pc = "FT_LOCK"
      BY <1>2, <1>3, <1>4, <2>5 DEF Get_ft, Is, AnswersSt
    <3>3. q \in HandType /\ q.pc = "FT_SENT" /\ q.n = r.n /\ q.ft = F
      BY <3>1 DEF HandType, Phases
    <3>4. Thread(s, c, q)
      BY <1>3, <1>4, <2>5, <3>1 DEF Get_ft
    <3>5. q # NoThread
      BY <3>3, EmptyTypes
    <3>6. AnswersFt(q, F)
      BY <1>4, <3>2, <3>3 DEF AnswersFt
    <3> QED BY <3>2, <3>3, <3>4, <3>5, <3>6
  <2>6. ASSUME Ack_set(s, c) \/ Set_st(s, c) \/ Set_ft(s, c)
        PROVE  FALSE
    <3>1. r.pc \in {"SET_ST", "SET_FT", "ST_STORE", "FT_STORE"}
      BY <1>3, <2>6 DEF Ack_set, Set_st, Set_ft, Is
    <3> QED BY <1>2, <1>4, <3>1 DEF AnswersSt, AnswersFt
  <2> QED BY <2>2, <2>3, <2>4, <2>5, <2>6 DEF Serve
<1>6. UNCHANGED <<starts, pc, todo, st, ft>>
  <2>1. ~ Set_st(s, c) /\ ~ Set_ft(s, c)
    <3>1. r.pc # "ST_STORE" /\ r.pc # "FT_STORE"
      BY <1>2, <1>4 DEF AnswersSt, AnswersFt
    <3> QED BY <1>3, <3>1 DEF Set_st, Set_ft, Is
  <2> QED BY <2>1 DEF Serve, Ack_get_st, Get_st, Ack_get_ft, Get_ft, Ack_set
<1>7. PICK q \in HandType :
        /\ Thread(s, c, q) /\ q # NoThread
        /\ pc[h] = "wSt" => AnswersSt(q, S)
        /\ pc[h] = "wFt" => AnswersFt(q, F)
  BY <1>5
<1>8. /\ hand'[s][c] = q
      /\ \A x \in Hosts, y \in Lives : x # s \/ y # c => hand'[x][y] = hand[x][y]
  BY <1>7, ThreadStep
<1>9. Ups' = Ups
  BY <1>6 DEF Ups
<1>10. \A x \in Hosts, y \in Lives :
         hand'[x][y] # NoThread =>
           y = <<h, 1>> /\ x \in U /\ pc[h] # "input" /\ x = Head(todo[h])
  BY <1>2, <1>8 DEF Asking
<1>11. Asking(h, U, S, F)'
  BY <1>2, <1>6, <1>7, <1>8, <1>9, <1>10 DEF Asking
<1>12. Once'
  BY <1>6, OnceKept
<1> QED
  BY <1>11, <1>12

LEMMA TellingServe ==
  ASSUME JoinInv, Once, NEW h \in Hosts, NEW U \in SUBSET Hosts, NEW S \in Seq(Hosts),
         NEW F \in Tables, Telling(h, U, S, F),
         NEW s \in Hosts, NEW c \in Lives, Serve(s, c)
  PROVE  Telling(h, U, S, F)' /\ Once'
<1> Types
  BY TypesOf
<1>1. pc[s] = "up" /\ hand[s][c] # NoThread
  BY DEF Serve, Ack_get_st, Get_st, Ack_get_ft, Get_ft, Ack_set, Set_st, Set_ft, Is,
         NoThread, Phase
<1>2. c = <<h, 1>> /\ s \in U /\ s # h
  BY <1>1 DEF Telling
<1>3. PICK r \in HandType : r = hand[s][c]
  BY DEF Types
<1>4. \/ r.pc = "FT_STORE" /\ r.ft = F
      \/ s = Head(todo[h]) /\ pc[h] = "wSetSt" /\ r.pc \in {"SET_ST", "ST_ACKED"}
      \/ s = Head(todo[h]) /\ pc[h] = "wSetFt" /\ r.pc = "ST_STORE" /\ r.st = S
      \/ s = Head(todo[h]) /\ pc[h] = "wSetFt" /\ r.pc \in {"SET_FT", "FT_ACKED"} /\ st[s] = S
  BY <1>1, <1>2, <1>3 DEF Telling
<1>5. /\ UNCHANGED <<starts, pc, todo>>
      /\ \A x \in Hosts \ {s} : st'[x] = st[x] /\ ft'[x] = ft[x]
  BY DEF Types, Serve, Ack_get_st, Get_st, Ack_get_ft, Get_ft, Ack_set, Set_st, Set_ft
<1>6. Ups' = Ups
  BY <1>5 DEF Ups
<1>7. PICK p : p = Head(todo[h])
  OBVIOUS
<1>8. Once'
  <2>1. pc[s] # "off"
    BY <1>1
  <2> QED BY <1>5, <2>1, OnceKept
<1> DEFINE
  Rest(q) ==
    /\ Thread(s, c, q)
    /\ st'[s] = st[s] \/ st'[s] = S
    /\ \/ r.pc = "FT_STORE" /\ st'[s] = st[s] /\ ft'[s] = F /\ q = NoThread
       \/ /\ r.pc \in {"SET_ST", "ST_STORE", "SET_FT"} /\ s = p /\ ft'[s] = ft[s]
          /\ r.pc = "SET_ST" => q.pc = "ST_ACKED" /\ pc[h] = "wSetSt"
          /\ r.pc = "ST_STORE" => q.pc = "SET_FT" /\ pc[h] = "wSetFt" /\ st'[s] = S
          /\ r.pc = "SET_FT" => q.pc = "FT_ACKED" /\ pc[h] = "wSetFt" /\ st'[s] = S
<1>9. PICK q \in HandType : Rest(q)
  <2>1. CASE Ack_set(s, c)
    <3>1. CASE r.pc = "SET_ST"
      <4>1. Thread(s, c, Phase("ST_ACKED")) /\ st' = st /\ ft' = ft
        BY <1>3, <2>1, <3>1 DEF Ack_set, Is
      <4>2. Rest(Phase("ST_ACKED"))
        BY <1>4, <1>7, <3>1, <4>1, EmptyTypes DEF Phases
      <4> HIDE DEF Rest
      <4> QED BY <4>2, EmptyTypes DEF Phases
    <3>2. CASE r.pc = "SET_FT"
      <4>1. Thread(s, c, Phase("FT_ACKED")) /\ st' = st /\ ft' = ft
        BY <1>3, <2>1, <3>2 DEF Ack_set, Is
      <4>2. Rest(Phase("FT_ACKED"))
        BY <1>4, <1>7, <3>2, <4>1, EmptyTypes DEF Phases
      <4> HIDE DEF Rest
      <4> QED BY <4>2, EmptyTypes DEF Phases
    <3> QED BY <1>3, <2>1, <3>1, <3>2 DEF Ack_set, Is
  <2>2. CASE Set_st(s, c)
    <3>1. /\ r.pc = "ST_STORE" /\ Thread(s, c, Phase("SET_FT")) /\ st'[s] = r.st /\ ft' = ft
      BY <1>3, <2>2 DEF Set_st, Is, Types
    <3>2. Rest(Phase("SET_FT"))
      BY <1>4, <1>7, <3>1, EmptyTypes DEF Phases
    <3> HIDE DEF Rest
    <3> QED BY <3>2, EmptyTypes DEF Phases
  <2>3. CASE Set_ft(s, c)
    <3>1. /\ r.pc = "FT_STORE" /\ Thread(s, c, NoThread) /\ ft'[s] = r.ft /\ st' = st
      BY <1>3, <2>3 DEF Set_ft, Is, Types
    <3>2. Rest(NoThread)
      BY <1>4, <3>1
    <3> HIDE DEF Rest
    <3> QED BY <3>2, EmptyTypes
  <2>4. ASSUME Ack_get_st(s, c) \/ Get_st(s, c) \/ Ack_get_ft(s, c) \/ Get_ft(s, c)
        PROVE  FALSE
    BY <1>3, <1>4, <2>4 DEF Ack_get_st, Get_st, Ack_get_ft, Get_ft, Is
  <2> HIDE DEF Rest
  <2> QED BY <2>1, <2>2, <2>3, <2>4 DEF Serve
<1>10. /\ hand'[s][c] = q
       /\ \A x \in Hosts, y \in Lives : x # s \/ y # c => hand'[x][y] = hand[x][y]
  BY <1>9, ThreadStep
<1>11. ASSUME NEW x \in U
       PROVE  \/ x \in ToSet(todo[h])
              \/ st'[x] = S /\ (ft'[x] = F \/ hand'[x][<<h, 1>>].pc = "FT_STORE")
  <2>1. CASE x # s
    BY <1>2, <1>5, <1>10, <2>1 DEF Telling
  <2>2. CASE x = s /\ r.pc = "FT_STORE"
    BY <1>2, <1>3, <1>9, <2>2 DEF Telling
  <2>3. CASE x = s /\ r.pc # "FT_STORE"
    <3>1. \/ x \in ToSet(todo[h])
          \/ st[x] = S /\ ft[x] = F
      BY <1>2, <1>3, <2>3 DEF Telling
    <3> QED BY <1>9, <2>3, <3>1
  <2> QED BY <2>1, <2>2, <2>3
<1>12. ASSUME NEW x \in Hosts, NEW y \in Lives, hand'[x][y] # NoThread
       PROVE  /\ y = <<h, 1>> /\ x \in U
              /\ \/ hand'[x][y].pc = "FT_STORE" /\ hand'[x][y].ft = F
                 \/ pc[h] \in {"wSetSt", "wSetFt"} /\ x = p
  <2>1. CASE x = s /\ y = c
    BY <1>2, <1>9, <1>10, <1>12, <2>1
  <2>2. CASE x # s \/ y # c
    BY <1>7, <1>10, <1>12, <2>2 DEF Telling
  <2> QED BY <2>1, <2>2
<1>13. pc[h] = "wSetSt" => p \in U /\ hand'[p][<<h, 1>>].pc \in {"SET_ST", "ST_ACKED"}
  <2> SUFFICES ASSUME pc[h] = "wSetSt"
               PROVE  p \in U /\ hand'[p][<<h, 1>>].pc \in {"SET_ST", "ST_ACKED"}
    OBVIOUS
  <2>1. p \in U /\ hand[p][<<h, 1>>].pc \in {"SET_ST", "ST_ACKED"}
    BY <1>7 DEF Telling
  <2>2. CASE p = s
    <3>1. r.pc \in {"SET_ST", "ST_ACKED"}
      BY <1>2, <1>3, <2>1, <2>2
    <3> QED BY <1>2, <1>9, <1>10, <2>1, <2>2, <3>1
  <2>3. CASE p # s
    BY <1>2, <1>10, <2>1, <2>3
  <2> QED BY <2>2, <2>3
<1>14. pc[h] = "wSetFt" =>
         /\ p \in U
         /\ \/ hand'[p][<<h, 1>>].pc = "ST_STORE" /\ hand'[p][<<h, 1>>].st = S
            \/ hand'[p][<<h, 1>>].pc \in {"SET_FT", "FT_ACKED"} /\ st'[p] = S
  <2> SUFFICES ASSUME pc[h] = "wSetFt"
               PROVE  /\ p \in U
                      /\ \/ hand'[p][<<h, 1>>].pc = "ST_STORE" /\ hand'[p][<<h, 1>>].st = S
                         \/ hand'[p][<<h, 1>>].pc \in {"SET_FT", "FT_ACKED"} /\ st'[p] = S
    OBVIOUS
  <2>1. /\ p \in U
        /\ \/ hand[p][<<h, 1>>].pc = "ST_STORE" /\ hand[p][<<h, 1>>].st = S
           \/ hand[p][<<h, 1>>].pc \in {"SET_FT", "FT_ACKED"} /\ st[p] = S
    BY <1>7 DEF Telling
  <2>2. CASE p = s
    <3>1. r.pc \in {"ST_STORE", "SET_FT", "FT_ACKED"}
      BY <1>2, <1>3, <2>1, <2>2
    <3> QED BY <1>2, <1>9, <1>10, <2>1, <2>2, <3>1
  <2>3. CASE p # s
    BY <1>2, <1>5, <1>10, <2>1, <2>3
  <2> QED BY <2>2, <2>3
<1>15. Telling(h, U, S, F)'
  BY <1>2, <1>5, <1>6, <1>7, <1>11, <1>12, <1>13, <1>14 DEF Telling
<1> QED
  BY <1>8, <1>15

\* Nobody has left, waits for a server that is gone, or was misled.
LEMMA NobodyLeft ==
  ASSUME JoinInv, Once, Nobody \/ OneJoins
  PROVE  /\ \A s \in Hosts, c \in Lives : ~ Keeps(s, c) /\ ~ Hangup(s, c)
         /\ \A x \in Hosts : ~ Exit(x) /\ ~ PeerGone(x)
<1> Types
  BY TypesOf
<1>1. CASE Nobody
  BY <1>1 DEF Nobody, Keeps, Hangup, Exit, PeerGone, Is, Joining
<1>2. ASSUME NEW h \in Hosts, NEW U, NEW S, NEW F,
             Asking(h, U, S, F) \/ Telling(h, U, S, F)
      PROVE  /\ \A s \in Hosts, c \in Lives : ~ Keeps(s, c) /\ ~ Hangup(s, c)
             /\ \A x \in Hosts : ~ Exit(x) /\ ~ PeerGone(x)
  <2>1. pc[h] # "off" /\ starts[h] = 1
    BY <1>2 DEF Asking, Telling, Once
  <2>2. ~ Left(<<h, 1>>)
    BY <2>1 DEF Left
  <2>3. ASSUME NEW s \in Hosts, NEW c \in Lives, Keeps(s, c) \/ Hangup(s, c)
        PROVE  FALSE
    <3>1. hand[s][c] # NoThread /\ Left(c)
      BY <2>3 DEF Keeps, Hangup, Is, NoThread, Phase
    <3>2. c = <<h, 1>>
      BY <1>2, <3>1 DEF Asking, Telling
    <3> QED BY <2>2, <3>1, <3>2
  <2>4. ASSUME NEW x \in Hosts, Exit(x) \/ PeerGone(x)
        PROVE  FALSE
    <3>1. pc[x] \in {"misled", "wSt", "wFt", "wSetSt", "wSetFt"}
      BY <2>4 DEF Exit, PeerGone, Joining
    <3>2. x = h /\ pc[h] # "misled"
      BY <1>2, <3>1 DEF Asking, Telling
    <3>3. At(h) = NoThread
      BY <2>4, <3>2 DEF Exit, PeerGone
    <3>4. hand[Head(todo[h])][<<h, 1>>].pc = "none"
      BY <2>1, <3>3, OnlyLife DEF NoThread, Phase
    <3> QED BY <1>2, <3>1, <3>2, <3>4 DEF Asking, Telling, AnswersSt, AnswersFt
  <2> QED BY <2>3, <2>4
<1> QED
  BY <1>1, <1>2 DEF OneJoins, OneAsks, OneTells

\* The host that joins, or joined last, after the step.
LEMMA AskingAfter ==
  ASSUME NEW h \in Hosts, NEW U \in SUBSET Hosts, NEW S \in Seq(Hosts), NEW F \in Tables,
         Asking(h, U, S, F)' /\ TrueOf(S, F, U)
  PROVE  OneJoins'
<1>1. OneAsks'
  BY DEF OneAsks, Asking
<1> QED
  BY <1>1 DEF OneJoins

LEMMA TellingAfter ==
  ASSUME NEW h \in Hosts, NEW U, NEW S, NEW F,
         Telling(h, U, S, F)' /\ TrueOf(S, F, U \cup {h})
  PROVE  OneJoins'
<1>1. S = st'[h] /\ F = ft'[h] /\ U = Ups' \ {h}
  BY DEF Telling
<1>2. U \cup {h} = Ups' \cup {h}
  BY <1>1
<1>3. Telling(h, Ups \ {h}, st[h], ft[h])'
  BY <1>1 DEF Telling
<1>4. OneTells'
  BY <1>1, <1>2, <1>3 DEF OneTells, Telling
<1> QED
  BY <1>4 DEF OneJoins

\* Who is not the first to do is still to do after it.
LEMMA TailSet ==
  ASSUME NEW q \in Seq(Hosts), q # <<>>
  PROVE  ToSet(q) = ToSet(Tail(q)) \cup {Head(q)}
<1>1. PICK n \in Nat : n = Len(q)
  OBVIOUS
<1>2. PICK t : t = Tail(q)
  OBVIOUS
<1>3. n > 0 /\ t \in Seq(Hosts) /\ Len(t) = n - 1 /\ \A i \in 1 .. n - 1 : t[i] = q[i + 1]
  BY <1>1, <1>2
<1>4. DOMAIN q = 1 .. n /\ DOMAIN t = 1 .. n - 1 /\ Head(q) = q[1]
  BY <1>1, <1>3
<1>5. ASSUME NEW i \in 1 .. n
      PROVE  q[i] \in {t[j] : j \in 1 .. n - 1} \cup {q[1]}
  <2>1. CASE i = 1
    BY <2>1
  <2>2. CASE i # 1
    <3>1. i - 1 \in 1 .. n - 1 /\ t[i - 1] = q[(i - 1) + 1] /\ (i - 1) + 1 = i
      BY <1>3, <2>2
    <3> QED BY <3>1
  <2> QED BY <2>1, <2>2
<1>6. \A j \in 1 .. n - 1 : t[j] \in {q[i] : i \in 1 .. n}
  BY <1>3
<1>7. q[1] \in {q[i] : i \in 1 .. n}
  BY <1>3
<1>8. {q[i] : i \in 1 .. n} = {t[j] : j \in 1 .. n - 1} \cup {q[1]}
  BY <1>5, <1>6, <1>7
<1> QED
  BY <1>2, <1>4, <1>8 DEF ToSet

\* Only the host that joins takes steps of a join.
LEMMA OnlyJoiner ==
  ASSUME NEW h \in Hosts, \A x \in Hosts \ {h} : pc[x] \in {"off", "up"},
         NEW x \in Hosts, Join(x)
  PROVE  x = h
BY DEF Join, EndInput, Refused, Connect, Tries, Update_local_st, Update_local_ft,
       Update_remote_st, Update_remote_ft

\* Input ends when all servers are tried, as long as no table can be full.
LEMMA AllTried ==
  ASSUME JoinInv, MAX_STARTS < MAX_SERVERS, NEW h \in Hosts, EndInput(h)
  PROVE  todo[h] = <<>>
<1>1. Len(st[h]) <= Started /\ Started <= MAX_STARTS
  BY TypesOf, RoomBounds, OwnTables DEF JoinInv, MainThread
<1>2. Len(st[h]) \in Nat /\ Started \in Nat /\ MAX_STARTS \in Nat /\ MAX_SERVERS \in Nat
  BY TypesOf, Counts, RfsJoinAssumption DEF Types
<1> QED
  BY <1>1, <1>2 DEF EndInput

\* The next host asks, ...
LEMMA AskingJoin ==
  ASSUME JoinInv, JoinInv', Once, MAX_STARTS < MAX_SERVERS,
         NEW h \in Hosts, NEW U \in SUBSET Hosts, NEW S \in Seq(Hosts),
         NEW F \in Tables, Asking(h, U, S, F), TrueOf(S, F, U), Join(h)
  PROVE  Once' /\ OneJoins'
<1> Types
  BY TypesOf
<1>1. /\ pc[h] \in {"input", "wSt", "wFt"} /\ h \notin U
      /\ <<h, 1>> \in Lives /\ Life(h) = <<h, 1>>
      /\ At(h) = hand[Head(todo[h])][<<h, 1>>] /\ Peer(h) = Head(todo[h])
  BY OnlyLife DEF Asking, Ups
<1>2. ASSUME NEW p, Goto(h, p), p # "off", UNCHANGED starts,
             \A x \in Hosts \ {h} : st'[x] = st[x] /\ ft'[x] = ft[x]
      PROVE  Once'
  BY <1>1, <1>2, OnceKept DEF Goto, Types
<1>3. CASE Refused(h)
  <2>1. /\ todo[h] # <<>> /\ pc[h] = "input" /\ pc[Head(todo[h])] # "up"
        /\ todo' = [todo EXCEPT ![h] = Tail(todo[h])]
        /\ UNCHANGED <<starts, pc, st, ft, hand>>
    BY <1>1, <1>3 DEF Refused, Tries
  <2>2. PICK q : q = Tail(todo[h])
    OBVIOUS
  <2>3. U \subseteq ToSet(q)
    <3>1. Head(todo[h]) \notin U /\ U \subseteq ToSet(todo[h])
      BY <2>1 DEF Asking, Ups
    <3> QED BY <2>1, <2>2, <3>1, TailSet DEF Types
  <2>4. todo'[h] = q /\ Ups' = Ups
    BY <2>1, <2>2 DEF Types, Ups
  <2>5. Asking(h, U, S, F)'
    BY <2>1, <2>3, <2>4 DEF Asking
  <2>6. Once'
    BY <2>1, OnceKept
  <2> QED BY <2>5, <2>6, AskingAfter
<1>4. CASE Connect(h)
  <2>1. PICK p \in Hosts : p = Head(todo[h])
    BY <1>4, CallerTypes DEF Connect, Tries, Peer
  <2>2. /\ pc[h] = "input" /\ st[h] = <<>> /\ p \in U
        /\ Thread(p, <<h, 1>>, Phase("GET_ST")) /\ Goto(h, "wSt")
        /\ UNCHANGED <<starts, todo, st, ft>>
    BY <1>1, <1>4, <2>1 DEF Connect, Tries, Request, Asking, Ups
  <2>3. /\ hand'[p][<<h, 1>>] = Phase("GET_ST") /\ Phase("GET_ST").pc = "GET_ST"
        /\ \A x \in Hosts, c \in Lives : x # p \/ c # <<h, 1>> => hand'[x][c] = hand[x][c]
    BY <1>1, <2>1, <2>2, EmptyTypes, ThreadStep DEF Phases
  <2>4. \A x \in Hosts : pc'[x] = IF x = h THEN "wSt" ELSE pc[x]
    BY <2>2 DEF Goto, Types
  <2>5. Ups' = Ups
    BY <2>2, <2>4 DEF Ups
  <2>6. AnswersSt(hand'[p][<<h, 1>>], S)
    BY <2>3 DEF AnswersSt
  <2>7. \A x \in Hosts, c \in Lives :
          hand'[x][c] # NoThread => c = <<h, 1>> /\ x = p
    BY <2>2, <2>3 DEF Asking
  <2>8. Asking(h, U, S, F)'
    BY <2>1, <2>2, <2>4, <2>5, <2>6, <2>7 DEF Asking
  <2>9. Once'
    BY <1>2, <2>2
  <2> QED BY <2>8, <2>9, AskingAfter
<1>5. CASE Update_local_st(h)
  <2>1. PICK p \in Hosts : p = Head(todo[h]) /\ p \in U
    BY <1>5 DEF Update_local_st, Asking
  <2>2. PICK r \in HandType : r = hand[p][<<h, 1>>]
    BY <1>1 DEF Types
  <2>3. pc[h] = "wSt" /\ At(h) = r /\ r.pc = "ST_SENT" /\ r.n = Len(S) /\ r.st = S
    BY <1>1, <1>5, <2>1, <2>2 DEF Update_local_st, Asking, AnswersSt
  <2>4. PICK T : T = Append(SubSeq(S, 1, Len(S)), h)
    OBVIOUS
  <2>5. /\ st' = [st EXCEPT ![h] = T] /\ Request(h, "GET_FT", "wFt")
        /\ UNCHANGED <<starts, todo, ft>>
    <3>1. Len(S) \in Nat
      OBVIOUS
    <3> QED BY <1>5, <2>3, <2>4, <3>1 DEF Update_local_st
  <2>6. T = Append(S, h)
    <3>1. SubSeq(S, 1, Len(S)) = S
      OBVIOUS
    <3> QED BY <2>4, <3>1
  <2>7. Thread(p, <<h, 1>>, Phase("GET_FT")) /\ Goto(h, "wFt")
    BY <1>1, <2>1, <2>5 DEF Request
  <2>8. /\ hand'[p][<<h, 1>>] = Phase("GET_FT") /\ Phase("GET_FT").pc = "GET_FT"
        /\ \A x \in Hosts, c \in Lives : x # p \/ c # <<h, 1>> => hand'[x][c] = hand[x][c]
    BY <1>1, <2>7, EmptyTypes, ThreadStep DEF Phases
  <2>9. \A x \in Hosts : /\ pc'[x] = IF x = h THEN "wFt" ELSE pc[x]
                         /\ st'[x] = IF x = h THEN T ELSE st[x]
    BY <2>5, <2>7 DEF Goto, Types
  <2>10. Ups' = Ups
    BY <2>3, <2>9 DEF Ups
  <2>11. AnswersFt(hand'[p][<<h, 1>>], F)
    BY <2>8 DEF AnswersFt
  <2>12. \A x \in Hosts, c \in Lives :
           hand'[x][c] # NoThread => c = <<h, 1>> /\ x = p
    BY <2>1, <2>8 DEF Asking
  <2>13. Asking(h, U, S, F)'
    BY <1>1, <2>1, <2>5, <2>6, <2>9, <2>10, <2>11, <2>12 DEF Asking
  <2>14. Once'
    BY <1>2, <2>5, <2>7, <2>9
  <2> QED BY <2>13, <2>14, AskingAfter
<1>6. CASE Update_local_ft(h)
  <2>1. PICK p \in Hosts : p = Head(todo[h]) /\ p \in U
    BY <1>6 DEF Update_local_ft, Asking
  <2>2. PICK r \in HandType : r = hand[p][<<h, 1>>]
    BY <1>1 DEF Types
  <2>3. /\ pc[h] = "wFt" /\ At(h) = r /\ r.n = Total_files(F) /\ r.ft = F
        /\ st[h] = Append(S, h)
    BY <1>1, <1>6, <2>1, <2>2 DEF Update_local_ft, Asking, AnswersFt
  <2>4. PICK G : G = Filled(h, F)
    OBVIOUS
  <2>5. /\ ft' = [ft EXCEPT ![h] = G] /\ Request(h, "SET_ST", "wSetSt")
        /\ UNCHANGED <<starts, todo, st>>
    <3>1. Total_files(F) \in Nat
      <4>1. {f \in Files : F[f] # <<>>} \subseteq Files
        OBVIOUS
      <4> QED BY <4>1, RfsJoinAssumption, FS_Subset, FS_CardinalityType DEF Total_files
    <3> QED BY <1>6, <2>3, <2>4, <3>1 DEF Update_local_ft
  <2>6. Thread(p, <<h, 1>>, Phase("SET_ST")) /\ Goto(h, "wSetSt")
    BY <1>1, <2>1, <2>5 DEF Request
  <2>7. /\ hand'[p][<<h, 1>>] = Phase("SET_ST") /\ Phase("SET_ST").pc = "SET_ST"
        /\ \A x \in Hosts, c \in Lives : x # p \/ c # <<h, 1>> => hand'[x][c] = hand[x][c]
    BY <1>1, <2>6, EmptyTypes, ThreadStep DEF Phases
  <2>8. \A x \in Hosts : /\ pc'[x] = IF x = h THEN "wSetSt" ELSE pc[x]
                         /\ ft'[x] = IF x = h THEN G ELSE ft[x]
    BY <2>5, <2>6 DEF Goto, Types
  <2>9. Ups' = U
    BY <2>3, <2>8 DEF Ups, Asking
  <2>10. PICK T : T = Append(S, h)
    OBVIOUS
  <2>11. T \in Seq(Hosts) /\ st'[h] = T /\ G \in Tables
    <3>1. ft'[h] \in Tables
      BY DEF JoinInv, TypeOK
    <3> QED BY <2>3, <2>5, <2>8, <2>10, <3>1
  <2>12. TrueOf(T, G, U \cup {h})
    <3>1. h \notin ToSet(S)
      BY <1>1 DEF TrueOf
    <3>2. This_host_idx(h) = Len(S) + 1
      BY <2>10, <2>11, <3>1, LastRow
    <3>3. G = [f \in Files |-> IF f \in Disk[h] THEN Append(F[f], Len(S) + 1) ELSE F[f]]
      BY <2>4, <3>2 DEF Filled
    <3> QED BY <1>1, <2>10, <3>3, TrueAppend
  <2>13. \A x \in Hosts, c \in Lives :
           hand'[x][c] # NoThread => c = <<h, 1>> /\ x = p
    BY <2>1, <2>7 DEF Asking
  <2>14. Telling(h, U, T, G)'
    <3>1. /\ h \notin U /\ pc'[h] = "wSetSt" /\ Ups' \ {h} = U
          /\ st'[h] = T /\ ft'[h] = G
      BY <1>1, <2>1, <2>8, <2>9, <2>11 DEF Asking, Ups
    <3>2. \A x \in Hosts \ {h} : pc'[x] \in {"off", "up"}
      BY <2>8 DEF Asking
    <3>3. todo' = todo /\ \A x \in U : x \in ToSet(todo'[h])
      BY <2>5 DEF Asking
    <3>4. Head(todo'[h]) = p /\ hand'[p][<<h, 1>>].pc = "SET_ST"
      BY <2>1, <2>7, <3>3
    <3>5. \A x \in Hosts, c \in Lives :
            hand'[x][c] # NoThread => c = <<h, 1>> /\ x \in U /\ x = Head(todo'[h])
      BY <2>1, <2>13, <3>4
    <3> QED BY ONLY <2>1, <3>1, <3>2, <3>3, <3>4, <3>5 DEF Telling
  <2>15. Once'
    BY <1>2, <2>5, <2>6, <2>8
  <2> QED BY <2>12, <2>14, <2>15, TellingAfter
<1>7. CASE EndInput(h)
  <2>1. todo[h] = <<>> /\ pc[h] = "input" /\ st[h] = <<>> /\ ft[h] = NoFiles
    BY <1>7, AllTried DEF EndInput, Asking
  <2>2. U = {}
    BY <2>1 DEF Asking, ToSet
  <2>3. PICK T : T = <<h>>
    OBVIOUS
  <2>4. PICK G : G = Filled(h, NoFiles)
    OBVIOUS
  <2>5. /\ st' = [st EXCEPT ![h] = T] /\ ft' = [ft EXCEPT ![h] = G] /\ Goto(h, "up")
        /\ UNCHANGED <<starts, todo, hand>>
    BY <1>7, <2>1, <2>3, <2>4 DEF EndInput
  <2>6. \A x \in Hosts : /\ pc'[x] = IF x = h THEN "up" ELSE pc[x]
                         /\ st'[x] = IF x = h THEN T ELSE st[x]
                         /\ ft'[x] = IF x = h THEN G ELSE ft[x]
    BY <2>5 DEF Goto, Types
  <2>7. Ups' \ {h} = {}
    BY <2>2, <2>6 DEF Ups, Asking
  <2>8. TrueOf(T, G, {} \cup {h})
    <3>1. PICK E : E = <<>>
      OBVIOUS
    <3>2. /\ E \in Seq(Hosts) /\ Len(E) = 0 /\ ToSet(E) = {} /\ IsInjective(E)
          /\ T = Append(E, h)
      BY <2>3, <3>1 DEF ToSet, IsInjective
    <3>3. TrueOf(E, NoFiles, {})
      BY <3>1, <3>2 DEF TrueOf, NoFiles
    <3>4. This_host_idx(h) = Len(E) + 1
      BY <2>6, <3>2, LastRow
    <3>5. G = [f \in Files |->
                 IF f \in Disk[h] THEN Append(NoFiles[f], Len(E) + 1) ELSE NoFiles[f]]
      BY <2>4, <3>4 DEF Filled
    <3>6. PICK V \in SUBSET Hosts : V = {}
      OBVIOUS
    <3>7. TrueOf(Append(E, h), G, V \cup {h})
      BY <1>1, <3>2, <3>3, <3>5, <3>6, EmptyTypes, TrueAppend
    <3> QED BY <3>2, <3>6, <3>7
  <2>9. \A x \in Hosts, c \in Lives : hand'[x][c] = NoThread
    BY <2>2, <2>5 DEF Asking
  <2>10. Telling(h, {}, T, G)'
    BY <2>1, <2>5, <2>6, <2>7, <2>9 DEF Asking, Telling
  <2>11. Once'
    BY <1>2, <2>5, <2>6
  <2> QED BY <2>8, <2>10, <2>11, TellingAfter
<1>8. ~ Update_remote_st(h) /\ ~ Update_remote_ft(h)
  BY <1>1 DEF Update_remote_st, Update_remote_ft
<1> QED
  BY <1>3, <1>4, <1>5, <1>6, <1>7, <1>8 DEF Join

\* ... and tells.
LEMMA TellingJoin ==
  ASSUME JoinInv, Once, MAX_STARTS < MAX_SERVERS,
         NEW h \in Hosts, NEW U \in SUBSET Hosts, NEW S \in Seq(Hosts),
         NEW F \in Tables, Telling(h, U, S, F), TrueOf(S, F, U \cup {h}), Join(h)
  PROVE  Once' /\ OneJoins'
<1> Types
  BY TypesOf
<1>1. /\ pc[h] \in {"input", "wSetSt", "wSetFt"} /\ h \notin U
      /\ st[h] = S /\ ft[h] = F
      /\ <<h, 1>> \in Lives /\ Life(h) = <<h, 1>>
      /\ At(h) = hand[Head(todo[h])][<<h, 1>>] /\ Peer(h) = Head(todo[h])
  <2>1. pc[h] \in {"input", "wSetSt", "wSetFt", "up"} /\ pc[h] # "up"
    BY DEF Telling, Join, EndInput, Refused, Connect, Tries, Update_local_st,
           Update_local_ft, Update_remote_st, Update_remote_ft
  <2> QED BY <2>1, OnlyLife DEF Telling
<1>2. S # <<>>
  <2>1. h \in ToSet(S)
    BY DEF TrueOf
  <2> QED BY <2>1 DEF ToSet
<1>3. ASSUME NEW p, Goto(h, p), p # "off", UNCHANGED <<starts, st, ft>>
      PROVE  Once'
  BY <1>1, <1>3, OnceKept DEF Goto, Types
<1>4. PICK p : p = Head(todo[h])
  OBVIOUS
<1>5. PICK t : t = Tail(todo[h])
  OBVIOUS
<1>6. todo[h] # <<>> => /\ p \in Hosts /\ t \in Seq(Hosts)
                        /\ ToSet(todo[h]) = ToSet(t) \cup {p}
  BY <1>4, <1>5, CallerTypes, TailSet DEF Peer, Types
<1>7. CASE EndInput(h)
  <2>1. /\ todo[h] = <<>> /\ pc[h] = "input" /\ Goto(h, "up")
        /\ UNCHANGED <<starts, todo, st, ft, hand>>
    BY <1>1, <1>2, <1>7, AllTried DEF EndInput
  <2>2. \A x \in Hosts : pc'[x] = IF x = h THEN "up" ELSE pc[x]
    BY <2>1 DEF Goto, Types
  <2>3. Ups' \ {h} = U
    BY <2>1, <2>2 DEF Ups, Telling
  <2>4. Telling(h, U, S, F)'
    BY <1>1, <2>1, <2>2, <2>3 DEF Telling
  <2>5. Once'
    BY <1>3, <2>1
  <2> QED BY <2>4, <2>5, TellingAfter
<1>8. CASE Refused(h)
  <2>1. /\ todo[h] # <<>> /\ pc[h] = "input" /\ pc[p] # "up"
        /\ todo'[h] = t
        /\ UNCHANGED <<starts, pc, st, ft, hand>>
    BY <1>1, <1>4, <1>5, <1>8 DEF Refused, Tries, Types
  <2>2. Ups' = Ups /\ p \notin U
    BY <2>1 DEF Ups, Telling
  <2>3. \A x \in U : x \in ToSet(todo[h]) => x \in ToSet(t)
    BY <1>6, <2>1, <2>2
  <2>4. Telling(h, U, S, F)'
    BY <1>1, <2>1, <2>2, <2>3 DEF Telling
  <2>5. Once'
    BY <2>1, OnceKept
  <2> QED BY <2>4, <2>5, TellingAfter
<1>9. CASE Connect(h)
  <2>1. /\ pc[h] = "input" /\ todo[h] # <<>> /\ pc[p] = "up"
        /\ Thread(p, <<h, 1>>, Phase("SET_ST")) /\ Goto(h, "wSetSt")
        /\ UNCHANGED <<starts, todo, st, ft>>
    BY <1>1, <1>2, <1>4, <1>9 DEF Connect, Tries, Request
  <2>2. p \in U /\ p \in ToSet(todo[h])
    BY <1>6, <2>1 DEF Telling, Ups
  <2>3. /\ hand'[p][<<h, 1>>].pc = "SET_ST"
        /\ \A x \in Hosts, c \in Lives : x # p \/ c # <<h, 1>> => hand'[x][c] = hand[x][c]
    BY <1>1, <2>1, <2>2, EmptyTypes, ThreadStep DEF Phases
  <2>4. \A x \in Hosts : pc'[x] = IF x = h THEN "wSetSt" ELSE pc[x]
    BY <2>1 DEF Goto, Types
  <2>5. Ups' \ {h} = U
    BY <2>1, <2>4 DEF Ups, Telling
  <2>6. ASSUME NEW x \in U
        PROVE  \/ x \in ToSet(todo[h])
               \/ st[x] = S /\ (ft[x] = F \/ hand'[x][<<h, 1>>].pc = "FT_STORE")
    BY <1>1, <2>2, <2>3 DEF Telling
  <2>7. ASSUME NEW x \in Hosts, NEW c \in Lives, hand'[x][c] # NoThread
        PROVE  /\ c = <<h, 1>> /\ x \in U
               /\ \/ hand'[x][c].pc = "FT_STORE" /\ hand'[x][c].ft = F
                  \/ x = p
    BY <2>1, <2>2, <2>3, <2>7 DEF Telling
  <2>8. Telling(h, U, S, F)'
    BY <1>1, <1>4, <2>1, <2>2, <2>3, <2>4, <2>5, <2>6, <2>7 DEF Telling
  <2>9. Once'
    BY <1>3, <2>1
  <2> QED BY <2>8, <2>9, TellingAfter
<1>10. CASE Update_remote_st(h)
  <2>1. PICK q : q = [Phase("ST_STORE") EXCEPT !.st = S]
    OBVIOUS
  <2>2. q \in HandType /\ q.pc = "ST_STORE" /\ q.st = S
    BY <2>1, EmptyTypes DEF Phase, HandType, Phases
  <2>3. /\ pc[h] = "wSetSt" /\ Thread(p, <<h, 1>>, q) /\ Goto(h, "wSetFt")
        /\ UNCHANGED <<starts, todo, st, ft>>
    BY <1>1, <1>4, <1>10, <2>1 DEF Update_remote_st
  <2>4. p \in U /\ p \in ToSet(todo[h])
    BY <1>4, <1>6, <2>3 DEF Telling, JoinInv, MainThread, Joining
  <2>5. /\ hand'[p][<<h, 1>>] = q
        /\ \A x \in Hosts, c \in Lives : x # p \/ c # <<h, 1>> => hand'[x][c] = hand[x][c]
    BY <1>1, <2>2, <2>3, <2>4, ThreadStep
  <2>6. \A x \in Hosts : pc'[x] = IF x = h THEN "wSetFt" ELSE pc[x]
    BY <2>3 DEF Goto, Types
  <2>7. Ups' \ {h} = U
    BY <2>3, <2>6 DEF Ups, Telling
  <2>8. ASSUME NEW x \in U
        PROVE  \/ x \in ToSet(todo[h])
               \/ st[x] = S /\ (ft[x] = F \/ hand'[x][<<h, 1>>].pc = "FT_STORE")
    BY <1>1, <2>4, <2>5 DEF Telling
  <2>9. ASSUME NEW x \in Hosts, NEW c \in Lives, hand'[x][c] # NoThread
        PROVE  /\ c = <<h, 1>> /\ x \in U
               /\ \/ hand'[x][c].pc = "FT_STORE" /\ hand'[x][c].ft = F
                  \/ x = p
    BY <1>4, <2>3, <2>4, <2>5, <2>9 DEF Telling
  <2>10. Telling(h, U, S, F)'
    BY <1>1, <1>4, <2>2, <2>3, <2>4, <2>5, <2>6, <2>7, <2>8, <2>9 DEF Telling
  <2>11. Once'
    BY <1>3, <2>3
  <2> QED BY <2>10, <2>11, TellingAfter
<1>11. CASE Update_remote_ft(h)
  <2>1. PICK q : q = [Phase("FT_STORE") EXCEPT !.ft = F]
    OBVIOUS
  <2>2. q \in HandType /\ q.pc = "FT_STORE" /\ q.ft = F
    BY <2>1, EmptyTypes DEF Phase, HandType, Phases
  <2>3. /\ pc[h] = "wSetFt" /\ At(h).pc = "FT_ACKED"
        /\ Thread(p, <<h, 1>>, q) /\ Goto(h, "input")
        /\ todo'[h] = t /\ UNCHANGED <<starts, st, ft>>
    BY <1>1, <1>4, <1>5, <1>11, <2>1 DEF Update_remote_ft, Types
  <2>4. p \in U /\ st[p] = S /\ todo[h] # <<>>
    BY <1>1, <1>4, <2>3 DEF Telling, JoinInv, MainThread, Joining
  <2>5. /\ hand'[p][<<h, 1>>] = q
        /\ \A x \in Hosts, c \in Lives : x # p \/ c # <<h, 1>> => hand'[x][c] = hand[x][c]
    BY <1>1, <2>2, <2>3, <2>4, ThreadStep
  <2>6. \A x \in Hosts : pc'[x] = IF x = h THEN "input" ELSE pc[x]
    BY <2>3 DEF Goto, Types
  <2>7. Ups' \ {h} = U
    BY <2>3, <2>6 DEF Ups, Telling
  <2>8. ASSUME NEW x \in U
        PROVE  \/ x \in ToSet(t)
               \/ st[x] = S /\ (ft[x] = F \/ hand'[x][<<h, 1>>].pc = "FT_STORE")
    <3>1. CASE x = p
      BY <2>2, <2>4, <2>5, <3>1
    <3>2. CASE x # p
      BY <1>1, <1>6, <2>4, <2>5, <3>2 DEF Telling
    <3> QED BY <3>1, <3>2
  <2>9. ASSUME NEW x \in Hosts, NEW c \in Lives, hand'[x][c] # NoThread
        PROVE  /\ c = <<h, 1>> /\ x \in U
               /\ hand'[x][c].pc = "FT_STORE" /\ hand'[x][c].ft = F
    <3>1. CASE x = p /\ c = <<h, 1>>
      BY <2>2, <2>4, <2>5, <3>1
    <3>2. CASE ~ (x = p /\ c = <<h, 1>>)
      BY <1>4, <2>3, <2>5, <2>9, <3>2 DEF Telling
    <3> QED BY <3>1, <3>2
  <2>10. Telling(h, U, S, F)'
    <3>1. h \notin U /\ pc'[h] = "input" /\ st'[h] = S /\ ft'[h] = F
      BY <2>3, <2>6 DEF Telling
    <3>2. \A x \in Hosts \ {h} : pc'[x] \in {"off", "up"}
      BY <2>6 DEF Telling
    <3>3. \A x \in U : \/ x \in ToSet(todo'[h])
                       \/ /\ st'[x] = S
                          /\ ft'[x] = F \/ hand'[x][<<h, 1>>].pc = "FT_STORE"
      BY <2>3, <2>8
    <3> QED BY ONLY <2>7, <2>9, <3>1, <3>2, <3>3 DEF Telling
  <2>11. Once'
    BY <1>3, <2>3
  <2> QED BY <2>10, <2>11, TellingAfter
<1>12. ~ Update_local_st(h) /\ ~ Update_local_ft(h)
  BY <1>1 DEF Update_local_st, Update_local_ft
<1> QED
  BY <1>7, <1>8, <1>9, <1>10, <1>11, <1>12 DEF Join

\* When all is quiet the servers have the same tables, and true ones.
LEMMA Settled ==
  ASSUME JoinInv, Quiet, Nobody \/ OneJoins
  PROVE  \E S \in Seq(Hosts), F \in Tables :
           TrueOf(S, F, Ups) /\ \A x \in Ups : st[x] = S /\ ft[x] = F
<1> Types
  BY TypesOf
<1>1. CASE Nobody
  <2>1. PICK E : E = <<>>
    OBVIOUS
  <2>2. E \in Seq(Hosts) /\ ToSet(E) = {} /\ IsInjective(E)
    BY <2>1 DEF ToSet, IsInjective
  <2>3. TrueOf(E, NoFiles, {})
    BY <2>1, <2>2 DEF TrueOf, NoFiles
  <2>4. Ups = {}
    BY <1>1 DEF Nobody, Ups
  <2> QED BY <2>2, <2>3, <2>4, EmptyTypes
<1>2. ASSUME NEW h \in Hosts, NEW U, NEW S, NEW F, Asking(h, U, S, F)
      PROVE  FALSE
  BY <1>2 DEF Asking, Quiet
<1>3. ASSUME NEW h \in Hosts, Telling(h, Ups \ {h}, st[h], ft[h]),
             TrueOf(st[h], ft[h], Ups \cup {h})
      PROVE  /\ TrueOf(st[h], ft[h], Ups)
             /\ \A x \in Ups : st[x] = st[h] /\ ft[x] = ft[h]
  <2>1. pc[h] = "up" /\ todo[h] = <<>>
    BY <1>3 DEF Telling, Quiet
  <2>2. Ups \cup {h} = Ups /\ ToSet(todo[h]) = {}
    BY <2>1 DEF Ups, ToSet
  <2>3. starts[h] \in 0 .. MAX_STARTS
    BY DEF Types
  <2>4. ASSUME NEW x \in Ups \ {h}
        PROVE  st[x] = st[h] /\ ft[x] = ft[h]
    <3>1. \/ x \in ToSet(todo[h])
          \/ st[x] = st[h] /\ (ft[x] = ft[h] \/ hand[x][<<h, 1>>].pc = "FT_STORE")
      BY <1>3 DEF Telling
    <3>2. <<h, 1>> \in Lives
      <4>1. starts[h] >= 1 /\ MAX_STARTS \in Nat
        BY <2>1, RfsJoinAssumption DEF JoinInv, MainThread
      <4> QED BY <2>3, <4>1 DEF Lives
    <3>3. hand[x][<<h, 1>>].pc = "none"
      BY <3>2 DEF Quiet, Ups, NoThread, Phase
    <3> QED BY <2>2, <3>1, <3>3
  <2> QED BY <1>3, <2>2, <2>4
<1>4. CASE OneTells
  <2>1. PICK h \in Hosts : /\ Telling(h, Ups \ {h}, st[h], ft[h])
                           /\ TrueOf(st[h], ft[h], Ups \cup {h})
    BY <1>4 DEF OneTells
  <2>2. st[h] \in Seq(Hosts) /\ ft[h] \in Tables
    BY DEF Types
  <2> QED BY <1>3, <2>1, <2>2
<1> QED
  BY <1>1, <1>2, <1>4 DEF OneJoins, OneAsks

\* A host that starts while all is quiet, and names all servers, joins alone.
LEMMA CarefulStart ==
  ASSUME JoinInv, OneAtATime, NEW h \in Hosts, NEW names \in Names(h),
         Start(h, names), careful'
  PROVE  Once' /\ OneJoins'
<1> Types
  BY TypesOf
<1>1. /\ careful /\ Quiet /\ Ups \subseteq ToSet(names) /\ pc[h] = "off"
      /\ Once /\ (Nobody \/ OneJoins)
      /\ UNCHANGED <<st, ft, hand>>
  BY DEF Start, OneAtATime
<1>2. PICK S \in Seq(Hosts), F \in Tables :
        TrueOf(S, F, Ups) /\ \A x \in Ups : st[x] = S /\ ft[x] = F
  BY <1>1, Settled
<1>3. PICK U \in SUBSET Hosts : U = Ups
  BY DEF Ups
<1>4. starts[h] = 0 /\ st[h] = <<>> /\ ft[h] = NoFiles
  BY <1>1 DEF Once
<1>5. \A x \in Hosts : /\ starts'[x] = IF x = h THEN 1 ELSE starts[x]
                       /\ pc'[x] = IF x = h THEN "input" ELSE pc[x]
  BY <1>4 DEF Start, Goto, Types
<1>6. todo'[h] = names
  BY DEF Start, Types
<1>7. Ups' = U
  BY <1>1, <1>3, <1>5 DEF Ups
<1>8. Asking(h, U, S, F)'
  BY <1>1, <1>2, <1>3, <1>4, <1>5, <1>6, <1>7 DEF Asking, Quiet
<1>9. Once'
  BY <1>1, <1>5 DEF Once
<1> QED
  BY <1>2, <1>3, <1>8, <1>9, AskingAfter

LEMMA OneAtATimeInit == Init => OneAtATime
<1> SUFFICES ASSUME Init PROVE Once /\ Nobody
  BY DEF OneAtATime
<1> QED
  BY DEF Init, Once, Nobody

LEMMA OneAtATimeNext ==
  ASSUME MAX_STARTS < MAX_SERVERS
  PROVE  JoinInv /\ JoinInv' /\ OneAtATime /\ [Next]_vars => OneAtATime'
<1> SUFFICES ASSUME JoinInv, JoinInv', OneAtATime, [Next]_vars, careful'
             PROVE  Once' /\ (Nobody' \/ OneJoins')
  BY DEF OneAtATime
<1>1. ASSUME NEW h \in Hosts, NEW names \in Names(h), Start(h, names)
      PROVE  Once' /\ OneJoins'
  BY <1>1, CarefulStart
<1>2. SUFFICES ASSUME ~ \E h \in Hosts : \E names \in Names(h) : Start(h, names)
               PROVE  Once' /\ (Nobody' \/ OneJoins')
  BY <1>1
<1>3. ASSUME NEW h \in Hosts PROVE ~ Kill(h)
  BY DEF Kill
<1>4. careful /\ Once /\ (Nobody \/ OneJoins)
  <2>1. ASSUME NEW h \in Hosts, Join(h) \/ Exit(h) \/ PeerGone(h)
        PROVE  careful' = careful
    BY <2>1 DEF Join, EndInput, Refused, Connect, Update_local_st, Update_local_ft,
       Update_remote_st, Update_remote_ft, Exit, PeerGone
  <2>2. ASSUME NEW s \in Hosts, NEW c \in Lives,
               Serve(s, c) \/ Keeps(s, c) \/ Hangup(s, c)
        PROVE  careful' = careful
    BY <2>2 DEF Serve, Keeps, Hangup, Ack_get_st, Get_st, Ack_get_ft, Get_ft, Ack_set,
       Set_st, Set_ft
  <2>3. careful' = careful
    BY <1>2, <1>3, <2>1, <2>2 DEF vars, Next
  <2> QED BY <2>3 DEF OneAtATime
<1>5. CASE UNCHANGED vars
  <2>1. Once' /\ (Nobody => Nobody')
    BY <1>4, <1>5 DEF vars, Once, Nobody
  <2>2. CASE OneAsks
    <3>1. PICK h \in Hosts, U \in SUBSET Hosts, S \in Seq(Hosts), F \in Tables :
            Asking(h, U, S, F) /\ TrueOf(S, F, U)
      BY <2>2 DEF OneAsks
    <3>2. Asking(h, U, S, F)'
      BY <1>5, <3>1 DEF vars, Asking, Ups
    <3> QED BY <2>1, <3>1, <3>2, AskingAfter
  <2>3. CASE OneTells
    <3>1. PICK h \in Hosts : /\ Telling(h, Ups \ {h}, st[h], ft[h])
                             /\ TrueOf(st[h], ft[h], Ups \cup {h})
      BY <2>3 DEF OneTells
    <3>2. PICK U, S, F : U = Ups \ {h} /\ S = st[h] /\ F = ft[h]
      OBVIOUS
    <3>3. Telling(h, U, S, F)'
      BY <1>5, <3>1, <3>2 DEF vars, Telling, Ups
    <3>4. TrueOf(S, F, U \cup {h})
      BY <3>1, <3>2
    <3> QED BY <2>1, <3>3, <3>4, TellingAfter
  <2> QED BY <1>4, <2>1, <2>2, <2>3 DEF OneJoins
<1>6. ASSUME NEW x \in Hosts, Join(x) \/ Exit(x) \/ PeerGone(x) \/ Kill(x)
      PROVE  Once' /\ OneJoins'
  <2>1. Join(x)
    BY <1>3, <1>4, <1>6, NobodyLeft
  <2>2. pc[x] # "off" /\ ~ Nobody
    BY <2>1 DEF Nobody, Join, EndInput, Refused, Connect, Tries, Update_local_st,
       Update_local_ft, Update_remote_st, Update_remote_ft
  <2>3. CASE OneAsks
    <3>1. PICK h \in Hosts, U \in SUBSET Hosts, S \in Seq(Hosts), F \in Tables :
            Asking(h, U, S, F) /\ TrueOf(S, F, U)
      BY <2>3 DEF OneAsks
    <3>2. x = h
      BY <2>1, <3>1, OnlyJoiner DEF Asking
    <3> QED BY <1>4, <2>1, <3>1, <3>2, AskingJoin
  <2>4. CASE OneTells
    <3>1. PICK h \in Hosts : /\ Telling(h, Ups \ {h}, st[h], ft[h])
                             /\ TrueOf(st[h], ft[h], Ups \cup {h})
      BY <2>4 DEF OneTells
    <3>2. PICK U \in SUBSET Hosts, S \in Seq(Hosts), F \in Tables :
            U = Ups \ {h} /\ S = st[h] /\ F = ft[h]
      BY TypesOf DEF Types, Ups
    <3>3. x = h
      BY <2>1, <3>1, OnlyJoiner DEF Telling
    <3>4. Telling(h, U, S, F) /\ TrueOf(S, F, U \cup {h})
      <4>1. Ups \cup {h} = U \cup {h}
        BY <3>2
      <4> QED BY <3>1, <3>2, <4>1
    <3> QED BY <1>4, <2>1, <3>3, <3>4, TellingJoin
  <2> QED BY <1>4, <2>2, <2>3, <2>4 DEF OneJoins
<1>7. ASSUME NEW s \in Hosts, NEW c \in Lives, Serve(s, c) \/ Keeps(s, c) \/ Hangup(s, c)
      PROVE  Once' /\ OneJoins'
  <2>1. Serve(s, c)
    BY <1>4, <1>7, NobodyLeft
  <2>2. pc[s] # "off" /\ ~ Nobody
    BY <2>1 DEF Nobody, Serve, Ack_get_st, Get_st, Ack_get_ft, Get_ft, Ack_set, Set_st,
       Set_ft, Is
  <2>3. CASE OneAsks
    <3>1. PICK h \in Hosts, U \in SUBSET Hosts, S \in Seq(Hosts), F \in Tables :
            Asking(h, U, S, F) /\ TrueOf(S, F, U)
      BY <2>3 DEF OneAsks
    <3> QED BY <1>4, <2>1, <3>1, AskingServe, AskingAfter
  <2>4. CASE OneTells
    <3>1. PICK h \in Hosts : /\ Telling(h, Ups \ {h}, st[h], ft[h])
                             /\ TrueOf(st[h], ft[h], Ups \cup {h})
      BY <2>4 DEF OneTells
    <3>2. PICK U \in SUBSET Hosts, S \in Seq(Hosts), F \in Tables :
            U = Ups \ {h} /\ S = st[h] /\ F = ft[h]
      BY TypesOf DEF Types, Ups
    <3>3. Telling(h, U, S, F) /\ TrueOf(S, F, U \cup {h})
      <4>1. Ups \cup {h} = U \cup {h}
        BY <3>2
      <4> QED BY <3>1, <3>2, <4>1
    <3> QED BY <1>4, <2>1, <3>3, TellingServe, TellingAfter
  <2> QED BY <1>4, <2>2, <2>3, <2>4 DEF OneJoins
<1> QED
  BY <1>2, <1>5, <1>6, <1>7 DEF Next

\* While fewer servers are started than server_list has rows, careful joins
\* leave every server with the same tables: each running server has one row,
\* and each file's index names exactly the servers that have it, once.
THEOREM TablesTrueHolds ==
  ASSUME MAX_STARTS < MAX_SERVERS
  PROVE  Spec => []TablesTrue
<1>1. JoinInv /\ OneAtATime => TablesTrue
  <2> SUFFICES ASSUME JoinInv, OneAtATime, careful, Quiet
               PROVE  \A h \in Ups :
                        /\ \A g \in Ups : st[g] = st[h] /\ ft[g] = ft[h]
                        /\ IsInjective(st[h]) /\ ToSet(st[h]) = Ups
                        /\ \A f \in Files :
                             /\ IsInjective(ft[h][f])
                             /\ {st[h][i] : i \in ToSet(ft[h][f])}
                                  = {g \in Ups : f \in Disk[g]}
    BY DEF TablesTrue
  <2>1. PICK S \in Seq(Hosts), F \in Tables :
          TrueOf(S, F, Ups) /\ \A x \in Ups : st[x] = S /\ ft[x] = F
    BY Settled DEF OneAtATime
  <2> QED BY <2>1 DEF TrueOf
<1> QED
  BY <1>1, JoinInvariant, OneAtATimeInit, OneAtATimeNext, PTL DEF Spec

\* Joins that were careless once stay so.
LEMMA CarefulBefore ==
  ASSUME [Next]_vars, careful'
  PROVE  careful
<1>1. ASSUME NEW h \in Hosts,
             Join(h) \/ Exit(h) \/ PeerGone(h) \/ Kill(h)
             \/ \E names \in Names(h) : Start(h, names)
      PROVE  careful
  BY <1>1 DEF Start, Join, EndInput, Refused, Connect, Update_local_st, Update_local_ft,
     Update_remote_st, Update_remote_ft, Exit, PeerGone, Kill
<1>2. ASSUME NEW s \in Hosts, NEW c \in Lives,
             Serve(s, c) \/ Keeps(s, c) \/ Hangup(s, c)
      PROVE  careful
  BY <1>2 DEF Serve, Keeps, Hangup, Ack_get_st, Get_st, Ack_get_ft, Get_ft, Ack_set,
     Set_st, Set_ft
<1> QED
  BY <1>1, <1>2 DEF Next, vars

\* No mutex is kept after a step of careful joins.
LEMMA NothingKept ==
  ASSUME JoinInv, OneAtATime, [Next]_vars, careful',
         \A x \in Hosts : stuck[x] = {}
  PROVE  \A x \in Hosts : stuck'[x] = {}
<1> Types
  BY TypesOf
<1>1. CASE UNCHANGED vars
  BY <1>1 DEF vars
<1>2. ASSUME NEW h \in Hosts, NEW names \in Names(h), Start(h, names)
      PROVE  stuck' = stuck
  BY <1>2 DEF Start
<1>3. ASSUME NEW h \in Hosts, Join(h)
      PROVE  stuck' = stuck
  BY <1>3 DEF Join, EndInput, Refused, Connect, Update_local_st, Update_local_ft,
     Update_remote_st, Update_remote_ft
<1>4. ASSUME NEW s \in Hosts, NEW c \in Lives, Serve(s, c)
      PROVE  stuck' = stuck
  BY <1>4 DEF Serve, Ack_get_st, Get_st, Ack_get_ft, Get_ft, Ack_set, Set_st, Set_ft
<1>5. ASSUME NEW h \in Hosts, Exit(h) \/ PeerGone(h) \/ Kill(h)
      PROVE  stuck' \in {stuck, [stuck EXCEPT ![h] = {}]}
  BY <1>5 DEF Exit, PeerGone, Kill, Dies
<1>6. ASSUME NEW s \in Hosts, NEW c \in Lives, Hangup(s, c)
      PROVE  stuck' \in {stuck, [stuck EXCEPT ![s] = {}]}
  BY <1>6 DEF Hangup, Dies
<1>7. ASSUME NEW s \in Hosts, NEW c \in Lives, Keeps(s, c)
      PROVE  FALSE
  <2>1. careful
    BY <1>7 DEF Keeps
  <2> QED BY <1>7, <2>1, NobodyLeft DEF OneAtATime
<1>8. stuck' = stuck \/ \E h \in Hosts : stuck' = [stuck EXCEPT ![h] = {}]
  <2>1. CASE \E h \in Hosts :
               \/ \E names \in Names(h) : Start(h, names)
               \/ Join(h) \/ Exit(h) \/ PeerGone(h) \/ Kill(h)
    BY <2>1, <1>2, <1>3, <1>5
  <2>2. CASE \E s \in Hosts, c \in Lives : Serve(s, c) \/ Keeps(s, c) \/ Hangup(s, c)
    BY <2>2, <1>4, <1>6, <1>7
  <2> QED BY <1>1, <2>1, <2>2 DEF Next, vars
<1> QED
  BY <1>8 DEF Types

\* In careful joins, whatever the hosts, the files and the tables, nobody waits
\* for rows that never come, nobody takes a row for an acknowledgement, and
\* every mutex a thread took is given back.
THEOREM CarefulJoinsGoWellHolds ==
  ASSUME MAX_STARTS < MAX_SERVERS
  PROVE  Spec => []CarefulJoinsGoWell
<1> DEFINE NoneStuck == careful => \A h \in Hosts : stuck[h] = {}
<1>1. Init => NoneStuck
  BY DEF Init
<1>2. JoinInv /\ OneAtATime /\ NoneStuck /\ [Next]_vars => NoneStuck'
  <2> SUFFICES ASSUME JoinInv, OneAtATime, NoneStuck, [Next]_vars, careful'
               PROVE  \A h \in Hosts : stuck'[h] = {}
    OBVIOUS
  <2>1. careful
    BY CarefulBefore
  <2> QED BY <2>1, NothingKept
<1>3. JoinInv /\ OneAtATime /\ NoneStuck => CarefulJoinsGoWell
  <2> SUFFICES ASSUME JoinInv, OneAtATime, NoneStuck, careful, NEW x \in Hosts
               PROVE  pc[x] \notin {"hung", "misled"}
    BY DEF CarefulJoinsGoWell
  <2>1. CASE Nobody
    BY <2>1 DEF Nobody
  <2>2. CASE OneAsks
    BY <2>2 DEF OneAsks, Asking
  <2>3. CASE OneTells
    BY <2>3 DEF OneTells, Telling
  <2> QED BY <2>1, <2>2, <2>3 DEF OneAtATime, OneJoins
<1> QED
  BY <1>1, <1>2, <1>3, JoinInvariant, OneAtATimeInit, OneAtATimeNext, PTL DEF Spec
=============================================================================
