-------------------------- MODULE RfsServer_proofs --------------------------
(***************************************************************************)
(* Theorems about RfsServer, for every number of servers, files, clients   *)
(* and threads.                                                            *)
(***************************************************************************)
EXTENDS RfsServer, TLAPS, WellFoundedInduction

-----------------------------------------------------------------------------
(* What the decisions of RfsTables return, for every table.               *)

\* A non-empty set of naturals has a least element.
LEMMA LeastNatural ==
  ASSUME NEW T \in SUBSET Nat, T # {}
  PROVE  \E x \in T : \A y \in T : x <= y
<1>1. \E x \in T : \A y \in T : ~ (<<y, x>> \in OpToRel(<, Nat))
  BY NatLessThanWellFounded, WFMin
<1>2. \A x, y \in Nat : y < x => <<y, x>> \in OpToRel(<, Nat)
  BY DEF OpToRel
<1>3. \E x \in T : \A y \in T : ~ (y < x)
  BY <1>1, <1>2, Zenon
<1> QED
  BY <1>3

\* The loop over total_servers ends with the first most free server: there is
\* one, and it has joined.
LEMMA MostFreeIsServer ==
  ASSUME NEW table \in ServerTable
  PROVE  /\ MostFree(table) \in Servers
         /\ \A k \in Servers : table[k].free <= table[MostFree(table)].free
<1> USE SizesAssumption
<1> DEFINE lack == {MAX_FREE - table[k].free : k \in Servers}
           best == {i \in Servers :
                      \A k \in Servers : table[k].free <= table[i].free}
<1>1. \A k \in Servers : table[k].free \in 0 .. MAX_FREE
  BY DEF ServerTable, ServerEntry, Servers, Slots
<1>2. lack \in SUBSET Nat /\ lack # {}
  BY <1>1 DEF Servers
<1>3. PICK x \in lack : \A y \in lack : x <= y
  BY <1>2, LeastNatural
<1>4. best # {}
  <2>1. PICK i \in Servers : x = MAX_FREE - table[i].free
    BY <1>3
  <2>2. ASSUME NEW k \in Servers
        PROVE  table[k].free <= table[i].free
    <3>1. x <= MAX_FREE - table[k].free
      BY <1>3
    <3>2. table[k].free \in Nat /\ table[i].free \in Nat
      BY <1>1
    <3> HIDE DEF lack, best
    <3> QED
      BY <2>1, <3>1, <3>2
  <2> QED
    BY <2>2
<1>5. best \in SUBSET Nat
  BY DEF Servers
<1>6. PICK i \in best : \A y \in best : i <= y
  <2> HIDE DEF best
  <2> QED BY <1>4, <1>5, LeastNatural
<1>7. \A k \in Servers : k < i => table[k].free < table[i].free
  <2> SUFFICES ASSUME NEW k \in Servers, k < i
               PROVE  table[k].free < table[i].free
    OBVIOUS
  <2>1. k \notin best
    BY <1>6 DEF Servers
  <2>2. PICK m \in Servers : ~ (table[m].free <= table[k].free)
    BY <2>1
  <2> QED
    BY <1>1, <1>6, <2>2
<1> QED
  BY <1>6, <1>7 DEF MostFree

\* select_peer answers -1 or a position of index[] that it has visited, whose
\* free + request is positive and as large as that of every other position.
LEMMA SelectPeerChoice ==
  ASSUME NEW table, NEW row, SelectPeer(table, row) # NoPeer
  PROVE  LET p == SelectPeer(table, row) IN
         /\ p \in Positions(row) /\ p \in Slots
         /\ Score(table, row, p) > 0
         /\ \A k \in Positions(row) :
              /\ Score(table, row, k) <= Score(table, row, p)
              /\ k < p => Score(table, row, k) < Score(table, row, p)
BY DEF SelectPeer, Positions, NoPeer

\* When the rows past the last server hold zeros, select_peer never names one
\* of them, even for an index[] longer than the list of servers.
LEMMA SelectPeerIsServer ==
  ASSUME NEW table \in ServerTable, NEW row \in FileEntry,
         \A i \in Slots \ Servers : table[i].free = 0
  PROVE  SelectPeer(table, row) \in Servers \cup {NoPeer}
<1> USE SizesAssumption
<1> DEFINE p == SelectPeer(table, row)
<1> SUFFICES ASSUME p # NoPeer, p \notin Servers
             PROVE  FALSE
  OBVIOUS
<1>1. /\ p \in Positions(row) /\ p \in Slots
      /\ \A k \in Positions(row) :
           k < p => Score(table, row, k) < Score(table, row, p)
  BY SelectPeerChoice
<1> HIDE DEF p
<1>2. 0 \in Positions(row) /\ 0 < p /\ 0 \in Slots
  BY <1>1 DEF Positions, Slots, Servers, FileEntry
<1>3. Score(table, row, 0) >= Score(table, row, p)
  BY <1>1, <1>2 DEF Score, ServerTable, ServerEntry, FileEntry
<1>4. Score(table, row, 0) < Score(table, row, p)
  BY <1>1, <1>2
<1>5. Score(table, row, 0) \in Nat /\ Score(table, row, p) \in Nat
  BY <1>1, <1>2 DEF Score, ServerTable, ServerEntry, FileEntry
<1> QED
  BY <1>3, <1>4, <1>5

\* on_fopen keeps every free between 0 and MAX_FREE, whatever the build makes
\* of x = x++, and touches no row that is not in use.
LEMMA FreeAfterOpenType ==
  ASSUME NEW table \in ServerTable, NEW s \in Servers
  PROVE  /\ FreeAfterOpen(table, s) \in ServerTable
         /\ \A i \in Slots \ Servers :
              FreeAfterOpen(table, s)[i] = table[i]
<1> USE SizesAssumption
<1>1. \A n \in 0 .. MAX_FREE : /\ Less2(n) \in 0 .. MAX_FREE
                               /\ Bumped(n) \in 0 .. MAX_FREE
  BY DEF Less2, Bumped
<1>2. \A i \in Slots : FreeAfterOpen(table, s)[i] \in ServerEntry
  BY <1>1 DEF FreeAfterOpen, ServerTable, ServerEntry
<1> QED
  BY <1>2 DEF FreeAfterOpen, ServerTable

\* A store in fd[] keeps the table well-formed and every free as it was.
LEMMA SetFdType ==
  ASSUME NEW table \in ServerTable, NEW s \in Servers, NEW f \in Files,
         NEW fd \in Nat
  PROVE  /\ SetFd(table, s, f, fd) \in ServerTable
         /\ \A i \in Slots : SetFd(table, s, f, fd)[i].free = table[i].free
BY DEF SetFd, ServerTable, ServerEntry

\* A file table stays one when a file is opened, and when a replica is added.
LEMMA FileTableType ==
  ASSUME NEW table \in FileTable, NEW f \in Files, NEW to \in Nat
  PROVE  /\ Popular(table, f) \in FileTable
         /\ AddReplica(table, f, to) \in FileTable
         /\ \A g \in Files : AddReplica(table, f, to)[g].request
                               = table[g].request
<1>1. table[f].request + 1 \in Nat /\ Append(table[f].index, to) \in Seq(Nat)
  BY DEF FileTable, FileEntry
<1>2. [table[f] EXCEPT !.request = @ + 1] \in FileEntry
  BY <1>1 DEF FileTable, FileEntry
<1>3. [table[f] EXCEPT !.index = Append(@, to)] \in FileEntry
  BY <1>1 DEF FileTable, FileEntry
<1>4. \A g \in Files : AddReplica(table, f, to)[g].request = table[g].request
  BY DEF AddReplica, FileTable, FileEntry
<1> QED
  BY <1>2, <1>3, <1>4 DEF Popular, AddReplica, FileTable

\* The zeroed static arrays are tables.
LEMMA ZeroTablesType == ZeroSt \in ServerTable /\ ZeroFt \in FileTable
BY SizesAssumption
   DEF ZeroSt, ZeroServer, ZeroFt, ServerTable, ServerEntry, FileTable,
       FileEntry, NoFd

-----------------------------------------------------------------------------
(* Type correctness                                                        *)

\* The records a connection starts and ends with.
LEMMA RecordTypes ==
  /\ NullTh \in ThType /\ NullCl \in ClType
  /\ \A s \in Servers, k \in Threads \cup {NoThread}, f \in Files,
        m \in Modes, flag \in {"none", "redirect", "replicate"} :
       Handler(s, k, f, flag, m) \in ThType
BY SizesAssumption
   DEF NullTh, NullCl, ThType, ClType, Handler, Modes, NoThread, NoFd, Absent,
       Servers, Files

\* A thread's record stays one when its locals change, one at a time ...
LEMMA ThUpdate ==
  ASSUME NEW r \in ThType
  PROVE  /\ \A fd \in Threads \cup {NoFd} : [r EXCEPT !.fd = fd] \in ThType
         /\ \A j \in Nat : [r EXCEPT !.j = j] \in ThType
         /\ \A k \in Threads \cup {NoThread} : [r EXCEPT !.sub = k] \in ThType
         /\ \A k \in Threads \cup {NoThread} :
              [r EXCEPT !.caller = k] \in ThType
         /\ \A d \in Nat : [r EXCEPT !.data = d] \in ThType
         /\ \A ret \in {"none", "open", "close"} :
              [r EXCEPT !.ret = ret] \in ThType
<1>1. \A fd \in Threads \cup {NoFd} : [r EXCEPT !.fd = fd] \in ThType
  BY DEF ThType
<1>2. \A j \in Nat : [r EXCEPT !.j = j] \in ThType
  BY DEF ThType
<1>3. \A k \in Threads \cup {NoThread} : [r EXCEPT !.sub = k] \in ThType
  BY DEF ThType
<1>4. \A k \in Threads \cup {NoThread} : [r EXCEPT !.caller = k] \in ThType
  BY DEF ThType
<1>5. \A d \in Nat : [r EXCEPT !.data = d] \in ThType
  BY DEF ThType
<1>6. \A ret \in {"none", "open", "close"} : [r EXCEPT !.ret = ret] \in ThType
  BY DEF ThType
<1> QED
  BY <1>1, <1>2, <1>3, <1>4, <1>5, <1>6

\* ... or several together.
LEMMA ThUpdates ==
  ASSUME NEW r \in ThType
  PROVE  /\ \A j \in Nat : [r EXCEPT !.j = j, !.ret = "open"] \in ThType
         /\ \A fd \in Threads \cup {NoFd}, j \in Nat :
              [r EXCEPT !.fd = fd, !.j = j] \in ThType
         /\ [r EXCEPT !.sub = NoThread, !.ret = "none"] \in ThType
         /\ \A j \in Nat : [r EXCEPT !.sub = NoThread, !.ret = "none", !.j = j]
                           \in ThType
         /\ \A j \in Nat : [r EXCEPT !.sub = NoThread, !.j = j] \in ThType
         /\ \A f \in Files, j \in Nat :
              [r EXCEPT !.f = f, !.fd = NoFd, !.j = j] \in ThType
<1>1. \A j \in Nat : [r EXCEPT !.j = j, !.ret = "open"] \in ThType
  BY DEF ThType
<1>2. \A fd \in Threads \cup {NoFd}, j \in Nat :
        [r EXCEPT !.fd = fd, !.j = j] \in ThType
  BY DEF ThType
<1>3. [r EXCEPT !.sub = NoThread, !.ret = "none"] \in ThType
  BY DEF ThType
<1>4. \A j \in Nat : [r EXCEPT !.sub = NoThread, !.ret = "none", !.j = j]
                      \in ThType
  BY DEF ThType
<1>5. \A j \in Nat : [r EXCEPT !.sub = NoThread, !.j = j] \in ThType
  BY DEF ThType
<1>6. \A f \in Files, j \in Nat :
        [r EXCEPT !.f = f, !.fd = NoFd, !.j = j] \in ThType
  BY DEF ThType
<1> QED
  BY <1>1, <1>2, <1>3, <1>4, <1>5, <1>6

\* The same in the array of all threads, at any index.
LEMMA ThreadsUpdate ==
  ASSUME NEW m \in [Threads -> ThType], NEW u
  PROVE  /\ \A k \in Threads \cup {NoThread} :
              [m EXCEPT ![u].caller = k] \in [Threads -> ThType]
         /\ \A d \in Nat : [m EXCEPT ![u].data = d] \in [Threads -> ThType]
         /\ \A r \in ThType : [m EXCEPT ![u] = r] \in [Threads -> ThType]
<1>1. \A v \in Threads : m[v] \in ThType
  OBVIOUS
<1>2. \A v \in Threads, k \in Threads \cup {NoThread} :
        [m[v] EXCEPT !.caller = k] \in ThType
  BY <1>1, ThUpdate
<1>3. \A v \in Threads, d \in Nat : [m[v] EXCEPT !.data = d] \in ThType
  BY <1>1, ThUpdate
<1>4. \A k \in Threads \cup {NoThread} :
        [m EXCEPT ![u].caller = k] \in [Threads -> ThType]
  BY <1>2
<1>5. \A d \in Nat : [m EXCEPT ![u].data = d] \in [Threads -> ThType]
  BY <1>3
<1> QED
  BY <1>4, <1>5

\* SkipSelf yields an index.
LEMMA SkipSelfType == \A s, j \in Nat : SkipSelf(s, j) \in Nat
BY DEF SkipSelf

\* The answer of select_peer is -1 or a slot.
LEMMA SelectPeerType ==
  \A table, row : SelectPeer(table, row) \in Slots \cup {NoPeer}
BY SelectPeerChoice

LEMMA TypeInit == Init => TypeOK
<1> SUFFICES ASSUME Init PROVE TypeOK
  OBVIOUS
<1> USE SizesAssumption, ServerAssumption
<1>1. st \in [Servers -> ServerTable]
  BY DEF Init, JoinedRow, ServerTable, ServerEntry, NoFd
<1>2. ft \in [Servers -> FileTable]
  <2>1. \A f \in Files : JoinIndex[f] \in Seq(Nat)
    BY DEF Servers
  <2> QED
    BY <2>1 DEF Init, FileTable, FileEntry
<1>3. /\ disk \in [Servers -> [Files -> Nat]]
      /\ opens \in [Files -> Nat] /\ version \in Nat
      /\ budget \in [Clients -> Nat]
  BY DEF Init, Original, Absent
<1>4. /\ th \in [Threads -> ThType] /\ cl \in [Clients -> ClType]
      /\ stIn \in [Threads -> ServerTable] /\ ftIn \in [Threads -> FileTable]
  BY RecordTypes, ZeroTablesType DEF Init
<1>5. /\ slock \in [Servers -> Threads \cup {NoThread}]
      /\ flock \in [Servers -> Threads \cup {NoThread}]
      /\ pc \in [Threads -> Pcs]
      /\ cpc \in [Clients -> {"idle", "opening", "redirected", "open",
                               "written"}]
  BY DEF Init, Pcs
<1> QED
  BY <1>1, <1>2, <1>3, <1>4, <1>5 DEF TypeOK

\* The fields of a thread's record that the actions use as indices.
LEMMA ThFields ==
  ASSUME NEW r \in ThType
  PROVE  /\ r.srv \in Servers /\ r.f \in Files /\ r.j \in Nat /\ r.srv \in Nat
         /\ r.j + 1 \in Nat /\ r.data \in Nat /\ r.mode \in Modes
         /\ r.fd \in Threads \cup {NoFd}
BY DEF ThType, Servers

LEMMA TypeClients ==
  ASSUME TypeOK, NEW c \in Clients,
         LibraryStep(c) \/ AppStep(c)
  PROVE  TypeOK'
<1> USE SizesAssumption, ServerAssumption, RecordTypes
    DEF TypeOK, tables, locks, threads, clients, history
<1> USE DEF Pcs, HasFd, RepPcs
<1>1. ASSUME NEW t \in Threads, ClientOpen(c, t)
      PROVE  TypeOK'
  <2>1. PICK r \in Requests[c] :
          /\ th' = [th EXCEPT ![t] = Handler(r.srv, NoThread, r.f, "none", r.mode)]
          /\ cl' = [cl EXCEPT ![c] = [thr |-> t, f |-> r.f, mode |-> r.mode,
                                      target |-> 0]]
    BY <1>1 DEF ClientOpen
  <2>2. r \in Request
    OBVIOUS
  <2>3. /\ Handler(r.srv, NoThread, r.f, "none", r.mode) \in ThType
        /\ [thr |-> t, f |-> r.f, mode |-> r.mode, target |-> 0] \in ClType
    BY <2>2 DEF Request, ClType
  <2>4. pc' \in [Threads -> Pcs] /\ budget' \in [Clients -> Nat]
    BY <1>1 DEF ClientOpen
  <2>5. th' \in [Threads -> ThType] /\ cl' \in [Clients -> ClType]
    BY <2>1, <2>3
  <2> QED
    BY <1>1, <2>4, <2>5 DEF ClientOpen
<1>2. ASSUME NEW t \in Threads, ClientFollow(c, t)
      PROVE  TypeOK'
  <2>1. /\ Handler(cl[c].target, NoThread, cl[c].f, "redirect", cl[c].mode)
             \in ThType
        /\ [cl[c] EXCEPT !.thr = t] \in ClType
    BY <1>2 DEF ClientFollow, ClType
  <2> QED
    BY <1>2, <2>1 DEF ClientFollow
<1>3. ASSUME ClientFollowFails(c)
      PROVE  TypeOK'
  BY <1>3 DEF ClientFollowFails
<1>4. ASSUME ClientWrite(c)
      PROVE  TypeOK'
  <2>1. version' \in Nat
    BY <1>4 DEF ClientWrite
  <2>2. disk' \in [Servers -> [Files -> Nat]]
    BY <1>4, <2>1 DEF ClientWrite
  <2> QED
    BY <1>4, <2>1, <2>2 DEF ClientWrite
<1>5. ASSUME ClientClose(c)
      PROVE  TypeOK'
  BY <1>5 DEF ClientClose, Ends
<1> QED
  BY <1>1, <1>2, <1>3, <1>4, <1>5 DEF LibraryStep, AppStep

LEMMA TypeOpen ==
  ASSUME TypeOK, NEW t \in Threads,
         \/ OpenLockS(t) \/ OpenLockF(t) \/ ChooseSelf(t)
         \/ ChooseReplicate(t) \/ ChooseRedirect(t)
         \/ OpenForClient(t) \/ OpenForReplica(t) \/ OpenFails(t)
  PROVE  TypeOK'
<1> USE SizesAssumption, ServerAssumption, RecordTypes
    DEF TypeOK, tables, locks, threads, clients, history
<1> USE DEF Pcs, HasFd, RepPcs
<1> DEFINE s == Srv(t)
           f == th[t].f
<1>1. th[t] \in ThType /\ s \in Servers /\ f \in Files
  BY ThFields DEF Srv
<1>2. CASE OpenLockS(t)
  BY <1>2 DEF OpenLockS
<1>3. CASE OpenLockF(t)
  BY <1>3 DEF OpenLockF
<1>4. CASE ChooseSelf(t)
  BY <1>4 DEF ChooseSelf
<1>5. CASE ChooseReplicate(t)
  <2>1. MostFree(st[s]) \in Nat
    BY <1>1, MostFreeIsServer DEF Servers
  <2>2. [th[t] EXCEPT !.j = MostFree(st[s]), !.ret = "open"] \in ThType
    BY <1>1, <2>1, ThUpdates
  <2> QED
    BY <1>5, <2>2 DEF ChooseReplicate
<1>6. CASE ChooseRedirect(t)
  <2>1. Chosen(t) \in Nat
    BY <1>1, SelectPeerType DEF Chosen, Servers, Slots
  <2>2. \A c \in Clients :
          [cl EXCEPT ![c].thr = NoThread, ![c].target = Chosen(t)]
            \in [Clients -> ClType]
    BY <2>1 DEF ClType
  <2>3. /\ pc' \in [Threads -> Pcs] /\ th' \in [Threads -> ThType]
        /\ slock' \in [Servers -> Threads \cup {NoThread}]
        /\ flock' \in [Servers -> Threads \cup {NoThread}]
    BY <1>6 DEF ChooseRedirect, Ends, Unlock
  <2>4. PICK c \in Clients :
          /\ cpc' = [cpc EXCEPT ![c] = "redirected"]
          /\ cl' = [cl EXCEPT ![c].thr = NoThread, ![c].target = Chosen(t)]
    BY <1>6 DEF ChooseRedirect
  <2>5. cpc' \in [Clients -> {"idle", "opening", "redirected", "open", "written"}]
    BY <2>4
  <2>6. cl' \in [Clients -> ClType]
    BY <2>2, <2>4
  <2> QED
    BY <1>6, <2>3, <2>5, <2>6 DEF ChooseRedirect
<1>7. CASE OpenForReplica(t)
  <2>1. PICK fd \in Threads :
          /\ Opened(t, fd)
          /\ st' = [st EXCEPT ![s] = SetFd(@, s, f, fd)]
          /\ th' = [th EXCEPT ![t].fd = fd]
    BY <1>7 DEF OpenForReplica
  <2>2. st' \in [Servers -> ServerTable]
    BY <1>1, <2>1, SetFdType DEF Threads
  <2>3. th' \in [Threads -> ThType]
    BY <1>1, <2>1, ThUpdate
  <2>4. disk' \in [Servers -> [Files -> Nat]]
    BY <1>1, <2>1 DEF Opened, Absent, Empty
  <2> QED
    BY <1>7, <2>2, <2>3, <2>4 DEF OpenForReplica, Unlock
<1>8. CASE OpenFails(t)
  <2>1. /\ pc' \in [Threads -> Pcs] /\ th' \in [Threads -> ThType]
        /\ slock' \in [Servers -> Threads \cup {NoThread}]
        /\ flock' \in [Servers -> Threads \cup {NoThread}]
    BY <1>8 DEF OpenFails, Ends, Unlock
  <2>2. /\ cpc' \in [Clients -> {"idle", "opening", "redirected", "open",
                                 "written"}]
        /\ cl' \in [Clients -> ClType]
    BY <1>8 DEF OpenFails
  <2> QED
    BY <1>8, <2>1, <2>2 DEF OpenFails
<1>9. CASE OpenForClient(t)
  <2>1. PICK fd \in Threads :
          /\ Opened(t, fd)
          /\ st' = [st EXCEPT ![s] = FreeAfterOpen(SetFd(@, s, f, fd), s)]
          /\ th' = [th EXCEPT ![t] = [@ EXCEPT !.fd = fd,
                                              !.j = SkipSelf(s, 0)]]
    BY <1>9 DEF OpenForClient
  <2>2. st' \in [Servers -> ServerTable]
    <3>1. st[s] \in ServerTable /\ fd \in Nat
      BY <1>1, <2>1 DEF Threads
    <3>2. SetFd(st[s], s, f, fd) \in ServerTable
      BY <1>1, <3>1, SetFdType
    <3>3. FreeAfterOpen(SetFd(st[s], s, f, fd), s) \in ServerTable
      BY <1>1, <3>2, FreeAfterOpenType
    <3> QED
      BY <1>1, <2>1, <3>3
  <2>3. th' \in [Threads -> ThType]
    <3>1. SkipSelf(s, 0) \in Nat
      BY <1>1, SkipSelfType DEF Servers
    <3>2. [th[t] EXCEPT !.fd = fd, !.j = SkipSelf(s, 0)] \in ThType
      BY <1>1, <2>1, <3>1, ThUpdates
    <3> QED
      BY <2>1, <3>2
  <2>4. ft' \in [Servers -> FileTable]
    BY <1>1, <1>9, FileTableType DEF OpenForClient
  <2>5. disk' \in [Servers -> [Files -> Nat]]
    BY <1>1, <2>1 DEF Opened, Absent, Empty
  <2>6. opens' \in [Files -> Nat]
    <3>1. opens[f] + 1 \in Nat
      BY <1>1
    <3>2. opens' = [opens EXCEPT ![f] = opens[f] + 1]
      BY <1>9 DEF OpenForClient
    <3> QED
      BY <3>1, <3>2
  <2>7. /\ pc' \in [Threads -> Pcs]
        /\ cpc' \in [Clients -> {"idle", "opening", "redirected", "open",
                                 "written"}]
    BY <1>9 DEF OpenForClient
  <2> QED
    BY <1>9, <2>2, <2>3, <2>4, <2>5, <2>6, <2>7 DEF OpenForClient
<1> QED
  BY <1>2, <1>3, <1>4, <1>5, <1>6, <1>7, <1>8, <1>9

LEMMA TypePush ==
  ASSUME TypeOK, NEW t \in Threads,
         \/ \E u \in Threads : PushSt(t, u)
         \/ PushUnreachable(t) \/ SetSt(t) \/ PushFt(t) \/ SetFt(t)
         \/ PushEnd(t)
  PROVE  TypeOK'
<1> USE SizesAssumption, ServerAssumption, RecordTypes, ZeroTablesType
    DEF TypeOK, tables, locks, threads, clients, history
<1> USE DEF Pcs, HasFd, RepPcs
<1>1. /\ th[t] \in ThType /\ Srv(t) \in Servers /\ Srv(t) \in Nat
      /\ th[t].j + 1 \in Nat
  BY ThFields DEF Srv
<1>2. SkipSelf(Srv(t), th[t].j + 1) \in Nat
  BY <1>1, SkipSelfType
<1>3. CASE \E u \in Threads : PushSt(t, u)
  <2>1. PICK u \in Threads : PushSt(t, u)
    BY <1>3
  <2>2. Handler(th[t].j, t, 0, "none", "read") \in ThType
    <3>1. 0 \in Files /\ "read" \in Modes /\ th[t].j \in Servers
      BY <2>1 DEF PushSt, Files, Modes
    <3> QED
      BY <3>1
  <2>3. [th[t] EXCEPT !.sub = u] \in ThType
    BY <1>1, <2>1, ThUpdate
  <2>4. th' \in [Threads -> ThType]
    BY <1>1, <2>1, <2>2, <2>3 DEF PushSt
  <2>5. stIn' \in [Threads -> ServerTable] /\ pc' \in [Threads -> Pcs]
    BY <1>1, <2>1 DEF PushSt
  <2> QED
    BY <2>1, <2>4, <2>5 DEF PushSt
<1>4. CASE PushUnreachable(t)
  <2>1. [th[t] EXCEPT !.j = SkipSelf(Srv(t), th[t].j + 1)] \in ThType
    BY <1>1, <1>2, ThUpdate
  <2> QED
    BY <1>1, <1>4, <2>1 DEF PushUnreachable
<1>5. CASE SetSt(t)
  BY <1>1, <1>5 DEF SetSt
<1>6. CASE PushFt(t)
  <2> DEFINE r == [th[t] EXCEPT !.sub = NoThread,
                               !.j = SkipSelf(Srv(t), th[t].j + 1)]
             m == [th EXCEPT ![t] = r]
  <2>1. r \in ThType
    BY <1>1, <1>2, ThUpdates
  <2>2. m \in [Threads -> ThType]
    BY <2>1, ThreadsUpdate
  <2>3. th' = [m EXCEPT ![th[t].sub].caller = NoThread]
    BY <1>6 DEF PushFt
  <2>4. th' \in [Threads -> ThType]
    <3> HIDE DEF m
    <3> QED BY <2>2, <2>3, ThreadsUpdate
  <2>5. ftIn' \in [Threads -> FileTable] /\ pc' \in [Threads -> Pcs]
    BY <1>1, <1>6 DEF PushFt
  <2> QED
    BY <1>6, <2>4, <2>5 DEF PushFt
<1>7. CASE SetFt(t)
  BY <1>1, <1>7 DEF SetFt, Ends
<1>8. CASE PushEnd(t)
  BY <1>1, <1>8 DEF PushEnd, Unlock
<1> QED
  BY <1>3, <1>4, <1>5, <1>6, <1>7, <1>8

\* Leaving replicate, for an open or for a close.
LEMMA TypeReturn ==
  ASSUME TypeOK, NEW t \in Threads, Return(t)
  PROVE  pc' \in [Threads -> Pcs] /\ th' \in [Threads -> ThType]
<1> USE DEF Pcs, HasFd, RepPcs
<1>1. th[t] \in ThType /\ th[t].srv \in Nat /\ th[t].j + 1 \in Nat
  BY ThFields DEF TypeOK
<1>2. SkipSelf(th[t].srv, th[t].j + 1) \in Nat
  BY <1>1, SkipSelfType
<1>3. /\ [th[t] EXCEPT !.sub = NoThread, !.ret = "none"] \in ThType
      /\ [th[t] EXCEPT !.sub = NoThread, !.ret = "none",
                       !.j = SkipSelf(th[t].srv, th[t].j + 1)] \in ThType
  BY <1>1, <1>2, ThUpdates
<1>4. CASE th[t].ret = "open"
  BY <1>3, <1>4 DEF Return, TypeOK
<1>5. CASE th[t].ret # "open"
  <2>1. th' = [th EXCEPT ![t] = [th[t] EXCEPT !.sub = NoThread, !.ret = "none",
                                    !.j = SkipSelf(th[t].srv, th[t].j + 1)]]
    BY <1>5 DEF Return, Srv
  <2>2. pc' \in [Threads -> Pcs]
    BY <1>5 DEF Return, TypeOK
  <2> QED
    BY <1>3, <2>1, <2>2 DEF TypeOK
<1> QED
  BY <1>4, <1>5

LEMMA TypeReplicate ==
  ASSUME TypeOK, NEW t \in Threads,
         \/ \E u \in Threads : RepNoLocalFile(t, u) \/ RepOpen(t, u)
         \/ RepUnreachable(t) \/ RepRead(t) \/ RepWrite(t)
         \/ RepClose(t) \/ RepDone(t)
  PROVE  TypeOK'
<1> USE SizesAssumption, ServerAssumption, RecordTypes
    DEF TypeOK, tables, locks, threads, clients, history
<1> USE DEF Pcs, HasFd, RepPcs
<1>1. /\ th[t] \in ThType /\ Srv(t) \in Servers /\ Srv(t) \in Nat
      /\ th[t].f \in Files /\ th[t].j \in Nat /\ th[t].j + 1 \in Nat
      /\ th[t].data \in Nat
  BY ThFields DEF Srv
<1>2. SkipSelf(Srv(t), th[t].j + 1) \in Nat
  BY <1>1, SkipSelfType
<1>3. ASSUME NEW u \in Threads, RepNoLocalFile(t, u)
      PROVE  TypeOK'
  <2> DEFINE jj == IF th[t].ret = "open" THEN th[t].j
                   ELSE SkipSelf(Srv(t), th[t].j + 1)
             r  == [[th[t] EXCEPT !.ret = "none"] EXCEPT !.j = jj]
             h  == Handler(th[t].j, NoThread, 0, "none", "read")
             m  == [th EXCEPT ![t] = r]
  <2>1. h \in ThType
    <3>1. 0 \in Files /\ "read" \in Modes /\ th[t].j \in Servers
      BY <1>3 DEF RepNoLocalFile, Files, Modes
    <3> QED
      BY <3>1
  <2>2. jj \in Nat
    BY <1>1, <1>2
  <2>3. r \in ThType
    <3>1. [th[t] EXCEPT !.ret = "none"] \in ThType
      BY <1>1, ThUpdate
    <3> HIDE DEF jj
    <3> QED
      BY <2>2, <3>1, ThUpdate
  <2>4. th' = [m EXCEPT ![u] = h]
    BY <1>1, <1>3 DEF RepNoLocalFile
  <2>5. th' \in [Threads -> ThType]
    <3>1. m \in [Threads -> ThType]
      BY <2>3, ThreadsUpdate
    <3> HIDE DEF m, h
    <3> QED
      BY <2>1, <2>4, <3>1, ThreadsUpdate
  <2>6. pc' \in [Threads -> Pcs]
    BY <1>3 DEF RepNoLocalFile
  <2> QED
    BY <1>3, <2>5, <2>6 DEF RepNoLocalFile
<1>4. ASSUME NEW u \in Threads, RepOpen(t, u)
      PROVE  TypeOK'
  <2>1. Handler(th[t].j, t, th[t].f, "replicate", "create") \in ThType
    BY <1>1, <1>4 DEF RepOpen, Modes
  <2>2. [th[t] EXCEPT !.sub = u] \in ThType
    BY <1>1, ThUpdate
  <2>3. th' \in [Threads -> ThType]
    BY <1>1, <1>4, <2>1, <2>2 DEF RepOpen
  <2>4. pc' \in [Threads -> Pcs]
    BY <1>4 DEF RepOpen
  <2> QED
    BY <1>4, <2>3, <2>4 DEF RepOpen
<1>5. CASE RepUnreachable(t)
  BY <1>5, TypeReturn DEF RepUnreachable
<1>6. CASE RepRead(t)
  <2>1. disk[Srv(t)][th[t].f] \in Nat
    BY <1>1
  <2>2. th' \in [Threads -> ThType]
    BY <1>6, <2>1, ThreadsUpdate DEF RepRead
  <2>3. pc' \in [Threads -> Pcs]
    BY <1>6 DEF RepRead
  <2> QED
    BY <1>6, <2>2, <2>3 DEF RepRead
<1>7. CASE RepWrite(t)
  <2>1. Overwrite(disk[Srv(t)][th[t].f], th[t].data) \in Nat
    BY <1>1 DEF Overwrite
  <2>2. disk' \in [Servers -> [Files -> Nat]]
    BY <1>1, <1>7, <2>1 DEF RepWrite
  <2>3. th' \in [Threads -> ThType]
    BY <1>7, ThreadsUpdate DEF RepWrite, Absent
  <2>4. pc' \in [Threads -> Pcs]
    BY <1>7 DEF RepWrite
  <2> QED
    BY <1>7, <2>2, <2>3, <2>4 DEF RepWrite
<1>8. CASE RepClose(t)
  <2> DEFINE r == [th[t] EXCEPT !.sub = NoThread]
             m == [th EXCEPT ![t] = r]
  <2>1. r \in ThType
    BY <1>1, ThUpdate
  <2>2. m \in [Threads -> ThType]
    BY <2>1, ThreadsUpdate
  <2>3. th' = [m EXCEPT ![th[t].sub].caller = NoThread]
    BY <1>8 DEF RepClose
  <2>4. th' \in [Threads -> ThType]
    <3> HIDE DEF m
    <3> QED BY <2>2, <2>3, ThreadsUpdate
  <2>5. pc' \in [Threads -> Pcs]
    BY <1>8 DEF RepClose
  <2> QED
    BY <1>8, <2>4, <2>5 DEF RepClose
<1>9. CASE RepDone(t)
  <2>1. ft' \in [Servers -> FileTable]
    BY <1>1, <1>9, FileTableType DEF RepDone
  <2> QED
    BY <1>9, <2>1, TypeReturn DEF RepDone
<1> QED
  BY <1>3, <1>4, <1>5, <1>6, <1>7, <1>8, <1>9

LEMMA TypeClose ==
  ASSUME TypeOK, NEW t \in Threads,
         CloseFound(t) \/ CloseNotFound(t) \/ CloseNext(t) \/ CloseEnd(t)
  PROVE  TypeOK'
<1> USE SizesAssumption, ServerAssumption, RecordTypes
    DEF TypeOK, tables, locks, threads, clients, history
<1> USE DEF Pcs, HasFd, RepPcs
<1>1. th[t] \in ThType /\ Srv(t) \in Servers /\ Srv(t) \in Nat
  BY ThFields DEF Srv
<1>2. CASE CloseFound(t)
  <2>1. PICK f \in Matches(Srv(t), th[t].fd) :
          /\ st' = [st EXCEPT ![Srv(t)] = SetFd(@, Srv(t), f, NoFd)]
          /\ th' = [th EXCEPT ![t] = [@ EXCEPT !.f = f, !.fd = NoFd,
                                              !.j = SkipSelf(Srv(t), 0)]]
    BY <1>2 DEF CloseFound
  <2>2. f \in Files
    BY <2>1 DEF Matches
  <2>3. st' \in [Servers -> ServerTable]
    <3>1. st[Srv(t)] \in ServerTable
      BY <1>1
    <3>2. SetFd(st[Srv(t)], Srv(t), f, NoFd) \in ServerTable
      BY <1>1, <2>2, <3>1, SetFdType DEF NoFd
    <3> QED
      BY <1>1, <2>1, <3>2
  <2>4. th' \in [Threads -> ThType]
    <3>1. SkipSelf(Srv(t), 0) \in Nat
      BY <1>1, SkipSelfType
    <3>2. [th[t] EXCEPT !.f = f, !.fd = NoFd, !.j = SkipSelf(Srv(t), 0)]
            \in ThType
      BY <1>1, <2>2, <3>1, ThUpdates
    <3> QED
      BY <2>1, <3>2
  <2>5. pc' \in [Threads -> Pcs]
    BY <1>2 DEF CloseFound
  <2> QED
    BY <1>2, <2>3, <2>4, <2>5 DEF CloseFound
<1>3. CASE CloseNotFound(t)
  BY <1>3 DEF CloseNotFound, Ends
<1>4. CASE CloseNext(t)
  <2>1. [th[t] EXCEPT !.ret = "close"] \in ThType
    BY <1>1, ThUpdate
  <2> QED
    BY <1>4, <2>1 DEF CloseNext
<1>5. CASE CloseEnd(t)
  BY <1>5 DEF CloseEnd, Ends
<1> QED
  BY <1>2, <1>3, <1>4, <1>5

LEMMA TypeNext == TypeOK /\ [Next]_vars => TypeOK'
<1> SUFFICES ASSUME TypeOK, [Next]_vars PROVE TypeOK'
  OBVIOUS
<1>1. ASSUME NEW t \in Threads, ThreadStep(t) PROVE TypeOK'
  BY <1>1, TypeOpen, TypePush, TypeReplicate, TypeClose DEF ThreadStep
<1>2. ASSUME NEW c \in Clients, LibraryStep(c) \/ AppStep(c) PROVE TypeOK'
  BY <1>2, TypeClients
<1>3. CASE UNCHANGED vars
  BY <1>3 DEF TypeOK, vars, tables, locks, threads, clients, history
<1> QED
  BY <1>1, <1>2, <1>3 DEF Next, Finished

\* Whatever the numbers of servers, files, clients and threads, every table,
\* lock, connection and client keeps its type: the popularity and free of
\* every row stay in range, whatever the build makes of x = x++, and no
\* handler stores a table that is not one.
THEOREM TypeCorrect == Spec => []TypeOK
<1>1. Init => TypeOK
  BY TypeInit
<1>2. TypeOK /\ [Next]_vars => TypeOK'
  BY TypeNext
<1> QED
  BY <1>1, <1>2, PTL DEF Spec

-----------------------------------------------------------------------------
(* Popularity                                                              *)

\* The steps that touch no file table and count no open.
LEMMA PopularityUntouched ==
  ASSUME [Next]_vars,
         ~ \E t \in Threads : OpenForClient(t) \/ PushFt(t) \/ SetFt(t)
                               \/ RepDone(t)
  PROVE  UNCHANGED <<ft, ftIn, opens>>
<1> USE DEF tables, locks, threads, clients, history, vars
<1>1. ASSUME NEW t \in Threads, ThreadStep(t)
      PROVE  UNCHANGED <<ft, ftIn, opens>>
  BY <1>1 DEF ThreadStep, OpenLockS, OpenLockF, ChooseSelf, ChooseReplicate,
     ChooseRedirect, OpenForReplica, OpenFails, PushSt, PushUnreachable,
     PushEnd, SetSt, RepNoLocalFile, RepOpen, RepUnreachable, RepRead,
     RepWrite, RepClose, CloseFound, CloseNotFound, CloseNext, CloseEnd
<1>2. ASSUME NEW c \in Clients, LibraryStep(c) \/ AppStep(c)
      PROVE  UNCHANGED <<ft, ftIn, opens>>
  BY <1>2 DEF LibraryStep, AppStep, ClientFollowFails, ClientFollow,
     ClientOpen, ClientWrite, ClientClose
<1> QED
  BY <1>1, <1>2 DEF Next, Finished

LEMMA PopularityNext ==
  TypeOK /\ RequestNeverOvercounts /\ [Next]_vars => RequestNeverOvercounts'
<1> SUFFICES ASSUME TypeOK, RequestNeverOvercounts, [Next]_vars
             PROVE  RequestNeverOvercounts'
  OBVIOUS
<1> USE SizesAssumption, ServerAssumption
    DEF tables, locks, threads, clients, history
<1>0. /\ \A s \in Servers, g \in Files : ft[s][g].request \in Nat
      /\ \A t \in Threads, g \in Files : ftIn[t][g].request \in Nat
      /\ \A g \in Files : opens[g] \in Nat
      /\ \A t \in Threads : Srv(t) \in Servers /\ th[t].f \in Files
  BY ThFields DEF TypeOK, FileTable, FileEntry, Srv
<1>1. ASSUME NEW t \in Threads, OpenForClient(t)
      PROVE  RequestNeverOvercounts'
  <2> DEFINE s == Srv(t)
             f == th[t].f
  <2>1. /\ ft' = [ft EXCEPT ![s] = Popular(ft[s], f)]
        /\ opens' = [opens EXCEPT ![f] = opens[f] + 1]
        /\ ftIn' = ftIn
    BY <1>1 DEF OpenForClient
  <2>2. \A g \in Files : opens[g] <= opens'[g]
    BY <1>0, <2>1 DEF TypeOK
  <2>3. \A g \in Files : /\ opens'[g] \in Nat
                         /\ g = f => opens'[g] = opens[g] + 1
    BY <1>0, <2>1 DEF TypeOK
  <2>4. ASSUME NEW r \in Servers, NEW g \in Files
        PROVE  ft'[r][g].request <= opens'[g]
    <3>1. CASE r = s /\ g = f
      <4>1. ft'[r][g].request = ft[r][g].request + 1
        BY <1>0, <2>1, <3>1 DEF Popular, TypeOK, FileTable, FileEntry
      <4>2. ft[r][g].request <= opens[g]
        BY DEF RequestNeverOvercounts
      <4> QED
        BY <1>0, <2>3, <3>1, <4>1, <4>2
    <3>2. CASE ~ (r = s /\ g = f)
      <4>1. ft'[r][g] = ft[r][g]
        BY <1>0, <2>1, <3>2 DEF Popular, TypeOK, FileTable
      <4>2. ft[r][g].request <= opens[g]
        BY DEF RequestNeverOvercounts
      <4> QED
        BY <1>0, <2>2, <2>3, <4>1, <4>2
    <3> QED
      BY <3>1, <3>2
  <2>5. ASSUME NEW u \in Threads, NEW g \in Files
        PROVE  ftIn'[u][g].request <= opens'[g]
    <3>1. ftIn[u][g].request <= opens[g]
      BY DEF RequestNeverOvercounts
    <3> QED
      BY <1>0, <2>1, <2>2, <2>3, <3>1
  <2> QED
    BY <2>4, <2>5 DEF RequestNeverOvercounts
<1>2. ASSUME NEW t \in Threads, PushFt(t)
      PROVE  RequestNeverOvercounts'
  <2>1. /\ ftIn' = [ftIn EXCEPT ![th[t].sub] = ft[Srv(t)]]
        /\ UNCHANGED <<ft, opens>>
    BY <1>2 DEF PushFt
  <2> QED
    BY <1>0, <2>1 DEF RequestNeverOvercounts, TypeOK
<1>3. ASSUME NEW t \in Threads, SetFt(t)
      PROVE  RequestNeverOvercounts'
  <2>1. /\ ft' = [ft EXCEPT ![Srv(t)] = ftIn[t]]
        /\ ftIn' = [ftIn EXCEPT ![t] = ZeroFt]
        /\ opens' = opens
    BY <1>3 DEF SetFt
  <2>2. \A g \in Files : ZeroFt[g].request = 0
    BY DEF ZeroFt
  <2> QED
    BY <1>0, <2>1, <2>2 DEF RequestNeverOvercounts, TypeOK
<1>4. ASSUME NEW t \in Threads, RepDone(t)
      PROVE  RequestNeverOvercounts'
  <2>1. /\ ft' = [ft EXCEPT ![Srv(t)] = AddReplica(ft[Srv(t)], th[t].f, th[t].j)]
        /\ UNCHANGED <<ftIn, opens>>
    BY <1>4 DEF RepDone
  <2>2. \A s \in Servers, g \in Files : ft'[s][g].request = ft[s][g].request
    <3>1. /\ Srv(t) \in Servers /\ th[t].f \in Files /\ th[t].j \in Nat
          /\ ft[Srv(t)] \in FileTable
      BY <1>0, ThFields DEF TypeOK
    <3>2. \A g \in Files : AddReplica(ft[Srv(t)], th[t].f, th[t].j)[g].request
                             = ft[Srv(t)][g].request
      BY <3>1, FileTableType
    <3> QED
      BY <2>1, <3>1, <3>2 DEF TypeOK
  <2> QED
    BY <2>1, <2>2 DEF RequestNeverOvercounts
<1>5. CASE ~ \E t \in Threads : OpenForClient(t) \/ PushFt(t) \/ SetFt(t)
                                \/ RepDone(t)
  BY <1>5, PopularityUntouched DEF RequestNeverOvercounts
<1> QED
  BY <1>1, <1>2, <1>3, <1>4, <1>5

\* In every server's table, and in every table on its way to a server, the
\* popularity of a file is at most the number of opens clients made of it:
\* no replication, redirect or push ever counts as a client's request.
THEOREM PopularityHonest == Spec => []RequestNeverOvercounts
<1>1. Init => RequestNeverOvercounts
  BY SizesAssumption
     DEF Init, RequestNeverOvercounts, ZeroFt
<1>2. TypeOK /\ RequestNeverOvercounts /\ [Next]_vars
        => RequestNeverOvercounts'
  BY PopularityNext
<1> QED
  BY <1>1, <1>2, TypeCorrect, PTL DEF Spec

-----------------------------------------------------------------------------
(* Redirects                                                               *)

\* Opens, pushes and closes write no row past the last server.
LEMMA RowsNext == TypeOK /\ RowsSound /\ [Next]_vars => RowsSound'
<1> SUFFICES ASSUME TypeOK, RowsSound, [Next]_vars PROVE RowsSound'
  OBVIOUS
<1> USE SizesAssumption, ServerAssumption
    DEF tables, locks, threads, clients, history
<1>0. /\ \A t \in Threads : Srv(t) \in Servers /\ th[t].f \in Files
      /\ \A s \in Servers : st[s] \in ServerTable /\ UnusedRows(st[s])
      /\ \A t \in Threads : UnusedRows(stIn[t])
      /\ Threads \subseteq Nat /\ NoFd \in Nat
  BY ThFields DEF TypeOK, Srv, RowsSound, Threads, NoFd
<1>1. ASSUME NEW s \in Servers, NEW f \in Files, NEW fd \in Nat
      PROVE  /\ UnusedRows(SetFd(st[s], s, f, fd))
             /\ UnusedRows(FreeAfterOpen(SetFd(st[s], s, f, fd), s))
  <2>1. /\ SetFd(st[s], s, f, fd) \in ServerTable
        /\ \A i \in Slots : SetFd(st[s], s, f, fd)[i].free = st[s][i].free
    BY <1>0, SetFdType
  <2>2. \A i \in Slots \ Servers :
          FreeAfterOpen(SetFd(st[s], s, f, fd), s)[i]
            = SetFd(st[s], s, f, fd)[i]
    BY <2>1, FreeAfterOpenType
  <2> QED
    BY <1>0, <2>1, <2>2 DEF UnusedRows
<1>2. ASSUME NEW t \in Threads, NEW new, UnusedRows(new),
             st' = [st EXCEPT ![Srv(t)] = new], stIn' = stIn
      PROVE  RowsSound'
  BY <1>0, <1>2 DEF RowsSound, UnusedRows, TypeOK
<1>3. ASSUME NEW t \in Threads, OpenForClient(t)
      PROVE  RowsSound'
  <2>1. PICK fd \in Threads :
          st' = [st EXCEPT ![Srv(t)] =
                   FreeAfterOpen(SetFd(st[Srv(t)], Srv(t), th[t].f, fd), Srv(t))]
    BY <1>3 DEF OpenForClient
  <2> QED
    BY <1>0, <1>1, <1>2, <1>3, <2>1 DEF OpenForClient
<1>4. ASSUME NEW t \in Threads, OpenForReplica(t)
      PROVE  RowsSound'
  <2>1. PICK fd \in Threads :
          st' = [st EXCEPT ![Srv(t)] = SetFd(st[Srv(t)], Srv(t), th[t].f, fd)]
    BY <1>4 DEF OpenForReplica
  <2> QED
    BY <1>0, <1>1, <1>2, <1>4, <2>1 DEF OpenForReplica
<1>5. ASSUME NEW t \in Threads, CloseFound(t)
      PROVE  RowsSound'
  <2>1. PICK f \in Files :
          st' = [st EXCEPT ![Srv(t)] = SetFd(st[Srv(t)], Srv(t), f, NoFd)]
    BY <1>5 DEF CloseFound, Matches
  <2> QED
    BY <1>0, <1>1, <1>2, <1>5, <2>1 DEF CloseFound
<1>6. ASSUME NEW t \in Threads, SetSt(t)
      PROVE  RowsSound'
  <2>1. UnusedRows(ZeroSt)
    BY DEF UnusedRows, ZeroSt, ZeroServer
  <2> QED
    BY <1>0, <1>6, <2>1 DEF SetSt, RowsSound, UnusedRows, TypeOK
<1>7. ASSUME NEW t \in Threads, NEW u \in Threads, PushSt(t, u)
      PROVE  RowsSound'
  BY <1>0, <1>7 DEF PushSt, RowsSound, UnusedRows, TypeOK
<1>8. CASE UNCHANGED <<st, stIn>>
  BY <1>0, <1>8 DEF RowsSound, UnusedRows
<1>9. ASSUME NEW t \in Threads, ThreadStep(t)
      PROVE  RowsSound'
  BY <1>3, <1>4, <1>5, <1>6, <1>7, <1>8, <1>9 DEF ThreadStep, OpenLockS,
     OpenLockF, ChooseSelf, ChooseReplicate, ChooseRedirect, OpenFails,
     PushUnreachable, PushFt, PushEnd, SetFt, RepNoLocalFile, RepOpen,
     RepUnreachable, RepRead, RepWrite, RepClose, RepDone, CloseNotFound,
     CloseNext, CloseEnd
<1>10. ASSUME NEW c \in Clients, LibraryStep(c) \/ AppStep(c)
       PROVE  RowsSound'
  BY <1>8, <1>10 DEF LibraryStep, AppStep, ClientFollowFails, ClientFollow,
     ClientOpen, ClientWrite, ClientClose
<1> QED
  BY <1>8, <1>9, <1>10 DEF Next, Finished, vars

\* Only ChooseRedirect redirects, and it names a server that has joined.
LEMMA RedirectNext ==
  TypeOK /\ RowsSound /\ RedirectsToServer /\ [Next]_vars
    => RedirectsToServer'
<1> SUFFICES ASSUME TypeOK, RowsSound, RedirectsToServer, [Next]_vars,
                    NEW c \in Clients, cpc'[c] = "redirected"
             PROVE  cl'[c].target \in Servers
  BY DEF RedirectsToServer
<1> USE SizesAssumption, ServerAssumption
    DEF tables, locks, threads, clients, history
<1>0. cpc \in [Clients -> {"idle", "opening", "redirected", "open", "written"}]
      /\ cl \in [Clients -> ClType]
  BY DEF TypeOK
<1>1. CASE cpc'[c] = cpc[c] /\ cl'[c] = cl[c]
  BY <1>1 DEF RedirectsToServer
<1>2. ASSUME NEW t \in Threads, ChooseRedirect(t)
      PROVE  cl'[c].target \in Servers
  <2>1. Srv(t) \in Servers /\ th[t].f \in Files
    BY ThFields DEF TypeOK, Srv
  <2>2. /\ st[Srv(t)] \in ServerTable
        /\ Row(t) \in FileEntry
        /\ \A i \in Slots \ Servers : st[Srv(t)][i].free = 0
    BY <2>1 DEF Row, TypeOK, FileTable, RowsSound, UnusedRows
  <2>3. Chosen(t) \in Servers
    BY <1>2, <2>1, <2>2, SelectPeerIsServer DEF ChooseRedirect, Chosen
  <2>4. PICK d \in Clients :
          /\ cpc' = [cpc EXCEPT ![d] = "redirected"]
          /\ cl' = [cl EXCEPT ![d].thr = NoThread, ![d].target = Chosen(t)]
    BY <1>2 DEF ChooseRedirect
  <2>5. CASE c = d
    BY <1>0, <2>3, <2>4, <2>5 DEF ClType
  <2>6. CASE c # d
    BY <1>0, <1>1, <2>4, <2>6
  <2> QED
    BY <2>5, <2>6
<1>3. ASSUME NEW t \in Threads, ThreadStep(t)
      PROVE  cl'[c].target \in Servers
  BY <1>0, <1>1, <1>2, <1>3 DEF ThreadStep, OpenLockS, OpenLockF, ChooseSelf,
     ChooseReplicate, OpenForClient, OpenForReplica, OpenFails, PushSt,
     PushUnreachable, PushFt, PushEnd, SetSt, SetFt, RepNoLocalFile, RepOpen,
     RepUnreachable, RepRead, RepWrite, RepClose, RepDone, CloseFound,
     CloseNotFound, CloseNext, CloseEnd
<1>4. ASSUME NEW d \in Clients, LibraryStep(d) \/ AppStep(d)
      PROVE  cl'[c].target \in Servers
  BY <1>0, <1>1, <1>4 DEF LibraryStep, AppStep, ClientFollowFails,
     ClientFollow, ClientOpen, ClientWrite, ClientClose
<1> QED
  BY <1>1, <1>3, <1>4 DEF Next, Finished, vars

\* select_peer's loop may look at rows of server_list past the last server
\* (an index[] can be longer than the list), but a client is never sent to
\* one: those rows hold zeros in every table that opens, closes and pushes
\* can produce, and row 0 is at least as free.
THEOREM RedirectsSound == Spec => []RedirectsToServer
<1>1. Init => RowsSound /\ RedirectsToServer
  BY SizesAssumption DEF Init, JoinedRow, RowsSound, UnusedRows,
     RedirectsToServer, ZeroSt, ZeroServer
<1>2. TypeOK /\ RowsSound /\ RedirectsToServer /\ [Next]_vars
        => (RowsSound /\ RedirectsToServer)'
  BY RowsNext, RedirectNext
<1> QED
  BY <1>1, <1>2, TypeCorrect, PTL DEF Spec
=============================================================================
