------------------------ MODULE MoteGateway_proofs -------------------------
(***************************************************************************)
(* No mote id stays taken when its client is gone, for any number of       *)
(* connections, ids and buffers.                                           *)
(***************************************************************************)
EXTENDS MoteGateway, FiniteSetTheorems, WellFoundedInduction, TLAPS

(* TypeOK, and what sockets hold. *)
Types == TypeOK /\ toPeer \in [Threads -> Seq({Echo, Packet})]

Serving == {"serve", "send", "close", "dereg"}

-----------------------------------------------------------------------------
(* Types                                                                   *)

LEMMA TypesInit == Init => Types
  BY GatewayAssumption DEF Init, Types, TypeOK, Ids, Connected, BAD_SOCKET

LEMMA DeliveredType ==
  ASSUME Types, NEW t, NEW p \in {Echo, Packet}, Delivered(t, p) \/ Lost(t)
  PROVE  /\ peer' = peer /\ fromPeer' = fromPeer /\ up' \in BOOLEAN
         /\ toPeer' \in [Threads -> Seq({Echo, Packet})]
         /\ \A u \in Threads : Len(toPeer'[u]) <= Buf
<1>1. CASE Lost(t)
  BY <1>1 DEF Lost, Types, TypeOK, sockets
<1>2. CASE Delivered(t, p)
  <2>1. /\ peer' = peer /\ fromPeer' = fromPeer /\ up' = up
        /\ Len(toPeer[t]) < Buf /\ toPeer' = [toPeer EXCEPT ![t] = Append(toPeer[t], p)]
    BY <1>2 DEF Delivered
  <2>2. ASSUME NEW u \in Threads
        PROVE  toPeer'[u] \in Seq({Echo, Packet}) /\ Len(toPeer'[u]) <= Buf
    <3>1. toPeer[u] \in Seq({Echo, Packet}) /\ Len(toPeer[u]) <= Buf
      BY DEF Types, TypeOK
    <3>2. CASE u = t
      <4>1. toPeer'[u] = Append(toPeer[u], p) /\ Len(toPeer[u]) < Buf
        BY <2>1, <3>2 DEF Types
      <4>2. Len(Append(toPeer[u], p)) = Len(toPeer[u]) + 1
            /\ Append(toPeer[u], p) \in Seq({Echo, Packet}) /\ Len(toPeer[u]) \in Nat
        BY <3>1
      <4> QED
        BY <4>1, <4>2, GatewayAssumption
    <3>3. CASE u # t
      BY <2>1, <3>1, <3>3 DEF Types
    <3> QED
      BY <3>2, <3>3
  <2>3. toPeer' \in [Threads -> Seq({Echo, Packet})]
    BY <2>1, <2>2 DEF Types
  <2> QED
    BY <2>1, <2>2, <2>3 DEF Types, TypeOK
<1> QED
  BY <1>1, <1>2

LEMMA TypesClient ==
  ASSUME Types, NEW t \in Threads,
         \/ \E m \in Ids : Connect(t, m)
         \/ ClientEcho(t) \/ ClientRead(t) \/ ClientSend(t) \/ ClientExit(t)
  PROVE  Types'
<1> USE GatewayAssumption DEF Types, TypeOK, Connected, table, threads, listener, Goto
<1>1. ASSUME NEW m \in Ids, Connect(t, m) PROVE Types'
  BY <1>1 DEF Connect
<1>2. CASE ClientEcho(t) \/ ClientRead(t)
  <2>1. /\ toPeer[t] # <<>>
        /\ \E q \in {Tail(toPeer[t]), <<>>} : toPeer' = [toPeer EXCEPT ![t] = q]
        /\ \E p \in Connected \cup {"closed"} : peer' = [peer EXCEPT ![t] = p]
        /\ UNCHANGED <<table, threads, fromPeer, listener, up>>
    BY <1>2 DEF ClientEcho, ClientRead
  <2>2. Tail(toPeer[t]) \in Seq({Echo, Packet}) /\ Len(Tail(toPeer[t])) <= Buf
    <3>1. toPeer[t] \in Seq({Echo, Packet}) /\ Len(toPeer[t]) <= Buf
      OBVIOUS
    <3>2. /\ Tail(toPeer[t]) \in Seq({Echo, Packet}) /\ Len(toPeer[t]) \in Nat
          /\ Len(Tail(toPeer[t])) = Len(toPeer[t]) - 1
      BY <2>1, <3>1
    <3> QED
      BY <3>1, <3>2
  <2>3. <<>> \in Seq({Echo, Packet}) /\ Len(<<>>) <= Buf
    OBVIOUS
  <2>4. PICK q \in {Tail(toPeer[t]), <<>>} : toPeer' = [toPeer EXCEPT ![t] = q]
    BY <2>1
  <2>5. q \in Seq({Echo, Packet}) /\ Len(q) <= Buf
    BY <2>2, <2>3
  <2>6. /\ toPeer' \in [Threads -> Seq({Echo, Packet})]
        /\ \A u \in Threads : Len(toPeer'[u]) <= Buf
    BY <2>4, <2>5
  <2> QED
    BY <2>1, <2>6
<1>3. CASE ClientSend(t)
  BY <1>3 DEF ClientSend
<1>4. CASE ClientExit(t)
  <2>1. <<>> \in Seq({Echo, Packet}) /\ Len(<<>>) = 0
    OBVIOUS
  <2> QED
    BY <1>4, <2>1 DEF ClientExit
<1> QED
  BY <1>1, <1>2, <1>3, <1>4

LEMMA TypesThread ==
  ASSUME Types, NEW t \in Threads, ThreadStep(t) \/ UartFails(t)
  PROVE  Types'
<1> USE GatewayAssumption DEF Types, TypeOK, table, threads, listener, sockets, Goto
<1>1. CASE Recv(t)
  <2>1. fromPeer[t] \in 0..Buf /\ fromPeer[t] > 0
    BY <1>1 DEF Recv
  <2>2. fromPeer[t] - 1 \in 0..Buf
    BY <2>1
  <2>3. fromPeer' \in [Threads -> 0..Buf]
    BY <1>1, <2>2 DEF Recv
  <2>4. pc' \in [Threads -> {"none", "reg", "lock", "echo", "store",
                             "serve", "send", "close", "dereg"}]
    BY <1>1 DEF Recv
  <2> QED
    BY <1>1, <2>3, <2>4 DEF Recv
<1>2. CASE RecvEnd(t) \/ SendUart(t) \/ UartFails(t)
  BY <1>2 DEF RecvEnd, SendUart, UartFails
<1>3. CASE RegRefused(t) \/ RegLock(t) \/ RegEchoFails(t) \/ RegStore(t)
  BY <1>3 DEF RegRefused, RegLock, RegEchoFails, RegStore
<1>4. CASE RegEcho(t)
  <2>1. /\ peer' = peer /\ fromPeer' = fromPeer /\ up' \in BOOLEAN
        /\ toPeer' \in [Threads -> Seq({Echo, Packet})]
        /\ \A u \in Threads : Len(toPeer'[u]) <= Buf
    BY <1>4, DeliveredType DEF RegEcho
  <2> QED
    BY <1>4, <2>1 DEF RegEcho
<1>5. CASE Close(t)
  BY <1>5 DEF Close, Ids
<1>6. CASE Dereg(t)
  BY <1>6 DEF Dereg, BAD_SOCKET
<1> QED
  BY <1>1, <1>2, <1>3, <1>4, <1>5, <1>6 DEF ThreadStep, Registration, Sending

LEMMA TypesListener ==
  ASSUME Types, ListenerStep \/ \E a \in Ids \cup {Bcast} : Recv_uart(a)
  PROVE  Types'
<1> USE GatewayAssumption DEF Types, TypeOK, table, threads, listener, sockets
<1>1. ASSUME NEW a \in Ids \cup {Bcast}, Recv_uart(a) PROVE Types'
  BY <1>1 DEF Recv_uart, Bcast, Ids
<1>2. CASE BcastLock \/ BcastEnd
  BY <1>2 DEF BcastLock, BcastEnd
<1>3. CASE BcastRow
  BY <1>3 DEF BcastRow, Ids
<1>4. CASE WriteCall
  BY <1>4 DEF WriteCall, Next_lpc, Owner
<1>5. CASE WriteEnd
  <2>1. /\ peer' = peer /\ fromPeer' = fromPeer /\ up' \in BOOLEAN
        /\ toPeer' \in [Threads -> Seq({Echo, Packet})]
        /\ \A u \in Threads : Len(toPeer'[u]) <= Buf
    BY <1>5, DeliveredType DEF WriteEnd
  <2> QED
    BY <1>5, <2>1 DEF WriteEnd, Next_lpc
<1> QED
  BY <1>1, <1>2, <1>3, <1>4, <1>5 DEF ListenerStep

LEMMA TypesNext == Types /\ [Next]_vars => Types'
<1> SUFFICES ASSUME Types, [Next]_vars PROVE Types'
  OBVIOUS
<1>1. CASE Next
  BY <1>1, TypesClient, TypesThread, TypesListener DEF Next, ClientStep
<1>2. CASE UNCHANGED vars
  BY <1>2 DEF vars, table, threads, sockets, listener, Types, TypeOK
<1> QED
  BY <1>1, <1>2

(* Every variable has its type, for any number of connections. *)
THEOREM TypeCorrect == Spec => []TypeOK
<1>1. Types => TypeOK
  BY DEF Types
<1> QED
  BY <1>1, TypesInit, TypesNext, PTL DEF Spec

-----------------------------------------------------------------------------
(* Ids and the threads that will give them back                            *)

LEMMA Finite == /\ \A s : IsFiniteSet(Rows(s)) /\ IsFiniteSet(Backing(s))
                /\ \A s : Cardinality(Rows(s)) \in Nat /\ Cardinality(Backing(s)) \in Nat
<1>1. IsFiniteSet(Ids) /\ IsFiniteSet(Threads)
  BY FS_Interval, GatewayAssumption DEF Ids
<1>2. \A s : Rows(s) \subseteq Ids /\ Backing(s) \subseteq Threads
  BY DEF Rows, Backing
<1>3. \A s : IsFiniteSet(Rows(s)) /\ IsFiniteSet(Backing(s))
  BY <1>1, <1>2, FS_Subset
<1> QED
  BY <1>3, FS_CardinalityType

(* A step that keeps the rows of a number and loses none of its threads. *)
LEMMA Grows ==
  ASSUME NEW R, NEW S, NEW A, NEW B, IsFiniteSet(A), IsFiniteSet(B),
         R \subseteq A, B \subseteq S, IsFiniteSet(S),
         Cardinality(A) <= Cardinality(B)
  PROVE  Cardinality(R) <= Cardinality(S)
<1>1. Cardinality(R) <= Cardinality(A) /\ Cardinality(B) <= Cardinality(S)
  BY FS_Subset
<1>2. /\ Cardinality(R) \in Nat /\ Cardinality(A) \in Nat
      /\ Cardinality(B) \in Nat /\ Cardinality(S) \in Nat
  BY FS_Subset, FS_CardinalityType
<1> QED
  BY <1>1, <1>2

(* The steps that neither register nor give back: no thread that serves    *)
(* leaves the table's books.                                               *)
LEMMA KeptBacking ==
  ASSUME Types, EntriesBacked, addr_table' = addr_table,
         \A t \in Threads : pc[t] \in Serving => pc'[t] \in Serving /\ fd'[t] = fd[t]
  PROVE  EntriesBacked'
<1> SUFFICES ASSUME NEW s \in Fds
             PROVE  Cardinality(Rows(s)') <= Cardinality(Backing(s)')
  BY DEF EntriesBacked
<1>1. Rows(s)' = Rows(s)
  BY DEF Rows
<1>2. Backing(s) \subseteq Backing(s)'
  BY DEF Backing, Serving
<1>3. IsFiniteSet(Backing(s)') /\ IsFiniteSet(Backing(s)) /\ IsFiniteSet(Rows(s))
  <2>1. Backing(s)' \subseteq Threads
    BY DEF Backing
  <2> QED
    BY <2>1, Finite, FS_Subset, GatewayAssumption
<1>4. Cardinality(Rows(s)) <= Cardinality(Backing(s))
  BY DEF EntriesBacked
<1> QED
  BY <1>1, <1>2, <1>3, <1>4, Grows

LEMMA StoreBacked ==
  ASSUME Types, EntriesBacked, NEW t \in Threads, RegStore(t)
  PROVE  EntriesBacked'
<1> SUFFICES ASSUME NEW s \in Fds
             PROVE  Cardinality(Rows(s)') <= Cardinality(Backing(s)')
  BY DEF EntriesBacked
<1>1. /\ addr_table' = [addr_table EXCEPT ![id[t]] = fd[t]] /\ fd' = fd
      /\ pc[t] = "store" /\ pc' = [pc EXCEPT ![t] = "serve"] /\ id[t] \in Ids
  BY DEF RegStore, Goto, Types, TypeOK
<1>2. Cardinality(Rows(s)) <= Cardinality(Backing(s))
  BY DEF EntriesBacked
<1>3. /\ Rows(s)' = {m \in Ids : addr_table'[m] = s}
      /\ Backing(s)' = {u \in Threads : fd[u] = s /\ pc'[u] \in Serving}
  BY <1>1 DEF Rows, Backing, Serving
<1>4. CASE fd[t] = s
  <2>1. Rows(s)' = Rows(s) \cup {id[t]}
    BY <1>1, <1>3, <1>4 DEF Rows, Types, TypeOK
  <2>2. Backing(s)' = Backing(s) \cup {t} /\ t \notin Backing(s)
    BY <1>1, <1>3, <1>4 DEF Backing, Serving, Types, TypeOK
  <2>3. Cardinality(Rows(s) \cup {id[t]}) <= Cardinality(Rows(s)) + 1
    <3>1. Cardinality(Rows(s)) \in Nat /\ IsFiniteSet(Rows(s))
      BY Finite
    <3>2. \/ Cardinality(Rows(s) \cup {id[t]}) = Cardinality(Rows(s))
          \/ Cardinality(Rows(s) \cup {id[t]}) = Cardinality(Rows(s)) + 1
      BY <3>1, FS_AddElement
    <3> QED
      BY <3>1, <3>2
  <2>4. Cardinality(Backing(s) \cup {t}) = Cardinality(Backing(s)) + 1
    BY <2>2, Finite, FS_AddElement
  <2>5. Cardinality(Rows(s) \cup {id[t]}) \in Nat
    BY Finite, FS_AddElement, FS_CardinalityType
  <2> QED
    BY <1>2, <2>1, <2>2, <2>3, <2>4, <2>5, Finite
<1>5. CASE fd[t] # s
  <2>1. Rows(s)' \subseteq Rows(s)
    BY <1>1, <1>3, <1>5 DEF Rows, Types, TypeOK
  <2>2. Backing(s)' = Backing(s)
    BY <1>1, <1>3, <1>5 DEF Backing, Serving, Types, TypeOK
  <2> QED
    BY <1>2, <2>1, <2>2, Finite, Grows
<1> QED
  BY <1>4, <1>5

LEMMA LeastExists ==
  ASSUME NEW S \in SUBSET Nat, S # {}
  PROVE  \E x \in S : \A y \in S : x <= y
<1>1. PICK x \in S : \A y \in S : ~ (<<y, x>> \in OpToRel(<, Nat))
  BY NatLessThanWellFounded, WFMin
<1>2. ASSUME NEW y \in S PROVE x <= y
  <2>1. <<y, x>> \in OpToRel(<, Nat) <=> y < x
    BY DEF OpToRel
  <2>2. ~ (y < x)
    BY <1>1, <2>1
  <2> QED
    BY <2>2
<1> QED
  BY <1>2

LEMMA LeastRow ==
  ASSUME NEW s, Rows(s) # {}
  PROVE  \E m \in Rows(s) : \A n \in Rows(s) : m <= n
<1>1. Rows(s) \subseteq Nat
  BY DEF Rows, Ids
<1> QED
  BY <1>1, LeastExists

LEMMA DeregBacked ==
  ASSUME Types, EntriesBacked, NEW t \in Threads, Dereg(t)
  PROVE  EntriesBacked'
<1> SUFFICES ASSUME NEW s \in Fds
             PROVE  Cardinality(Rows(s)') <= Cardinality(Backing(s)')
  BY DEF EntriesBacked
<1>1. /\ addr_table' = [m \in Ids |-> IF IsMoteId(m, fd[t]) THEN BAD_SOCKET
                                      ELSE addr_table[m]]
      /\ fd' = [fd EXCEPT ![t] = BAD_SOCKET]
      /\ pc[t] = "dereg" /\ pc' = [pc EXCEPT ![t] = "none"]
  BY DEF Dereg, Goto
<1>2. Cardinality(Rows(s)) <= Cardinality(Backing(s))
  BY DEF EntriesBacked
<1>3. s # BAD_SOCKET
  BY DEF Fds, BAD_SOCKET
<1>4. CASE fd[t] # s
  <2>1. Rows(s)' = Rows(s)
    BY <1>1, <1>3, <1>4 DEF Rows, IsMoteId, Types, TypeOK
  <2>2. Backing(s)' = Backing(s)
    BY <1>1, <1>3, <1>4 DEF Backing, Types, TypeOK
  <2> QED
    BY <1>2, <2>1, <2>2
<1>5. CASE fd[t] = s
  <2>1. Backing(s)' = Backing(s) \ {t} /\ t \in Backing(s)
    BY <1>1, <1>3, <1>5 DEF Backing, Types, TypeOK
  <2>2. Cardinality(Backing(s) \ {t}) = Cardinality(Backing(s)) - 1
    BY <2>1, Finite, FS_RemoveElement
  <2>3. CASE Rows(s) = {}
    <3>1. Rows(s)' = {}
      BY <1>1, <1>3, <2>3 DEF Rows
    <3>2. Cardinality(Backing(s) \ {t}) \in Nat
      BY Finite, FS_RemoveElement, FS_CardinalityType
    <3> QED
      BY <2>1, <3>1, <3>2, FS_EmptySet
  <2>4. CASE Rows(s) # {}
    <3>1. PICK m \in Ids : IsMoteId(m, s)
      <4>1. \E m \in Rows(s) : \A n \in Rows(s) : m <= n
        BY <2>4, LeastRow
      <4> QED
        BY <4>1 DEF IsMoteId, Rows, Ids
    <3>2. Rows(s)' = Rows(s) \ {m} /\ m \in Rows(s)
      <4>1. \A n \in Ids : IsMoteId(n, s) <=> n = m
        BY <3>1 DEF IsMoteId, Ids
      <4> QED
        BY <1>1, <1>3, <1>5, <3>1, <4>1 DEF Rows, IsMoteId
    <3>3. Cardinality(Rows(s) \ {m}) = Cardinality(Rows(s)) - 1
      BY <3>2, Finite, FS_RemoveElement
    <3> QED
      BY <1>2, <2>1, <2>2, <3>2, <3>3, Finite
  <2> QED
    BY <2>3, <2>4
<1> QED
  BY <1>4, <1>5

LEMMA BackedNext == Types /\ EntriesBacked /\ [Next]_vars => EntriesBacked'
<1> SUFFICES ASSUME Types, EntriesBacked, [Next]_vars PROVE EntriesBacked'
  OBVIOUS
<1> USE DEF table, threads, listener, sockets, vars, Serving, Goto
<1> pc \in [Threads -> {"none", "reg", "lock", "echo", "store",
                        "serve", "send", "close", "dereg"}]
    /\ fd \in [Threads -> Fds \cup {BAD_SOCKET}]
  BY DEF Types, TypeOK
<1>1. ASSUME NEW t \in Threads, RegStore(t) \/ Dereg(t) PROVE EntriesBacked'
  BY <1>1, StoreBacked, DeregBacked
<1>2. ASSUME NEW t \in Threads, ThreadStep(t) \/ UartFails(t),
             ~(RegStore(t) \/ Dereg(t))
      PROVE  EntriesBacked'
  <2>1. /\ addr_table' = addr_table
        /\ \A u \in Threads : pc[u] \in Serving => pc'[u] \in Serving /\ fd'[u] = fd[u]
    BY <1>2 DEF ThreadStep, Registration, Sending, Recv, RecvEnd, SendUart, UartFails,
       RegRefused, RegLock, RegEcho, RegEchoFails, Close
  <2> QED
    BY <2>1, KeptBacking
<1>3. ASSUME NEW t \in Threads, \/ ClientStep(t) \/ ClientSend(t) \/ ClientExit(t)
                                \/ \E m \in Ids : Connect(t, m)
      PROVE  EntriesBacked'
  <2>1. /\ addr_table' = addr_table
        /\ \A u \in Threads : pc[u] \in Serving => pc'[u] \in Serving /\ fd'[u] = fd[u]
    BY <1>3 DEF ClientStep, ClientEcho, ClientRead, ClientSend, ClientExit, Connect
  <2> QED
    BY <2>1, KeptBacking
<1>4. ASSUME ListenerStep \/ \E a \in Ids \cup {Bcast} : Recv_uart(a)
      PROVE  EntriesBacked'
  <2>1. UNCHANGED <<addr_table, pc, fd>>
    BY <1>4 DEF ListenerStep, BcastLock, BcastRow, BcastEnd, WriteCall, WriteEnd, Recv_uart
  <2> QED
    BY <2>1, KeptBacking
<1>5. CASE UNCHANGED vars
  BY <1>5, KeptBacking
<1> QED
  BY <1>1, <1>2, <1>3, <1>4, <1>5 DEF Next

(* However connections, their numbers and the table race, the ids taken    *)
(* under a number are no more than the threads that will give one back.    *)
THEOREM EntriesBackedHolds == Spec => []EntriesBacked
<1>1. Init => EntriesBacked
  <2> SUFFICES ASSUME Init, NEW s \in Fds
               PROVE  Cardinality(Rows(s)) <= Cardinality(Backing(s))
    BY DEF EntriesBacked
  <2>1. Rows(s) = {} /\ Cardinality({}) = 0
    BY FS_EmptySet DEF Init, Rows, Fds, BAD_SOCKET
  <2> QED
    BY <2>1, Finite
<1> QED
  BY <1>1, TypesInit, TypesNext, BackedNext, PTL DEF Spec

-----------------------------------------------------------------------------
(* Who waits with addr_lock held                                           *)

(* addr_lock is held exactly inside the code it guards. *)
LockHeld ==
  /\ \A t \in Threads : addr_lock = t <=> pc[t] \in {"echo", "store"}
  /\ addr_lock = Listener => lpc \in {"row", "call", "write"}
  /\ lpc = "row" => addr_lock = Listener

(* What a client is sent is gone when it is; no registration is sent back  *)
(* before its thread has the lock, so that until then the client reads; and *)
(* a client that only sends when its socket is closed has not sent since,   *)
(* or has read since.                                                       *)
NothingLeft(t) == peer[t] = "closed" => toPeer[t] = <<>>
ReadsUntilEcho(t) ==
  pc[t] \in {"reg", "lock", "echo"} =>
    peer[t] \in {"waiting", "closed"} /\ toPeer[t] \in Seq({Packet})
RoomOnceClosed(t) ==
  lpc = "write" /\ conn = t /\ pc[t] \in {"dereg", "none"} /\ peer[t] = "reply"
    => Len(toPeer[t]) < Buf \/ fromPeer[t] = 0
Unread == \A t \in Threads : NothingLeft(t) /\ ReadsUntilEcho(t) /\ RoomOnceClosed(t)

LEMMA LockHeldNext == Types /\ LockHeld /\ [Next]_vars => LockHeld'
<1> SUFFICES ASSUME Types, LockHeld, [Next]_vars PROVE LockHeld'
  OBVIOUS
<1> NoOne \notin Threads /\ Listener \notin Threads /\ NoOne # Listener
  BY GatewayAssumption DEF NoOne, Listener
<1> pc \in [Threads -> {"none", "reg", "lock", "echo", "store",
                        "serve", "send", "close", "dereg"}]
  BY DEF Types, TypeOK
<1>1. ASSUME NEW t \in Threads, RegLock(t) \/ RegEcho(t) \/ RegEchoFails(t) \/ RegStore(t)
      PROVE  LockHeld'
  <2>1. CASE RegLock(t)
    <3>1. /\ addr_lock = NoOne /\ addr_lock' = t /\ lpc' = lpc
          /\ pc' = [pc EXCEPT ![t] = "echo"]
      BY <2>1 DEF RegLock, Goto, listener
    <3> QED BY <3>1 DEF LockHeld
  <2>2. CASE RegEcho(t)
    <3>1. /\ pc[t] = "echo" /\ addr_lock' = addr_lock /\ lpc' = lpc
          /\ pc' = [pc EXCEPT ![t] = "store"]
      BY <2>2 DEF RegEcho, Goto, listener, table
    <3> QED BY <3>1 DEF LockHeld
  <2>3. CASE RegEchoFails(t) \/ RegStore(t)
    <3>1. /\ pc[t] \in {"echo", "store"} /\ addr_lock' = NoOne /\ lpc' = lpc
          /\ \E p \in {"close", "serve"} : pc' = [pc EXCEPT ![t] = p]
      BY <2>3 DEF RegEchoFails, RegStore, Goto, listener
    <3>2. addr_lock = t
      BY <3>1 DEF LockHeld
    <3> QED BY <3>1, <3>2 DEF LockHeld
  <2> QED BY <1>1, <2>1, <2>2, <2>3
<1>2. ASSUME NEW t \in Threads,
             \/ RegRefused(t) \/ Sending(t) \/ UartFails(t) \/ Close(t) \/ Dereg(t)
             \/ \E m \in Ids : Connect(t, m)
      PROVE  LockHeld'
  <2>1. /\ pc[t] \notin {"echo", "store"} /\ addr_lock' = addr_lock /\ lpc' = lpc
        /\ \E p \in {"none", "reg", "lock", "serve", "send", "close", "dereg"} :
             pc' = [pc EXCEPT ![t] = p]
    BY <1>2 DEF RegRefused, Sending, Recv, RecvEnd, SendUart, UartFails, Close, Dereg,
       Connect, Goto, listener, table
  <2> QED BY <2>1 DEF LockHeld
<1>3. ASSUME NEW t \in Threads, ClientStep(t) \/ ClientSend(t) \/ ClientExit(t)
      PROVE  LockHeld'
  <2>1. UNCHANGED <<addr_lock, pc, lpc>>
    BY <1>3 DEF ClientStep, ClientEcho, ClientRead, ClientSend, ClientExit, table,
       threads, listener
  <2> QED BY <2>1 DEF LockHeld
<1>4. ASSUME ListenerStep \/ \E a \in Ids \cup {Bcast} : Recv_uart(a)
      PROVE  LockHeld'
  <2>1. CASE BcastLock
    <3>1. addr_lock = NoOne /\ addr_lock' = Listener /\ lpc' = "row" /\ pc' = pc
      BY <2>1 DEF BcastLock, threads
    <3> QED BY <3>1 DEF LockHeld
  <2>2. CASE BcastEnd
    <3>1. lpc = "row" /\ addr_lock' = NoOne /\ lpc' = "read" /\ pc' = pc
      BY <2>2 DEF BcastEnd, threads
    <3> QED BY <3>1 DEF LockHeld
  <2>3. CASE BcastRow \/ WriteCall \/ WriteEnd
    <3>1. /\ lpc' \in {"row", "call", "write", "read"} /\ UNCHANGED <<addr_lock, pc>>
          /\ lpc' = "row" => addr_lock = Listener
          /\ lpc' = "read" => addr_lock # Listener
      BY <2>3 DEF BcastRow, WriteCall, WriteEnd, Next_lpc, table, threads, LockHeld
    <3> QED BY <3>1 DEF LockHeld
  <2>4. ASSUME NEW a, Recv_uart(a)
        PROVE  LockHeld'
    <3>1. lpc = "read" /\ lpc' \in {"read", "call", "lock"} /\ UNCHANGED <<addr_lock, pc>>
      BY <2>4 DEF Recv_uart, table, threads
    <3> QED BY <3>1 DEF LockHeld
  <2> QED BY <1>4, <2>1, <2>2, <2>3, <2>4 DEF ListenerStep
<1>5. CASE UNCHANGED vars
  BY <1>5 DEF vars, table, threads, listener, LockHeld
<1> QED
  BY <1>1, <1>2, <1>3, <1>4, <1>5 DEF Next, ThreadStep, Registration

\* A step of one connection: the others keep what they had.
LEMMA UnreadFrame ==
  ASSUME Types, Unread, NEW t \in Threads,
         \A u \in Threads \ {t} : /\ peer'[u] = peer[u] /\ toPeer'[u] = toPeer[u]
                                  /\ pc'[u] = pc[u] /\ fromPeer'[u] = fromPeer[u],
         UNCHANGED <<lpc, conn>>,
         NothingLeft(t)', ReadsUntilEcho(t)', RoomOnceClosed(t)'
  PROVE  Unread'
<1>1. ASSUME NEW u \in Threads \ {t}
      PROVE  NothingLeft(u)' /\ ReadsUntilEcho(u)' /\ RoomOnceClosed(u)'
  <2>1. NothingLeft(u) /\ ReadsUntilEcho(u) /\ RoomOnceClosed(u)
    BY DEF Unread
  <2>2. NothingLeft(u)'
    BY <2>1 DEF NothingLeft
  <2>3. ReadsUntilEcho(u)'
    BY <2>1 DEF ReadsUntilEcho
  <2>4. RoomOnceClosed(u)'
    BY <2>1 DEF RoomOnceClosed
  <2> QED BY <2>2, <2>3, <2>4
<1> QED
  BY <1>1 DEF Unread

\* What a client does.
LEMMA UnreadClient ==
  ASSUME Types, Unread, NEW t \in Threads,
         ClientEcho(t) \/ ClientRead(t) \/ ClientSend(t) \/ ClientExit(t)
  PROVE  Unread'
<1> peer \in [Threads -> Connected \cup {"closed"}] /\ Len(toPeer[t]) <= Buf
    /\ toPeer \in [Threads -> Seq({Echo, Packet})] /\ fromPeer \in [Threads -> 0..Buf]
  BY DEF Types, TypeOK
<1>1. UNCHANGED <<pc, lpc, conn>>
  BY DEF ClientEcho, ClientRead, ClientSend, ClientExit, threads, listener
<1>2. NothingLeft(t) /\ ReadsUntilEcho(t) /\ RoomOnceClosed(t)
  BY DEF Unread
<1>3. CASE ClientEcho(t)
  <2>1. /\ fromPeer' = fromPeer /\ peer[t] = "waiting" /\ toPeer[t] # <<>>
        /\ \/ /\ peer' = [peer EXCEPT ![t] = "ok"] /\ Head(toPeer[t]) = Echo
              /\ toPeer' = [toPeer EXCEPT ![t] = Tail(toPeer[t])]
           \/ /\ peer' = [peer EXCEPT ![t] = "closed"]
              /\ toPeer' = [toPeer EXCEPT ![t] = <<>>]
    BY <1>3 DEF ClientEcho
  <2>2. NothingLeft(t)' /\ RoomOnceClosed(t)'
    BY <2>1 DEF NothingLeft, RoomOnceClosed
  <2>3. ReadsUntilEcho(t)'
    <3> SUFFICES ASSUME pc[t] \in {"reg", "lock", "echo"}
                 PROVE  peer'[t] = "closed" /\ toPeer'[t] \in Seq({Packet})
      BY <1>1 DEF ReadsUntilEcho
    <3>1. toPeer[t] \in Seq({Packet}) /\ Packet # Echo
      BY <1>2 DEF ReadsUntilEcho, Packet, Echo
    <3>2. Head(toPeer[t]) = Packet
      BY <2>1, <3>1
    <3>3. peer' = [peer EXCEPT ![t] = "closed"] /\ toPeer' = [toPeer EXCEPT ![t] = <<>>]
      BY <2>1, <3>1, <3>2
    <3> QED BY <3>3
  <2> QED BY <1>1, <2>1, <2>2, <2>3, UnreadFrame
<1>4. CASE ClientRead(t)
  <2>1. /\ fromPeer' = fromPeer /\ peer[t] = "ok" /\ toPeer[t] # <<>>
        /\ \E p \in {"ok", "reply"} : peer' = [peer EXCEPT ![t] = p]
        /\ toPeer' = [toPeer EXCEPT ![t] = Tail(toPeer[t])]
    BY <1>4 DEF ClientRead
  <2>2. Len(toPeer'[t]) < Buf
    <3>1. Len(Tail(toPeer[t])) = Len(toPeer[t]) - 1 /\ Len(toPeer[t]) \in Nat
      BY <2>1
    <3> QED BY <2>1, <3>1, GatewayAssumption
  <2>3. NothingLeft(t)' /\ RoomOnceClosed(t)'
    BY <2>1, <2>2 DEF NothingLeft, RoomOnceClosed
  <2>4. ReadsUntilEcho(t)'
    BY <1>1, <1>2, <2>1 DEF ReadsUntilEcho
  <2> QED BY <1>1, <2>1, <2>3, <2>4, UnreadFrame
<1>5. CASE ClientSend(t)
  <2>1. /\ toPeer' = toPeer /\ peer[t] \in {"ok", "reply"}
        /\ peer' = [peer EXCEPT ![t] = "ok"]
        /\ fromPeer' = [fromPeer EXCEPT ![t] = fromPeer[t] + 1]
    BY <1>5 DEF ClientSend
  <2>2. NothingLeft(t)' /\ RoomOnceClosed(t)' /\ ReadsUntilEcho(t)'
    BY <1>1, <1>2, <2>1 DEF NothingLeft, RoomOnceClosed, ReadsUntilEcho
  <2> QED BY <1>1, <2>1, <2>2, UnreadFrame
<1>6. CASE ClientExit(t)
  <2>1. /\ fromPeer' = fromPeer /\ peer' = [peer EXCEPT ![t] = "closed"]
        /\ toPeer' = [toPeer EXCEPT ![t] = <<>>]
    BY <1>6 DEF ClientExit
  <2>2. NothingLeft(t)' /\ RoomOnceClosed(t)' /\ ReadsUntilEcho(t)'
    BY <2>1 DEF NothingLeft, RoomOnceClosed, ReadsUntilEcho
  <2> QED BY <1>1, <2>1, <2>2, UnreadFrame
<1> QED
  BY <1>3, <1>4, <1>5, <1>6

\* A new connection has nothing in its buffers, and is not written to yet.
LEMMA UnreadConnect ==
  ASSUME Types, Unread, NEW t \in Threads, NEW m \in Ids, Connect(t, m)
  PROVE  Unread'
<1>1. /\ peer[t] = "closed" /\ peer' = [peer EXCEPT ![t] = "waiting"]
      /\ fromPeer' = [fromPeer EXCEPT ![t] = 1] /\ pc' = [pc EXCEPT ![t] = "reg"]
      /\ UNCHANGED <<toPeer, lpc, conn>>
  BY DEF Connect, Goto, listener
<1>2. toPeer[t] = <<>>
  BY <1>1 DEF Unread, NothingLeft
<1>3. peer'[t] = "waiting" /\ pc'[t] = "reg"
  BY <1>1 DEF Types, TypeOK
<1>4. NothingLeft(t)' /\ RoomOnceClosed(t)' /\ ReadsUntilEcho(t)'
  BY <1>1, <1>2, <1>3 DEF NothingLeft, RoomOnceClosed, ReadsUntilEcho
<1> QED
  BY <1>1, <1>4, UnreadFrame

\* What the server's thread of a connection does.
LEMMA UnreadThread ==
  ASSUME Types, Unread, NEW t \in Threads, ThreadStep(t) \/ UartFails(t)
  PROVE  Unread'
<1> pc \in [Threads -> {"none", "reg", "lock", "echo", "store",
                        "serve", "send", "close", "dereg"}]
    /\ toPeer \in [Threads -> Seq({Echo, Packet})] /\ fromPeer \in [Threads -> 0..Buf]
  BY DEF Types, TypeOK
<1>1. NothingLeft(t) /\ ReadsUntilEcho(t) /\ RoomOnceClosed(t)
  BY DEF Unread
<1>2. CASE RegEcho(t)
  <2>1. /\ pc[t] = "echo" /\ pc' = [pc EXCEPT ![t] = "store"]
        /\ UNCHANGED <<peer, fromPeer, lpc, conn>>
        /\ \/ toPeer' = toPeer
           \/ /\ peer[t] # "closed"
              /\ toPeer' = [toPeer EXCEPT ![t] = Append(toPeer[t], Echo)]
    BY <1>2 DEF RegEcho, Goto, Delivered, Lost, Connected, listener, sockets
  <2>2. NothingLeft(t)' /\ RoomOnceClosed(t)' /\ ReadsUntilEcho(t)'
    BY <1>1, <2>1 DEF NothingLeft, RoomOnceClosed, ReadsUntilEcho
  <2> QED BY <2>1, <2>2, UnreadFrame
<1>3. CASE Close(t)
  <2>1. /\ pc' = [pc EXCEPT ![t] = "dereg"] /\ fromPeer' = [fromPeer EXCEPT ![t] = 0]
        /\ UNCHANGED <<peer, toPeer, lpc, conn>>
    BY <1>3 DEF Close, Goto, listener
  <2>2. NothingLeft(t)' /\ RoomOnceClosed(t)' /\ ReadsUntilEcho(t)'
    BY <1>1, <2>1 DEF NothingLeft, RoomOnceClosed, ReadsUntilEcho
  <2> QED BY <2>1, <2>2, UnreadFrame
<1>4. CASE Recv(t)
  <2>1. /\ pc[t] \in {"reg", "serve"}
        /\ pc' = [pc EXCEPT ![t] = IF pc[t] = "reg" THEN "lock" ELSE "send"]
        /\ fromPeer' = [fromPeer EXCEPT ![t] = fromPeer[t] - 1]
        /\ UNCHANGED <<peer, toPeer, lpc, conn>>
    BY <1>4 DEF Recv, Goto, listener
  <2>2. NothingLeft(t)' /\ RoomOnceClosed(t)' /\ ReadsUntilEcho(t)'
    BY <1>1, <2>1 DEF NothingLeft, RoomOnceClosed, ReadsUntilEcho
  <2> QED BY <2>1, <2>2, UnreadFrame
<1>5. CASE RegLock(t) \/ Dereg(t)
  <2>1. /\ \/ pc[t] = "lock" /\ pc' = [pc EXCEPT ![t] = "echo"]
           \/ pc[t] = "dereg" /\ pc' = [pc EXCEPT ![t] = "none"]
        /\ UNCHANGED <<peer, toPeer, fromPeer, lpc, conn>>
    BY <1>5 DEF RegLock, Dereg, Goto, listener, sockets
  <2>2. NothingLeft(t)' /\ RoomOnceClosed(t)' /\ ReadsUntilEcho(t)'
    BY <1>1, <2>1 DEF NothingLeft, RoomOnceClosed, ReadsUntilEcho
  <2> QED BY <2>1, <2>2, UnreadFrame
<1>6. CASE RegRefused(t) \/ RegEchoFails(t) \/ RegStore(t) \/ RecvEnd(t) \/ SendUart(t)
           \/ UartFails(t)
  <2>1. /\ \E p \in {"close", "serve"} : pc' = [pc EXCEPT ![t] = p]
        /\ UNCHANGED <<peer, toPeer, fromPeer, lpc, conn>>
    BY <1>6 DEF RegRefused, RegEchoFails, RegStore, RecvEnd, SendUart, UartFails, Goto,
       listener, sockets
  <2>2. NothingLeft(t)' /\ RoomOnceClosed(t)' /\ ReadsUntilEcho(t)'
    BY <1>1, <2>1 DEF NothingLeft, RoomOnceClosed, ReadsUntilEcho
  <2> QED BY <2>1, <2>2, UnreadFrame
<1> QED
  BY <1>2, <1>3, <1>4, <1>5, <1>6 DEF ThreadStep, Registration, Sending

\* A write begins on an open socket only, and its end leaves no write.
LEMMA UnreadListener ==
  ASSUME Types, Unread, ListenerStep \/ \E a \in Ids \cup {Bcast} : Recv_uart(a)
  PROVE  Unread'
<1> toPeer \in [Threads -> Seq({Echo, Packet})]
  BY DEF Types, TypeOK
<1> SUFFICES ASSUME NEW t \in Threads
             PROVE  NothingLeft(t)' /\ ReadsUntilEcho(t)' /\ RoomOnceClosed(t)'
  BY DEF Unread
<1>1. NothingLeft(t) /\ ReadsUntilEcho(t) /\ RoomOnceClosed(t)
  BY DEF Unread
<1>2. CASE WriteEnd
  <2>1. /\ UNCHANGED <<peer, fromPeer, pc>> /\ lpc' # "write"
        /\ \/ toPeer' = toPeer
           \/ /\ peer[conn] # "closed"
              /\ toPeer' = [toPeer EXCEPT ![conn] = Append(toPeer[conn], Packet)]
    BY <1>2 DEF WriteEnd, Delivered, Lost, Connected, threads, sockets, Next_lpc
  <2>2. NothingLeft(t)' /\ RoomOnceClosed(t)'
    BY <1>1, <2>1 DEF NothingLeft, RoomOnceClosed
  <2>3. ReadsUntilEcho(t)'
    <3> SUFFICES ASSUME pc[t] \in {"reg", "lock", "echo"}
                 PROVE  toPeer'[t] \in Seq({Packet})
      BY <1>1, <2>1 DEF ReadsUntilEcho
    <3>1. toPeer[t] \in Seq({Packet})
      BY <1>1 DEF ReadsUntilEcho
    <3>2. Append(toPeer[t], Packet) \in Seq({Packet})
      BY <3>1
    <3> QED BY <2>1, <3>1, <3>2
  <2> QED BY <2>2, <2>3
<1>3. CASE WriteCall
  <2>1. /\ UNCHANGED <<peer, fromPeer, pc, toPeer>>
        /\ lpc' = "write" /\ conn' = t => pc[t] \notin {"none", "dereg"}
    BY <1>3 DEF WriteCall, Owner, Open, threads, sockets, Next_lpc
  <2> QED BY <1>1, <2>1 DEF NothingLeft, ReadsUntilEcho, RoomOnceClosed
<1>4. CASE BcastLock \/ BcastRow \/ BcastEnd \/ \E a \in Ids \cup {Bcast} : Recv_uart(a)
  <2>1. UNCHANGED <<peer, fromPeer, pc, toPeer>> /\ lpc' # "write"
    BY <1>4 DEF BcastLock, BcastRow, BcastEnd, Recv_uart, threads, sockets
  <2> QED BY <1>1, <2>1 DEF NothingLeft, ReadsUntilEcho, RoomOnceClosed
<1> QED
  BY <1>2, <1>3, <1>4 DEF ListenerStep

LEMMA UnreadNext == Types /\ Unread /\ [Next]_vars => Unread'
<1> SUFFICES ASSUME Types, Unread, [Next]_vars PROVE Unread'
  OBVIOUS
<1>1. CASE UNCHANGED vars
  BY <1>1 DEF vars, threads, sockets, listener, Unread, NothingLeft, ReadsUntilEcho,
     RoomOnceClosed
<1>2. CASE Next
  BY <1>2, UnreadClient, UnreadConnect, UnreadThread, UnreadListener DEF Next, ClientStep
<1> QED
  BY <1>1, <1>2

(* Whatever the connections, ids and buffers, addr_lock is held exactly     *)
(* inside the code it guards, and whoever waits in a write waits for a      *)
(* client that reads, or whose packets a thread takes without addr_lock.    *)
THEOREM HolderNeverStuckHolds == Spec => []HolderNeverStuck
<1>1. Init => LockHeld /\ Unread
  <2> SUFFICES ASSUME Init PROVE LockHeld /\ Unread
    OBVIOUS
  <2>1. LockHeld
    BY GatewayAssumption DEF Init, LockHeld, NoOne, Listener
  <2>2. Unread
    BY DEF Init, Unread, NothingLeft, ReadsUntilEcho, RoomOnceClosed
  <2> QED BY <2>1, <2>2
<1>2. Types /\ LockHeld /\ Unread => HolderNeverStuck
  <2> SUFFICES ASSUME Types, LockHeld, Unread, NEW t \in Threads,
                      WrittenTo(t), Len(toPeer[t]) = Buf, OnlySends(t)
               PROVE  pc[t] \in {"store", "serve", "send", "close"}
    BY DEF LockHeld, HolderNeverStuck
  <2>1. ReadsUntilEcho(t) /\ RoomOnceClosed(t)
    BY DEF Unread
  <2>2. pc[t] \notin {"reg", "lock", "echo"}
    BY <2>1 DEF ReadsUntilEcho, OnlySends
  <2>3. pc[t] \notin {"dereg", "none"}
    BY <2>1, <2>2, GatewayAssumption DEF RoomOnceClosed, OnlySends, WrittenTo
  <2> QED BY <2>2, <2>3 DEF Types, TypeOK
<1> QED
  BY <1>1, <1>2, TypesInit, TypesNext, LockHeldNext, UnreadNext, PTL DEF Spec
=============================================================================
