---------------------------- MODULE MoteGateway ----------------------------
(***************************************************************************)
(* The mote gateway (aps_proj/demo/server.c, uart.c and libmote-gw.c, the  *)
(* later copy of mote_gw_proj): a server that shares one serial line       *)
(* between clients that register a mote id each.                           *)
(*                                                                         *)
(* One server thread per connection registers its client under addr_lock,  *)
(* then copies the client's packets to the serial line; uart_listener      *)
(* copies what the motes send to one client or to all.  A connection is    *)
(* named by its thread; a socket number is reused once it is closed.       *)
(***************************************************************************)
EXTENDS Naturals, Sequences, FiniteSets

CONSTANTS
  Threads,      \* do_chld threads, one per connection
  TABLE_SIZE,   \* mote ids 0..TABLE_SIZE - 1
  Buf           \* packets a socket's buffers hold in each direction

NoOne == "no one"
Listener == "uart_listener"

ASSUME GatewayAssumption ==
  /\ TABLE_SIZE \in Nat \ {0} /\ Buf \in Nat \ {0}
  /\ IsFiniteSet(Threads) /\ NoOne \notin Threads /\ Listener \notin Threads

Ids == 0..TABLE_SIZE - 1
Fds == 1..Cardinality(Threads)
BAD_SOCKET == 0
Bcast == TABLE_SIZE              \* TOS_BCAST_ADDR
Echo == "echo"                   \* the registration sent back
Packet == "packet"               \* what the motes send

VARIABLES
  addr_table,   \* mote id -> socket
  addr_lock,    \* holder of addr_lock
  pc, fd, id,   \* per connection: the thread's position, socket, mote id
  peer,         \* per connection: the client's end
  toPeer,       \* per connection: packets the client has not read
  fromPeer,     \* per connection: how many packets the server has not read
  lpc,          \* uart_listener: its position ...
  i,            \* ... the row of the broadcast
  cl_sock,      \* ... the socket of the next write
  conn,         \* ... the connection it writes to
  up            \* the server process lives

table == <<addr_table, addr_lock>>
threads == <<pc, fd, id>>
sockets == <<peer, toPeer, fromPeer>>
listener == <<lpc, i, cl_sock, conn>>
vars == <<table, threads, sockets, listener, up>>

Init ==
  /\ addr_table = [m \in Ids |-> BAD_SOCKET]
  /\ addr_lock = NoOne
  /\ pc = [t \in Threads |-> "none"]
  /\ fd = [t \in Threads |-> BAD_SOCKET]
  /\ id = [t \in Threads |-> 0]
  /\ peer = [t \in Threads |-> "closed"]
  /\ toPeer = [t \in Threads |-> <<>>]
  /\ fromPeer = [t \in Threads |-> 0]
  /\ lpc = "read" /\ i = 0 /\ cl_sock = BAD_SOCKET
  /\ conn = NoOne
  /\ up = TRUE

Goto(t, p) == pc' = [pc EXCEPT ![t] = p]

(* The thread's socket is open; the numbers in use. *)
Open(t) == pc[t] \notin {"none", "dereg"}
InUse == {fd[t] : t \in {u \in Threads : Open(u)}}
IsLowestFree(s) == s \notin InUse /\ \A r \in Fds : r < s => r \in InUse
Owner(s) == {t \in Threads : Open(t) /\ fd[t] = s}

-----------------------------------------------------------------------------
(* The client (libmote-gw.c). *)

Connected == {"waiting", "ok", "reply"}

(* Variant: mote ids counted from 1. *)
ConnectOneBased(t, m) ==
  /\ pc[t] = "none" /\ peer[t] = "closed" /\ conn # t
  /\ peer' = [peer EXCEPT ![t] = "waiting"]
  /\ id' = [id EXCEPT ![t] = m + 1]
  /\ fromPeer' = [fromPeer EXCEPT ![t] = 1]
  /\ \E s \in Fds : IsLowestFree(s) /\ fd' = [fd EXCEPT ![t] = s]
  /\ Goto(t, "reg")
  /\ UNCHANGED <<table, toPeer, listener, up>>

(* client_init connects and sends the registration; bind_accept_fork gives *)
(* the socket the lowest free number and starts the thread.  A name is used *)
(* again when both ends of its connection are gone.                         *)
Connect(t, m) ==
  /\ pc[t] = "none" /\ peer[t] = "closed" /\ conn # t
  /\ peer' = [peer EXCEPT ![t] = "waiting"]
  /\ id' = [id EXCEPT ![t] = m]
  /\ fromPeer' = [fromPeer EXCEPT ![t] = 1]
  /\ \E s \in Fds : IsLowestFree(s) /\ fd' = [fd EXCEPT ![t] = s]
  /\ Goto(t, "reg")
  /\ UNCHANGED <<table, toPeer, listener, up>>

(* client_init goes on only if the first packet is its registration; if    *)
(* not it exits, and what it has not read is gone.                         *)
ClientEcho(t) ==
  /\ peer[t] = "waiting" /\ toPeer[t] # <<>>
  /\ \/ /\ Head(toPeer[t]) = Echo
        /\ peer' = [peer EXCEPT ![t] = "ok"]
        /\ toPeer' = [toPeer EXCEPT ![t] = Tail(@)]
     \/ /\ Head(toPeer[t]) # Echo
        /\ peer' = [peer EXCEPT ![t] = "closed"]
        /\ toPeer' = [toPeer EXCEPT ![t] = <<>>]
  /\ UNCHANGED <<table, threads, fromPeer, listener, up>>

(* type_listener: a handler may answer the packet. *)
ClientRead(t) ==
  /\ peer[t] = "ok" /\ toPeer[t] # <<>>
  /\ toPeer' = [toPeer EXCEPT ![t] = Tail(@)]
  /\ \E p \in {"ok", "reply"} : peer' = [peer EXCEPT ![t] = p]
  /\ UNCHANGED <<table, threads, fromPeer, listener, up>>

(* send_tos_msg of type_listener or of the application; it waits for room. *)
ClientSend(t) ==
  /\ peer[t] \in {"ok", "reply"} /\ fromPeer[t] < Buf
  /\ fromPeer' = [fromPeer EXCEPT ![t] = @ + 1]
  /\ peer' = [peer EXCEPT ![t] = "ok"]
  /\ UNCHANGED <<table, threads, toPeer, listener, up>>

(* The client exits: on its own, or because the server has closed. *)
ClientExit(t) ==
  /\ peer[t] \in Connected
  /\ peer' = [peer EXCEPT ![t] = "closed"]
  /\ toPeer' = [toPeer EXCEPT ![t] = <<>>]
  /\ UNCHANGED <<table, threads, fromPeer, listener, up>>

-----------------------------------------------------------------------------
(* The server's thread of a connection. *)

(* recv_tos_msg, of the registration or of a packet to send. *)
Recv(t) ==
  /\ pc[t] \in {"reg", "serve"} /\ fromPeer[t] > 0
  /\ fromPeer' = [fromPeer EXCEPT ![t] = @ - 1]
  /\ Goto(t, IF pc[t] = "reg" THEN "lock" ELSE "send")
  /\ UNCHANGED <<table, fd, id, peer, toPeer, listener, up>>

RecvEnd(t) ==
  /\ pc[t] \in {"reg", "serve"} /\ fromPeer[t] = 0 /\ peer[t] = "closed"
  /\ Goto(t, "close")
  /\ UNCHANGED <<table, fd, id, sockets, listener, up>>

(* am_client_reg: an id that is taken is refused ... *)
RegRefused(t) ==
  /\ pc[t] = "lock" /\ addr_lock = NoOne
  /\ addr_table[id[t]] # BAD_SOCKET
  /\ Goto(t, "close")
  /\ UNCHANGED <<table, fd, id, sockets, listener, up>>

RegLock(t) ==
  /\ pc[t] = "lock" /\ addr_lock = NoOne
  /\ addr_table[id[t]] = BAD_SOCKET
  /\ addr_lock' = t
  /\ Goto(t, "echo")
  /\ UNCHANGED <<addr_table, fd, id, sockets, listener, up>>

(* A write to a connection.  It waits while the buffer is full.  When the  *)
(* client is gone it fails, or SIGPIPE, which the server does not handle,  *)
(* ends the process.                                                       *)
Delivered(t, p) ==
  /\ peer[t] \in Connected /\ Len(toPeer[t]) < Buf
  /\ toPeer' = [toPeer EXCEPT ![t] = Append(@, p)]
  /\ UNCHANGED <<peer, fromPeer, up>>
Lost(t) ==
  /\ peer[t] = "closed"
  /\ up' \in BOOLEAN
  /\ UNCHANGED sockets

(* ... any other gets the registration back, with addr_lock held, ... *)
RegEcho(t) ==
  /\ pc[t] = "echo"
  /\ Delivered(t, Echo) \/ Lost(t)
  /\ Goto(t, "store")
  /\ UNCHANGED <<table, fd, id, listener>>

(* Variant: a client that leaves before its echo leaves addr_lock held. *)
RegEchoFailsKeeping(t) ==
  /\ pc[t] = "echo" /\ peer[t] = "closed"
  /\ Goto(t, "close")
  /\ UNCHANGED <<table, fd, id, sockets, listener, up>>

RegEchoFails(t) ==
  /\ pc[t] = "echo" /\ peer[t] = "closed"
  /\ addr_lock' = NoOne
  /\ Goto(t, "close")
  /\ UNCHANGED <<addr_table, fd, id, sockets, listener, up>>

(* ... and its row in the table. *)
RegStore(t) ==
  /\ pc[t] = "store"
  /\ addr_table' = [addr_table EXCEPT ![id[t]] = fd[t]]
  /\ addr_lock' = NoOne
  /\ Goto(t, "serve")
  /\ UNCHANGED <<fd, id, sockets, listener, up>>

(* send_uart, whose turns flow_lock orders; the serial line may fail. *)
SendUart(t) ==
  /\ pc[t] = "send"
  /\ Goto(t, "serve")
  /\ UNCHANGED <<table, fd, id, sockets, listener, up>>

UartFails(t) ==
  /\ pc[t] = "send"
  /\ Goto(t, "close")
  /\ UNCHANGED <<table, fd, id, sockets, listener, up>>

(* Variant: the socket is closed when the table has been cleared.          *)
CloseLater(t) ==
  /\ pc[t] = "close"
  /\ id' = [id EXCEPT ![t] = 0]
  /\ Goto(t, "dereg")
  /\ UNCHANGED <<table, fd, sockets, listener, up>>

(* am_client_dereg closes the socket first ... *)
Close(t) ==
  /\ pc[t] = "close"
  /\ fromPeer' = [fromPeer EXCEPT ![t] = 0]
  /\ id' = [id EXCEPT ![t] = 0]
  /\ Goto(t, "dereg")
  /\ UNCHANGED <<table, fd, peer, toPeer, listener, up>>

(* Variant: get_mote_id starts at row 1. *)
IsMoteIdFromOne(m, s) ==
  m > 0 /\ addr_table[m] = s /\ \A n \in 1..m - 1 : addr_table[n] # s

(* ... and then clears the first row with its number (get_mote_id). *)
IsMoteId(m, s) ==
  addr_table[m] = s /\ \A n \in Ids : n < m => addr_table[n] # s

Dereg(t) ==
  /\ pc[t] = "dereg" /\ addr_lock = NoOne
  /\ addr_table' =
       [m \in Ids |-> IF IsMoteId(m, fd[t]) THEN BAD_SOCKET ELSE addr_table[m]]
  /\ Goto(t, "none")
  /\ fd' = [fd EXCEPT ![t] = BAD_SOCKET]
  /\ UNCHANGED <<addr_lock, id, sockets, listener, up>>

-----------------------------------------------------------------------------
(* uart_listener *)

(* A packet for one mote: addr_table is read without addr_lock. *)
Recv_uart(a) ==
  /\ lpc = "read"
  /\ IF a = Bcast
     THEN lpc' = "lock" /\ UNCHANGED cl_sock
     ELSE /\ cl_sock' = addr_table[a]
          /\ lpc' = IF cl_sock' = BAD_SOCKET THEN "read" ELSE "call"
  /\ UNCHANGED <<table, threads, sockets, i, conn, up>>

BcastLock ==
  /\ lpc = "lock" /\ addr_lock = NoOne
  /\ addr_lock' = Listener
  /\ i' = 0
  /\ lpc' = "row"
  /\ UNCHANGED <<addr_table, threads, sockets, cl_sock, conn,
                 up>>

BcastRow ==
  /\ lpc = "row" /\ i < TABLE_SIZE
  /\ cl_sock' = addr_table[i]
  /\ i' = i + 1
  /\ lpc' = IF cl_sock' = BAD_SOCKET THEN "row" ELSE "call"
  /\ UNCHANGED <<table, threads, sockets, conn, up>>

BcastEnd ==
  /\ lpc = "row" /\ i = TABLE_SIZE
  /\ addr_lock' = NoOne
  /\ i' = 0
  /\ lpc' = "read"
  /\ UNCHANGED <<addr_table, threads, sockets, cl_sock, conn,
                 up>>

(* A broadcast, which holds addr_lock, goes on with the next row. *)
Next_lpc == IF addr_lock = Listener THEN "row" ELSE "read"

(* send_tos_msg: the number means whatever connection has it now; one that *)
(* is closed meanwhile stays open until the write is over.                 *)
WriteCall ==
  /\ lpc = "call"
  /\ IF Owner(cl_sock) = {}
     THEN conn' = NoOne /\ lpc' = Next_lpc
     ELSE conn' \in Owner(cl_sock) /\ lpc' = "write"
  /\ cl_sock' = BAD_SOCKET
  /\ UNCHANGED <<table, threads, sockets, i, up>>

WriteEnd ==
  /\ lpc = "write"
  /\ Delivered(conn, Packet) \/ Lost(conn)
  /\ conn' = NoOne
  /\ lpc' = Next_lpc
  /\ UNCHANGED <<table, threads, i, cl_sock>>

-----------------------------------------------------------------------------
Registration(t) == RegRefused(t) \/ RegLock(t) \/ RegEcho(t)
                     \/ RegEchoFails(t) \/ RegStore(t)
Sending(t) == Recv(t) \/ RecvEnd(t) \/ SendUart(t)
ThreadStep(t) == Registration(t) \/ Sending(t) \/ Close(t)
                   \/ Dereg(t)
ListenerStep == BcastLock \/ BcastRow \/ BcastEnd \/ WriteCall
                  \/ WriteEnd
ClientStep(t) == ClientEcho(t) \/ ClientRead(t)
                   \/ (peer[t] = "reply" /\ ClientSend(t))

Next ==
  /\ up
  /\ \/ ListenerStep
     \/ \E a \in Ids \cup {Bcast} : Recv_uart(a)
     \/ \E t \in Threads :
          \/ ThreadStep(t) \/ UartFails(t) \/ ClientStep(t) \/ ClientSend(t)
          \/ ClientExit(t) \/ \E m \in Ids : Connect(t, m)

Spec == Init /\ [][Next]_vars

(***************************************************************************)
(* Threads run, and a mutex that is released again and again is given to   *)
(* each thread that waits for it; clients read what they are sent, as      *)
(* type_listener does.                                                     *)
(***************************************************************************)
Fairness ==
  /\ SF_vars(up /\ ListenerStep)
  /\ \A t \in Threads :
       SF_vars(up /\ ThreadStep(t)) /\ WF_vars(up /\ ClientStep(t))

FairSpec == Spec /\ Fairness

-----------------------------------------------------------------------------
(* Every variable has its type. *)
TypeOK ==
  /\ addr_table \in [Ids -> Fds \cup {BAD_SOCKET}]
  /\ addr_lock \in Threads \cup {NoOne, Listener}
  /\ pc \in [Threads -> {"none", "reg", "lock", "echo", "store",
                         "serve", "send", "close", "dereg"}]
  /\ fd \in [Threads -> Fds \cup {BAD_SOCKET}]
  /\ id \in [Threads -> Ids]
  /\ peer \in [Threads -> Connected \cup {"closed"}]
  /\ \A t \in Threads : Len(toPeer[t]) <= Buf
  /\ fromPeer \in [Threads -> 0..Buf]
  /\ lpc \in {"read", "lock", "row", "call", "write"}
  /\ i \in 0..TABLE_SIZE
  /\ cl_sock \in Fds \cup {BAD_SOCKET}
  /\ conn \in Threads \cup {NoOne}
  /\ up \in BOOLEAN

(* The ids registered for a socket number are no more than the threads that  *)
(* serve or leave under that number, whatever connection has it now: a thread *)
(* that ends gives back an id of its number (am_client_dereg), so no id stays *)
(* taken when the clients are gone, however close, accept and the table race. *)
Rows(s) == {m \in Ids : addr_table[m] = s}
Backing(s) ==
  {t \in Threads : fd[t] = s
                     /\ pc[t] \in {"serve", "send", "close", "dereg"}}
EntriesBacked ==
  \A s \in Fds : Cardinality(Rows(s)) <= Cardinality(Backing(s))

(* Whoever holds addr_lock can come to give it back.  The holder is inside   *)
(* the code the mutex guards; and a write to a client that does not read     *)
(* because it waits to send waits for a thread that takes what is sent, or   *)
(* closes, without addr_lock.  So a broadcast, its client and that client's  *)
(* thread never wait in a circle: am_client_dereg closes the socket before   *)
(* it waits for addr_lock.                                                   *)
WrittenTo(t) == pc[t] = "echo" \/ (lpc = "write" /\ conn = t)
OnlySends(t) == peer[t] = "reply" /\ fromPeer[t] = Buf
HolderNeverStuck ==
  /\ \A t \in Threads : addr_lock = t <=> pc[t] \in {"echo", "store"}
  /\ addr_lock = Listener => lpc \in {"row", "call", "write"}
  /\ \A t \in Threads :
       WrittenTo(t) /\ Len(toPeer[t]) = Buf /\ OnlySends(t)
         => pc[t] \in {"store", "serve", "send", "close"}

(* uart_listener always comes back to the serial line.  A broadcast waits    *)
(* for addr_lock and writes with it held, as a registration does; no client, *)
(* slow, gone, refused or busy with a reply of its own, keeps the lock, and  *)
(* what the motes send, from the others for ever.                            *)
ListenerReturns == (up /\ lpc # "read") ~> (~up \/ lpc = "read")

(* No two clients are served under one mote id (README of mote_gw_proj: the   *)
(* id "must be unique").  am_client_dereg closes the socket before it clears *)
(* the row, so it may clear the row of the client that got the number next.  *)
IdsUnique ==
  \A t, u \in Threads :
    {pc[t], pc[u]} \subseteq {"serve", "send"} /\ id[t] = id[u]
      => t = u
=============================================================================
