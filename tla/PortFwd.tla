------------------------------ MODULE PortFwd ------------------------------
(***************************************************************************)
(* The port forwarder of slip_sim (port_fwd.c): one select loop accepts    *)
(* motes, opens a connection to tty_server for each, and copies bytes both *)
(* ways.                                                                   *)
(*                                                                         *)
(* Descriptors are numbers, given out lowest first, 0 being accept_sock.   *)
(* What an end has sent and nobody read is a Boolean, a read takes all of  *)
(* it; writes are not refused while the other end is open.                 *)
(***************************************************************************)
EXTENDS Integers, FiniteSets, FiniteSetsExt

CONSTANTS
  Conns,         \* motes, one connection at a time each
  MAX_CONN,      \* rows of sock_pair
  MAX_CONNECTS   \* bound: connections made in all

ASSUME PortFwdAssumption == MAX_CONN \in Nat \ {0} /\ MAX_CONNECTS \in Nat

VARIABLES
  phase,      \* mote -> "off", "queued" for accept, or "open"
  waiting,    \* mote -> end -> bytes wait to be read
  shut,       \* mote -> end -> this end has closed or died
  owner,      \* open descriptor -> <<mote, end>>
  row,        \* sock_pair: row -> end -> descriptor, or NoFd
  len,        \* sock_pair.len
  sock_read,  \* the set select is given and gives back
  sock_max,
  nevents,
  pc,         \* "select", "accept", "events", "readd"
  fresh,      \* history: motes accepted since the last select
  connects    \* connections made so far

outside == <<phase, waiting, shut>>
table == <<owner, row, len>>
loop == <<sock_read, sock_max, nevents, pc, fresh>>
vars == <<outside, table, loop, connects>>

Ends == {"uart", "client"}
Other(e) == IF e = "uart" THEN "client" ELSE "uart"
accept_sock == 0
NoFd == -1
Fds == 1..2 * (MAX_CONN + 1)
EmptyRow == [e \in Ends |-> NoFd]
Rows == 0..MAX_CONN - 1
Used == {i \in Rows : row[i] # EmptyRow}
FdsOf(i) == {row[i][e] : e \in Ends}
MoteOf(i) == owner[row[i]["uart"]][1]

Init ==
  /\ phase = [c \in Conns |-> "off"]
  /\ waiting = [c \in Conns |-> [e \in Ends |-> FALSE]]
  /\ shut = [c \in Conns |-> [e \in Ends |-> FALSE]]
  /\ owner = [f \in {} |-> <<>>]
  /\ row = [i \in Rows |-> EmptyRow] /\ len = 0
  /\ sock_read = {accept_sock} /\ sock_max = accept_sock
  /\ nevents = 0 /\ pc = "select" /\ fresh = {} /\ connects = 0

-----------------------------------------------------------------------------
(* The two ends of a connection. *)

Connect(c) ==
  /\ phase[c] = "off" /\ connects < MAX_CONNECTS
  /\ phase' = [phase EXCEPT ![c] = "queued"]
  /\ connects' = connects + 1
  /\ UNCHANGED <<waiting, shut, table, loop>>

Present(c, e) ==
  /\ \/ phase[c] = "open"
     \/ phase[c] = "queued" /\ e = "uart"
  /\ ~shut[c][e]

Send(c, e) ==
  /\ Present(c, e) /\ ~waiting[c][e]
  /\ waiting' = [waiting EXCEPT ![c][e] = TRUE]
  /\ UNCHANGED <<phase, shut, table, loop, connects>>

Shut(c, e) ==
  /\ Present(c, e)
  /\ shut' = [shut EXCEPT ![c][e] = TRUE]
  /\ UNCHANGED <<phase, waiting, table, loop, connects>>

-----------------------------------------------------------------------------
(* The kernel's view of descriptors. *)

Opened == DOMAIN owner
Lowest(S) == CHOOSE f \in S : \A g \in S : f <= g

(* A read would not block: there is data, or the end of it. *)
Readable(f) ==
  IF f = accept_sock THEN \E c \in Conns : phase[c] = "queued"
  ELSE LET o == owner[f] IN waiting[o[1]][o[2]] \/ shut[o[1]][o[2]]

(* The mote's connection is over at both ends. *)
Over(c) ==
  /\ phase' = [phase EXCEPT ![c] = "off"]
  /\ waiting' = [waiting EXCEPT ![c] = [e \in Ends |-> FALSE]]
  /\ shut' = [shut EXCEPT ![c] = [e \in Ends |-> FALSE]]

-----------------------------------------------------------------------------
Goto(p) == pc' = p

(* select() returns when one of the descriptors up to sock_max is readable. *)
Select ==
  /\ pc = "select"
  /\ LET ready == {f \in sock_read : f <= sock_max /\ Readable(f)}
     IN  /\ ready # {}
         /\ sock_read' = ready /\ nevents' = Cardinality(ready)
         /\ Goto(IF accept_sock \in ready THEN "accept" ELSE "events")
  /\ fresh' = {}
  /\ UNCHANGED <<outside, table, sock_max, connects>>

(* Variant: the accepted socket stays open. *)
RejectLeaks(c, uart) ==
  /\ Over(c)
  /\ owner' = [f \in Opened \cup {uart} |-> IF f = uart THEN <<c, "uart">> ELSE owner[f]]
  /\ UNCHANGED <<row, len>>

(* ACCEPT_FAILS: close_socks on whatever was opened *)
Reject(c, uart) == Over(c) /\ UNCHANGED table

(* accept_connect: connect to tty_server may fail, the table may be full;   *)
(* then both sockets are closed.  The new descriptors enter the set that    *)
(* select has just filled, without being ready.                             *)
Accept_connect ==
  \E c \in Conns :
    LET new_uart == Lowest(Fds \ Opened)
        client_sock == Lowest(Fds \ (Opened \cup {new_uart}))
        highest == Max({sock_max, new_uart, client_sock})
    IN
    /\ pc = "accept" /\ phase[c] = "queued"
    /\ \/ /\ Used # Rows                          \* add_sockpair
          /\ phase' = [phase EXCEPT ![c] = "open"]
          /\ owner' = [f \in Opened \cup {new_uart, client_sock} |->
                         IF f = new_uart THEN <<c, "uart">>
                         ELSE IF f = client_sock THEN <<c, "client">> ELSE owner[f]]
          /\ row' = [row EXCEPT ![Lowest(Rows \ Used)] =
                       [e \in Ends |-> IF e = "uart" THEN new_uart ELSE client_sock]]
          /\ len' = len + 1
          /\ sock_read' = sock_read \cup {new_uart, client_sock}
          /\ fresh' = fresh \cup {c}
          /\ sock_max' = highest
          /\ UNCHANGED <<waiting, shut>>
       \/ /\ Reject(c, new_uart) /\ sock_max' \in {sock_max, highest}
          /\ UNCHANGED <<sock_read, fresh>>
    /\ nevents' = nevents - 1 /\ Goto("events")
    /\ UNCHANGED connects

(* Variant: the count of pairs stays. *)
Del_sockindexKeepsLen(i) ==
  /\ Over(MoteOf(i))
  /\ owner' = [f \in Opened \ FdsOf(i) |-> owner[f]]
  /\ row' = [row EXCEPT ![i] = EmptyRow]
  /\ len' = len

(* Variant: the row stays. *)
Del_sockindexKeepsRow(i) ==
  /\ Over(MoteOf(i))
  /\ owner' = [f \in Opened \ FdsOf(i) |-> owner[f]]
  /\ row' = row
  /\ len' = len - 1

(* del_sockindex, close_socks *)
Del_sockindex(i) ==
  /\ Over(MoteOf(i))
  /\ owner' = [f \in Opened \ FdsOf(i) |-> owner[f]]
  /\ row' = [row EXCEPT ![i] = EmptyRow]
  /\ len' = len - 1

(* read_write from end e of row i: whatever waits goes to the other end.    *)
(* It fails when nothing can be read, at the end of the data, and, perhaps, *)
(* when the other end has closed.                                           *)
Read_write(i, e) ==
  LET c == MoteOf(i)
      from == owner[row[i][e]]
      to == owner[row[i][Other(e)]]
      data == waiting[from[1]][from[2]]
  IN  \/ /\ data
         /\ waiting' = [waiting EXCEPT ![from[1]][from[2]] = FALSE]
         /\ UNCHANGED <<phase, shut, table>> /\ Goto("events")
      \/ /\ data => shut[to[1]][to[2]]
         /\ Del_sockindex(i) /\ Goto("readd")

(* get_next_fd: the first row with a descriptor in the set, its uart before  *)
(* its client.                                                               *)
Marked == {i \in Used : FdsOf(i) \cap sock_read # {}}
End(i) == IF row[i]["uart"] \in sock_read THEN "uart" ELSE "client"

(* Variant: the descriptor stays in the set. *)
EventKeepsFd ==
  /\ pc = "events" /\ nevents > 0
  /\ IF Marked = {} THEN Goto("readd") /\ UNCHANGED <<outside, table, sock_read>>
     ELSE LET i == Lowest(Marked)
          IN  Read_write(i, End(i)) /\ UNCHANGED sock_read
  /\ nevents' = nevents - 1
  /\ UNCHANGED <<sock_max, fresh, connects>>

(* One turn of the loop over the events. *)
Event ==
  /\ pc = "events" /\ nevents > 0
  /\ IF Marked = {} THEN Goto("readd") /\ UNCHANGED <<outside, table, sock_read>>
     ELSE LET i == Lowest(Marked)
          IN  Read_write(i, End(i)) /\ sock_read' = sock_read \ {row[i][End(i)]}
  /\ nevents' = nevents - 1
  /\ UNCHANGED <<sock_max, fresh, connects>>

(* Variant: the higher descriptor of a pair does not count. *)
ReaddLower ==
  /\ pc \in {"readd", "events"} /\ (pc = "events" => nevents = 0)
  /\ sock_read' = {accept_sock} \cup UNION {FdsOf(i) : i \in Used}
  /\ sock_max' = Max({accept_sock} \cup {Lowest(FdsOf(i)) : i \in Used})
  /\ Goto("select")
  /\ UNCHANGED <<outside, table, nevents, fresh, connects>>

(* FD_READD *)
Readd ==
  /\ pc \in {"readd", "events"} /\ (pc = "events" => nevents = 0)
  /\ sock_read' = {accept_sock} \cup UNION {FdsOf(i) : i \in Used}
  /\ sock_max' = Max({accept_sock} \cup UNION {FdsOf(i) : i \in Used})
  /\ Goto("select")
  /\ UNCHANGED <<outside, table, nevents, fresh, connects>>

-----------------------------------------------------------------------------
MainLoop == Select \/ Accept_connect \/ Event \/ Readd

Next == \/ MainLoop
        \/ \E c \in Conns : \/ Connect(c)
                          \/ \E e \in Ends : Send(c, e) \/ Shut(c, e)

Spec == Init /\ [][Next]_vars

(* The loop runs; whoever else does is free to stop. *)
FairSpec == Spec /\ WF_vars(MainLoop)

-----------------------------------------------------------------------------
(* Every variable has its type; sock_pair.len counts the rows in use. *)
TypeOK ==
  /\ phase \in [Conns -> {"off", "queued", "open"}]
  /\ waiting \in [Conns -> [Ends -> BOOLEAN]]
  /\ shut \in [Conns -> [Ends -> BOOLEAN]]
  /\ Opened \subseteq Fds /\ \A f \in Opened : owner[f] \in Conns \X Ends
  /\ row \in [Rows -> [Ends -> Fds \cup {NoFd}]]
  /\ len = Cardinality(Used)
  /\ sock_read \subseteq {accept_sock} \cup Fds /\ sock_max \in {accept_sock} \cup Fds
  /\ nevents \in 0..2 * MAX_CONN + 1
  /\ pc \in {"select", "accept", "events", "readd"}
  /\ fresh \subseteq Conns /\ connects \in 0..MAX_CONNECTS

(* However descriptors are reused, the two of a row are open and are the two *)
(* ends of one mote's connection: nothing a mote sends reaches another's tty. *)
RowsPaired ==
  \A i \in Used :
    /\ FdsOf(i) \subseteq Opened
    /\ \A e \in Ends : owner[row[i][e]] = <<MoteOf(i), e>>
    /\ phase[MoteOf(i)] = "open"
    /\ \A j \in Used : FdsOf(i) \cap FdsOf(j) # {} => i = j

(* Before each select every open descriptor is in a row and is watched, and  *)
(* nothing else is: whatever way the round before it ended, none is leaked.  *)
WatchesAll ==
  pc = "select" =>
    /\ UNION {FdsOf(i) : i \in Used} = Opened
    /\ sock_read = {accept_sock} \cup Opened
    /\ \A f \in Opened : f <= sock_max

(* The forwarder closes a connection only when one of its ends has closed,   *)
(* or when it was accepted since the last select (then a read that finds     *)
(* nothing ends it; README: streams "are forwarded in both directions").     *)
ClosedForACause ==
  [][\A c \in Conns :
       phase[c] = "open" /\ phase'[c] # "open"
         => shut[c]["uart"] \/ shut[c]["client"] \/ c \in fresh]_vars

(* What an end of an open connection sends is read before long, or the       *)
(* connection is closed, however busy the others are; provided that motes    *)
(* stop connecting: a mote that is accepted in a lower row in every round    *)
(* ends each round early.                                                    *)
Delivered ==
  \A c \in Conns, e \in Ends :
    phase[c] = "open" /\ waiting[c][e] ~> phase[c] # "open" \/ ~waiting[c][e]
=============================================================================
