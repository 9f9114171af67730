------------------------------ MODULE RfsJoin ------------------------------
(***************************************************************************)
(* How a server joins the others (server.c: main, add_server): its user    *)
(* names running servers; from the first it copies the server table and    *)
(* the file table, appends itself and its files, and then overwrites the   *)
(* tables of that one and of every further server the user named.  At the  *)
(* other end a thread per connection answers GET_ST, GET_FT, SET_ST and    *)
(* SET_FT.                                                                 *)
(*                                                                         *)
(* Of a row of server_list only its name is kept, of file_list the index   *)
(* array by file.  A table on its way is read whole or not at all.  The    *)
(* mutexes are free between two steps unless a thread keeps one for good.  *)
(***************************************************************************)
EXTENDS Integers, Sequences, SequencesExt, FiniteSets

CONSTANTS
  Hosts,
  Files,
  Disk,         \* host -> the files in its DFS directory
  MAX_SERVERS,  \* rows of server_list
  MAX_STARTS    \* bound: starts of all hosts together

(* add_server appends without looking at MAX_SERVERS: more starts than rows *)
(* and it writes past the array, which is not modelled.                     *)
ASSUME RfsJoinAssumption ==
  /\ IsFiniteSet(Hosts) /\ IsFiniteSet(Files)
  /\ Disk \in [Hosts -> SUBSET Files]
  /\ MAX_SERVERS \in Nat /\ MAX_STARTS \in 0..MAX_SERVERS

VARIABLES
  starts,   \* host -> how often its server was started
  pc,       \* host -> where its main thread is
  todo,     \* host -> names its user has not seen tried
  st,       \* host -> server_list[0..total_servers-1]
  ft,       \* host -> file -> file_list[].index[0..tot_idx-1], from 1
  hand,     \* host -> connection -> its thread, or what is on the way
  stuck,    \* host -> the mutexes that a dead thread keeps
  careful   \* history: every join began alone and named all servers

vars == <<starts, pc, todo, st, ft, hand, stuck, careful>>

(* A connection is known by the start of the server that opened it. *)
Lives == Hosts \X (1..MAX_STARTS)
Life(h) == <<h, starts[h]>>

NoFiles == [f \in Files |-> <<>>]
Joining == {"input", "wSt", "wFt", "wSetSt", "wSetFt"}
Pcs == Joining \cup {"off", "up", "misled", "hung"}
Phases == {"none", "GET_ST", "ST_LOCK", "ST_SENT", "GET_FT", "FT_LOCK", "FT_SENT",
           "SET_ST", "ST_ACKED", "ST_STORE", "SET_FT", "FT_ACKED", "FT_STORE"}

Phase(p) == [pc |-> p, n |-> 0, st |-> <<>>, ft |-> NoFiles]
NoThread == Phase("none")

Total_files(t) == Cardinality({f \in Files : t[f] # <<>>})
Ups == {h \in Hosts : pc[h] = "up"}
Quiet == /\ \A h \in Hosts : pc[h] \in {"off", "up"}
         /\ \A h \in Hosts, c \in Lives : hand[h][c] = NoThread

Init ==
  /\ starts = [h \in Hosts |-> 0]
  /\ pc = [h \in Hosts |-> "off"]
  /\ todo = [h \in Hosts |-> <<>>]
  /\ st = [h \in Hosts |-> <<>>]
  /\ ft = [h \in Hosts |-> NoFiles]
  /\ hand = [h \in Hosts |-> [c \in Lives |-> NoThread]]
  /\ stuck = [h \in Hosts |-> {}]
  /\ careful = TRUE

-----------------------------------------------------------------------------
(* The main thread of h. *)

Goto(h, p) == pc' = [pc EXCEPT ![h] = p]
Thread(s, c, r) == hand' = [hand EXCEPT ![s][c] = r]

(* Its connection, to the first of the servers still to do. *)
Peer(h) == Head(todo[h])
At(h) == hand[Peer(h)][Life(h)]
Request(h, op, p) == Thread(Peer(h), Life(h), Phase(op)) /\ Goto(h, p)

(* The starts of all hosts so far. *)
Started == Cardinality({c \in Lives : c[2] <= starts[c[1]]})

(* The user starts the server on h and names other servers in any order; a  *)
(* careful one waits until all is quiet and names all that run (README:     *)
(* "hostnames of all servers").                                             *)
Start(h, names) ==
  /\ pc[h] = "off" /\ Started < MAX_STARTS
  /\ starts' = [starts EXCEPT ![h] = @ + 1]
  /\ todo' = [todo EXCEPT ![h] = names]
  /\ careful' = (careful /\ Quiet /\ Ups \subseteq ToSet(names))
  /\ Goto(h, "input")
  /\ UNCHANGED <<st, ft, hand, stuck>>

(* get_this_host_idx, with rows counted from 1: the first row of h. *)
This_host_idx(h) == SelectInSeq(st'[h], LAMBDA g : g = h)

(* Variant: rows are counted from 0 here and from 1 elsewhere. *)
FilledFromZero(h, t) ==
  [f \in Files |-> IF f \in Disk[h] THEN Append(t[f], This_host_idx(h) - 1) ELSE t[f]]

(* fill_file_list, on the table t *)
Filled(h, t) ==
  [f \in Files |-> IF f \in Disk[h] THEN Append(t[f], This_host_idx(h)) ELSE t[f]]

(* Variant: add_server(".") appends this host again after a join. *)
EndInputTwice(h) ==
  /\ pc[h] = "input"
  /\ todo[h] = <<>> \/ Len(st[h]) >= MAX_SERVERS
  /\ st' = [st EXCEPT ![h] = Append(@, h)]
  /\ ft' = [ft EXCEPT ![h] = IF st[h] = <<>> THEN Filled(h, @) ELSE @]
  /\ Goto(h, "up")
  /\ UNCHANGED <<starts, todo, hand, stuck, careful>>

(* ".", or the list of servers is full; a host that copied no table begins  *)
(* one.  Then it serves.                                                     *)
EndInput(h) ==
  /\ pc[h] = "input"
  /\ todo[h] = <<>> \/ Len(st[h]) >= MAX_SERVERS
  /\ IF st[h] = <<>>
     THEN st' = [st EXCEPT ![h] = <<h>>] /\ ft' = [ft EXCEPT ![h] = Filled(h, @)]
     ELSE UNCHANGED <<st, ft>>
  /\ Goto(h, "up")
  /\ UNCHANGED <<starts, todo, hand, stuck, careful>>

Tries(h) == pc[h] = "input" /\ todo[h] # <<>> /\ Len(st[h]) < MAX_SERVERS

(* connect_to_server fails: nobody listens there yet, or any more. *)
Refused(h) ==
  /\ Tries(h) /\ pc[Peer(h)] # "up"
  /\ todo' = [todo EXCEPT ![h] = Tail(@)]
  /\ UNCHANGED <<starts, pc, st, ft, hand, stuck, careful>>

(* Variant: only the first server is told. *)
ConnectOnce(h) ==
  /\ Tries(h) /\ pc[Peer(h)] = "up"
  /\ IF st[h] = <<>> THEN Request(h, "GET_ST", "wSt") /\ UNCHANGED todo
     ELSE todo' = [todo EXCEPT ![h] = Tail(@)] /\ UNCHANGED <<hand, pc>>
  /\ UNCHANGED <<starts, st, ft, stuck, careful>>

(* The first server is asked for its tables, the others get ours. *)
Connect(h) ==
  /\ Tries(h) /\ pc[Peer(h)] = "up"
  /\ IF st[h] = <<>> THEN Request(h, "GET_ST", "wSt")
                     ELSE Request(h, "SET_ST", "wSetSt")
  /\ UNCHANGED <<starts, todo, st, ft, stuck, careful>>

(* update_local_st reads as many rows as the acknowledgement announced, and *)
(* waits for ever when fewer were sent; this host is appended.  Rows that    *)
(* are left over are taken for the next acknowledgement.                     *)
Update_local_st(h) ==
  /\ pc[h] = "wSt" /\ At(h).pc = "ST_SENT"
  /\ LET n == At(h).n
         rows == At(h).st
     IN  IF n > Len(rows) THEN Goto(h, "hung") /\ UNCHANGED <<st, hand>>
         ELSE /\ st' = [st EXCEPT ![h] = Append(SubSeq(rows, 1, n), h)]
              /\ Request(h, "GET_FT", IF n < Len(rows) THEN "misled" ELSE "wFt")
  /\ UNCHANGED <<starts, todo, ft, stuck, careful>>

(* update_local_ft and fill_file_list; when rows are left over the table no  *)
(* longer matters.                                                           *)
Update_local_ft(h) ==
  /\ pc[h] = "wFt" /\ At(h).pc = "FT_SENT" /\ UNCHANGED st
  /\ LET n == At(h).n
         rows == Total_files(At(h).ft)
     IN  IF n > rows THEN Goto(h, "hung") /\ UNCHANGED <<ft, hand>>
         ELSE /\ ft' = [ft EXCEPT ![h] = Filled(h, At(h).ft)]
              /\ Request(h, "SET_ST", IF n < rows THEN "misled" ELSE "wSetSt")
  /\ UNCHANGED <<starts, todo, stuck, careful>>

(* update_remote_st: the rows, and then the header of SET_FT after them *)
Update_remote_st(h) ==
  /\ pc[h] = "wSetSt" /\ At(h).pc = "ST_ACKED"
  /\ Thread(Peer(h), Life(h), [Phase("ST_STORE") EXCEPT !.st = st[h]])
  /\ Goto(h, "wSetFt")
  /\ UNCHANGED <<starts, todo, st, ft, stuck, careful>>

(* update_remote_ft and client_end *)
Update_remote_ft(h) ==
  /\ pc[h] = "wSetFt" /\ At(h).pc = "FT_ACKED"
  /\ Thread(Peer(h), Life(h), [Phase("FT_STORE") EXCEPT !.ft = ft[h]])
  /\ Goto(h, "input") /\ todo' = [todo EXCEPT ![h] = Tail(@)]
  /\ UNCHANGED <<starts, st, ft, stuck, careful>>

(* The process on h ends; its tables are gone and its connections break.    *)
Dies(h) ==
  /\ Goto(h, "off")
  /\ todo' = [todo EXCEPT ![h] = <<>>]
  /\ st' = [st EXCEPT ![h] = <<>>] /\ ft' = [ft EXCEPT ![h] = NoFiles]
  /\ hand' = [hand EXCEPT ![h] = [c \in Lives |-> NoThread]]
  /\ stuck' = [stuck EXCEPT ![h] = {}]
  /\ UNCHANGED starts

(* "Update of ... failed", exit(1): a row was taken for an acknowledgement. *)
Exit(h) == pc[h] = "misled" /\ Dies(h) /\ UNCHANGED careful

(* The server that h waits for has died: h reads nothing for ever, or dies   *)
(* of SIGPIPE when it writes.                                                *)
PeerGone(h) ==
  /\ pc[h] \in Joining \ {"input"} /\ At(h) = NoThread
  /\ \/ Dies(h)
     \/ Goto(h, "hung") /\ UNCHANGED <<starts, todo, st, ft, hand, stuck>>
  /\ UNCHANGED careful

(* The user, or a crash, ends the server. *)
Kill(h) == pc[h] # "off" /\ Dies(h) /\ careful' = FALSE

-----------------------------------------------------------------------------
(* The thread at s of connection c. *)

Is(s, c, p) == pc[s] = "up" /\ hand[s][c].pc = p
Free(s, lock) == lock \notin stuck[s]

(* The caller is no longer there to read, or to send what it owes. *)
Left(c) == starts[c[1]] # c[2] \/ pc[c[1]] = "off"

(* get_st answers total_servers before it takes s_lock ... *)
Ack_get_st(s, c) ==
  /\ Is(s, c, "GET_ST")
  /\ Thread(s, c, [Phase("ST_LOCK") EXCEPT !.n = Len(st[s])])
  /\ UNCHANGED <<starts, pc, todo, st, ft, stuck, careful>>

(* ... and sends the rows there are then. *)
Get_st(s, c) ==
  /\ Is(s, c, "ST_LOCK") /\ Free(s, "s_lock")
  /\ Thread(s, c, [hand[s][c] EXCEPT !.pc = "ST_SENT", !.st = st[s]])
  /\ UNCHANGED <<starts, pc, todo, st, ft, stuck, careful>>

(* Variant: every row of file_list is counted, in use or not. *)
Ack_get_ftAllRows(s, c) ==
  /\ Is(s, c, "GET_FT")
  /\ Thread(s, c, [Phase("FT_LOCK") EXCEPT !.n = Cardinality(Files)])
  /\ UNCHANGED <<starts, pc, todo, st, ft, stuck, careful>>

Ack_get_ft(s, c) ==
  /\ Is(s, c, "GET_FT")
  /\ Thread(s, c, [Phase("FT_LOCK") EXCEPT !.n = Total_files(ft[s])])
  /\ UNCHANGED <<starts, pc, todo, st, ft, stuck, careful>>

Get_ft(s, c) ==
  /\ Is(s, c, "FT_LOCK") /\ Free(s, "f_lock")
  /\ Thread(s, c, [hand[s][c] EXCEPT !.pc = "FT_SENT", !.ft = ft[s]])
  /\ UNCHANGED <<starts, pc, todo, st, ft, stuck, careful>>

(* set_st and set_ft acknowledge, then lock, then read the rows. *)
Ack_set(s, c) ==
  /\ \/ Is(s, c, "SET_ST") /\ Thread(s, c, Phase("ST_ACKED"))
     \/ Is(s, c, "SET_FT") /\ Thread(s, c, Phase("FT_ACKED"))
  /\ UNCHANGED <<starts, pc, todo, st, ft, stuck, careful>>

(* Variant: s_lock is not given back. *)
Set_stKeeps(s, c) ==
  /\ Is(s, c, "ST_STORE") /\ Free(s, "s_lock")
  /\ st' = [st EXCEPT ![s] = hand[s][c].st]
  /\ stuck' = [stuck EXCEPT ![s] = @ \cup {"s_lock"}]
  /\ Thread(s, c, Phase("SET_FT"))
  /\ UNCHANGED <<starts, pc, todo, ft, careful>>

Set_st(s, c) ==
  /\ Is(s, c, "ST_STORE") /\ Free(s, "s_lock")
  /\ st' = [st EXCEPT ![s] = hand[s][c].st]
  /\ Thread(s, c, Phase("SET_FT"))
  /\ UNCHANGED <<starts, pc, todo, ft, stuck, careful>>

Set_ft(s, c) ==
  /\ Is(s, c, "FT_STORE") /\ Free(s, "f_lock")
  /\ ft' = [ft EXCEPT ![s] = hand[s][c].ft]
  /\ Thread(s, c, NoThread)
  /\ UNCHANGED <<starts, pc, todo, st, stuck, careful>>

(* The rows never come: READ_ALL spins, or the thread exits, and keeps the   *)
(* mutex (what the table then holds nobody can read).                        *)
Keeps(s, c) ==
  /\ Left(c)
  /\ \/ Is(s, c, "ST_ACKED") /\ Free(s, "s_lock")
          /\ stuck' = [stuck EXCEPT ![s] = @ \cup {"s_lock"}]
     \/ Is(s, c, "FT_ACKED") /\ Free(s, "f_lock")
          /\ stuck' = [stuck EXCEPT ![s] = @ \cup {"f_lock"}]
  /\ Thread(s, c, NoThread)
  /\ UNCHANGED <<starts, pc, todo, st, ft, careful>>

(* No request comes: the header read from a closed connection is what the    *)
(* stack held.  An OP_END ends the thread; any other operation is answered,  *)
(* and SIGPIPE ends the server.                                              *)
Hangup(s, c) ==
  /\ Left(c) /\ pc[s] = "up" /\ hand[s][c].pc \in {"ST_SENT", "FT_SENT"}
  /\ \/ Thread(s, c, NoThread) /\ UNCHANGED <<starts, pc, todo, st, ft, stuck>>
     \/ Dies(s)
  /\ UNCHANGED careful

-----------------------------------------------------------------------------
Join(h) == \/ EndInput(h) \/ Refused(h) \/ Connect(h)
           \/ Update_local_st(h) \/ Update_local_ft(h)
           \/ Update_remote_st(h) \/ Update_remote_ft(h)

Serve(s, c) == \/ Ack_get_st(s, c) \/ Get_st(s, c) \/ Ack_get_ft(s, c)
               \/ Get_ft(s, c) \/ Ack_set(s, c) \/ Set_st(s, c) \/ Set_ft(s, c)

(* Lists of other hosts, none named twice. *)
Names(h) == {q \in UNION {[1..n -> Hosts \ {h}] : n \in 0..Cardinality(Hosts) - 1} :
               IsInjective(q)}

Next ==
  \/ \E h \in Hosts :
       \/ \E names \in Names(h) : Start(h, names)
       \/ Join(h) \/ Exit(h) \/ PeerGone(h) \/ Kill(h)
  \/ \E s \in Hosts, c \in Lives : Serve(s, c) \/ Keeps(s, c) \/ Hangup(s, c)

Spec == Init /\ [][Next]_vars

(* The main thread and the threads of the connections run. *)
FairSpec ==
  /\ Spec
  /\ \A h \in Hosts : WF_vars(Join(h))
  /\ \A s \in Hosts, c \in Lives : WF_vars(Serve(s, c))

-----------------------------------------------------------------------------
Tables == [Files -> Seq(1..MAX_SERVERS)]

(* Every variable has its type: tables name rows that server_list has. *)
TypeOK ==
  /\ starts \in [Hosts -> 0..MAX_STARTS]
  /\ pc \in [Hosts -> Pcs]
  /\ todo \in [Hosts -> Seq(Hosts)]
  /\ st \in [Hosts -> Seq(Hosts)] /\ \A h \in Hosts : Len(st[h]) <= MAX_SERVERS
  /\ ft \in [Hosts -> Tables]
  /\ hand \in [Hosts -> [Lives -> [pc : Phases, n : Nat, st : Seq(Hosts), ft : Tables]]]
  /\ stuck \in [Hosts -> SUBSET {"s_lock", "f_lock"}]
  /\ careful \in BOOLEAN

Occurrences(q, h) == Cardinality({i \in 1..Len(q) : q[i] = h})

(* However joins overlap and servers die, no table names a host more often   *)
(* than its server was started, so that no table grows past MAX_SERVERS      *)
(* while no more servers were started than that.                             *)
NamedOncePerStart ==
  \A h, g \in Hosts :
    /\ Occurrences(st[h], g) <= starts[g]
    /\ \A f \in Files : Len(ft[h][f]) <= Started

(* After careful joins all servers agree, and are right: each running server *)
(* has one row, and a file's index names exactly the servers that have it    *)
(* (server.c: "These tables are globally distributed among all servers").    *)
TablesTrue ==
  careful /\ Quiet =>
    \A h \in Ups :
      /\ \A g \in Ups : st[g] = st[h] /\ ft[g] = ft[h]
      /\ IsInjective(st[h]) /\ ToSet(st[h]) = Ups
      /\ \A f \in Files :
           /\ IsInjective(ft[h][f])
           /\ {st[h][i] : i \in ToSet(ft[h][f])} = {g \in Ups : f \in Disk[g]}

(* A careful join copies, announces and stores without a step that cannot be *)
(* made good: nobody waits for rows that never come, nobody takes a row for  *)
(* an acknowledgement, and every mutex a thread took is given back (server.c *)
(* counts the rows before it locks them, and holds a mutex while it reads).  *)
CarefulJoinsGoWell ==
  careful => \A h \in Hosts : pc[h] \notin {"hung", "misled"} /\ stuck[h] = {}

(* A careful join always ends with a server that serves. *)
JoinEnds ==
  []careful => \A h \in Hosts : pc[h] = "input" ~> pc[h] = "up"
=============================================================================
