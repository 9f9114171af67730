----------------------------- MODULE RfsTables -----------------------------
(***************************************************************************)
(* The two global tables of the replicated file system (server.c:23-40)    *)
(* and the pure decisions a server takes from them: which server serves an *)
(* open (select_peer), what an open does to the tables (on_fopen), and     *)
(* what a finished replication does (the last store of replicate).         *)
(*                                                                         *)
(* A server is its position in server_list and a file its position in      *)
(* file_list, both counted from 0 as in C.                                 *)
(***************************************************************************)
EXTENDS Integers, Sequences, FiniteSets

CONSTANTS
  NServers,      \* total_servers: the servers that have joined
  NFiles,        \* total_files
  MAX_SERVERS,   \* capacity of server_list[] and of file_table.index[]
  MAX_FREE,      \* ceiling of server_table.free
  REPL_THRESH,   \* popularity from which select_peer replicates
  PostIncrement  \* what the build makes of x = x++ (see on_fopen): 0 or 1

ASSUME SizesAssumption ==
  /\ NServers \in Nat \ {0}
  /\ NFiles \in Nat \ {0}
  /\ MAX_SERVERS \in Nat
  /\ NServers <= MAX_SERVERS
  /\ MAX_FREE \in Nat
  /\ REPL_THRESH \in Nat
  /\ PostIncrement \in {0, 1}

Servers == 0 .. NServers - 1
Slots   == 0 .. MAX_SERVERS - 1
Files   == 0 .. NFiles - 1

\* select_peer's -1, and the "no descriptor" value of server_table.fd[]:
\* static storage starts at 0 and server_close resets an entry to 0.
NoPeer == -1
NoFd   == 0

-----------------------------------------------------------------------------
(* server_table (its name is the position) and file_table (tot_idx is the  *)
(* length of index, whose elements are ints that should name servers).     *)

ServerEntry == [free : 0 .. MAX_FREE, fd : [Files -> Nat]]
FileEntry   == [request : Nat, index : Seq(Nat)]

ServerTable == [Slots -> ServerEntry]
FileTable   == [Files -> FileEntry]

\* The zeroed static arrays before anything is stored in them.
ZeroServer == [free |-> 0, fd |-> [f \in Files |-> NoFd]]
ZeroSt     == [i \in Slots |-> ZeroServer]
ZeroFt     == [f \in Files |-> [request |-> 0, index |-> << >>]]

-----------------------------------------------------------------------------
(* select_peer                                                             *)

\* Variant: the loop compares with >=, and the last maximum wins.
MostFreeLast(st) ==
  CHOOSE i \in Servers :
    /\ \A k \in Servers : st[k].free <= st[i].free
    /\ \A k \in Servers : k > i => st[k].free < st[i].free

\* The first of the servers whose free is largest.
MostFree(st) ==
  CHOOSE i \in Servers :
    /\ \A k \in Servers : st[k].free <= st[i].free
    /\ \A k \in Servers : k < i => st[k].free < st[i].free

\* free + request of the row at POSITION j: the code reads server_list[j],
\* not server_list[index[j]].
Score(st, entry, j) == st[j].free + entry.request

\* The positions the second loop visits; past the capacity of index[] the
\* program has already overwritten memory and the model has stopped.
Positions(entry) == {j \in Slots : j < Len(entry.index)}

\* The first position with the largest score, provided that score is > 0.
SelectPeer(st, entry) ==
  LET best == {j \in Positions(entry) :
                 /\ Score(st, entry, j) > 0
                 /\ \A k \in Positions(entry) :
                      /\ Score(st, entry, k) <= Score(st, entry, j)
                      /\ k < j => Score(st, entry, k) < Score(st, entry, j)}
  IN  IF best = {} THEN NoPeer ELSE CHOOSE j \in best : TRUE

\* The condition under which the chosen server, when it is the local host s,
\* replicates the file before it serves it.
WantsReplica(st, entry, s) ==
  /\ SelectPeer(st, entry) = s
  /\ entry.request >= REPL_THRESH
  /\ MostFree(st) # s

-----------------------------------------------------------------------------
(* on_fopen: the local server loses 2 (never below 0), then every server   *)
(* gets  x = (x < MAX) ? x++ : MAX .  Assigning x++ to x is undefined:     *)
(* one build leaves x as it is, another adds one; PostIncrement says which.*)

Less2(free) == IF free < 2 THEN 0 ELSE free - 2

\* Variant: no ceiling.
BumpedPastCeiling(free) == free + PostIncrement

Bumped(free) == IF free < MAX_FREE THEN free + PostIncrement ELSE MAX_FREE

FreeAfterOpen(st, s) ==
  [i \in Slots |->
     IF i \notin Servers THEN st[i]
     ELSE [free |-> Bumped(IF i = s THEN Less2(st[i].free) ELSE st[i].free),
           fd   |-> st[i].fd]]

Popular(ft, f) == [ft EXCEPT ![f].request = @ + 1]

\* server_list[s].fd[f] = fd
SetFd(st, s, f, fd) == [st EXCEPT ![s].fd[f] = fd]

\* file_list[f].index[file_list[f].tot_idx++] = to
AddReplica(ft, f, to) == [ft EXCEPT ![f].index = Append(@, to)]
=============================================================================
