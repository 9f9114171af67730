----------------------------- MODULE RfsServer -----------------------------
(***************************************************************************)
(* Opening, writing, closing and replicating the files of the distributed  *)
(* replicated file system once every server has joined: the handlers of    *)
(* server.c, the remote calls they make through librfs.c, and the two      *)
(* mutexes of every server process.                                        *)
(*                                                                         *)
(* A thread is one do_chld: it serves one connection, whose other end is a *)
(* client or a thread of another server.  A pthread_mutex_lock, a wait for *)
(* the peer's answer, and an access to a shared table outside a lock are   *)
(* the places where a step ends.  Calls of one connection are answered in  *)
(* order, so a request, its handling and its answer are one step when the  *)
(* handler waits for nothing in between; an OP_END follows at once every   *)
(* close and every refusal, so these steps also end the thread.            *)
(***************************************************************************)
EXTENDS RfsTables

CONSTANTS
  Clients,        \* application processes that use librfs
  MaxThreads,     \* bound: live connections in the whole system
  MaxOpens,       \* bound: my_fopen calls of each client
  Requests,       \* what each client may ask: home server, file, mode
  JoinIndex,      \* a file's index[] after the joins: its holders, in order
  ConnectMayFail  \* may a connect to another server fail?

Threads  == 1 .. MaxThreads
NoThread == 0

\* oflag without O_REPLICATE and OP_REDIRECT; "create" is O_CREAT|O_WRONLY.
Modes   == {"read", "write", "create"}
Writing == {"write", "create"}
Request == [srv : Servers, f : Files, mode : Modes]

ASSUME ServerAssumption ==
  /\ MaxThreads \in Nat /\ MaxOpens \in [Clients -> Nat]
  /\ Requests \in [Clients -> SUBSET Request]
  /\ JoinIndex \in [Files -> Seq(Servers)]
  /\ \A f \in Files : /\ Len(JoinIndex[f]) <= NServers
                      /\ \A i, k \in 1 .. Len(JoinIndex[f]) :
                           i < k => JoinIndex[f][i] < JoinIndex[f][k]
  /\ ConnectMayFail \in BOOLEAN

VARIABLES
  st,      \* st[s]: server_list of server s
  ft,      \* ft[s]: file_list of server s
  disk,    \* disk[s][f]: what the copy of f in DFS on s holds
  slock,   \* slock[s]: the thread that holds s_lock of s
  flock,   \* flock[s]: the thread that holds f_lock of s
  pc,      \* pc[t]: where thread t is
  th,      \* th[t]: its connection, its request and its locals
  stIn,    \* stIn[t]: the server table in the socket of a set_st handler
  ftIn,    \* ftIn[t]: the file table in the socket of a set_ft handler
  cpc,     \* cpc[c]: where client c is
  cl,      \* cl[c]: its connection, its request, its redirect target
  budget,  \* budget[c]: opens the client has left
  opens,   \* history: successful client opens of each file
  version  \* the newest content any client has written

tables  == <<st, ft, disk>>
locks   == <<slock, flock>>
threads == <<pc, th, stIn, ftIn>>
clients == <<cpc, cl, budget>>
history == <<opens, version>>
vars    == <<tables, locks, threads, clients, history>>

-----------------------------------------------------------------------------
(* Contents.  All contents are shorter than the 8192 bytes replicate moves *)
(* at a time and equally long, so that a write replaces the content; files *)
(* are never truncated, so that writing nothing leaves it.                 *)

Absent   == 0
Empty    == 1
Original == 2

Overwrite(old, new) == IF new = Empty THEN old ELSE new

-----------------------------------------------------------------------------
(* Threads                                                                 *)

\* A thread that has opened a file holds the descriptor until its close.
HasFd == {"push", "pushFt", "await", "write"}

\* Inside replicate, in the order of its remote calls.
RepPcs == {"repConnect", "repOpen", "repRead", "repWrite", "repClose",
           "repDone"}

Pcs == {"idle", "lockS", "lockF", "choose", "serve", "setSt", "ackFt",
        "setFt", "search", "closeLoop", "stuck"} \cup HasFd \cup RepPcs

\* A new connection.  data: the bytes of the OP_WRITE in the socket.  sub: the
\* handler of this thread's own call to another server.  ret: what called
\* replicate.
Handler(s, from, f, flag, mode) ==
  [srv |-> s, caller |-> from, sub |-> NoThread, f |-> f, flag |-> flag,
   mode |-> mode, fd |-> NoFd, j |-> 0, ret |-> "none", data |-> Absent]

NullTh == Handler(0, NoThread, 0, "none", "read")

\* accept and pthread_create: the lowest unused thread.
Fresh(t) == /\ pc[t] = "idle"
            /\ \A u \in Threads : u < t => pc[u] # "idle"

Srv(t) == th[t].srv
Row(t) == ft[Srv(t)][th[t].f]

\* open returns the lowest free descriptor; sockets are numbered apart.
FdsInUse(s) == {th[t].fd : t \in {u \in Threads : /\ pc[u] \in HasFd
                                                  /\ Srv(u) = s}}
IsFreeFd(s, fd) == /\ fd \in Threads \ FdsInUse(s)
                   /\ \A e \in Threads \ FdsInUse(s) : fd <= e

\* Variant: the server calls itself as well.
SkipNone(s, j) == j

\* Variant: the server after this one is skipped as well.
SkipSelfAndNext(s, j) == IF j = s THEN j + 2 ELSE j

\* "if (i == get_this_host_idx()) continue": the next index of a loop.
SkipSelf(s, j) == IF j = s THEN j + 1 ELSE j

\* index[] has MAX_SERVERS elements: one more and replicate has written over
\* the name that follows it, and nothing more can be said of the program.
IndexFits == \A s \in Servers, f \in Files :
               Len(ft[s][f].index) <= MAX_SERVERS

\* Thread t is at p and goes on.
At(t, p) == pc[t] = p /\ IndexFits

\* Thread t of server s gives both mutexes back.
Unlock(s) == /\ slock' = [slock EXCEPT ![s] = NoThread]
             /\ flock' = [flock EXCEPT ![s] = NoThread]

Ends(t) == /\ pc' = [pc EXCEPT ![t] = "idle"]
           /\ th' = [th EXCEPT ![t] = NullTh]

-----------------------------------------------------------------------------
(* Clients: my_fopen, my_fwrite, my_fclose                                 *)

NullCl == [thr |-> NoThread, f |-> 0, mode |-> "read", target |-> 0]

\* my_fopen: connect to the home server, send OP_OPEN.
ClientOpen(c, t) ==
  /\ IndexFits /\ cpc[c] = "idle" /\ budget[c] > 0 /\ Fresh(t)
  /\ \E r \in Requests[c] :
       /\ pc' = [pc EXCEPT ![t] = "lockS"]
       /\ th' = [th EXCEPT ![t] = Handler(r.srv, NoThread, r.f, "none", r.mode)]
       /\ cl' = [cl EXCEPT ![c] = [thr |-> t, f |-> r.f, mode |-> r.mode,
                                   target |-> 0]]
  /\ cpc' = [cpc EXCEPT ![c] = "opening"]
  /\ budget' = [budget EXCEPT ![c] = @ - 1]
  /\ UNCHANGED <<tables, locks, stIn, ftIn, history>>

\* OP_REDIRECT came back: connect to the named server, open with the
\* OP_REDIRECT bit in the mode.
ClientFollow(c, t) ==
  /\ IndexFits /\ cpc[c] = "redirected"
  /\ cl[c].target \in Servers /\ Fresh(t)
  /\ pc' = [pc EXCEPT ![t] = "lockS"]
  /\ th' = [th EXCEPT ![t] = Handler(cl[c].target, NoThread, cl[c].f,
                                     "redirect", cl[c].mode)]
  /\ cl' = [cl EXCEPT ![c].thr = t]
  /\ cpc' = [cpc EXCEPT ![c] = "opening"]
  /\ UNCHANGED <<tables, locks, stIn, ftIn, budget, history>>

\* connect_to_server fails, always for a row that is not in use (its name is
\* "", which gethostbyname does not resolve): my_fopen returns -1.
ClientFollowFails(c) ==
  /\ IndexFits /\ cpc[c] = "redirected"
  /\ (cl[c].target \in Servers => ConnectMayFail)
  /\ cpc' = [cpc EXCEPT ![c] = "idle"]
  /\ cl' = [cl EXCEPT ![c] = NullCl]
  /\ UNCHANGED <<tables, locks, threads, budget, history>>

\* my_fwrite and server_write: at most one per open.
ClientWrite(c) ==
  LET t == cl[c].thr IN
  /\ cpc[c] = "open" /\ At(t, "await") /\ th[t].mode \in Writing
  /\ version' = version + 1
  /\ disk' = [disk EXCEPT ![Srv(t)][th[t].f] = version']
  /\ cpc' = [cpc EXCEPT ![c] = "written"]
  /\ UNCHANGED <<st, ft, locks, threads, cl, budget, opens>>

\* my_fclose and server_close up to the reply: a writer goes on to
\* replicate after the client has its answer.
ClientClose(c) ==
  LET t == cl[c].thr IN
  /\ cpc[c] \in {"open", "written"} /\ At(t, "await")
  /\ IF th[t].mode \in Writing
     THEN /\ pc' = [pc EXCEPT ![t] = "search"]
          /\ UNCHANGED th
     ELSE Ends(t)
  /\ cpc' = [cpc EXCEPT ![c] = "idle"]
  /\ cl' = [cl EXCEPT ![c] = NullCl]
  /\ UNCHANGED <<tables, locks, stIn, ftIn, budget, history>>

-----------------------------------------------------------------------------
(* server_open                                                             *)

OpenLockS(t) ==
  /\ At(t, "lockS") /\ slock[Srv(t)] = NoThread
  /\ slock' = [slock EXCEPT ![Srv(t)] = t]
  /\ pc' = [pc EXCEPT ![t] = "lockF"]
  /\ UNCHANGED <<tables, flock, th, stIn, ftIn, clients, history>>

OpenLockF(t) ==
  /\ At(t, "lockF") /\ flock[Srv(t)] = NoThread
  /\ flock' = [flock EXCEPT ![Srv(t)] = t]
  /\ pc' = [pc EXCEPT ![t] = "choose"]
  /\ UNCHANGED <<tables, slock, th, stIn, ftIn, clients, history>>

\* s_idx after the first half of server_open.
Chosen(t) ==
  LET p == SelectPeer(st[Srv(t)], Row(t))
  IN  IF th[t].flag # "none" \/ p = NoPeer THEN Srv(t) ELSE p

Replicates(t) == /\ th[t].flag = "none"
                 /\ WantsReplica(st[Srv(t)], Row(t), Srv(t))

\* The local server is to serve the file.
ChooseSelf(t) ==
  /\ At(t, "choose") /\ Chosen(t) = Srv(t) /\ ~Replicates(t)
  /\ pc' = [pc EXCEPT ![t] = "serve"]
  /\ UNCHANGED <<tables, locks, th, stIn, ftIn, clients, history>>

\* ... after it has copied the popular file to the most free server.
ChooseReplicate(t) ==
  /\ At(t, "choose") /\ Replicates(t)
  /\ pc' = [pc EXCEPT ![t] = "repConnect"]
  /\ th' = [th EXCEPT ![t] = [@ EXCEPT !.j = MostFree(st[Srv(t)]),
                                       !.ret = "open"]]
  /\ UNCHANGED <<tables, locks, stIn, ftIn, clients, history>>

\* Another row won: tell the client its name.
ChooseRedirect(t) ==
  /\ At(t, "choose") /\ Chosen(t) # Srv(t)
  /\ \E c \in Clients :
       /\ cpc[c] = "opening" /\ cl[c].thr = t
       /\ cpc' = [cpc EXCEPT ![c] = "redirected"]
       /\ cl' = [cl EXCEPT ![c].thr = NoThread, ![c].target = Chosen(t)]
  /\ Ends(t) /\ Unlock(Srv(t))
  /\ UNCHANGED <<tables, stIn, ftIn, budget, history>>

CanOpen(t) == disk[Srv(t)][th[t].f] # Absent \/ th[t].mode = "create"

\* open, and the store of its result in server_list[s].fd[f]
Opened(t, fd) == /\ disk' = [disk EXCEPT ![Srv(t)][th[t].f] =
                               IF @ = Absent THEN Empty ELSE @]
                 /\ IsFreeFd(Srv(t), fd)

\* A client's open: reply, count it in both tables, then tell the others.
OpenForClient(t) ==
  LET s == Srv(t)
      f == th[t].f
  IN
  /\ At(t, "serve") /\ th[t].flag # "replicate" /\ CanOpen(t)
  /\ \E fd \in Threads :
       /\ Opened(t, fd)
       /\ st' = [st EXCEPT ![s] = FreeAfterOpen(SetFd(@, s, f, fd), s)]
       /\ th' = [th EXCEPT ![t] = [@ EXCEPT !.fd = fd, !.j = SkipSelf(s, 0)]]
  /\ ft' = [ft EXCEPT ![s] = Popular(@, f)]
  /\ opens' = [opens EXCEPT ![f] = @ + 1]
  /\ pc' = [pc EXCEPT ![t] = "push"]
  /\ \E c \in Clients : /\ cpc[c] = "opening" /\ cl[c].thr = t
                        /\ cpc' = [cpc EXCEPT ![c] = "open"]
  /\ UNCHANGED <<locks, stIn, ftIn, cl, budget, version>>

\* Variant: update_ok stays 1 for a replica as far as the tables go.
OpenForReplicaCounted(t) ==
  LET s == Srv(t)
      f == th[t].f
  IN
  /\ At(t, "serve") /\ th[t].flag = "replicate" /\ CanOpen(t)
  /\ \E fd \in Threads :
       /\ Opened(t, fd)
       /\ st' = [st EXCEPT ![s] = FreeAfterOpen(SetFd(@, s, f, fd), s)]
       /\ th' = [th EXCEPT ![t].fd = fd]
  /\ ft' = [ft EXCEPT ![s] = Popular(@, f)]
  /\ pc' = [pc EXCEPT ![t] = "await", ![th[t].caller] = "repRead"]
  /\ Unlock(s)
  /\ UNCHANGED <<stIn, ftIn, clients, history>>

\* A replicating server's open is neither counted nor pushed.
OpenForReplica(t) ==
  LET s == Srv(t)
      f == th[t].f
  IN
  /\ At(t, "serve") /\ th[t].flag = "replicate" /\ CanOpen(t)
  /\ \E fd \in Threads :
       /\ Opened(t, fd)
       /\ st' = [st EXCEPT ![s] = SetFd(@, s, f, fd)]
       /\ th' = [th EXCEPT ![t].fd = fd]
  /\ pc' = [pc EXCEPT ![t] = "await", ![th[t].caller] = "repRead"]
  /\ Unlock(s)
  /\ UNCHANGED <<ft, stIn, ftIn, clients, history>>

\* Variant: the refusal returns without giving the mutexes back.
OpenFailsKeepsLocks(t) ==
  /\ At(t, "serve") /\ ~CanOpen(t)
  /\ \E c \in Clients : /\ cpc[c] = "opening" /\ cl[c].thr = t
                        /\ cpc' = [cpc EXCEPT ![c] = "idle"]
                        /\ cl' = [cl EXCEPT ![c] = NullCl]
  /\ Ends(t)
  /\ UNCHANGED <<tables, locks, stIn, ftIn, budget, history>>

\* open fails: ERR_OPEN, both mutexes back, my_fopen returns -1.
OpenFails(t) ==
  /\ At(t, "serve") /\ ~CanOpen(t)
  /\ \E c \in Clients : /\ cpc[c] = "opening" /\ cl[c].thr = t
                        /\ cpc' = [cpc EXCEPT ![c] = "idle"]
                        /\ cl' = [cl EXCEPT ![c] = NullCl]
  /\ Ends(t) /\ Unlock(Srv(t))
  /\ UNCHANGED <<tables, stIn, ftIn, budget, history>>

-----------------------------------------------------------------------------
(* The loop of server_open that sends both tables to every other server,   *)
(* with both mutexes held: update_remote_st, update_remote_ft; and the     *)
(* handlers set_st and set_ft at the other end.  Both handlers acknowledge *)
(* BEFORE they lock and store.                                             *)

\* Connect, OP_SET_ST, its acknowledgement, and the table into the socket.
PushSt(t, u) ==
  LET s == Srv(t) IN
  /\ At(t, "push") /\ th[t].j \in Servers /\ Fresh(u)
  /\ pc' = [pc EXCEPT ![t] = "pushFt", ![u] = "setSt"]
  /\ th' = [th EXCEPT ![t].sub = u,
                      ![u] = Handler(th[t].j, t, 0, "none", "read")]
  /\ stIn' = [stIn EXCEPT ![u] = st[s]]
  /\ UNCHANGED <<tables, locks, ftIn, clients, history>>

PushUnreachable(t) ==
  /\ ConnectMayFail
  /\ At(t, "push") /\ th[t].j \in Servers
  /\ th' = [th EXCEPT ![t].j = SkipSelf(Srv(t), @ + 1)]
  /\ UNCHANGED <<tables, locks, pc, stIn, ftIn, clients, history>>

\* Variant: set_st stores without s_lock.
SetStUnlocked(u) ==
  /\ At(u, "setSt")
  /\ st' = [st EXCEPT ![Srv(u)] = stIn[u]]
  /\ stIn' = [stIn EXCEPT ![u] = ZeroSt]
  /\ pc' = [pc EXCEPT ![u] = "ackFt"]
  /\ UNCHANGED <<ft, disk, locks, th, ftIn, clients, history>>

\* set_st; the OP_SET_FT that follows is acknowledged at once.
SetSt(u) ==
  /\ At(u, "setSt") /\ slock[Srv(u)] = NoThread
  /\ st' = [st EXCEPT ![Srv(u)] = stIn[u]]
  /\ stIn' = [stIn EXCEPT ![u] = ZeroSt]
  /\ pc' = [pc EXCEPT ![u] = "ackFt"]
  /\ UNCHANGED <<ft, disk, locks, th, ftIn, clients, history>>

\* Variant: the loop over the servers does not advance.
PushFtSameServer(t) ==
  LET u == th[t].sub
      s == Srv(t)
  IN
  /\ At(t, "pushFt") /\ pc[u] = "ackFt"
  /\ ftIn' = [ftIn EXCEPT ![u] = ft[s]]
  /\ pc' = [pc EXCEPT ![t] = "push", ![u] = "setFt"]
  /\ th' = [th EXCEPT ![t].sub = NoThread, ![u].caller = NoThread]
  /\ UNCHANGED <<tables, locks, stIn, clients, history>>

\* The acknowledgement is there: the file table goes into the socket, and
\* the pusher turns to the next server whether or not it is stored.
PushFt(t) ==
  LET u == th[t].sub
      s == Srv(t)
  IN
  /\ At(t, "pushFt") /\ pc[u] = "ackFt"
  /\ ftIn' = [ftIn EXCEPT ![u] = ft[s]]
  /\ pc' = [pc EXCEPT ![t] = "push", ![u] = "setFt"]
  /\ th' = [th EXCEPT ![t].sub = NoThread, ![t].j = SkipSelf(s, @ + 1),
                      ![u].caller = NoThread]
  /\ UNCHANGED <<tables, locks, stIn, clients, history>>

\* set_ft
SetFt(u) ==
  /\ At(u, "setFt") /\ flock[Srv(u)] = NoThread
  /\ ft' = [ft EXCEPT ![Srv(u)] = ftIn[u]]
  /\ ftIn' = [ftIn EXCEPT ![u] = ZeroFt]
  /\ Ends(u)
  /\ UNCHANGED <<st, disk, locks, stIn, clients, history>>

PushEnd(t) ==
  /\ At(t, "push") /\ th[t].j \notin Servers
  /\ pc' = [pc EXCEPT ![t] = "await"]
  /\ Unlock(Srv(t))
  /\ UNCHANGED <<tables, th, stIn, ftIn, clients, history>>

-----------------------------------------------------------------------------
(* replicate(f, j), called by server_open with both mutexes held and by    *)
(* server_close with none.                                                 *)

\* Where replicate returns to: select_peer ignores a failure and the open
\* goes on; server_close goes to its next position.
Return(t) ==
  IF th[t].ret = "open"
  THEN /\ pc' = [pc EXCEPT ![t] = "serve"]
       /\ th' = [th EXCEPT ![t] = [@ EXCEPT !.sub = NoThread, !.ret = "none"]]
  ELSE /\ pc' = [pc EXCEPT ![t] = "closeLoop"]
       /\ th' = [th EXCEPT ![t] = [@ EXCEPT !.sub = NoThread, !.ret = "none",
                                            !.j = SkipSelf(Srv(t), th[t].j + 1)]]

\* connect_to_server fails, always for a row that is not in use.
RepUnreachable(t) ==
  /\ At(t, "repConnect") /\ (th[t].j \in Servers => ConnectMayFail)
  /\ Return(t)
  /\ UNCHANGED <<tables, locks, stIn, ftIn, clients, history>>

\* The file is not on this server's disk: the connection is never ended and
\* its thread u stays in its first read for good.
RepNoLocalFile(t, u) ==
  LET moved == [pc EXCEPT ![u] = "stuck"] IN
  /\ At(t, "repConnect") /\ th[t].j \in Servers /\ Fresh(u)
  /\ disk[Srv(t)][th[t].f] = Absent
  /\ pc' = [moved EXCEPT ![t] = IF th[t].ret = "open" THEN "serve"
                                                      ELSE "closeLoop"]
  /\ th' = [th EXCEPT ![t].ret = "none",
                      ![t].j = IF th[t].ret = "open" THEN @
                               ELSE SkipSelf(Srv(t), @ + 1),
                      ![u] = Handler(th[t].j, NoThread, 0, "none", "read")]
  /\ UNCHANGED <<tables, locks, stIn, ftIn, clients, history>>

\* Variant: the new replica is listed before it is made.
RepOpenListsFirst(t, u) ==
  /\ At(t, "repConnect") /\ th[t].j \in Servers /\ Fresh(u)
  /\ disk[Srv(t)][th[t].f] # Absent
  /\ pc' = [pc EXCEPT ![t] = "repOpen", ![u] = "lockS"]
  /\ th' = [th EXCEPT ![t].sub = u,
                      ![u] = Handler(th[t].j, t, th[t].f, "replicate",
                                     "create")]
  /\ ft' = [ft EXCEPT ![Srv(t)] = AddReplica(@, th[t].f, th[t].j)]
  /\ UNCHANGED <<st, disk, locks, stIn, ftIn, clients, history>>

\* Variant: the answer to the open is not waited for.
RepOpenNoReply(t, u) ==
  /\ At(t, "repConnect") /\ th[t].j \in Servers /\ Fresh(u)
  /\ disk[Srv(t)][th[t].f] # Absent
  /\ pc' = [pc EXCEPT ![t] = "repRead", ![u] = "lockS"]
  /\ th' = [th EXCEPT ![t].sub = u,
                      ![u] = Handler(th[t].j, t, th[t].f, "replicate",
                                     "create")]
  /\ UNCHANGED <<tables, locks, stIn, ftIn, clients, history>>

\* client_open with O_CREAT | O_WRONLY | O_REPLICATE
RepOpen(t, u) ==
  /\ At(t, "repConnect") /\ th[t].j \in Servers /\ Fresh(u)
  /\ disk[Srv(t)][th[t].f] # Absent
  /\ pc' = [pc EXCEPT ![t] = "repOpen", ![u] = "lockS"]
  /\ th' = [th EXCEPT ![t].sub = u,
                      ![u] = Handler(th[t].j, t, th[t].f, "replicate",
                                     "create")]
  /\ UNCHANGED <<tables, locks, stIn, ftIn, clients, history>>

\* read the local copy, OP_WRITE
RepRead(t) ==
  LET u == th[t].sub IN
  /\ At(t, "repRead")
  /\ th' = [th EXCEPT ![u].data = disk[Srv(t)][th[t].f]]
  /\ pc' = [pc EXCEPT ![t] = "repWrite", ![u] = "write"]
  /\ UNCHANGED <<tables, locks, stIn, ftIn, clients, history>>

\* server_write at the other end
RepWrite(u) ==
  /\ At(u, "write")
  /\ disk' = [disk EXCEPT ![Srv(u)][th[u].f] = Overwrite(@, th[u].data)]
  /\ th' = [th EXCEPT ![u].data = Absent]
  /\ pc' = [pc EXCEPT ![u] = "await", ![th[u].caller] = "repClose"]
  /\ UNCHANGED <<st, ft, locks, stIn, ftIn, clients, history>>

\* client_close, answered before the handler looks for replicas itself
RepClose(t) ==
  LET u == th[t].sub IN
  /\ At(t, "repClose")
  /\ pc' = [pc EXCEPT ![t] = "repDone", ![u] = "search"]
  /\ th' = [th EXCEPT ![t].sub = NoThread, ![u].caller = NoThread]
  /\ UNCHANGED <<tables, locks, stIn, ftIn, clients, history>>

\* file_list[f_idx].index[file_list[f_idx].tot_idx++] = to
RepDone(t) ==
  /\ At(t, "repDone")
  /\ ft' = [ft EXCEPT ![Srv(t)] = AddReplica(@, th[t].f, th[t].j)]
  /\ Return(t)
  /\ UNCHANGED <<st, disk, locks, stIn, ftIn, clients, history>>

-----------------------------------------------------------------------------
(* server_close after the reply, for a file opened O_WRONLY: no mutex.     *)

\* The files the table of s says descriptor fd is open on.
Matches(s, fd) == {f \in Files : st[s][s].fd[f] = fd}

CloseFound(t) ==
  LET s == Srv(t) IN
  /\ At(t, "search")
  /\ \E f \in Matches(s, th[t].fd) :
       /\ \A g \in Matches(s, th[t].fd) : f <= g
       /\ st' = [st EXCEPT ![s] = SetFd(@, s, f, NoFd)]
       /\ th' = [th EXCEPT ![t] = [@ EXCEPT !.f = f, !.fd = NoFd,
                                            !.j = SkipSelf(s, 0)]]
  /\ pc' = [pc EXCEPT ![t] = "closeLoop"]
  /\ UNCHANGED <<ft, disk, locks, stIn, ftIn, clients, history>>

CloseNotFound(t) ==
  /\ At(t, "search") /\ Matches(Srv(t), th[t].fd) = {}
  /\ Ends(t)
  /\ UNCHANGED <<tables, locks, stIn, ftIn, clients, history>>

\* replicate(f_idx, j), for the position j
CloseNext(t) ==
  /\ At(t, "closeLoop") /\ th[t].j < Len(Row(t).index)
  /\ pc' = [pc EXCEPT ![t] = "repConnect"]
  /\ th' = [th EXCEPT ![t].ret = "close"]
  /\ UNCHANGED <<tables, locks, stIn, ftIn, clients, history>>

CloseEnd(t) ==
  /\ At(t, "closeLoop") /\ th[t].j >= Len(Row(t).index)
  /\ Ends(t)
  /\ UNCHANGED <<tables, locks, stIn, ftIn, clients, history>>

-----------------------------------------------------------------------------

\* The servers have joined one after the other: a full row for each, and a
\* file's index names the servers that found it on their disk.
Holds(s, f) == \E i \in 1 .. Len(JoinIndex[f]) : JoinIndex[f][i] = s

\* Variant: the rows of the whole array are initialised.
AllRowsFree(i) == [free |-> MAX_FREE, fd |-> [f \in Files |-> NoFd]]

\* A server appends its own row as it joins; the others stay zero.
JoinedRow(i) == [free |-> IF i \in Servers THEN MAX_FREE ELSE 0,
                 fd   |-> [f \in Files |-> NoFd]]

Init ==
  /\ st = [s \in Servers |-> [i \in Slots |-> JoinedRow(i)]]
  /\ ft = [s \in Servers |->
             [f \in Files |-> [request |-> 0, index |-> JoinIndex[f]]]]
  /\ disk = [s \in Servers |->
               [f \in Files |-> IF Holds(s, f) THEN Original ELSE Absent]]
  /\ slock = [s \in Servers |-> NoThread]
  /\ flock = [s \in Servers |-> NoThread]
  /\ pc = [t \in Threads |-> "idle"]
  /\ th = [t \in Threads |-> NullTh]
  /\ stIn = [t \in Threads |-> ZeroSt]
  /\ ftIn = [t \in Threads |-> ZeroFt]
  /\ cpc = [c \in Clients |-> "idle"]
  /\ cl = [c \in Clients |-> NullCl]
  /\ budget = MaxOpens
  /\ opens = [f \in Files |-> 0]
  /\ version = Original

\* What the threads and the client library do on their own.
ThreadStep(t) ==
  \/ OpenLockS(t) \/ OpenLockF(t)
  \/ ChooseSelf(t) \/ ChooseReplicate(t) \/ ChooseRedirect(t)
  \/ OpenForClient(t) \/ OpenForReplica(t) \/ OpenFails(t)
  \/ \E u \in Threads : PushSt(t, u)
  \/ PushUnreachable(t) \/ PushFt(t) \/ PushEnd(t)
  \/ SetSt(t) \/ SetFt(t)
  \/ \E u \in Threads : RepNoLocalFile(t, u) \/ RepOpen(t, u)
  \/ RepUnreachable(t) \/ RepRead(t) \/ RepWrite(t)
  \/ RepClose(t) \/ RepDone(t)
  \/ CloseFound(t) \/ CloseNotFound(t) \/ CloseNext(t) \/ CloseEnd(t)

LibraryStep(c) == ClientFollowFails(c) \/ \E t \in Threads : ClientFollow(c, t)

\* What the application decides.
AppStep(c) ==
  \/ \E t \in Threads : ClientOpen(c, t)
  \/ ClientWrite(c) \/ ClientClose(c)

\* Every client has used its opens and every call has returned.
Finished ==
  /\ \A c \in Clients : cpc[c] = "idle" /\ budget[c] = 0
  /\ \A t \in Threads : pc[t] \in {"idle", "stuck"}
  /\ UNCHANGED vars

Next ==
  \/ \E t \in Threads : ThreadStep(t)
  \/ \E c \in Clients : LibraryStep(c) \/ AppStep(c)
  \/ Finished

Spec == Init /\ [][Next]_vars

\* The operating system runs every thread that can run, and my_fopen goes on
\* with what it received.  With finitely many opens no mutex is taken again
\* and again, so weak fairness does not hide starvation.  Applications need
\* not write or close.
Fairness ==
  /\ \A t \in Threads : WF_vars(ThreadStep(t))
  /\ \A c \in Clients : WF_vars(LibraryStep(c))

FairSpec == Spec /\ Fairness

-----------------------------------------------------------------------------
(* Properties                                                              *)

ThType ==
  [srv : Servers, caller : Threads \cup {NoThread},
   sub : Threads \cup {NoThread}, f : Files,
   flag : {"none", "redirect", "replicate"}, mode : Modes,
   fd : Threads \cup {NoFd}, j : Nat, ret : {"none", "open", "close"},
   data : Nat]

ClType == [thr : Threads \cup {NoThread}, f : Files, mode : Modes, target : Nat]

\* Every variable keeps its type: rows of the tables, connections, clients.
TypeOK ==
  /\ st \in [Servers -> ServerTable]
  /\ ft \in [Servers -> FileTable]
  /\ disk \in [Servers -> [Files -> Nat]]
  /\ slock \in [Servers -> Threads \cup {NoThread}]
  /\ flock \in [Servers -> Threads \cup {NoThread}]
  /\ pc \in [Threads -> Pcs]
  /\ th \in [Threads -> ThType]
  /\ stIn \in [Threads -> ServerTable]
  /\ ftIn \in [Threads -> FileTable]
  /\ cpc \in [Clients -> {"idle", "opening", "redirected", "open", "written"}]
  /\ cl \in [Clients -> ClType]
  /\ budget \in [Clients -> Nat]
  /\ opens \in [Files -> Nat]
  /\ version \in Nat

\* Where the code holds s_lock and f_lock of its server.  set_st and set_ft
\* take theirs for the length of one step.
UnderBoth(t) == \/ pc[t] \in {"choose", "serve", "push", "pushFt"}
                \/ pc[t] \in RepPcs /\ th[t].ret = "open"
UnderS(t) == pc[t] = "lockF" \/ UnderBoth(t)

\* A mutex is held by exactly the thread that is inside the code it guards:
\* no two threads are, and no path out of server_open (redirect, refusal,
\* replica, end of the push, failed replication) leaves one locked.
LockDiscipline ==
  \A s \in Servers, t \in Threads :
    /\ slock[s] = t <=> UnderS(t) /\ Srv(t) = s
    /\ flock[s] = t <=> UnderBoth(t) /\ Srv(t) = s

\* Whatever server a file table names for a file, in any server's copy or in
\* one on its way to a server, has the file on disk: the tables never
\* advertise a replica that was not made.
Advertised(table) ==
  \A f \in Files : \A i \in 1 .. Len(table[f].index) :
    /\ table[f].index[i] \in Servers
    /\ disk[table[f].index[i]][f] # Absent

IndexedServersHoldFile ==
  /\ \A s \in Servers : Advertised(ft[s])
  /\ \A t \in Threads : Advertised(ftIn[t])

\* The remote call a thread is waiting in, and where its handler may be.
Opening == {"lockS", "lockF", "choose", "serve"}
Calling == {"pushFt", "repOpen", "repRead", "repWrite", "repClose"}

Serves(u, k) ==
  /\ pc[k] = "pushFt" => pc[u] \in {"setSt", "ackFt"}
  /\ pc[k] = "repOpen" => pc[u] \in Opening
  /\ pc[k] \in {"repRead", "repClose"} => pc[u] = "await"
  /\ pc[k] = "repWrite" => pc[u] = "write"
  /\ pc[k] # "pushFt" => /\ th[u].flag = "replicate" /\ th[u].mode = "create"
                         /\ th[u].srv = th[k].j /\ th[u].f = th[k].f

\* Every remote call between servers has one handler, at the place that will
\* answer it, on the server and the file it was made for; and a handler that
\* still owes an answer has a caller that waits for it.
CallsPaired ==
  \A t \in Threads :
    /\ pc[t] \in Calling => /\ th[t].sub \in Threads
                            /\ th[th[t].sub].caller = t
                            /\ Serves(th[t].sub, t)
    /\ th[t].caller # NoThread => /\ pc[th[t].caller] \in Calling
                                  /\ th[th[t].caller].sub = t
    /\ (pc[t] \in Opening /\ th[t].flag = "replicate") \/ pc[t] = "write"
         => th[t].caller # NoThread

\* What thread t waits for: the thread that holds the mutex it wants, or that
\* has to answer it or to ask it next.
WaitsFor(t) ==
  CASE pc[t] \in {"lockS", "setSt"} -> slock[Srv(t)]
    [] pc[t] \in {"lockF", "setFt"} -> flock[Srv(t)]
    [] pc[t] = "pushFt" -> IF pc[th[t].sub] = "ackFt" THEN NoThread ELSE th[t].sub
    [] pc[t] \in {"repOpen", "repWrite"} -> th[t].sub
    [] pc[t] \in {"ackFt", "await"} -> th[t].caller
    [] OTHER -> NoThread

\* Inside server_open, with both mutexes, in a call to another server.
CallsLocked(t) == pc[t] \in Calling /\ UnderBoth(t)

\* Threads that wait for each other in a circle, or for threads that do, are
\* never the fault of one server: two servers call with both their mutexes
\* held.  Calls of server_close, stores of pushed tables and opens for a
\* replica close no circle by themselves, however many there are.
DeadlockNeedsTwo ==
  \A C \in SUBSET Threads :
    C # {} /\ (\A t \in C : WaitsFor(t) \in C)
      => \E p, q \in C : /\ CallsLocked(p) /\ CallsLocked(q)
                        /\ Srv(p) # Srv(q)

\* Inside my_fopen's call, or between its answer and the close.
InOpen(t)  == pc[t] \in Opening \/ (pc[t] \in RepPcs /\ th[t].ret = "open")
HasOpen(t) == pc[t] \in {"push", "pushFt", "await"}

\* A client that waits for my_fopen, or has the file open, has a connection of
\* its own to a thread that serves it.
ClientPaired(c) ==
  LET t == cl[c].thr IN
  /\ cpc[c] \in {"idle", "redirected"} <=> t = NoThread
  /\ t # NoThread => /\ th[t].caller = NoThread
                     /\ th[t].flag # "replicate"
                     /\ \A d \in Clients : cl[d].thr = t => d = c
  /\ cpc[c] = "opening" => InOpen(t)
  /\ cpc[c] \in {"open", "written"} => HasOpen(t)

ClientsPaired == \A c \in Clients : ClientPaired(c)

\* replicate returns to what called it: server_open of a client, or
\* server_close.
ReturnsToCaller ==
  \A t \in Threads :
    pc[t] \in RepPcs => \/ th[t].ret = "open" /\ th[t].flag = "none"
                       \/ th[t].ret = "close"

\* A replication that has connected goes to a server that has joined, copies
\* a file that is there, and from the answer to its open on the other end has
\* it too; the bytes on their way are a content.
RepSound ==
  \A t \in Threads :
    /\ pc[t] \in RepPcs \ {"repConnect"}
         => th[t].j \in Servers /\ disk[Srv(t)][th[t].f] # Absent
    /\ pc[t] \in {"repRead", "repWrite", "repClose", "repDone"}
         => disk[th[t].j][th[t].f] # Absent
    /\ pc[t] = "write" => th[t].data # Absent

\* No copy of the popularity of a file exceeds the opens clients really made:
\* replication and redirects do not count, and a push never adds.
RequestNeverOvercounts ==
  /\ \A s \in Servers, f \in Files : ft[s][f].request <= opens[f]
  /\ \A t \in Threads, f \in Files : ftIn[t][f].request <= opens[f]

\* While a thread is inside select_peer ... PushEnd of a server, nobody else
\* changes the figures it decides from: free of any row, and popularity.
Frees(s) == [i \in Servers |-> st[s][i].free]
Popularity(s) == [f \in Files |-> ft[s][f].request]

DecisionIsStable ==
  [][\A s \in Servers :
       /\ slock[s] # NoThread /\ pc'[slock[s]] = pc[slock[s]]
            => Frees(s)' = Frees(s)
       /\ flock[s] # NoThread /\ pc'[flock[s]] = pc[flock[s]]
            => Popularity(s)' = Popularity(s)]_vars

\* No server but 0 opens files for clients, and so none but 0 pushes its tables.
OnlyZeroPushes == \A t \in Threads : pc[t] \in {"push", "pushFt"} => Srv(t) = 0

\* When only server 0 serves, and it is between two opens, every server has
\* the same idea of how free each server is: SET_ST is stored everywhere
\* before the push ends.
FreeAgrees ==
  slock[0] = NoThread => \A s \in Servers : Frees(s) = Frees(0)

\* select_peer reads rows 0 .. tot_idx-1 of server_list, and tot_idx may pass
\* total_servers; still the row it names is one of a server that has joined,
\* so that the client is never sent to a host without a name.
RedirectsToServer ==
  \A c \in Clients : cpc[c] = "redirected" => cl[c].target \in Servers

\* The rows past the last server are never written.
UnusedRows(table) == \A i \in Slots \ Servers : table[i].free = 0

RowsSound == /\ \A s \in Servers : UnusedRows(st[s])
             /\ \A t \in Threads : UnusedRows(stIn[t])

\* The inductive invariant: what the safety properties above need together.
IInv == /\ TypeOK /\ CallsPaired /\ ClientsPaired /\ ReturnsToCaller
        /\ LockDiscipline /\ RepSound /\ RowsSound /\ IndexedServersHoldFile
        /\ RequestNeverOvercounts

\* Every my_fopen returns.
OpenReturns ==
  \A c \in Clients : cpc[c] \in {"opening", "redirected"}
                       ~> cpc[c] \in {"idle", "open", "written"}

-----------------------------------------------------------------------------
(* What comments of the code say, and the code does not do.                *)

\* server.c:887-890, "Both server_list and file_list have changed.  Update
\* all other remote server tables": the update that was begun ends.
PushEnds ==
  \A t \in Threads : pc[t] \in {"push", "pushFt"} ~> pc[t] = "await"

\* server.c:1103, "Search for this FD in the server_list", 1115, "Replicate
\* this file": the file found is the file that was closed.
CloseFindsItsFile ==
  [][\A t \in Threads : pc[t] = "search" /\ pc'[t] = "closeLoop"
                          => th'[t].f = th[t].f]_vars

\* server.c:445, "Caller must lock the global tables (modifies the file_list)".
ReplicateHoldsLocks ==
  \A t \in Threads : pc[t] \in RepPcs
                       => slock[Srv(t)] = t /\ flock[Srv(t)] = t

\* server.c:364, "Traverse all servers having this file".
RedirectsToHolder ==
  \A c \in Clients : cpc[c] = "redirected" /\ cl[c].target \in Servers
                       => disk[cl[c].target][cl[c].f] # Absent

\* No request is being served, and memory is intact.
Quiet == IndexFits /\ \A t \in Threads : pc[t] = "idle"

\* server.c:48, "These tables are globally distributed among all servers".
FileTablesAgree == Quiet => \A s \in Servers : ft[s] = ft[0]

\* server.c:1096, "If the file was opened in write mode, replicate it to all
\* servers": once all is quiet, every copy the tables name is the same.
CopiesAgree ==
  Quiet => \A s \in Servers, f \in Files :
             \A i, k \in 1 .. Len(ft[s][f].index) :
               disk[ft[s][f].index[i]][f] = disk[ft[s][f].index[k]][f]
=============================================================================
