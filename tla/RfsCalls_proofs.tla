--------------------------- MODULE RfsCalls_proofs ---------------------------
(***************************************************************************)
(* The remote calls and the mutexes of RfsServer: every call has one       *)
(* handler, every client its own thread, a mutex is held by exactly        *)
(* the thread inside the code it guards, and every server that a table     *)
(* names has the file, for any number of servers, threads and clients.     *)
(***************************************************************************)
EXTENDS RfsServer_proofs

\* None of the four is inductive alone.
Protocol == CallsPaired /\ ClientsPaired /\ ReturnsToCaller /\ LockDiscipline

\* The step leaves every other thread as it is.
Only(t) == \A x \in Threads \ {t} : pc'[x] = pc[x] /\ th'[x] = th[x]
Only2(t, u) == \A x \in Threads \ {t, u} : pc'[x] = pc[x] /\ th'[x] = th[x]

\* What a client relies on in its thread.
ForClient(x) == th[x].caller = NoThread /\ th[x].flag # "replicate"
StillForClient(x) ==
  ForClient(x) => /\ InOpen(x) \/ HasOpen(x) => ForClient(x)'
                  /\ InOpen(x) => InOpen(x)'
                  /\ HasOpen(x) => HasOpen(x)'

\* A return that was right stays right.
KeepsReturn(x) ==
  (pc[x] \in RepPcs => (th[x].ret = "open" /\ th[x].flag = "none") \/ th[x].ret = "close")
    => (pc'[x] \in RepPcs
          => (th'[x].ret = "open" /\ th'[x].flag = "none") \/ th'[x].ret = "close")

ReturnsRight(x) ==
  pc[x] \in RepPcs => (th[x].ret = "open" /\ th[x].flag = "none") \/ th[x].ret = "close"

\* A thread holds after the step what it held before.
SameLocks(x) == /\ UnderS(x)' <=> UnderS(x)
                /\ UnderBoth(x)' <=> UnderBoth(x)
                /\ UnderS(x) => th'[x].srv = th[x].srv

\* A thread that nobody called.
Free(x) == th[x].caller = NoThread /\ pc[x] \notin Calling

LEMMA NoThreadApart == NoThread \notin Threads
  BY DEF NoThread, Threads

LEMMA ThCalls ==
  ASSUME TypeOK, NEW t \in Threads
  PROVE  /\ th[t] \in ThType /\ pc[t] \in Pcs
         /\ th[t].caller \in Threads \cup {NoThread}
         /\ th[t].sub \in Threads \cup {NoThread} /\ th[t].srv \in Servers
  BY DEF TypeOK, ThType

-----------------------------------------------------------------------------
(* The calls                                                               *)

\* A handler that owes an answer, and the thread that waits for it.
LEMMA Called ==
  ASSUME TypeOK, CallsPaired, NEW t \in Threads, th[t].caller # NoThread
  PROVE  /\ th[t].caller \in Threads \ {t}
         /\ pc[th[t].caller] \in Calling /\ th[th[t].caller].sub = t
         /\ Serves(t, th[t].caller)
         /\ pc[t] \in Opening \cup {"setSt", "ackFt", "await", "write"}
<1>1. th[t].caller \in Threads
  BY ThCalls
<1>2. pc[th[t].caller] \in Calling /\ th[th[t].caller].sub = t
  BY <1>1 DEF CallsPaired
<1>3. Serves(t, th[t].caller)
  BY <1>1, <1>2 DEF CallsPaired
<1>4. pc[t] \in Opening \cup {"setSt", "ackFt", "await", "write"}
  BY <1>2, <1>3 DEF Serves, Calling, Opening
<1> QED
  BY <1>1, <1>2, <1>3, <1>4 DEF Calling, Opening

\* A thread that waits for an answer, and its handler.
LEMMA Calls ==
  ASSUME TypeOK, CallsPaired, NEW t \in Threads, pc[t] \in Calling
  PROVE  /\ th[t].sub \in Threads \ {t} /\ th[th[t].sub].caller = t
         /\ Serves(th[t].sub, t) /\ th[t].caller = NoThread
         /\ pc[th[t].sub] \notin Calling
<1>1. th[t].sub \in Threads /\ th[th[t].sub].caller = t /\ Serves(th[t].sub, t)
  BY DEF CallsPaired
<1>2. pc[th[t].sub] \notin Calling
  BY <1>1 DEF Serves, Calling, Opening
<1>3. th[t].caller = NoThread
  <2> SUFFICES ASSUME th[t].caller # NoThread PROVE FALSE
    OBVIOUS
  <2> QED
    BY Called DEF Calling, Opening
<1> QED
  BY <1>1, <1>2, <1>3

\* Nobody has called a thread that is anywhere else.
LEMMA Uncalled ==
  ASSUME TypeOK, CallsPaired, NEW t \in Threads,
         \/ pc[t] \notin Opening \cup {"setSt", "ackFt", "await", "write"}
         \/ pc[t] \in Opening /\ th[t].flag # "replicate"
  PROVE  th[t].caller = NoThread
<1> SUFFICES ASSUME th[t].caller # NoThread PROVE FALSE
  OBVIOUS
<1>1. pc[t] \in Opening /\ th[t].flag # "replicate"
  BY Called
<1> QED
  BY <1>1, Called DEF Serves, Calling, Opening

\* A step of threads that take no part in a call.
LEMMA CallsApart ==
  ASSUME TypeOK, CallsPaired, NEW t \in Threads, NEW u \in Threads, Only2(t, u),
         Free(t), Free(u), Free(t)', Free(u)', pc'[t] # "write", pc'[u] # "write",
         pc'[t] \in Opening => th'[t].flag # "replicate",
         pc'[u] \in Opening => th'[u].flag # "replicate"
  PROVE  CallsPaired'
<1>1. ASSUME NEW k \in Threads, pc'[k] \in Calling
      PROVE  th'[k].sub \in Threads /\ th'[th'[k].sub].caller = k
             /\ Serves(th[k].sub, k)'
  <2>1. k \notin {t, u} /\ pc'[k] = pc[k] /\ th'[k] = th[k]
    BY <1>1 DEF Only2, Free
  <2>2. th[k].sub \in Threads /\ th[th[k].sub].caller = k /\ Serves(th[k].sub, k)
    BY <1>1, <2>1, Calls
  <2>3. th[k].sub \notin {t, u}
    BY <2>2, NoThreadApart DEF Free
  <2>4. pc'[th[k].sub] = pc[th[k].sub] /\ th'[th[k].sub] = th[th[k].sub]
    BY <2>2, <2>3 DEF Only2
  <2> QED
    BY <2>1, <2>2, <2>4 DEF Serves
<1>2. ASSUME NEW k \in Threads, th'[k].caller # NoThread
      PROVE  pc'[th'[k].caller] \in Calling /\ th'[th'[k].caller].sub = k
  <2>1. k \notin {t, u} /\ th'[k] = th[k]
    BY <1>2 DEF Only2, Free
  <2>2. th[k].caller \in Threads /\ pc[th[k].caller] \in Calling
        /\ th[th[k].caller].sub = k
    BY <1>2, <2>1, Called
  <2>3. th[k].caller \notin {t, u}
    BY <2>2 DEF Free
  <2> QED
    BY <2>1, <2>2, <2>3 DEF Only2
<1>3. ASSUME NEW k \in Threads,
             \/ pc'[k] \in Opening /\ th'[k].flag = "replicate"
             \/ pc'[k] = "write"
      PROVE  th'[k].caller # NoThread
  BY <1>3 DEF Only2, CallsPaired
<1> QED
  BY <1>1, <1>2, <1>3 DEF CallsPaired

\* A step of a handler, before its answer.
LEMMA CallsServed ==
  ASSUME TypeOK, CallsPaired, NEW t \in Threads, Only(t), th' = th,
         \/ pc[t] \in Opening /\ pc'[t] \in Opening
         \/ pc[t] = "setSt" /\ pc'[t] = "ackFt"
  PROVE  CallsPaired'
<1>1. ASSUME NEW k \in Threads, pc'[k] \in Calling
      PROVE  th[k].sub \in Threads /\ th[th[k].sub].caller = k /\ Serves(th[k].sub, k)'
  <2>1. k # t /\ pc'[k] = pc[k]
    BY <1>1 DEF Calling, Opening, Only
  <2>2. th[k].sub \in Threads /\ th[th[k].sub].caller = k /\ Serves(th[k].sub, k)
    BY <1>1, <2>1 DEF CallsPaired
  <2>3. CASE th[k].sub # t
    BY <2>1, <2>2, <2>3 DEF Serves, Only
  <2>4. CASE th[k].sub = t
    BY <2>1, <2>2, <2>4, <1>1 DEF Serves, Opening, Calling
  <2> QED
    BY <2>2, <2>3, <2>4
<1>2. ASSUME NEW k \in Threads, th[k].caller # NoThread
      PROVE  pc'[th[k].caller] \in Calling /\ th[th[k].caller].sub = k
  <2>1. th[k].caller \in Threads /\ pc[th[k].caller] \in Calling
        /\ th[th[k].caller].sub = k
    BY <1>2, Called
  <2>2. th[k].caller # t
    BY <2>1 DEF Calling, Opening
  <2> QED
    BY <2>1, <2>2 DEF Only
<1>3. ASSUME NEW k \in Threads,
             \/ pc'[k] \in Opening /\ th[k].flag = "replicate"
             \/ pc'[k] = "write"
      PROVE  th[k].caller # NoThread
  BY <1>3 DEF CallsPaired, Only, Opening
<1> QED
  BY <1>1, <1>2, <1>3 DEF CallsPaired

\* t calls the new handler u.
LEMMA CallsBegin ==
  ASSUME TypeOK, CallsPaired, NEW t \in Threads, NEW u \in Threads, Only2(t, u),
         t # u, Free(t), pc[u] = "idle", pc'[t] \in Calling, pc'[u] \notin Calling,
         th'[t].sub = u, th'[t].caller = NoThread, th'[u].caller = t, Serves(u, t)'
  PROVE  CallsPaired'
<1>1. Free(u)
  BY Uncalled DEF Free, Opening, Calling
<1>2. ASSUME NEW k \in Threads, pc'[k] \in Calling
      PROVE  th'[k].sub \in Threads /\ th'[th'[k].sub].caller = k
             /\ Serves(th[k].sub, k)'
  <2>1. CASE k = t
    BY <2>1
  <2>2. CASE k # t
    <3>1. k \notin {t, u} /\ pc'[k] = pc[k] /\ th'[k] = th[k]
      BY <1>2, <2>2 DEF Only2
    <3>2. th[k].sub \in Threads /\ th[th[k].sub].caller = k /\ Serves(th[k].sub, k)
      BY <1>2, <3>1, Calls
    <3>3. th[k].sub \notin {t, u}
      BY <1>1, <3>2, NoThreadApart DEF Free
    <3>4. pc'[th[k].sub] = pc[th[k].sub] /\ th'[th[k].sub] = th[th[k].sub]
      BY <3>2, <3>3 DEF Only2
    <3> QED
      BY <3>1, <3>2, <3>4 DEF Serves
  <2> QED
    BY <2>1, <2>2
<1>3. ASSUME NEW k \in Threads, th'[k].caller # NoThread
      PROVE  pc'[th'[k].caller] \in Calling /\ th'[th'[k].caller].sub = k
  <2>1. CASE k = u
    BY <2>1
  <2>2. CASE k # u
    <3>1. k \notin {t, u} /\ th'[k] = th[k]
      BY <1>3, <2>2 DEF Only2
    <3>2. th[k].caller \in Threads /\ pc[th[k].caller] \in Calling
          /\ th[th[k].caller].sub = k
      BY <1>3, <3>1, Called
    <3>3. th[k].caller \notin {t, u}
      BY <1>1, <3>2 DEF Free
    <3> QED
      BY <3>1, <3>2, <3>3 DEF Only2
  <2> QED
    BY <2>1, <2>2
<1>4. ASSUME NEW k \in Threads,
             \/ pc'[k] \in Opening /\ th'[k].flag = "replicate"
             \/ pc'[k] = "write"
      PROVE  th'[k].caller # NoThread
  <2>1. CASE k \in {t, u}
    BY <1>4, <2>1, NoThreadApart DEF Calling, Opening
  <2>2. CASE k \notin {t, u}
    BY <1>4, <2>2 DEF Only2, CallsPaired
  <2> QED
    BY <2>1, <2>2
<1> QED
  BY <1>2, <1>3, <1>4 DEF CallsPaired

\* The call goes on: caller t and handler u move together.
LEMMA CallsGoOn ==
  ASSUME TypeOK, CallsPaired, NEW t \in Threads, NEW u \in Threads, Only2(t, u),
         pc[t] \in Calling, th[t].sub = u, pc'[t] \in Calling, Serves(u, t)',
         th'[t].sub = u, th'[t].caller = th[t].caller,
         th'[u].caller = th[u].caller, th'[u].sub = th[u].sub
  PROVE  CallsPaired'
<1>1. t # u /\ th[u].caller = t /\ th[t].caller = NoThread /\ pc[u] \notin Calling
  BY Calls
<1>2. pc'[u] \notin Calling
  BY DEF Serves, Calling, Opening
<1>3. ASSUME NEW k \in Threads, pc'[k] \in Calling
      PROVE  th'[k].sub \in Threads /\ th'[th'[k].sub].caller = k
             /\ Serves(th[k].sub, k)'
  <2>1. CASE k = t
    BY <1>1, <2>1
  <2>2. CASE k # t
    <3>1. k \notin {t, u} /\ pc'[k] = pc[k] /\ th'[k] = th[k]
      BY <1>2, <1>3, <2>2 DEF Only2
    <3>2. th[k].sub \in Threads /\ th[th[k].sub].caller = k /\ Serves(th[k].sub, k)
      BY <1>3, <3>1, Calls
    <3>3. th[k].sub \notin {t, u}
      BY <1>1, <3>1, <3>2, NoThreadApart
    <3>4. pc'[th[k].sub] = pc[th[k].sub] /\ th'[th[k].sub] = th[th[k].sub]
      BY <3>2, <3>3 DEF Only2
    <3> QED
      BY <3>1, <3>2, <3>4 DEF Serves
  <2> QED
    BY <2>1, <2>2
<1>4. ASSUME NEW k \in Threads, th'[k].caller # NoThread
      PROVE  pc'[th'[k].caller] \in Calling /\ th'[th'[k].caller].sub = k
  <2>1. CASE k = u
    BY <1>1, <2>1
  <2>2. CASE k # u
    <3>1. k \notin {t, u} /\ th'[k] = th[k]
      BY <1>1, <1>4, <2>2 DEF Only2
    <3>2. th[k].caller \in Threads /\ pc[th[k].caller] \in Calling
          /\ th[th[k].caller].sub = k
      BY <1>4, <3>1, Called
    <3>3. th[k].caller \notin {t, u}
      BY <1>1, <3>1, <3>2
    <3> QED
      BY <3>1, <3>2, <3>3 DEF Only2
  <2> QED
    BY <2>1, <2>2
<1>5. ASSUME NEW k \in Threads,
             \/ pc'[k] \in Opening /\ th'[k].flag = "replicate"
             \/ pc'[k] = "write"
      PROVE  th'[k].caller # NoThread
  <2>1. CASE k \in {t, u}
    BY <1>1, <1>5, <2>1, NoThreadApart DEF Calling, Opening
  <2>2. CASE k \notin {t, u}
    BY <1>5, <2>2 DEF Only2, CallsPaired
  <2> QED
    BY <2>1, <2>2
<1> QED
  BY <1>3, <1>4, <1>5 DEF CallsPaired

\* The last answer of a call: t goes on, and u owes nothing more.
LEMMA CallsEnd ==
  ASSUME TypeOK, CallsPaired, NEW t \in Threads, NEW u \in Threads, Only2(t, u),
         pc[t] \in Calling, th[t].sub = u, Free(t)', Free(u)',
         pc'[t] \notin Opening \cup {"write"}, pc'[u] \notin Opening \cup {"write"}
  PROVE  CallsPaired'
<1>1. t # u /\ th[u].caller = t /\ th[t].caller = NoThread /\ pc[u] \notin Calling
  BY Calls
<1>2. ASSUME NEW k \in Threads, pc'[k] \in Calling
      PROVE  th'[k].sub \in Threads /\ th'[th'[k].sub].caller = k
             /\ Serves(th[k].sub, k)'
  <2>1. k \notin {t, u} /\ pc'[k] = pc[k] /\ th'[k] = th[k]
    BY <1>2 DEF Only2, Free
  <2>2. th[k].sub \in Threads /\ th[th[k].sub].caller = k /\ Serves(th[k].sub, k)
    BY <1>2, <2>1, Calls
  <2>3. th[k].sub \notin {t, u}
    BY <1>1, <2>1, <2>2, NoThreadApart
  <2>4. pc'[th[k].sub] = pc[th[k].sub] /\ th'[th[k].sub] = th[th[k].sub]
    BY <2>2, <2>3 DEF Only2
  <2> QED
    BY <2>1, <2>2, <2>4 DEF Serves
<1>3. ASSUME NEW k \in Threads, th'[k].caller # NoThread
      PROVE  pc'[th'[k].caller] \in Calling /\ th'[th'[k].caller].sub = k
  <2>1. k \notin {t, u} /\ th'[k] = th[k]
    BY <1>3 DEF Only2, Free
  <2>2. th[k].caller \in Threads /\ pc[th[k].caller] \in Calling
        /\ th[th[k].caller].sub = k
    BY <1>3, <2>1, Called
  <2>3. th[k].caller \notin {t, u}
    BY <1>1, <2>1, <2>2
  <2> QED
    BY <2>1, <2>2, <2>3 DEF Only2
<1>4. ASSUME NEW k \in Threads,
             \/ pc'[k] \in Opening /\ th'[k].flag = "replicate"
             \/ pc'[k] = "write"
      PROVE  th'[k].caller # NoThread
  BY <1>4 DEF Only2, CallsPaired
<1> QED
  BY <1>2, <1>3, <1>4 DEF CallsPaired

-----------------------------------------------------------------------------
(* Clients, returns and mutexes                                            *)

LEMMA ClientsFrame ==
  ASSUME TypeOK, ClientsPaired, UNCHANGED <<cpc, cl>>,
         \A x \in Threads : StillForClient(x)
  PROVE  ClientsPaired'
<1> SUFFICES ASSUME NEW c \in Clients PROVE ClientPaired(c)'
  BY DEF ClientsPaired
<1> DEFINE t == cl[c].thr
<1>1. ClientPaired(c)
  BY DEF ClientsPaired
<1>2. t \in Threads \cup {NoThread} /\ cl'[c].thr = t /\ cpc'[c] = cpc[c]
  BY DEF TypeOK, ClType
<1>3. CASE t = NoThread
  BY <1>1, <1>2, <1>3 DEF ClientPaired
<1>4. CASE t # NoThread
  <2>1. t \in Threads /\ ForClient(t) /\ \A d \in Clients : cl[d].thr = t => d = c
    BY <1>1, <1>2, <1>4 DEF ClientPaired, ForClient
  <2>2. cpc[c] \in {"opening", "open", "written"}
    BY <1>1, <1>4 DEF ClientPaired, TypeOK
  <2>3. InOpen(t) \/ HasOpen(t)
    BY <1>1, <2>2 DEF ClientPaired
  <2>4. /\ th'[t].caller = NoThread /\ th'[t].flag # "replicate"
        /\ InOpen(t) => InOpen(t)'
        /\ HasOpen(t) => HasOpen(t)'
    BY <2>1, <2>3 DEF StillForClient, ForClient
  <2> QED
    BY <1>1, <1>2, <1>4, <2>1, <2>4 DEF ClientPaired
<1> QED
  BY <1>3, <1>4

LEMMA StillTheSame ==
  ASSUME NEW x \in Threads, pc'[x] = pc[x], th'[x] = th[x]
  PROVE  StillForClient(x) /\ SameLocks(x) /\ KeepsReturn(x)
  BY DEF StillForClient, SameLocks, KeepsReturn, ForClient, InOpen, HasOpen, UnderS,
         UnderBoth

LEMMA ReturnsFrame ==
  ASSUME ReturnsToCaller, \A x \in Threads : KeepsReturn(x)
  PROVE  ReturnsToCaller'
  BY DEF ReturnsToCaller, KeepsReturn

LEMMA LocksFrame ==
  ASSUME LockDiscipline, UNCHANGED locks, \A x \in Threads : SameLocks(x)
  PROVE  LockDiscipline'
<1> SUFFICES ASSUME NEW s \in Servers, NEW t \in Threads
             PROVE  /\ slock'[s] = t <=> UnderS(t)' /\ th'[t].srv = s
                    /\ flock'[s] = t <=> UnderBoth(t)' /\ th'[t].srv = s
  BY DEF LockDiscipline, Srv
<1>1. UNCHANGED <<slock, flock>> /\ SameLocks(t)
  BY DEF locks
<1>2. /\ slock[s] = t <=> UnderS(t) /\ th[t].srv = s
      /\ flock[s] = t <=> UnderBoth(t) /\ th[t].srv = s
  BY DEF LockDiscipline, Srv
<1>3. UnderBoth(t) => UnderS(t)
  BY DEF UnderS
<1> QED
  BY <1>1, <1>2, <1>3 DEF SameLocks

\* Who holds both mutexes gives both back.
LEMMA LocksBack ==
  ASSUME TypeOK, LockDiscipline, NEW t \in Threads, UnderBoth(t), Unlock(Srv(t)),
         ~UnderS(t)', \A x \in Threads \ {t} : SameLocks(x)
  PROVE  LockDiscipline'
<1> SUFFICES ASSUME NEW s \in Servers, NEW x \in Threads
             PROVE  /\ slock'[s] = x <=> UnderS(x)' /\ th'[x].srv = s
                    /\ flock'[s] = x <=> UnderBoth(x)' /\ th'[x].srv = s
  BY DEF LockDiscipline, Srv
<1>1. /\ slock'[s] = IF s = Srv(t) THEN NoThread ELSE slock[s]
      /\ flock'[s] = IF s = Srv(t) THEN NoThread ELSE flock[s]
  BY DEF Unlock, TypeOK
<1>2. slock[Srv(t)] = t /\ flock[Srv(t)] = t
  BY ThCalls DEF LockDiscipline, UnderS, Srv
<1>3. /\ slock[s] = x <=> UnderS(x) /\ th[x].srv = s
      /\ flock[s] = x <=> UnderBoth(x) /\ th[x].srv = s
  BY DEF LockDiscipline, Srv
<1>4. UnderBoth(x)' => UnderS(x)'
  BY DEF UnderS
<1>5. CASE x = t
  BY <1>1, <1>3, <1>4, <1>5, NoThreadApart DEF UnderS, Srv
<1>6. CASE x # t
  <2>1. SameLocks(x) /\ (UnderBoth(x) => UnderS(x))
    BY <1>6 DEF UnderS
  <2>2. CASE s = Srv(t)
    BY <1>1, <1>2, <1>3, <1>6, <2>1, <2>2, NoThreadApart DEF SameLocks
  <2>3. CASE s # Srv(t)
    BY <1>1, <1>3, <2>1, <2>3 DEF SameLocks
  <2> QED
    BY <2>2, <2>3
<1> QED
  BY <1>5, <1>6

\* A step that concerns client c only, whose thread is now v.
LEMMA ClientsChange ==
  ASSUME TypeOK, ClientsPaired, NEW c \in Clients, NEW v \in Threads \cup {NoThread},
         \A d \in Clients \ {c} : cpc'[d] = cpc[d] /\ cl'[d] = cl[d],
         \A x \in Threads \ {cl[c].thr} : StillForClient(x),
         cl'[c].thr = v, v \in {NoThread, cl[c].thr} \/ pc[v] = "idle",
         cpc'[c] \in {"idle", "redirected"} <=> v = NoThread,
         v # NoThread => ForClient(v)',
         cpc'[c] = "opening" => InOpen(v)',
         cpc'[c] \in {"open", "written"} => HasOpen(v)'
  PROVE  ClientsPaired'
<1>1. ASSUME NEW d \in Clients \ {c}, cl[d].thr # NoThread
      PROVE  /\ cl[d].thr \in Threads \ {v, cl[c].thr}
             /\ ForClient(cl[d].thr) /\ ClientPaired(d)
             /\ InOpen(cl[d].thr) \/ HasOpen(cl[d].thr)
  <2>1. ClientPaired(d) /\ cl[d].thr \in Threads
    BY <1>1 DEF ClientsPaired, TypeOK, ClType
  <2>2. ForClient(cl[d].thr) /\ cl[d].thr # cl[c].thr
    BY <1>1, <2>1 DEF ClientPaired, ForClient
  <2>3. cpc[d] \in {"opening", "open", "written"}
    BY <1>1, <2>1 DEF ClientPaired, TypeOK
  <2>4. InOpen(cl[d].thr) \/ HasOpen(cl[d].thr)
    BY <2>1, <2>3 DEF ClientPaired
  <2>5. pc[cl[d].thr] # "idle"
    BY <2>4 DEF InOpen, HasOpen, Opening, RepPcs
  <2> QED
    BY <1>1, <2>1, <2>2, <2>4, <2>5
<1>2. ASSUME NEW d \in Clients \ {c} PROVE ClientPaired(d)'
  <2>1. cpc'[d] = cpc[d] /\ cl'[d] = cl[d] /\ ClientPaired(d)
    BY DEF ClientsPaired
  <2>2. CASE cl[d].thr = NoThread
    BY <2>1, <2>2 DEF ClientPaired
  <2>3. CASE cl[d].thr # NoThread
    <3> DEFINE t == cl[d].thr
    <3>1. t \in Threads \ {v, cl[c].thr} /\ ForClient(t) /\ (InOpen(t) \/ HasOpen(t))
      BY <1>1, <2>3
    <3>2. /\ th'[t].caller = NoThread /\ th'[t].flag # "replicate"
          /\ InOpen(t) => InOpen(t)'
          /\ HasOpen(t) => HasOpen(t)'
      BY <3>1 DEF StillForClient, ForClient
    <3>3. \A e \in Clients : cl'[e].thr = t => e = d
      BY <2>1, <2>3, <3>1 DEF ClientPaired
    <3> QED
      BY <2>1, <2>3, <3>1, <3>2, <3>3 DEF ClientPaired
  <2> QED
    BY <2>2, <2>3
<1>3. ClientPaired(c)'
  <2>1. ASSUME v # NoThread, NEW e \in Clients, cl'[e].thr = v PROVE e = c
    BY <1>1, <2>1
  <2> QED
    BY <2>1 DEF ClientPaired, ForClient
<1> QED
  BY <1>2, <1>3 DEF ClientsPaired

-----------------------------------------------------------------------------
(* Steps                                                                   *)

\* Nothing is disturbed but t, and t keeps what others rely on.
LEMMA StepOfOne ==
  ASSUME TypeOK, Protocol, NEW t \in Threads, Only(t), Free(t), Free(t)',
         pc'[t] # "write", pc'[t] \in Opening => th'[t].flag # "replicate",
         ReturnsRight(t)'
  PROVE  /\ CallsPaired' /\ ReturnsToCaller'
         /\ \A x \in Threads \ {t} : StillForClient(x) /\ SameLocks(x)
<1>1. Only2(t, t)
  BY DEF Only, Only2
<1>2. CallsPaired'
  BY <1>1, CallsApart DEF Protocol
<1>3. \A x \in Threads \ {t} : StillForClient(x) /\ SameLocks(x) /\ KeepsReturn(x)
  BY StillTheSame DEF Only
<1>4. ReturnsToCaller'
  BY <1>3, ReturnsFrame DEF Protocol, ReturnsRight, KeepsReturn
<1> QED
  BY <1>2, <1>3, <1>4

\* ... and no client and no mutex changes.
LEMMA QuietStep ==
  ASSUME TypeOK, Protocol, NEW t \in Threads, Only(t), Free(t), Free(t)',
         pc'[t] # "write", pc'[t] \in Opening => th'[t].flag # "replicate",
         ReturnsRight(t)', UNCHANGED <<cpc, cl, locks>>, StillForClient(t), SameLocks(t)
  PROVE  Protocol'
<1>1. /\ CallsPaired' /\ ReturnsToCaller'
      /\ \A x \in Threads : StillForClient(x) /\ SameLocks(x)
  BY StepOfOne
<1>2. ClientsPaired'
  BY <1>1, ClientsFrame DEF Protocol
<1>3. LockDiscipline'
  BY <1>1, LocksFrame DEF Protocol
<1> QED
  BY <1>1, <1>2, <1>3 DEF Protocol

\* What t gives up when its connection ends.
LEMMA Ended ==
  ASSUME TypeOK, NEW t \in Threads, Ends(t)
  PROVE  /\ Only(t) /\ Free(t)' /\ pc'[t] = "idle" /\ ReturnsRight(t)'
         /\ ~UnderS(t)' /\ ~UnderBoth(t)'
<1>1. /\ pc'[t] = "idle" /\ th'[t] = NullTh /\ Only(t)
  BY DEF Ends, TypeOK, Only
<1> QED
  BY <1>1 DEF Free, ReturnsRight, UnderS, UnderBoth, NullTh, Handler, Calling, RepPcs

-----------------------------------------------------------------------------
(* server_open                                                             *)

\* The steps of server_open that wait for nobody else, up to the choice.
LEMMA OpeningStep ==
  ASSUME TypeOK, Protocol, NEW t \in Threads,
         OpenLockS(t) \/ OpenLockF(t) \/ ChooseSelf(t)
  PROVE  Protocol'
<1>1. /\ pc[t] \in Opening \ {"serve"} /\ pc'[t] \in Opening /\ th' = th
      /\ Only(t) /\ UNCHANGED <<cpc, cl>>
  BY DEF OpenLockS, OpenLockF, ChooseSelf, At, Opening, Only, TypeOK, clients
<1>2. CallsPaired'
  BY <1>1, CallsServed DEF Protocol
<1>3. \A x \in Threads \ {t} : StillForClient(x) /\ SameLocks(x) /\ KeepsReturn(x)
  BY <1>1, StillTheSame DEF Only
<1>4. StillForClient(t) /\ KeepsReturn(t)
  BY <1>1 DEF StillForClient, ForClient, InOpen, HasOpen, KeepsReturn, Opening, RepPcs
<1>5. ClientsPaired'
  BY <1>1, <1>3, <1>4, ClientsFrame DEF Protocol
<1>6. ReturnsToCaller'
  BY <1>3, <1>4, ReturnsFrame DEF Protocol
<1>7. LockDiscipline'
  <2>1. CASE ChooseSelf(t)
    <3>1. SameLocks(t) /\ UNCHANGED locks
      BY <1>1, <2>1 DEF ChooseSelf, At, SameLocks, UnderS, UnderBoth, RepPcs, TypeOK
    <3> QED
      BY <1>3, <3>1, LocksFrame DEF Protocol
  <2>2. SUFFICES ASSUME OpenLockS(t) \/ OpenLockF(t), NEW s \in Servers, NEW x \in Threads
                 PROVE  /\ slock'[s] = x <=> UnderS(x)' /\ th[x].srv = s
                        /\ flock'[s] = x <=> UnderBoth(x)' /\ th[x].srv = s
    BY <1>1, <2>1 DEF LockDiscipline, Srv
  <2>3. /\ slock[s] = x <=> UnderS(x) /\ th[x].srv = s
        /\ flock[s] = x <=> UnderBoth(x) /\ th[x].srv = s
    BY DEF Protocol, LockDiscipline, Srv
  <2> x # t => SameLocks(x)
    BY <1>3
  <2>4. CASE OpenLockS(t)
    <3>1. /\ ~UnderS(t) /\ UnderS(t)' /\ ~UnderBoth(t)' /\ ~UnderBoth(t)
          /\ slock[Srv(t)] = NoThread /\ UNCHANGED flock
          /\ slock' = [slock EXCEPT ![Srv(t)] = t]
      BY <2>4 DEF OpenLockS, At, UnderS, UnderBoth, RepPcs, TypeOK
    <3>2. slock'[s] = IF s = th[t].srv THEN t ELSE slock[s]
      BY <3>1 DEF TypeOK, Srv
    <3> QED
      BY <2>3, <3>1, <3>2, NoThreadApart DEF SameLocks, Srv
  <2>5. CASE OpenLockF(t)
    <3>1. /\ UnderS(t) /\ UnderS(t)' /\ UnderBoth(t)' /\ ~UnderBoth(t)
          /\ flock[Srv(t)] = NoThread /\ UNCHANGED slock
          /\ flock' = [flock EXCEPT ![Srv(t)] = t]
      BY <2>5 DEF OpenLockF, At, UnderS, UnderBoth, RepPcs, TypeOK
    <3>2. flock'[s] = IF s = th[t].srv THEN t ELSE flock[s]
      BY <3>1 DEF TypeOK, Srv
    <3> QED
      BY <2>3, <3>1, <3>2, NoThreadApart DEF SameLocks, Srv
  <2> QED
    BY <2>2, <2>4, <2>5
<1> QED
  BY <1>2, <1>5, <1>6, <1>7 DEF Protocol

LEMMA ChooseReplicateStep ==
  ASSUME TypeOK, Protocol, NEW t \in Threads, ChooseReplicate(t)
  PROVE  Protocol'
<1>1. /\ pc[t] = "choose" /\ pc'[t] = "repConnect" /\ th[t].flag = "none" /\ Only(t)
      /\ UNCHANGED <<cpc, cl, locks>>
  BY DEF ChooseReplicate, Replicates, At, Only, TypeOK, clients
<1>2. /\ th'[t].ret = "open" /\ th'[t].flag = "none" /\ th'[t].srv = th[t].srv
      /\ th'[t].caller = th[t].caller
  BY <1>1, ThCalls DEF ChooseReplicate, TypeOK, ThType
<1>3. Free(t) /\ Free(t)'
  BY <1>1, <1>2, Uncalled DEF Free, Opening, Calling, Protocol
<1>4. StillForClient(t) /\ SameLocks(t) /\ ReturnsRight(t)'
  BY <1>1, <1>2 DEF StillForClient, ForClient, SameLocks, ReturnsRight, InOpen, HasOpen,
     UnderS, UnderBoth, Opening, RepPcs
<1> QED
  BY <1>1, <1>3, <1>4, QuietStep DEF Opening

\* The client is told to go elsewhere, or that the open failed.
LEMMA ReleaseStep ==
  ASSUME TypeOK, Protocol, NEW t \in Threads, ChooseRedirect(t) \/ OpenFails(t)
  PROVE  Protocol'
<1>1. /\ pc[t] \in {"choose", "serve"} /\ Ends(t) /\ Unlock(Srv(t))
      /\ UnderBoth(t)
  BY DEF ChooseRedirect, OpenFails, At, UnderBoth
<1>2. PICK c \in Clients :
        /\ cpc[c] = "opening" /\ cl[c].thr = t
        /\ \/ cpc' = [cpc EXCEPT ![c] = "redirected"]
              /\ cl' = [cl EXCEPT ![c].thr = NoThread, ![c].target = Chosen(t)]
           \/ cpc' = [cpc EXCEPT ![c] = "idle"] /\ cl' = [cl EXCEPT ![c] = NullCl]
  BY DEF ChooseRedirect, OpenFails
<1>3. /\ cpc'[c] \in {"idle", "redirected"} /\ cl'[c].thr = NoThread
      /\ \A d \in Clients \ {c} : cpc'[d] = cpc[d] /\ cl'[d] = cl[d]
  BY <1>2 DEF TypeOK, ClType, NullCl
<1>4. th[t].caller = NoThread
  BY <1>2, NoThreadApart DEF Protocol, ClientsPaired, ClientPaired
<1>5. /\ Only(t) /\ Free(t)' /\ pc'[t] = "idle" /\ ReturnsRight(t)' /\ ~UnderS(t)'
      /\ Free(t)
  BY <1>1, <1>4, Ended DEF Free, Calling
<1>6. /\ CallsPaired' /\ ReturnsToCaller'
      /\ \A x \in Threads \ {t} : StillForClient(x) /\ SameLocks(x)
  BY <1>5, StepOfOne DEF Opening
<1>7. ClientsPaired'
  BY <1>2, <1>3, <1>6, ClientsChange DEF Protocol
<1>8. LockDiscipline'
  BY <1>1, <1>5, <1>6, LocksBack DEF Protocol
<1> QED
  BY <1>6, <1>7, <1>8 DEF Protocol

LEMMA OpenForClientStep ==
  ASSUME TypeOK, Protocol, NEW t \in Threads, OpenForClient(t)
  PROVE  Protocol'
<1>1. /\ pc[t] = "serve" /\ pc'[t] = "push" /\ th[t].flag # "replicate" /\ Only(t)
      /\ UNCHANGED <<cl, locks>>
  BY DEF OpenForClient, At, Only, TypeOK
<1>2. /\ th'[t].flag = th[t].flag /\ th'[t].srv = th[t].srv
      /\ th'[t].caller = th[t].caller
  BY ThCalls DEF OpenForClient, TypeOK, ThType
<1>3. PICK c \in Clients : /\ cpc[c] = "opening" /\ cl[c].thr = t
                           /\ cpc' = [cpc EXCEPT ![c] = "open"]
  BY DEF OpenForClient
<1>4. Free(t) /\ Free(t)' /\ ForClient(t)' /\ HasOpen(t)'
  BY <1>1, <1>2, Uncalled DEF Free, ForClient, HasOpen, Opening, Calling, Protocol
<1>5. ReturnsRight(t)' /\ SameLocks(t)
  BY <1>1, <1>2 DEF ReturnsRight, SameLocks, UnderS, UnderBoth, RepPcs
<1>6. /\ CallsPaired' /\ ReturnsToCaller'
      /\ \A x \in Threads \ {t} : StillForClient(x) /\ SameLocks(x)
  BY <1>1, <1>4, <1>5, StepOfOne DEF Opening
<1>7. ClientsPaired'
  <2>1. cpc'[c] = "open" /\ cl'[c].thr = t
        /\ \A d \in Clients \ {c} : cpc'[d] = cpc[d] /\ cl'[d] = cl[d]
    BY <1>1, <1>3 DEF TypeOK
  <2> QED
    BY <1>3, <1>4, <1>6, <2>1, ClientsChange, NoThreadApart DEF Protocol
<1>8. LockDiscipline'
  BY <1>1, <1>5, <1>6, LocksFrame DEF Protocol
<1> QED
  BY <1>6, <1>7, <1>8 DEF Protocol

\* Nothing is disturbed but t and u, who are in no client's way.
LEMMA FramesOfTwo ==
  ASSUME TypeOK, Protocol, NEW t \in Threads, NEW u \in Threads, Only2(t, u),
         UNCHANGED <<cpc, cl>>, StillForClient(t), StillForClient(u),
         KeepsReturn(t), KeepsReturn(u)
  PROVE  /\ ClientsPaired' /\ ReturnsToCaller'
         /\ \A x \in Threads \ {t, u} : SameLocks(x)
<1>1. \A x \in Threads \ {t, u} : StillForClient(x) /\ SameLocks(x) /\ KeepsReturn(x)
  BY StillTheSame DEF Only2
<1>2. ClientsPaired'
  BY <1>1, ClientsFrame DEF Protocol
<1>3. ReturnsToCaller'
  BY <1>1, ReturnsFrame DEF Protocol
<1> QED
  BY <1>1, <1>2, <1>3

LEMMA FramesAndLocks ==
  ASSUME TypeOK, Protocol, NEW t \in Threads, NEW u \in Threads, Only2(t, u),
         UNCHANGED <<cpc, cl, locks>>, StillForClient(t), StillForClient(u),
         KeepsReturn(t), KeepsReturn(u), SameLocks(t), SameLocks(u)
  PROVE  ClientsPaired' /\ ReturnsToCaller' /\ LockDiscipline'
<1>1. /\ ClientsPaired' /\ ReturnsToCaller'
      /\ \A x \in Threads \ {t, u} : SameLocks(x)
  BY FramesOfTwo
<1>2. LockDiscipline'
  BY <1>1, LocksFrame DEF Protocol
<1> QED
  BY <1>1, <1>2

\* The handler of a replication's open, and the thread that replicates.
LEMMA OpenForReplicaStep ==
  ASSUME TypeOK, Protocol, NEW u \in Threads, OpenForReplica(u)
  PROVE  Protocol'
<1>0. th[u].caller \in Threads
  <2>1. pc[u] = "serve" /\ th[u].flag = "replicate"
    BY DEF OpenForReplica, At
  <2> QED
    BY <2>1, ThCalls DEF Protocol, CallsPaired, Opening
<1> PICK t \in Threads : t = th[u].caller
  BY <1>0
<1>1. /\ pc[u] = "serve" /\ th[u].flag = "replicate" /\ Unlock(Srv(u))
      /\ pc' = [pc EXCEPT ![u] = "await", ![t] = "repRead"]
      /\ \E fd \in Threads : th' = [th EXCEPT ![u].fd = fd]
      /\ UNCHANGED <<cpc, cl>>
  BY DEF OpenForReplica, At, clients
<1>2. /\ t \in Threads \ {u} /\ pc[t] = "repOpen" /\ th[t].sub = u
      /\ Serves(u, t) /\ th[t].caller = NoThread
  <2>1. th[u].caller # NoThread
    BY NoThreadApart
  <2>2. t \in Threads \ {u} /\ pc[t] \in Calling /\ th[t].sub = u /\ Serves(u, t)
    BY <2>1, Called DEF Protocol
  <2>3. pc[t] = "repOpen" /\ th[t].caller = NoThread
    BY <1>1, <2>2, Calls DEF Serves, Calling, Protocol
  <2> QED
    BY <2>2, <2>3
<1>3. /\ pc'[u] = "await" /\ pc'[t] = "repRead" /\ Only2(t, u) /\ th'[t] = th[t]
      /\ th'[u].flag = th[u].flag /\ th'[u].srv = th[u].srv /\ th'[u].mode = th[u].mode
      /\ th'[u].caller = th[u].caller /\ th'[u].sub = th[u].sub /\ th'[u].f = th[u].f
  <2>1. pc'[u] = "await" /\ pc'[t] = "repRead"
    BY <1>1, <1>2 DEF TypeOK
  <2>2. PICK fd \in Threads : th' = [th EXCEPT ![u].fd = fd]
    BY <1>1
  <2>3. Only2(t, u) /\ th'[t] = th[t]
    BY <1>1, <1>2, <2>2 DEF TypeOK, Only2
  <2>4. th'[u] = [th[u] EXCEPT !.fd = fd] /\ th[u] \in ThType
    BY <2>2, ThCalls DEF TypeOK
  <2> QED
    BY <2>1, <2>3, <2>4 DEF ThType
<1>4. Serves(u, t)'
  BY <1>2, <1>3 DEF Serves
<1>5. CallsPaired'
  BY <1>2, <1>3, <1>4, CallsGoOn DEF Calling, Protocol
<1>6. /\ StillForClient(t) /\ StillForClient(u) /\ KeepsReturn(t) /\ KeepsReturn(u)
      /\ SameLocks(t) /\ ~UnderS(u)' /\ UnderBoth(u)
  BY <1>1, <1>2, <1>3 DEF StillForClient, ForClient, InOpen, HasOpen, KeepsReturn, SameLocks,
     UnderS, UnderBoth, Opening, RepPcs
<1>7. ClientsPaired' /\ ReturnsToCaller' /\ \A x \in Threads \ {t, u} : SameLocks(x)
  BY <1>1, <1>2, <1>3, <1>6, FramesOfTwo
<1>8. LockDiscipline'
  BY <1>1, <1>6, <1>7, LocksBack DEF Protocol
<1> QED
  BY <1>5, <1>7, <1>8 DEF Protocol

-----------------------------------------------------------------------------
(* The push                                                                *)

LEMMA PushStStep ==
  ASSUME TypeOK, Protocol, NEW t \in Threads, NEW u \in Threads, PushSt(t, u)
  PROVE  Protocol'
<1>1. /\ pc[t] = "push" /\ pc[u] = "idle" /\ t # u /\ UNCHANGED <<cpc, cl, locks>>
      /\ pc'[t] = "pushFt" /\ pc'[u] = "setSt" /\ Only2(t, u)
  BY DEF PushSt, At, Fresh, Only2, TypeOK, clients
<1>2. /\ th'[t].sub = u /\ th'[t].caller = th[t].caller /\ th'[t].srv = th[t].srv
      /\ th'[t].flag = th[t].flag /\ th'[t].ret = th[t].ret
      /\ th'[u].caller = t /\ th'[u].ret = "none"
  <2>1. /\ th'[t] = [th[t] EXCEPT !.sub = u] /\ th[t] \in ThType
        /\ th'[u] = Handler(th[t].j, t, 0, "none", "read")
    BY <1>1, ThCalls DEF PushSt, TypeOK
  <2> QED
    BY <2>1 DEF ThType, Handler
<1>3. Free(t) /\ th[u].caller = NoThread
  BY <1>1, Uncalled DEF Free, Opening, Calling, Protocol
<1>4. CallsPaired'
  <2>1. Serves(u, t)'
    BY <1>1 DEF Serves
  <2> QED
    BY <1>1, <1>2, <1>3, <2>1, CallsBegin DEF Calling, Protocol, Free
<1>5. /\ StillForClient(t) /\ StillForClient(u) /\ KeepsReturn(t) /\ KeepsReturn(u)
      /\ SameLocks(t) /\ SameLocks(u)
  BY <1>1, <1>2 DEF StillForClient, ForClient, InOpen, HasOpen, KeepsReturn, SameLocks,
     UnderS, UnderBoth, Opening, RepPcs
<1> QED
  BY <1>1, <1>4, <1>5, FramesAndLocks DEF Protocol

LEMMA PushFtStep ==
  ASSUME TypeOK, Protocol, NEW t \in Threads, PushFt(t)
  PROVE  Protocol'
<1>0. pc[t] \in Calling
  BY DEF PushFt, At, Calling
<1> PICK u \in Threads : u = th[t].sub
  BY <1>0, Calls DEF Protocol
<1>1. /\ pc[t] = "pushFt" /\ pc[u] = "ackFt" /\ UNCHANGED <<cpc, cl, locks>>
      /\ u \in Threads \ {t} /\ th[u].caller = t /\ th[t].caller = NoThread
  BY Calls DEF PushFt, At, clients, Calling, Protocol
<1>2. /\ pc'[t] = "push" /\ pc'[u] = "setFt" /\ Only2(t, u)
  BY <1>1 DEF PushFt, TypeOK, Only2
<1>3. /\ th'[t].caller = th[t].caller /\ th'[t].srv = th[t].srv
      /\ th'[t].flag = th[t].flag /\ th'[t].ret = th[t].ret
      /\ th'[u].caller = NoThread
  <2>1. th'[u] = [th[u] EXCEPT !.caller = NoThread] /\ th[u] \in ThType /\ th[t] \in ThType
    BY <1>1, ThCalls DEF PushFt, TypeOK
  <2>2. th'[t].caller = th[t].caller /\ th'[t].srv = th[t].srv
        /\ th'[t].flag = th[t].flag /\ th'[t].ret = th[t].ret
    BY <1>1, <2>1 DEF PushFt, TypeOK, ThType
  <2> QED
    BY <2>1, <2>2 DEF ThType
<1>4. Free(t)' /\ Free(u)'
  BY <1>1, <1>2, <1>3 DEF Free, Calling
<1>6. CallsPaired'
  BY <1>1, <1>2, <1>4, CallsEnd DEF Calling, Opening, Protocol
<1>7. /\ StillForClient(t) /\ StillForClient(u) /\ KeepsReturn(t) /\ KeepsReturn(u)
      /\ SameLocks(t) /\ SameLocks(u)
  BY <1>1, <1>2, <1>3 DEF StillForClient, ForClient, InOpen, HasOpen, KeepsReturn, SameLocks,
     UnderS, UnderBoth, Opening, RepPcs
<1> QED
  BY <1>1, <1>2, <1>6, <1>7, FramesAndLocks DEF Protocol

LEMMA PushUnreachableStep ==
  ASSUME TypeOK, Protocol, NEW t \in Threads, PushUnreachable(t)
  PROVE  Protocol'
<1>1. /\ pc[t] = "push" /\ pc'[t] = "push" /\ Only(t) /\ UNCHANGED <<cpc, cl, locks>>
  BY DEF PushUnreachable, At, clients, TypeOK, Only
<1>2. /\ th'[t].caller = th[t].caller /\ th'[t].srv = th[t].srv
      /\ th'[t].flag = th[t].flag /\ th'[t].ret = th[t].ret
  BY ThCalls DEF PushUnreachable, TypeOK, ThType
<1>3. Free(t) /\ Free(t)'
  BY <1>1, <1>2, Uncalled DEF Free, Opening, Calling, Protocol
<1>4. StillForClient(t) /\ SameLocks(t) /\ ReturnsRight(t)'
  BY <1>1, <1>2 DEF StillForClient, ForClient, SameLocks, ReturnsRight, InOpen, HasOpen,
     UnderS, UnderBoth, Opening, RepPcs
<1> QED
  BY <1>1, <1>3, <1>4, QuietStep DEF Opening

LEMMA SetStStep ==
  ASSUME TypeOK, Protocol, NEW t \in Threads, SetSt(t)
  PROVE  Protocol'
<1>1. /\ pc[t] = "setSt" /\ pc'[t] = "ackFt" /\ th' = th /\ Only(t) /\ Only2(t, t)
      /\ UNCHANGED <<cpc, cl, locks>>
  BY DEF SetSt, At, clients, TypeOK, Only, Only2
<1>2. CallsPaired'
  BY <1>1, CallsServed DEF Protocol
<1>3. StillForClient(t) /\ KeepsReturn(t) /\ SameLocks(t)
  BY <1>1 DEF StillForClient, ForClient, SameLocks, KeepsReturn, InOpen, HasOpen,
     UnderS, UnderBoth, Opening, RepPcs
<1> QED
  BY <1>1, <1>2, <1>3, FramesAndLocks DEF Protocol

\* A handler that no client and nobody else knows comes to its end.
LEMMA EndStep ==
  ASSUME TypeOK, Protocol, NEW t \in Threads, Ends(t), UNCHANGED <<cpc, cl, locks>>,
         pc[t] \in {"setFt", "search", "closeLoop"}
  PROVE  Protocol'
<1>1. /\ Only(t) /\ Free(t)' /\ pc'[t] = "idle" /\ ReturnsRight(t)' /\ ~UnderS(t)'
      /\ ~UnderBoth(t)'
  BY Ended
<1>2. Free(t)
  BY Uncalled DEF Free, Opening, Calling, Protocol
<1>3. StillForClient(t) /\ SameLocks(t)
  BY <1>1 DEF StillForClient, SameLocks, UnderS, UnderBoth, InOpen, HasOpen, Opening, RepPcs
<1> QED
  BY <1>1, <1>2, <1>3, QuietStep DEF Opening

LEMMA PushEndStep ==
  ASSUME TypeOK, Protocol, NEW t \in Threads, PushEnd(t)
  PROVE  Protocol'
<1>1. /\ pc[t] = "push" /\ pc'[t] = "await" /\ Only(t) /\ th' = th /\ UNCHANGED <<cpc, cl>>
      /\ Unlock(Srv(t))
  BY DEF PushEnd, At, clients, TypeOK, Only
<1>2. Free(t) /\ Free(t)'
  BY <1>1, Uncalled DEF Free, Opening, Calling, Protocol
<1>3. StillForClient(t) /\ ReturnsRight(t)' /\ UnderBoth(t) /\ ~UnderS(t)'
  BY <1>1 DEF StillForClient, ForClient, ReturnsRight, InOpen, HasOpen, UnderS, UnderBoth,
     Opening, RepPcs
<1>4. /\ CallsPaired' /\ ReturnsToCaller'
      /\ \A x \in Threads \ {t} : StillForClient(x) /\ SameLocks(x)
  BY <1>1, <1>2, <1>3, StepOfOne DEF Opening
<1>5. ClientsPaired'
  BY <1>1, <1>3, <1>4, ClientsFrame DEF Protocol
<1>6. LockDiscipline'
  BY <1>1, <1>3, <1>4, LocksBack DEF Protocol
<1> QED
  BY <1>4, <1>5, <1>6 DEF Protocol

-----------------------------------------------------------------------------
(* replicate                                                               *)

\* What is known where replicate begins or returns.
LEMMA AtReplicate ==
  ASSUME TypeOK, Protocol, NEW t \in Threads, pc[t] \in {"repConnect", "repDone"}
  PROVE  /\ Free(t) /\ ReturnsRight(t)
         /\ UnderS(t) <=> th[t].ret = "open"
         /\ UnderBoth(t) <=> th[t].ret = "open"
         /\ InOpen(t) <=> th[t].ret = "open"
         /\ ~HasOpen(t)
<1>1. Free(t)
  BY Uncalled DEF Free, Opening, Calling, Protocol
<1>2. ReturnsRight(t)
  BY DEF Protocol, ReturnsToCaller, ReturnsRight
<1> QED
  BY <1>1, <1>2 DEF UnderS, UnderBoth, InOpen, HasOpen, Opening, RepPcs

\* replicate returns: the open that holds both mutexes goes on to serve, the
\* close that holds none to its next position.
LEMMA ReturnStep ==
  ASSUME TypeOK, Protocol, NEW t \in Threads, pc[t] \in {"repConnect", "repDone"},
         Return(t), UNCHANGED <<cpc, cl, locks>>
  PROVE  Protocol'
<1>1. /\ pc'[t] = IF th[t].ret = "open" THEN "serve" ELSE "closeLoop"
      /\ Only(t)
      /\ th'[t].caller = th[t].caller /\ th'[t].srv = th[t].srv
      /\ th'[t].flag = th[t].flag
  <2>1. th[t] \in ThType
    BY ThCalls
  <2>2. CASE th[t].ret = "open"
    <3>1. /\ pc'[t] = "serve" /\ Only(t)
          /\ th'[t] = [th[t] EXCEPT !.sub = NoThread, !.ret = "none"]
      BY <2>2 DEF Return, TypeOK, Only
    <3> QED
      BY <2>1, <2>2, <3>1 DEF ThType
  <2>3. CASE th[t].ret # "open"
    <3>1. /\ pc'[t] = "closeLoop" /\ Only(t)
          /\ th'[t] = [th[t] EXCEPT !.sub = NoThread, !.ret = "none",
                                    !.j = SkipSelf(Srv(t), th[t].j + 1)]
      BY <2>3 DEF Return, TypeOK, Only
    <3> QED
      BY <2>1, <2>3, <3>1 DEF ThType
  <2> QED
    BY <2>2, <2>3
<1>2. /\ Free(t) /\ ReturnsRight(t) /\ ~HasOpen(t)
      /\ UnderS(t) <=> th[t].ret = "open"
      /\ UnderBoth(t) <=> th[t].ret = "open"
      /\ InOpen(t) <=> th[t].ret = "open"
  BY AtReplicate
<1>3. Free(t)' /\ ReturnsRight(t)'
  BY <1>1, <1>2 DEF Free, Calling, ReturnsRight, RepPcs
<1>4. pc'[t] \in Opening => th'[t].flag # "replicate"
  BY <1>1, <1>2 DEF ReturnsRight, RepPcs, Opening
<1>5. StillForClient(t)
  BY <1>1, <1>2 DEF StillForClient, ForClient, InOpen, Opening
<1>6. SameLocks(t)
  BY <1>1, <1>2 DEF SameLocks, UnderS, UnderBoth, RepPcs
<1> QED
  BY <1>1, <1>2, <1>3, <1>4, <1>5, <1>6, QuietStep

\* The file is not there: the handler u at the other end serves nobody.
LEMMA NoLocalFileStep ==
  ASSUME TypeOK, Protocol, NEW t \in Threads, NEW u \in Threads, RepNoLocalFile(t, u)
  PROVE  Protocol'
<1>1. /\ pc[t] = "repConnect" /\ pc[u] = "idle" /\ t # u
      /\ pc'[t] = IF th[t].ret = "open" THEN "serve" ELSE "closeLoop"
      /\ pc'[u] = "stuck" /\ Only2(t, u) /\ UNCHANGED <<cpc, cl, locks>>
  BY DEF RepNoLocalFile, At, Fresh, Only2, TypeOK, clients
<1>2. /\ th'[t].caller = th[t].caller /\ th'[t].srv = th[t].srv
      /\ th'[t].flag = th[t].flag
      /\ th'[u].caller = NoThread
  <2>1. th[t] \in ThType
    BY ThCalls
  <2>2. th'[u] = Handler(th[t].j, NoThread, 0, "none", "read")
    BY <1>1 DEF RepNoLocalFile, TypeOK
  <2>3. /\ th'[t].caller = th[t].caller /\ th'[t].srv = th[t].srv
        /\ th'[t].flag = th[t].flag
    BY <1>1, <2>1 DEF RepNoLocalFile, TypeOK, ThType
  <2> QED
    BY <2>2, <2>3 DEF Handler
<1>3. /\ Free(t) /\ ReturnsRight(t) /\ ~HasOpen(t)
      /\ UnderS(t) <=> th[t].ret = "open"
      /\ UnderBoth(t) <=> th[t].ret = "open"
      /\ InOpen(t) <=> th[t].ret = "open"
  BY <1>1, AtReplicate
<1>4. Free(u)
  BY <1>1, Uncalled DEF Free, Opening, Calling, Protocol
<1>5. Free(t)' /\ Free(u)'
  BY <1>1, <1>2, <1>3 DEF Free, Calling
<1>6. CallsPaired'
  <2>1. /\ pc'[t] # "write" /\ pc'[u] # "write" /\ pc'[u] \notin Opening
        /\ pc'[t] \in Opening => th'[t].flag # "replicate"
    BY <1>1, <1>2, <1>3 DEF ReturnsRight, RepPcs, Opening
  <2> QED
    BY <1>1, <1>3, <1>4, <1>5, <2>1, CallsApart DEF Protocol
<1>7. StillForClient(t) /\ SameLocks(t) /\ KeepsReturn(t)
  BY <1>1, <1>2, <1>3 DEF StillForClient, ForClient, InOpen, Opening, SameLocks, UnderS,
     UnderBoth, RepPcs, KeepsReturn
<1>8. StillForClient(u) /\ SameLocks(u) /\ KeepsReturn(u)
  BY <1>1 DEF StillForClient, ForClient, InOpen, HasOpen, Opening, SameLocks, UnderS,
     UnderBoth, RepPcs, KeepsReturn
<1> QED
  BY <1>1, <1>6, <1>7, <1>8, FramesAndLocks DEF Protocol

LEMMA RepOpenStep ==
  ASSUME TypeOK, Protocol, NEW t \in Threads, NEW u \in Threads, RepOpen(t, u)
  PROVE  Protocol'
<1>1. /\ pc[t] = "repConnect" /\ pc[u] = "idle" /\ t # u /\ UNCHANGED <<cpc, cl, locks>>
      /\ pc'[t] = "repOpen" /\ pc'[u] = "lockS" /\ Only2(t, u)
  BY DEF RepOpen, At, Fresh, Only2, TypeOK, clients
<1>2. /\ th'[t].sub = u /\ th'[t].caller = th[t].caller /\ th'[t].srv = th[t].srv
      /\ th'[t].flag = th[t].flag /\ th'[t].ret = th[t].ret
      /\ th'[t].j = th[t].j /\ th'[t].f = th[t].f
      /\ th'[u].caller = t /\ th'[u].flag = "replicate" /\ th'[u].mode = "create"
      /\ th'[u].srv = th[t].j /\ th'[u].f = th[t].f
  <2>1. /\ th'[t] = [th[t] EXCEPT !.sub = u] /\ th[t] \in ThType
        /\ th'[u] = Handler(th[t].j, t, th[t].f, "replicate", "create")
    BY <1>1, ThCalls DEF RepOpen, TypeOK
  <2> QED
    BY <2>1 DEF ThType, Handler
<1>3. Free(t) /\ ReturnsRight(t)
  BY <1>1, AtReplicate
<1>4. CallsPaired'
  <2>1. Serves(u, t)'
    BY <1>1, <1>2 DEF Serves, Opening
  <2>2. pc'[t] \in Calling /\ pc'[u] \notin Calling /\ th'[t].caller = NoThread
    BY <1>1, <1>2, <1>3 DEF Calling, Free
  <2> QED
    BY <1>1, <1>2, <1>3, <2>1, <2>2, CallsBegin DEF Protocol
<1>5. /\ StillForClient(t) /\ KeepsReturn(t) /\ SameLocks(t)
  BY <1>1, <1>2 DEF StillForClient, ForClient, InOpen, HasOpen, KeepsReturn, SameLocks,
     UnderS, UnderBoth, Opening, RepPcs
<1>6. StillForClient(u) /\ KeepsReturn(u)
  BY <1>1 DEF StillForClient, ForClient, InOpen, HasOpen, KeepsReturn, Opening, RepPcs
<1>7. SameLocks(u)
  BY <1>1 DEF SameLocks, UnderS, UnderBoth, RepPcs
<1> QED
  BY <1>1, <1>4, <1>5, <1>6, <1>7, FramesAndLocks DEF Protocol

\* The bytes of the file are sent (t moves on) and then stored (u does).
LEMMA RepCopyStep ==
  ASSUME TypeOK, Protocol, NEW t \in Threads, NEW u \in Threads,
         \/ RepRead(t) /\ u = th[t].sub
         \/ RepWrite(u) /\ t = th[u].caller
  PROVE  Protocol'
<1>1. /\ t # u /\ th[t].sub = u /\ th[u].caller = t /\ th[t].caller = NoThread
      /\ Serves(u, t)
      /\ \/ pc[t] = "repRead" /\ pc[u] = "await"
         \/ pc[t] = "repWrite" /\ pc[u] = "write"
  <2>1. CASE RepRead(t) /\ u = th[t].sub
    <3>1. pc[t] = "repRead" /\ pc[t] \in Calling
      BY <2>1 DEF RepRead, At, Calling
    <3>2. t # u /\ th[u].caller = t /\ th[t].caller = NoThread /\ Serves(u, t)
      BY <2>1, <3>1, Calls DEF Protocol
    <3> QED
      BY <2>1, <3>1, <3>2 DEF Serves
  <2>2. CASE RepWrite(u) /\ t = th[u].caller
    <3>1. pc[u] = "write" /\ th[u].caller # NoThread
      BY <2>2, NoThreadApart DEF RepWrite, At
    <3>2. t # u /\ pc[t] \in Calling /\ th[t].sub = u /\ Serves(u, t)
      BY <2>2, <3>1, Called DEF Protocol
    <3>3. pc[t] = "repWrite" /\ th[t].caller = NoThread
      BY <3>1, <3>2, Calls DEF Serves, Calling, Opening, Protocol
    <3> QED
      BY <2>2, <3>1, <3>2, <3>3
  <2> QED
    BY <2>1, <2>2
<1>2. /\ \/ pc'[t] = "repWrite" /\ pc'[u] = "write"
         \/ pc'[t] = "repClose" /\ pc'[u] = "await"
      /\ Only2(t, u) /\ UNCHANGED <<cpc, cl, locks>>
      /\ th'[t] = th[t] /\ \E d \in Nat : th'[u] = [th[u] EXCEPT !.data = d]
  <2>1. CASE RepRead(t) /\ u = th[t].sub
    <3>1. /\ th' = [th EXCEPT ![u].data = disk[Srv(t)][th[t].f]]
          /\ pc' = [pc EXCEPT ![t] = "repWrite", ![u] = "write"]
      BY <2>1 DEF RepRead
    <3>2. disk[Srv(t)][th[t].f] \in Nat
      BY ThCalls, ThFields DEF TypeOK, Srv
    <3> QED
      BY <1>1, <2>1, <3>1, <3>2 DEF RepRead, TypeOK, Only2, clients
  <2>2. CASE RepWrite(u) /\ t = th[u].caller
    <3>1. /\ th' = [th EXCEPT ![u].data = Absent]
          /\ pc' = [pc EXCEPT ![u] = "await", ![t] = "repClose"]
      BY <2>2 DEF RepWrite
    <3>2. Absent \in Nat
      BY DEF Absent
    <3> QED
      BY <1>1, <2>2, <3>1, <3>2 DEF RepWrite, TypeOK, Only2, clients
  <2> QED
    BY <2>1, <2>2
<1>3. /\ th'[u].flag = th[u].flag /\ th'[u].srv = th[u].srv /\ th'[u].mode = th[u].mode
      /\ th'[u].caller = th[u].caller /\ th'[u].sub = th[u].sub /\ th'[u].f = th[u].f
      /\ th'[u].ret = th[u].ret
  BY <1>2, ThCalls DEF ThType
<1>4. CallsPaired'
  <2>1. Serves(u, t)'
    BY <1>1, <1>2, <1>3 DEF Serves
  <2>2. pc[t] \in Calling /\ pc'[t] \in Calling
    BY <1>1, <1>2 DEF Calling
  <2> QED
    BY <1>1, <1>2, <1>3, <2>1, <2>2, CallsGoOn DEF Protocol
<1>5. StillForClient(t) /\ KeepsReturn(t) /\ SameLocks(t)
  BY <1>1, <1>2 DEF StillForClient, ForClient, InOpen, HasOpen, KeepsReturn, SameLocks,
     UnderS, UnderBoth, Opening, RepPcs
<1>6. StillForClient(u) /\ KeepsReturn(u)
  BY <1>1, <1>2, NoThreadApart
     DEF StillForClient, ForClient, KeepsReturn, RepPcs
<1>7. SameLocks(u)
  BY <1>1, <1>2 DEF SameLocks, UnderS, UnderBoth, RepPcs
<1> QED
  BY <1>2, <1>4, <1>5, <1>6, <1>7, FramesAndLocks DEF Protocol

LEMMA RepCloseStep ==
  ASSUME TypeOK, Protocol, NEW t \in Threads, RepClose(t)
  PROVE  Protocol'
<1>1. pc[t] = "repClose" /\ pc[t] \in Calling
  BY DEF RepClose, At, Calling
<1> PICK u \in Threads : u = th[t].sub
  BY <1>1, Calls DEF Protocol
<1>2. /\ t # u /\ th[u].caller = t /\ th[t].caller = NoThread /\ pc[u] = "await"
      /\ UNCHANGED <<cpc, cl, locks>>
  BY <1>1, Calls DEF RepClose, clients, Protocol, Serves
<1>3. /\ pc'[t] = "repDone" /\ pc'[u] = "search" /\ Only2(t, u)
  BY <1>2 DEF RepClose, TypeOK, Only2
<1>4. /\ th'[t].caller = th[t].caller /\ th'[t].srv = th[t].srv
      /\ th'[t].flag = th[t].flag /\ th'[t].ret = th[t].ret
      /\ th'[u].caller = NoThread
  <2>1. /\ th'[u] = [th[u] EXCEPT !.caller = NoThread]
        /\ th'[t] = [th[t] EXCEPT !.sub = NoThread]
        /\ th[u] \in ThType /\ th[t] \in ThType
    BY <1>2, ThCalls DEF RepClose, TypeOK
  <2> QED
    BY <2>1 DEF ThType
<1>5. Free(t)' /\ Free(u)'
  BY <1>2, <1>3, <1>4 DEF Free, Calling
<1>6. CallsPaired'
  BY <1>1, <1>3, <1>5, CallsEnd DEF Opening, Protocol
<1>7. StillForClient(t) /\ KeepsReturn(t) /\ SameLocks(t)
  BY <1>1, <1>3, <1>4 DEF StillForClient, ForClient, InOpen, HasOpen, KeepsReturn,
     SameLocks, UnderS, UnderBoth, Opening, RepPcs
<1>8. StillForClient(u) /\ KeepsReturn(u)
  BY <1>2, <1>3, NoThreadApart DEF StillForClient, ForClient, KeepsReturn, RepPcs
<1>9. SameLocks(u)
  BY <1>2, <1>3 DEF SameLocks, UnderS, UnderBoth, RepPcs
<1> QED
  BY <1>2, <1>3, <1>6, <1>7, <1>8, <1>9, FramesAndLocks DEF Protocol

-----------------------------------------------------------------------------
(* server_close after the reply                                            *)

LEMMA CloseFoundStep ==
  ASSUME TypeOK, Protocol, NEW t \in Threads, CloseFound(t) \/ CloseNext(t)
  PROVE  Protocol'
<1>1. /\ pc[t] \in {"search", "closeLoop"} /\ Only(t) /\ UNCHANGED <<cpc, cl, locks>>
      /\ th'[t].caller = th[t].caller
      /\ \/ pc'[t] = "closeLoop"
         \/ pc'[t] = "repConnect" /\ th'[t].ret = "close"
  <2>1. CASE CloseFound(t)
    <3>1. /\ pc[t] = "search" /\ pc'[t] = "closeLoop" /\ Only(t)
          /\ UNCHANGED <<cpc, cl, locks>>
      BY <2>1 DEF CloseFound, At, clients, TypeOK, Only
    <3>2. \E f \in Files : th'[t] = [th[t] EXCEPT !.f = f, !.fd = NoFd,
                                                  !.j = SkipSelf(Srv(t), 0)]
      BY <2>1 DEF CloseFound, Matches, TypeOK
    <3> QED
      BY <3>1, <3>2, ThCalls DEF ThType
  <2>2. CASE CloseNext(t)
    <3>1. /\ pc[t] = "closeLoop" /\ pc'[t] = "repConnect" /\ Only(t)
          /\ th'[t] = [th[t] EXCEPT !.ret = "close"] /\ UNCHANGED <<cpc, cl, locks>>
      BY <2>2 DEF CloseNext, At, clients, TypeOK, Only
    <3> QED
      BY <3>1, ThCalls DEF ThType
  <2> QED
    BY <2>1, <2>2
<1>2. Free(t) /\ Free(t)'
  BY <1>1, Uncalled DEF Free, Opening, Calling, Protocol
<1>3. StillForClient(t) /\ SameLocks(t) /\ ReturnsRight(t)'
  BY <1>1 DEF StillForClient, SameLocks, ReturnsRight, InOpen, HasOpen, UnderS, UnderBoth,
     Opening, RepPcs
<1> QED
  BY <1>1, <1>2, <1>3, QuietStep DEF Opening

LEMMA ReplicateStep ==
  ASSUME TypeOK, Protocol, NEW t \in Threads,
         \/ \E u \in Threads : RepNoLocalFile(t, u) \/ RepOpen(t, u)
         \/ RepUnreachable(t) \/ RepRead(t) \/ RepWrite(t) \/ RepClose(t) \/ RepDone(t)
  PROVE  Protocol'
<1>1. ASSUME NEW u \in Threads, RepNoLocalFile(t, u) \/ RepOpen(t, u) PROVE Protocol'
  BY <1>1, NoLocalFileStep, RepOpenStep
<1>2. CASE RepUnreachable(t) \/ RepDone(t)
  <2>1. /\ pc[t] \in {"repConnect", "repDone"} /\ Return(t)
        /\ UNCHANGED <<cpc, cl, locks>>
    BY <1>2 DEF RepUnreachable, RepDone, At, clients
  <2> QED
    BY <2>1, ReturnStep
<1>3. CASE RepRead(t)
  <2>1. th[t].sub \in Threads
    BY <1>3, Calls DEF RepRead, At, Calling, Protocol
  <2> QED
    BY <1>3, <2>1, RepCopyStep
<1>4. CASE RepWrite(t)
  <2>1. th[t].caller \in Threads
    BY <1>4, ThCalls DEF RepWrite, At, Protocol, CallsPaired
  <2> QED
    BY <1>4, <2>1, RepCopyStep
<1>5. CASE RepClose(t)
  BY <1>5, RepCloseStep
<1> QED
  BY <1>1, <1>2, <1>3, <1>4, <1>5

-----------------------------------------------------------------------------
(* Clients                                                                 *)

\* A client connects, to its home server or to where it was sent.
LEMMA ConnectStep ==
  ASSUME TypeOK, Protocol, NEW c \in Clients, NEW t \in Threads,
         ClientOpen(c, t) \/ ClientFollow(c, t)
  PROVE  Protocol'
<1>1. /\ cpc[c] \in {"idle", "redirected"} /\ pc[t] = "idle" /\ pc'[t] = "lockS"
      /\ Only(t) /\ UNCHANGED locks
      /\ cpc'[c] = "opening" /\ cl'[c].thr = t
      /\ \A d \in Clients \ {c} : cpc'[d] = cpc[d] /\ cl'[d] = cl[d]
  <2>1. CASE ClientOpen(c, t)
    BY <2>1 DEF ClientOpen, Fresh, Only, TypeOK
  <2>2. CASE ClientFollow(c, t)
    BY <2>2 DEF ClientFollow, Fresh, Only, TypeOK, ClType
  <2> QED
    BY <2>1, <2>2
<1>2. th'[t].caller = NoThread /\ th'[t].flag \in {"none", "redirect"}
  <2>1. \E s, f, flag, mode : /\ th'[t] = Handler(s, NoThread, f, flag, mode)
                              /\ flag \in {"none", "redirect"}
    BY DEF ClientOpen, ClientFollow, TypeOK
  <2> QED
    BY <2>1 DEF Handler
<1>3. Free(t) /\ Free(t)' /\ ReturnsRight(t)'
  BY <1>1, <1>2, Uncalled DEF Free, ReturnsRight, RepPcs, Opening, Calling, Protocol
<1>4. StillForClient(t)
  BY <1>1 DEF StillForClient, ForClient, InOpen, HasOpen, Opening, RepPcs
<1>5. SameLocks(t)
  BY <1>1 DEF SameLocks, UnderS, UnderBoth, RepPcs
<1>6. /\ CallsPaired' /\ ReturnsToCaller'
      /\ \A x \in Threads \ {t} : StillForClient(x) /\ SameLocks(x)
  BY <1>1, <1>2, <1>3, StepOfOne
<1>7. ClientsPaired'
  <2>1. InOpen(t)' /\ ForClient(t)'
    BY <1>1, <1>2 DEF InOpen, ForClient, Opening
  <2> QED
    BY <1>1, <1>4, <1>6, <2>1, ClientsChange, NoThreadApart DEF Protocol
<1>8. LockDiscipline'
  BY <1>1, <1>5, <1>6, LocksFrame DEF Protocol
<1> QED
  BY <1>6, <1>7, <1>8 DEF Protocol

\* No thread moves.
LEMMA ClientAloneStep ==
  ASSUME TypeOK, Protocol, NEW c \in Clients, ClientFollowFails(c) \/ ClientWrite(c)
  PROVE  Protocol'
<1>1. /\ UNCHANGED <<pc, th, locks>>
      /\ \A d \in Clients \ {c} : cpc'[d] = cpc[d] /\ cl'[d] = cl[d]
      /\ \/ cpc[c] = "redirected" /\ cpc'[c] = "idle" /\ cl'[c].thr = NoThread
         \/ cpc[c] = "open" /\ cpc'[c] = "written" /\ cl'[c] = cl[c]
  BY DEF ClientFollowFails, ClientWrite, threads, TypeOK, NullCl
<1>2. \A x \in Threads : StillForClient(x) /\ SameLocks(x) /\ KeepsReturn(x)
  BY <1>1, StillTheSame
<1>3. CallsPaired'
  BY <1>1 DEF Protocol, CallsPaired, Serves
<1>4. ReturnsToCaller' /\ LockDiscipline'
  BY <1>1, <1>2, ReturnsFrame, LocksFrame DEF Protocol
<1>5. ClientsPaired'
  <2>1. ClientPaired(c)
    BY DEF Protocol, ClientsPaired
  <2>2. CASE cpc[c] = "redirected"
    BY <1>1, <1>2, <2>2, ClientsChange DEF Protocol
  <2>3. CASE cpc[c] = "open"
    <3>1. cl[c].thr \in Threads \cup {NoThread}
      BY DEF TypeOK, ClType
    <3> PICK v \in Threads \cup {NoThread} : v = cl[c].thr
      BY <3>1
    <3>2. v # NoThread /\ ForClient(v) /\ HasOpen(v)
      BY <2>1, <2>3 DEF ClientPaired, ForClient
    <3>3. ForClient(v)' /\ HasOpen(v)'
      BY <1>1, <3>2 DEF ForClient, HasOpen
    <3> QED
      BY <1>1, <1>2, <2>3, <3>2, <3>3, ClientsChange DEF Protocol
  <2> QED
    BY <1>1, <2>2, <2>3
<1> QED
  BY <1>3, <1>4, <1>5 DEF Protocol

LEMMA ClientCloseStep ==
  ASSUME TypeOK, Protocol, NEW c \in Clients, ClientClose(c)
  PROVE  Protocol'
<1>1. ClientPaired(c) /\ cpc[c] \in {"open", "written"}
  BY DEF Protocol, ClientsPaired, ClientClose
<1>2. cl[c].thr \in Threads
  BY <1>1 DEF ClientPaired, TypeOK, ClType
<1> PICK t \in Threads : t = cl[c].thr
  BY <1>2
<1>3. /\ pc[t] = "await" /\ UNCHANGED locks
      /\ \/ pc'[t] = "search" /\ Only(t) /\ th' = th
         \/ Ends(t)
      /\ cpc'[c] = "idle" /\ cl'[c].thr = NoThread
      /\ \A d \in Clients \ {c} : cpc'[d] = cpc[d] /\ cl'[d] = cl[d]
  BY DEF ClientClose, At, TypeOK, Only, NullCl
<1>4. Free(t)
  BY <1>1, <1>3, NoThreadApart DEF ClientPaired, Free, Calling
<1>5. /\ Only(t) /\ Free(t)' /\ pc'[t] \in {"search", "idle"} /\ ReturnsRight(t)'
      /\ ~UnderS(t)' /\ ~UnderBoth(t)'
  <2>1. CASE Ends(t)
    BY <2>1, Ended
  <2>2. CASE ~Ends(t)
    BY <1>3, <1>4, <2>2 DEF Free, Calling, ReturnsRight, RepPcs, UnderS, UnderBoth
  <2> QED
    BY <2>1, <2>2
<1>6. SameLocks(t)
  BY <1>3, <1>5 DEF SameLocks, UnderS, UnderBoth, RepPcs
<1>7. /\ CallsPaired' /\ ReturnsToCaller'
      /\ \A x \in Threads \ {t} : StillForClient(x) /\ SameLocks(x)
  BY <1>4, <1>5, StepOfOne DEF Opening
<1>8. ClientsPaired'
  BY <1>3, <1>7, ClientsChange DEF Protocol
<1>9. LockDiscipline'
  BY <1>3, <1>6, <1>7, LocksFrame DEF Protocol
<1> QED
  BY <1>7, <1>8, <1>9 DEF Protocol

-----------------------------------------------------------------------------

LEMMA ProtocolInit == Init => Protocol
<1> SUFFICES ASSUME Init PROVE Protocol
  OBVIOUS
<1>1. /\ \A t \in Threads : pc[t] = "idle" /\ th[t] = NullTh
      /\ \A s \in Servers : slock[s] = NoThread /\ flock[s] = NoThread
      /\ \A c \in Clients : cpc[c] = "idle" /\ cl[c] = NullCl
  BY DEF Init
<1>2. CallsPaired
  BY <1>1 DEF CallsPaired, Calling, Opening, NullTh, Handler
<1>3. ClientsPaired
  BY <1>1 DEF ClientsPaired, ClientPaired, NullCl
<1>4. ReturnsToCaller
  BY <1>1 DEF ReturnsToCaller, RepPcs
<1>5. LockDiscipline
  BY <1>1, NoThreadApart DEF LockDiscipline, UnderS, UnderBoth, RepPcs
<1> QED
  BY <1>2, <1>3, <1>4, <1>5 DEF Protocol

LEMMA ProtocolNext == TypeOK /\ Protocol /\ [Next]_vars => Protocol'
<1> SUFFICES ASSUME TypeOK, Protocol, [Next]_vars PROVE Protocol'
  OBVIOUS
<1>1. ASSUME NEW t \in Threads, ThreadStep(t) PROVE Protocol'
  <2>1. CASE OpenLockS(t) \/ OpenLockF(t) \/ ChooseSelf(t)
    BY <2>1, OpeningStep
  <2>2. CASE ChooseReplicate(t)
    BY <2>2, ChooseReplicateStep
  <2>3. CASE ChooseRedirect(t) \/ OpenFails(t)
    BY <2>3, ReleaseStep
  <2>4. CASE OpenForClient(t) \/ OpenForReplica(t)
    BY <2>4, OpenForClientStep, OpenForReplicaStep
  <2>5. ASSUME NEW u \in Threads, PushSt(t, u) PROVE Protocol'
    BY <2>5, PushStStep
  <2>6. CASE PushUnreachable(t) \/ PushFt(t) \/ PushEnd(t) \/ SetSt(t)
    BY <2>6, PushUnreachableStep, PushFtStep, PushEndStep, SetStStep
  <2>7. CASE SetFt(t) \/ CloseNotFound(t) \/ CloseEnd(t)
    <3>1. /\ Ends(t) /\ UNCHANGED <<cpc, cl, locks>>
          /\ pc[t] \in {"setFt", "search", "closeLoop"}
      BY <2>7 DEF SetFt, CloseNotFound, CloseEnd, At, clients
    <3> QED
      BY <3>1, EndStep
  <2>8. CASE CloseFound(t) \/ CloseNext(t)
    BY <2>8, CloseFoundStep
  <2>9. CASE \/ \E u \in Threads : RepNoLocalFile(t, u) \/ RepOpen(t, u)
             \/ RepUnreachable(t) \/ RepRead(t) \/ RepWrite(t) \/ RepClose(t)
             \/ RepDone(t)
    BY <2>9, ReplicateStep
  <2> QED
    BY <1>1, <2>1, <2>2, <2>3, <2>4, <2>5, <2>6, <2>7, <2>8, <2>9 DEF ThreadStep
<1>2. ASSUME NEW c \in Clients, LibraryStep(c) \/ AppStep(c) PROVE Protocol'
  BY <1>2, ConnectStep, ClientAloneStep, ClientCloseStep DEF LibraryStep, AppStep
<1>3. CASE UNCHANGED vars
  <2>1. UNCHANGED <<pc, th, cpc, cl, slock, flock>>
    BY <1>3 DEF vars, threads, clients, locks
  <2>2. CallsPaired'
    BY <2>1 DEF Protocol, CallsPaired, Serves
  <2>3. \A x \in Threads : StillForClient(x) /\ SameLocks(x) /\ KeepsReturn(x)
    BY <2>1, StillTheSame
  <2>4. ClientsPaired' /\ ReturnsToCaller' /\ LockDiscipline'
    BY <2>1, <2>3, ClientsFrame, ReturnsFrame, LocksFrame DEF Protocol, locks
  <2> QED
    BY <2>2, <2>4 DEF Protocol
<1> QED
  BY <1>1, <1>2, <1>3 DEF Next, Finished

LEMMA ProtocolInv == Spec => [](TypeOK /\ Protocol)
<1>1. TypeOK /\ Protocol /\ [Next]_vars => (TypeOK /\ Protocol)'
  BY TypeNext, ProtocolNext
<1> QED
  BY <1>1, TypeInit, ProtocolInit, PTL DEF Spec

\* However many servers, threads and clients there are and however they
\* interleave, every remote call has the one handler that will answer it, and
\* every handler that owes an answer has its caller.
THEOREM CallsArePaired == Spec => []CallsPaired
<1>1. Protocol => CallsPaired
  BY DEF Protocol
<1> QED
  BY <1>1, ProtocolInv, PTL

\* No two threads are ever inside the code a mutex of a server guards, and no
\* way out of server_open leaves one locked.
THEOREM LocksAreDisciplined == Spec => []LockDiscipline
<1>1. Protocol => LockDiscipline
  BY DEF Protocol
<1> QED
  BY <1>1, ProtocolInv, PTL

-----------------------------------------------------------------------------
(* Replicas.  No table of RfsServer ever names a server that lacks the      *)
(* file: a copy is made, with the call that opens it answered, before it is *)
(* listed, and no file is ever removed.  And what server_open decides from  *)
(* does not change while it holds the mutexes.                              *)

\* Files stay where they are.
DiskGrows == \A s \in Servers, f \in Files : disk[s][f] # Absent => disk'[s][f] # Absent

\* replicate has connected, or its handler has bytes to store.
Copying == (RepPcs \ {"repConnect"}) \cup {"write"}

\* RepSound for one thread, after the step.
CopyHolds(x) ==
  /\ pc'[x] \in RepPcs \ {"repConnect"}
       => th'[x].j \in Servers /\ disk'[th'[x].srv][th'[x].f] # Absent
  /\ pc'[x] \in {"repRead", "repWrite", "repClose", "repDone"}
       => disk'[th'[x].j][th'[x].f] # Absent
  /\ pc'[x] = "write" => th'[x].data # Absent

LEMMA CopyFrame ==
  ASSUME TypeOK, RepSound, DiskGrows, NEW x \in Threads,
         \/ pc'[x] = pc[x] /\ th'[x] = th[x]
         \/ pc'[x] \notin Copying
  PROVE  CopyHolds(x)
<1>1. CASE pc'[x] \notin Copying
  BY <1>1 DEF CopyHolds, Copying, RepPcs
<1>2. CASE pc'[x] = pc[x] /\ th'[x] = th[x]
  <2>1. th[x].srv \in Servers /\ th[x].f \in Files
    BY ThCalls, ThFields
  <2>2. /\ pc[x] \in RepPcs \ {"repConnect"}
             => th[x].j \in Servers /\ disk[th[x].srv][th[x].f] # Absent
        /\ pc[x] \in {"repRead", "repWrite", "repClose", "repDone"}
             => disk[th[x].j][th[x].f] # Absent
        /\ pc[x] = "write" => th[x].data # Absent
    BY DEF RepSound, Srv
  <2> QED
    BY <1>2, <2>1, <2>2 DEF CopyHolds, DiskGrows, RepPcs
<1> QED
  BY <1>1, <1>2

LEMMA CopyAll ==
  ASSUME \A x \in Threads : CopyHolds(x)
  PROVE  RepSound'
  BY DEF CopyHolds, RepSound, Srv

LEMMA CopyOfTwo ==
  ASSUME TypeOK, RepSound, DiskGrows, NEW t \in Threads, NEW u \in Threads, Only2(t, u),
         CopyHolds(t), CopyHolds(u)
  PROVE  RepSound'
<1>1. \A x \in Threads : CopyHolds(x)
  BY CopyFrame DEF Only2
<1> QED
  BY <1>1, CopyAll

-----------------------------------------------------------------------------

\* Nothing takes a file away: open creates, a write of nothing keeps.
LEMMA DiskNext ==
  ASSUME TypeOK, RepSound, [Next]_vars
  PROVE  DiskGrows
<1> USE DEF tables, locks, threads, clients, history, vars
<1>1. ASSUME NEW t \in Threads, OpenForClient(t) \/ OpenForReplica(t) PROVE DiskGrows
  <2>1. disk' = [disk EXCEPT ![Srv(t)][th[t].f] =
                   IF disk[Srv(t)][th[t].f] = Absent THEN Empty
                   ELSE disk[Srv(t)][th[t].f]]
    BY <1>1 DEF OpenForClient, OpenForReplica, Opened
  <2> QED
    BY <2>1 DEF DiskGrows, TypeOK, Absent, Empty
<1>2. ASSUME NEW t \in Threads, RepWrite(t) PROVE DiskGrows
  <2>1. /\ disk' = [disk EXCEPT ![Srv(t)][th[t].f] =
                      Overwrite(disk[Srv(t)][th[t].f], th[t].data)]
        /\ pc[t] = "write"
    BY <1>2 DEF RepWrite, At
  <2>2. th[t].data # Absent
    BY <2>1 DEF RepSound
  <2> QED
    BY <2>1, <2>2 DEF DiskGrows, TypeOK, Absent, Empty, Overwrite
<1>3. ASSUME NEW c \in Clients, ClientWrite(c) PROVE DiskGrows
  <2>1. /\ disk' = [disk EXCEPT ![Srv(cl[c].thr)][th[cl[c].thr].f] = version + 1]
        /\ version \in Nat
    BY <1>3 DEF ClientWrite, TypeOK
  <2> QED
    BY <2>1 DEF DiskGrows, TypeOK, Absent
<1>4. ASSUME NEW t \in Threads, ThreadStep(t),
             ~(OpenForClient(t) \/ OpenForReplica(t) \/ RepWrite(t))
      PROVE  UNCHANGED disk
  BY <1>4 DEF ThreadStep, OpenLockS, OpenLockF, ChooseSelf, ChooseReplicate,
     ChooseRedirect, OpenFails, PushSt, PushUnreachable, PushFt, SetFt,
     PushEnd, SetSt, RepNoLocalFile, RepOpen, RepUnreachable, RepRead, RepDone,
     RepClose, CloseFound, CloseNotFound, CloseNext, CloseEnd
<1>5. ASSUME NEW c \in Clients, LibraryStep(c) \/ AppStep(c), ~ClientWrite(c)
      PROVE  UNCHANGED disk
  BY <1>5 DEF LibraryStep, AppStep, ClientFollowFails, ClientFollow, ClientOpen, ClientClose
<1>6. CASE UNCHANGED disk
  BY <1>6 DEF DiskGrows
<1> QED
  BY <1>1, <1>2, <1>3, <1>4, <1>5, <1>6 DEF Next, Finished

\* Only the steps of a call between replicate and its handler begin or
\* continue a copy.
LEMMA CopyUntouched ==
  ASSUME TypeOK, [Next]_vars,
         ~ \E t \in Threads : \/ \E u \in Threads : RepOpen(t, u)
                              \/ OpenForReplica(t) \/ RepRead(t) \/ RepWrite(t)
                              \/ RepClose(t)
  PROVE  \A x \in Threads : \/ pc'[x] = pc[x] /\ th'[x] = th[x]
                            \/ pc'[x] \notin Copying
<1> USE DEF tables, locks, threads, clients, history, vars, Copying, RepPcs
<1> SUFFICES ASSUME NEW x \in Threads
             PROVE  \/ pc'[x] = pc[x] /\ th'[x] = th[x]
                    \/ pc'[x] \notin Copying
  OBVIOUS
<1> pc \in [Threads -> Pcs] /\ th \in [Threads -> ThType]
  BY DEF TypeOK
<1>1. ASSUME NEW t \in Threads, OpenLockS(t) \/ OpenLockF(t) \/ ChooseSelf(t)
                                \/ ChooseReplicate(t) \/ OpenForClient(t)
      PROVE  \/ pc'[x] = pc[x] /\ th'[x] = th[x]
             \/ pc'[x] \notin Copying
  BY <1>1 DEF OpenLockS, OpenLockF, ChooseSelf, ChooseReplicate, OpenForClient
<1>2. ASSUME NEW t \in Threads, ChooseRedirect(t) \/ OpenFails(t) \/ SetFt(t)
                                \/ CloseNotFound(t) \/ CloseEnd(t)
      PROVE  \/ pc'[x] = pc[x] /\ th'[x] = th[x]
             \/ pc'[x] \notin Copying
  BY <1>2 DEF ChooseRedirect, OpenFails, SetFt, CloseNotFound, CloseEnd, Ends
<1>3. ASSUME NEW t \in Threads, NEW u \in Threads, PushSt(t, u) \/ RepNoLocalFile(t, u)
      PROVE  \/ pc'[x] = pc[x] /\ th'[x] = th[x]
             \/ pc'[x] \notin Copying
  BY <1>3 DEF PushSt, RepNoLocalFile
<1>4. ASSUME NEW t \in Threads, PushUnreachable(t) \/ PushFt(t) \/ PushEnd(t) \/ SetSt(t)
      PROVE  \/ pc'[x] = pc[x] /\ th'[x] = th[x]
             \/ pc'[x] \notin Copying
  <2>1. CASE PushUnreachable(t)
    BY <2>1 DEF PushUnreachable, At
  <2>2. CASE PushEnd(t) \/ SetSt(t)
    BY <2>2 DEF PushEnd, SetSt
  <2>3. CASE PushFt(t)
    BY <2>3 DEF PushFt
  <2> QED
    BY <1>4, <2>1, <2>2, <2>3
<1>5. ASSUME NEW t \in Threads, RepUnreachable(t) \/ RepDone(t)
      PROVE  \/ pc'[x] = pc[x] /\ th'[x] = th[x]
             \/ pc'[x] \notin Copying
  BY <1>5 DEF RepUnreachable, RepDone, Return
<1>6. ASSUME NEW t \in Threads, CloseFound(t) \/ CloseNext(t)
      PROVE  \/ pc'[x] = pc[x] /\ th'[x] = th[x]
             \/ pc'[x] \notin Copying
  BY <1>6 DEF CloseFound, CloseNext
<1>7. ASSUME NEW c \in Clients, LibraryStep(c) \/ AppStep(c)
      PROVE  \/ pc'[x] = pc[x] /\ th'[x] = th[x]
             \/ pc'[x] \notin Copying
  BY <1>7 DEF LibraryStep, AppStep, ClientFollowFails, ClientFollow, ClientOpen,
     ClientWrite, ClientClose, Ends
<1>8. CASE UNCHANGED vars
  BY <1>8
<1> QED
  BY <1>1, <1>2, <1>3, <1>4, <1>5, <1>6, <1>7, <1>8 DEF Next, Finished, ThreadStep

-----------------------------------------------------------------------------
(* The steps of a copy                                                     *)

LEMMA RepOpenCopies ==
  ASSUME TypeOK, RepSound, DiskGrows, NEW t \in Threads, NEW u \in Threads, RepOpen(t, u)
  PROVE  RepSound'
<1>1. /\ t # u /\ pc'[t] = "repOpen" /\ pc'[u] = "lockS" /\ Only2(t, u)
      /\ th[t].j \in Servers /\ disk[th[t].srv][th[t].f] # Absent /\ disk' = disk
  BY DEF RepOpen, At, Fresh, Only2, TypeOK, tables, Srv
<1>2. th'[t].j = th[t].j /\ th'[t].srv = th[t].srv /\ th'[t].f = th[t].f
  <2>1. th'[t] = [th[t] EXCEPT !.sub = u] /\ th[t] \in ThType
    BY <1>1, ThCalls DEF RepOpen, TypeOK
  <2> QED
    BY <2>1 DEF ThType
<1>3. CopyHolds(t) /\ CopyHolds(u)
  BY <1>1, <1>2 DEF CopyHolds, RepPcs
<1> QED
  BY <1>1, <1>3, CopyOfTwo

\* The open that creates the copy is answered: the copy is there.
LEMMA OpenForReplicaCopies ==
  ASSUME TypeOK, Protocol, RepSound, DiskGrows, NEW u \in Threads, OpenForReplica(u)
  PROVE  RepSound'
<1>1. pc[u] = "serve" /\ th[u].flag = "replicate" /\ th[u].caller # NoThread
  BY DEF OpenForReplica, At, Protocol, CallsPaired, Opening
<1>2. th[u].caller \in Threads
  BY <1>1, ThCalls
<1> PICK t \in Threads : t = th[u].caller
  BY <1>2
<1>3. t # u /\ pc[t] = "repOpen" /\ th[u].srv = th[t].j /\ th[u].f = th[t].f
  <2>1. t # u /\ pc[t] \in Calling /\ Serves(u, t)
    BY <1>1, Called DEF Protocol
  <2> QED
    BY <1>1, <2>1 DEF Serves, Calling
<1>4. /\ pc'[u] = "await" /\ pc'[t] = "repRead" /\ Only2(t, u) /\ th'[t] = th[t]
  BY <1>3 DEF OpenForReplica, TypeOK, Only2
<1>5. disk'[th[u].srv][th[u].f] # Absent
  <2>1. disk' = [disk EXCEPT ![th[u].srv][th[u].f] =
                   IF disk[th[u].srv][th[u].f] = Absent THEN Empty
                   ELSE disk[th[u].srv][th[u].f]]
    BY DEF OpenForReplica, Opened, Srv
  <2>2. th[u].srv \in Servers /\ th[u].f \in Files
    BY ThCalls, ThFields
  <2> QED
    BY <2>1, <2>2 DEF TypeOK, Absent, Empty
<1>6. CopyHolds(t)
  <2>1. th[t].j \in Servers /\ disk[th[t].srv][th[t].f] # Absent
    BY <1>3 DEF RepSound, RepPcs, Srv
  <2>2. th[t].srv \in Servers /\ th[t].f \in Files
    BY ThCalls, ThFields
  <2>3. disk'[th[t].srv][th[t].f] # Absent
    BY <2>1, <2>2 DEF DiskGrows
  <2> QED
    BY <1>3, <1>4, <1>5, <2>1, <2>3 DEF CopyHolds
<1>7. CopyHolds(u)
  BY <1>4 DEF CopyHolds, RepPcs
<1> QED
  BY <1>4, <1>6, <1>7, CopyOfTwo

LEMMA RepReadCopies ==
  ASSUME TypeOK, Protocol, RepSound, DiskGrows, NEW t \in Threads, RepRead(t)
  PROVE  RepSound'
<1>1. pc[t] = "repRead" /\ pc[t] \in Calling
  BY DEF RepRead, At, Calling
<1>2. th[t].sub \in Threads \ {t}
  BY <1>1, Calls DEF Protocol
<1> PICK u \in Threads \ {t} : u = th[t].sub
  BY <1>2
<1>3. /\ pc'[t] = "repWrite" /\ pc'[u] = "write" /\ Only2(t, u) /\ th'[t] = th[t]
      /\ th'[u].data = disk[th[t].srv][th[t].f] /\ disk' = disk
  <2>1. th'[u] = [th[u] EXCEPT !.data = disk[th[t].srv][th[t].f]] /\ th[u] \in ThType
    BY ThCalls DEF RepRead, TypeOK, Srv
  <2>2. th'[u].data = disk[th[t].srv][th[t].f]
    BY <2>1 DEF ThType
  <2> QED
    BY <2>2 DEF RepRead, TypeOK, Only2, tables
<1>4. /\ th[t].j \in Servers /\ disk[th[t].srv][th[t].f] # Absent
      /\ disk[th[t].j][th[t].f] # Absent
  BY <1>1 DEF RepSound, RepPcs, Srv
<1>5. CopyHolds(t) /\ CopyHolds(u)
  BY <1>3, <1>4 DEF CopyHolds, RepPcs
<1> QED
  BY <1>3, <1>5, CopyOfTwo

LEMMA RepWriteCopies ==
  ASSUME TypeOK, Protocol, RepSound, DiskGrows, NEW u \in Threads, RepWrite(u)
  PROVE  RepSound'
<1>1. pc[u] = "write" /\ th[u].caller # NoThread
  BY DEF RepWrite, At, Protocol, CallsPaired
<1>2. th[u].caller \in Threads
  BY <1>1, ThCalls
<1> PICK t \in Threads : t = th[u].caller
  BY <1>2
<1>3. t # u /\ pc[t] = "repWrite"
  <2>1. t # u /\ pc[t] \in Calling /\ Serves(u, t)
    BY <1>1, Called DEF Protocol
  <2> QED
    BY <1>1, <2>1 DEF Serves, Calling, Opening
<1>4. /\ pc'[u] = "await" /\ pc'[t] = "repClose" /\ Only2(t, u) /\ th'[t] = th[t]
  BY <1>3 DEF RepWrite, TypeOK, Only2
<1>5. /\ th[t].j \in Servers /\ disk[th[t].srv][th[t].f] # Absent
      /\ disk[th[t].j][th[t].f] # Absent
  BY <1>3 DEF RepSound, RepPcs, Srv
<1>6. th[t].srv \in Servers /\ th[t].f \in Files
  BY ThCalls, ThFields
<1>7. CopyHolds(t) /\ CopyHolds(u)
  BY <1>4, <1>5, <1>6 DEF CopyHolds, DiskGrows, RepPcs
<1> QED
  BY <1>4, <1>7, CopyOfTwo

LEMMA RepCloseCopies ==
  ASSUME TypeOK, Protocol, RepSound, DiskGrows, NEW t \in Threads, RepClose(t)
  PROVE  RepSound'
<1>1. pc[t] = "repClose" /\ pc[t] \in Calling
  BY DEF RepClose, At, Calling
<1>2. th[t].sub \in Threads \ {t}
  BY <1>1, Calls DEF Protocol
<1> PICK u \in Threads \ {t} : u = th[t].sub
  BY <1>2
<1>3. pc'[t] = "repDone" /\ pc'[u] = "search" /\ Only2(t, u) /\ disk' = disk
  BY DEF RepClose, TypeOK, Only2, tables
<1>4. th'[t].j = th[t].j /\ th'[t].srv = th[t].srv /\ th'[t].f = th[t].f
  <2>1. th'[t] = [th[t] EXCEPT !.sub = NoThread] /\ th[t] \in ThType
    BY ThCalls DEF RepClose, TypeOK
  <2> QED
    BY <2>1 DEF ThType
<1>5. /\ th[t].j \in Servers /\ disk[th[t].srv][th[t].f] # Absent
      /\ disk[th[t].j][th[t].f] # Absent
  BY <1>1 DEF RepSound, RepPcs, Srv
<1>6. CopyHolds(t) /\ CopyHolds(u)
  BY <1>3, <1>4, <1>5 DEF CopyHolds, RepPcs
<1> QED
  BY <1>3, <1>6, CopyOfTwo

LEMMA RepSoundNext ==
  ASSUME TypeOK, Protocol, RepSound, [Next]_vars
  PROVE  RepSound'
<1>1. DiskGrows
  BY DiskNext
<1>2. CASE \E t \in Threads : \/ \E u \in Threads : RepOpen(t, u)
                              \/ OpenForReplica(t) \/ RepRead(t) \/ RepWrite(t)
                              \/ RepClose(t)
  BY <1>1, <1>2, RepOpenCopies, OpenForReplicaCopies, RepReadCopies, RepWriteCopies,
     RepCloseCopies
<1>3. CASE ~ \E t \in Threads : \/ \E u \in Threads : RepOpen(t, u)
                                \/ OpenForReplica(t) \/ RepRead(t) \/ RepWrite(t)
                                \/ RepClose(t)
  <2>1. \A x \in Threads : \/ pc'[x] = pc[x] /\ th'[x] = th[x]
                           \/ pc'[x] \notin Copying
    BY <1>3, CopyUntouched
  <2>2. \A x \in Threads : CopyHolds(x)
    BY <1>1, <2>1, CopyFrame
  <2> QED
    BY <2>2, CopyAll
<1> QED
  BY <1>2, <1>3

-----------------------------------------------------------------------------
(* The tables                                                              *)

\* What table says stays true.
AdvertisedNext(table) ==
  \A f \in Files : \A i \in 1 .. Len(table[f].index) :
    /\ table[f].index[i] \in Servers
    /\ disk'[table[f].index[i]][f] # Absent

LEMMA AdvertisedGrows ==
  ASSUME DiskGrows
  PROVE  \A table : Advertised(table) => AdvertisedNext(table)
  BY DEF DiskGrows, Advertised, AdvertisedNext

LEMMA IndexedFromTables ==
  ASSUME \A s \in Servers : AdvertisedNext(ft'[s]),
         \A t \in Threads : AdvertisedNext(ftIn'[t])
  PROVE  IndexedServersHoldFile'
  BY DEF IndexedServersHoldFile, Advertised, AdvertisedNext

LEMMA IndexedNext ==
  ASSUME TypeOK, RepSound, IndexedServersHoldFile, [Next]_vars
  PROVE  IndexedServersHoldFile'
<1>1. DiskGrows
  BY DiskNext
<1>2. /\ \A s \in Servers : AdvertisedNext(ft[s])
      /\ \A t \in Threads : AdvertisedNext(ftIn[t])
  BY <1>1, AdvertisedGrows DEF IndexedServersHoldFile
<1>3. \A t \in Threads : th[t].srv \in Servers /\ th[t].f \in Files
  BY ThCalls, ThFields
<1>4. ASSUME NEW t \in Threads, OpenForClient(t) PROVE IndexedServersHoldFile'
  <2>1. /\ ft' = [ft EXCEPT ![th[t].srv] = Popular(ft[th[t].srv], th[t].f)]
        /\ ftIn' = ftIn
    BY <1>4 DEF OpenForClient, Srv
  <2>2. \A s \in Servers, f \in Files : ft'[s][f].index = ft[s][f].index
    BY <1>3, <2>1 DEF Popular, TypeOK, FileTable, FileEntry
  <2>3. \A s \in Servers : AdvertisedNext(ft'[s])
    BY <1>2, <2>2 DEF AdvertisedNext
  <2> QED
    BY <1>2, <2>1, <2>3, IndexedFromTables
<1>5. ASSUME NEW t \in Threads, PushFt(t) PROVE IndexedServersHoldFile'
  <2>1. ftIn' = [ftIn EXCEPT ![th[t].sub] = ft[th[t].srv]] /\ ft' = ft
    BY <1>5 DEF PushFt, tables, Srv
  <2>2. \A k \in Threads : ftIn'[k] \in {ftIn[k], ft[th[t].srv]}
    BY <2>1 DEF TypeOK
  <2> QED
    BY <1>2, <1>3, <2>1, <2>2, IndexedFromTables
<1>6. ASSUME NEW t \in Threads, SetFt(t) PROVE IndexedServersHoldFile'
  <2>1. /\ ft' = [ft EXCEPT ![th[t].srv] = ftIn[t]]
        /\ ftIn' = [ftIn EXCEPT ![t] = ZeroFt]
    BY <1>6 DEF SetFt, Srv
  <2>2. AdvertisedNext(ZeroFt)
    BY DEF AdvertisedNext, ZeroFt
  <2>3. /\ \A s \in Servers : ft'[s] \in {ft[s], ftIn[t]}
        /\ \A k \in Threads : ftIn'[k] \in {ftIn[k], ZeroFt}
    BY <2>1 DEF TypeOK
  <2> QED
    BY <1>2, <2>2, <2>3, IndexedFromTables
<1>7. ASSUME NEW t \in Threads, RepDone(t) PROVE IndexedServersHoldFile'
  <2> DEFINE s == th[t].srv
             f == th[t].f
             j == th[t].j
  <2>1. /\ ft' = [ft EXCEPT ![s] = AddReplica(ft[s], f, j)]
        /\ ftIn' = ftIn /\ disk' = disk /\ pc[t] = "repDone"
    BY <1>7 DEF RepDone, At, Srv
  <2>2. j \in Servers /\ disk[j][f] # Absent
    BY <2>1 DEF RepSound, RepPcs
  <2>3. s \in Servers /\ f \in Files
    BY <1>3
  <2> HIDE DEF s, f, j
  <2>4. ASSUME NEW r \in Servers PROVE AdvertisedNext(ft'[r])
    <3>1. CASE r # s
      BY <1>2, <2>1, <2>3, <3>1 DEF TypeOK
    <3>2. CASE r = s
      <4>1. ft'[r] = [ft[s] EXCEPT ![f].index = Append(ft[s][f].index, j)]
        BY <2>1, <2>3, <3>2 DEF TypeOK, AddReplica
      <4>2. SUFFICES ASSUME NEW g \in Files, NEW i \in 1 .. Len(ft'[r][g].index)
                     PROVE  /\ ft'[r][g].index[i] \in Servers
                            /\ disk'[ft'[r][g].index[i]][g] # Absent
        BY DEF AdvertisedNext
      <4>3. CASE g # f
        <5>1. ft'[r][g] = ft[s][g]
          BY <2>3, <4>1, <4>3 DEF TypeOK, FileTable
        <5> QED
          BY <1>2, <2>3, <5>1 DEF AdvertisedNext
      <4>4. CASE g = f
        <5>1. ft'[r][g].index = Append(ft[s][f].index, j) /\ ft[s][f].index \in Seq(Nat)
          BY <2>3, <4>1, <4>4 DEF TypeOK, FileTable, FileEntry
        <5>2. ft'[r][g].index[i] = j
              \/ \E k \in 1 .. Len(ft[s][f].index) : ft'[r][g].index[i] = ft[s][f].index[k]
          BY <5>1
        <5>3. CASE ft'[r][g].index[i] = j
          BY <2>1, <2>2, <4>4, <5>3
        <5>4. ASSUME NEW k \in 1 .. Len(ft[s][f].index),
                     ft'[r][g].index[i] = ft[s][f].index[k]
              PROVE  /\ ft'[r][g].index[i] \in Servers
                     /\ disk'[ft'[r][g].index[i]][g] # Absent
          BY <1>2, <2>3, <4>4, <5>4 DEF AdvertisedNext
        <5> QED
          BY <5>2, <5>3, <5>4
      <4> QED
        BY <4>3, <4>4
    <3> QED
      BY <3>1, <3>2
  <2> QED
    BY <1>2, <2>1, <2>4, IndexedFromTables
<1>8. CASE ~ \E t \in Threads : OpenForClient(t) \/ PushFt(t) \/ SetFt(t)
                                \/ RepDone(t)
  <2>1. UNCHANGED <<ft, ftIn>>
    BY <1>8, PopularityUntouched
  <2> QED
    BY <1>2, <2>1, IndexedFromTables
<1> QED
  BY <1>4, <1>5, <1>6, <1>7, <1>8

LEMMA ReplicasInit == Init => RepSound /\ IndexedServersHoldFile
<1> SUFFICES ASSUME Init PROVE RepSound /\ IndexedServersHoldFile
  OBVIOUS
<1>1. RepSound
  BY DEF Init, RepSound, RepPcs
<1>2. \A t \in Threads : Advertised(ftIn[t])
  BY DEF Init, Advertised, ZeroFt
<1>3. ASSUME NEW s \in Servers PROVE Advertised(ft[s])
  <2>1. \A f \in Files : ft[s][f].index = JoinIndex[f]
    BY DEF Init
  <2>2. ASSUME NEW f \in Files, NEW i \in 1 .. Len(JoinIndex[f])
        PROVE  JoinIndex[f][i] \in Servers /\ disk[JoinIndex[f][i]][f] # Absent
    <3>1. JoinIndex[f][i] \in Servers
      BY ServerAssumption
    <3>2. Holds(JoinIndex[f][i], f)
      BY DEF Holds
    <3> QED
      BY <3>1, <3>2 DEF Init, Original, Absent
  <2> QED
    BY <2>1, <2>2 DEF Advertised
<1> QED
  BY <1>1, <1>2, <1>3 DEF IndexedServersHoldFile

\* Whatever server a file table names, in any server's copy or on its way to
\* one, has the file: for any number of servers, files and replications that
\* run at once.
THEOREM TablesNameHolders == Spec => []IndexedServersHoldFile
<1> DEFINE Inv == TypeOK /\ Protocol /\ RepSound /\ IndexedServersHoldFile
<1>1. Init => Inv
  BY TypeInit, ProtocolInit, ReplicasInit
<1>2. Inv /\ [Next]_vars => Inv'
  BY TypeNext, ProtocolNext, RepSoundNext, IndexedNext
<1>3. Inv => IndexedServersHoldFile
  OBVIOUS
<1> QED
  BY <1>1, <1>2, <1>3, PTL DEF Spec

\* The inductive invariant that TLC checks on small instances holds for all.
THEOREM Invariant == Spec => []IInv
<1>1. TypeOK /\ Protocol => CallsPaired /\ ClientsPaired /\ ReturnsToCaller /\ LockDiscipline
  BY DEF Protocol
<1>2. TypeOK /\ Protocol /\ RepSound /\ [Next]_vars => RepSound'
  BY RepSoundNext
<1>3. Init => RepSound /\ RowsSound
  BY ReplicasInit, SizesAssumption
     DEF Init, JoinedRow, RowsSound, UnusedRows, ZeroSt, ZeroServer
<1>4. [](TypeOK /\ Protocol) /\ RepSound /\ RowsSound /\ [][Next]_vars
        => []RepSound /\ []RowsSound
  BY <1>2, RowsNext, PTL
<1> QED
  BY <1>1, <1>3, <1>4, ProtocolInv, TablesNameHolders, PopularityHonest, PTL DEF Spec, IInv

-----------------------------------------------------------------------------
(* Decisions                                                               *)

\* The steps that store in server_list or file_list.
LEMMA TablesUntouched ==
  ASSUME [Next]_vars,
         ~ \E t \in Threads : \/ OpenForClient(t) \/ OpenForReplica(t) \/ SetSt(t)
                              \/ SetFt(t) \/ CloseFound(t) \/ RepDone(t)
  PROVE  UNCHANGED <<st, ft>>
<1> USE DEF tables, locks, threads, clients, history, vars
<1>1. ASSUME NEW t \in Threads, ThreadStep(t) PROVE UNCHANGED <<st, ft>>
  BY <1>1 DEF ThreadStep, OpenLockS, OpenLockF, ChooseSelf, ChooseReplicate,
     ChooseRedirect, OpenFails, PushSt, PushUnreachable, PushFt, PushEnd,
     RepNoLocalFile, RepOpen, RepUnreachable, RepRead, RepWrite, RepClose,
     CloseNotFound, CloseNext, CloseEnd
<1>2. ASSUME NEW c \in Clients, LibraryStep(c) \/ AppStep(c) PROVE UNCHANGED <<st, ft>>
  BY <1>2 DEF LibraryStep, AppStep, ClientFollowFails, ClientFollow,
     ClientOpen, ClientWrite, ClientClose
<1> QED
  BY <1>1, <1>2 DEF Next, Finished

\* Storing a descriptor leaves every row as free as it was.
LEMMA SetFdKeepsFree ==
  ASSUME NEW table \in ServerTable, NEW s \in Servers, NEW f \in Files, NEW fd
  PROVE  \A i \in Servers : SetFd(table, s, f, fd)[i].free = table[i].free
<1>1. Servers \subseteq Slots
  BY SizesAssumption DEF Servers, Slots
<1> QED
  BY <1>1 DEF SetFd, ServerTable, ServerEntry

\* Whoever else stores in a table while thread x is inside the code s_lock
\* guards leaves every free as it is.
LEMMA FreesNext ==
  ASSUME TypeOK, LockDiscipline, [Next]_vars, NEW s \in Servers, slock[s] # NoThread,
         pc'[slock[s]] = pc[slock[s]]
  PROVE  Frees(s)' = Frees(s)
<1> SUFFICES \A i \in Servers : st'[s][i].free = st[s][i].free
  BY DEF Frees
<1>1. slock[s] \in Threads
  BY DEF TypeOK
<1>2. \A t \in Threads : /\ th[t].srv \in Servers /\ th[t].f \in Files
                         /\ th[t].srv = s /\ UnderBoth(t) => slock[s] = t
  BY ThCalls, ThFields DEF LockDiscipline, UnderS, Srv
<1>3. ASSUME NEW t \in Threads, OpenForClient(t) \/ OpenForReplica(t)
      PROVE  st'[s] = st[s]
  <2>1. UnderBoth(t) /\ pc'[t] # pc[t]
    <3>1. pc[t] = "serve"
      BY <1>3 DEF OpenForClient, OpenForReplica, At
    <3>2. CASE OpenForClient(t)
      BY <3>1, <3>2 DEF OpenForClient, TypeOK, UnderBoth
    <3>3. CASE OpenForReplica(t)
      BY <3>1, <3>3 DEF OpenForReplica, TypeOK, UnderBoth
    <3> QED
      BY <1>3, <3>2, <3>3
  <2>2. th[t].srv # s
    BY <1>2, <2>1
  <2> QED
    BY <1>3, <2>2 DEF OpenForClient, OpenForReplica, TypeOK, Srv
<1>4. ASSUME NEW t \in Threads, SetSt(t) PROVE st'[s] = st[s]
  BY <1>4 DEF SetSt, TypeOK, Srv
<1>5. ASSUME NEW t \in Threads, CloseFound(t)
      PROVE  \A i \in Servers : st'[s][i].free = st[s][i].free
  <2>1. PICK f \in Files : st' = [st EXCEPT ![th[t].srv] = SetFd(st[th[t].srv], th[t].srv, f, NoFd)]
    BY <1>5 DEF CloseFound, Matches, Srv
  <2>2. st[s] \in ServerTable
    BY DEF TypeOK
  <2>3. CASE th[t].srv = s
    BY <2>1, <2>2, <2>3, SetFdKeepsFree DEF TypeOK
  <2>4. CASE th[t].srv # s
    BY <2>1, <2>4 DEF TypeOK
  <2> QED
    BY <2>3, <2>4
<1>6. ASSUME NEW t \in Threads, SetFt(t) \/ RepDone(t) PROVE st' = st
  BY <1>6 DEF SetFt, RepDone
<1> QED
  BY <1>3, <1>4, <1>5, <1>6, TablesUntouched

LEMMA PopularityKept ==
  ASSUME TypeOK, LockDiscipline, [Next]_vars, NEW s \in Servers, flock[s] # NoThread,
         pc'[flock[s]] = pc[flock[s]]
  PROVE  Popularity(s)' = Popularity(s)
<1> SUFFICES \A f \in Files : ft'[s][f].request = ft[s][f].request
  BY DEF Popularity
<1>1. \A t \in Threads : /\ th[t].srv \in Servers /\ th[t].f \in Files /\ th[t].j \in Nat
                         /\ th[t].srv = s /\ UnderBoth(t) => flock[s] = t
  BY ThCalls, ThFields DEF LockDiscipline, Srv
<1>2. ASSUME NEW t \in Threads, OpenForClient(t) PROVE ft'[s] = ft[s]
  <2>1. UnderBoth(t) /\ pc'[t] # pc[t]
    BY <1>2 DEF OpenForClient, TypeOK, UnderBoth, At
  <2>2. th[t].srv # s
    BY <1>1, <2>1
  <2> QED
    BY <1>2, <2>2 DEF OpenForClient, TypeOK, Srv
<1>3. ASSUME NEW t \in Threads, SetFt(t) PROVE ft'[s] = ft[s]
  BY <1>3 DEF SetFt, TypeOK, Srv
<1>4. ASSUME NEW t \in Threads, RepDone(t)
      PROVE  \A f \in Files : ft'[s][f].request = ft[s][f].request
  <2>1. ft' = [ft EXCEPT ![th[t].srv] = AddReplica(ft[th[t].srv], th[t].f, th[t].j)]
    BY <1>4 DEF RepDone, Srv
  <2>2. ft[s] \in FileTable
    BY DEF TypeOK
  <2>3. CASE th[t].srv = s
    <3>1. ft'[s] = AddReplica(ft[s], th[t].f, th[t].j)
      BY <2>1, <2>3 DEF TypeOK
    <3> QED
      BY <1>1, <2>2, <3>1, FileTableType
  <2>4. CASE th[t].srv # s
    BY <2>1, <2>4 DEF TypeOK
  <2> QED
    BY <2>3, <2>4
<1>5. ASSUME NEW t \in Threads, OpenForReplica(t) \/ SetSt(t) \/ CloseFound(t)
      PROVE  ft' = ft
  BY <1>5 DEF OpenForReplica, SetSt, CloseFound
<1> QED
  BY <1>2, <1>3, <1>4, <1>5, TablesUntouched

\* While a thread is inside server_open with the mutexes of its server, and
\* does not move itself, the free figures and the popularity it decides from
\* stay as they are, whatever all other threads store.
THEOREM DecisionsAreStable == Spec => DecisionIsStable
<1>1. TypeOK /\ Protocol /\ [Next]_vars
        => [\A s \in Servers :
              /\ slock[s] # NoThread /\ pc'[slock[s]] = pc[slock[s]]
                   => Frees(s)' = Frees(s)
              /\ flock[s] # NoThread /\ pc'[flock[s]] = pc[flock[s]]
                   => Popularity(s)' = Popularity(s)]_vars
  BY FreesNext, PopularityKept DEF Protocol
<1> QED
  BY <1>1, ProtocolInv, PTL DEF Spec, DecisionIsStable

-----------------------------------------------------------------------------
(* One server pushes                                                       *)

PushPcs == {"push", "pushFt"}
Pushed  == {"setSt", "ackFt"}

\* The figures of server 0.
SameFree(table) == \A i \in Servers : table[i].free = st[0][i].free

PushCalls ==
  \A t \in Threads :
    /\ pc[t] \in Pushed => th[t].caller # NoThread
    /\ pc[t] = "pushFt" => Srv(th[t].sub) = th[t].j /\ th[t].j \in Servers

\* The servers before the one that is its turn have them, that one too or in
\* its socket; between two pushes all have.
PushesFree ==
  \A t \in Threads :
    /\ pc[t] \in PushPcs => \A s \in Servers : s < th[t].j => SameFree(st[s])
    /\ pc[t] = "pushFt" => IF pc[th[t].sub] = "setSt" THEN SameFree(stIn[th[t].sub])
                                                     ELSE SameFree(st[th[t].j])
SettledFree ==
  (\A t \in Threads : pc[t] \notin PushPcs) => \A s \in Servers : SameFree(st[s])

FreeInv == PushCalls /\ PushesFree /\ SettledFree

\* There is one at most, because it holds s_lock.
LEMMA OnePusher ==
  ASSUME LockDiscipline, OnlyZeroPushes, NEW t \in Threads, UnderBoth(t), Srv(t) = 0
  PROVE  slock[0] = t /\ \A x \in Threads : pc[x] \in PushPcs => x = t
<1>1. 0 \in Servers
  BY SizesAssumption DEF Servers
<1> QED
  BY <1>1 DEF LockDiscipline, UnderS, UnderBoth, OnlyZeroPushes, PushPcs

\* The steps that have nothing to do with a push.
LEMMA PushUntouched ==
  ASSUME TypeOK, CallsPaired, [Next]_vars,
         ~ \E t \in Threads : \/ OpenForClient(t) \/ PushUnreachable(t) \/ PushFt(t)
                              \/ PushEnd(t) \/ SetSt(t)
                              \/ \E u \in Threads : PushSt(t, u)
  PROVE  /\ stIn' = stIn
         /\ \A x \in Threads : pc[x] \in PushPcs \cup Pushed \/ pc'[x] \in PushPcs \cup Pushed
                                 => pc'[x] = pc[x] /\ th'[x] = th[x]
         /\ \A s \in Servers, i \in Servers : st'[s][i].free = st[s][i].free
<1> USE DEF tables, locks, threads, clients, history, vars, PushPcs, Pushed
<1> DEFINE Kept == \A x \in Threads :
                     pc[x] \in PushPcs \cup Pushed \/ pc'[x] \in PushPcs \cup Pushed
                       => pc'[x] = pc[x] /\ th'[x] = th[x]
<1> pc \in [Threads -> Pcs] /\ th \in [Threads -> ThType]
  BY DEF TypeOK
<1>1. ASSUME NEW t \in Threads, OpenLockS(t) \/ OpenLockF(t) \/ ChooseSelf(t)
                                \/ ChooseReplicate(t)
      PROVE  stIn' = stIn /\ st' = st /\ Kept
  BY <1>1 DEF OpenLockS, OpenLockF, ChooseSelf, ChooseReplicate, At
<1>2. ASSUME NEW t \in Threads, ChooseRedirect(t) \/ OpenFails(t) \/ SetFt(t)
                                \/ CloseNotFound(t) \/ CloseEnd(t)
      PROVE  stIn' = stIn /\ st' = st /\ Kept
  BY <1>2 DEF ChooseRedirect, OpenFails, SetFt, CloseNotFound, CloseEnd, Ends, At
<1>3. ASSUME NEW t \in Threads, NEW u \in Threads, RepNoLocalFile(t, u) \/ RepOpen(t, u)
      PROVE  stIn' = stIn /\ st' = st /\ Kept
  BY <1>3 DEF RepNoLocalFile, RepOpen, At, Fresh
<1>4. ASSUME NEW t \in Threads, RepUnreachable(t) \/ RepDone(t)
      PROVE  stIn' = stIn /\ st' = st /\ Kept
  BY <1>4 DEF RepUnreachable, RepDone, Return, At
<1>5. ASSUME NEW t \in Threads, RepRead(t) \/ RepClose(t)
      PROVE  stIn' = stIn /\ st' = st /\ Kept
  <2>1. pc[t] \in {"repRead", "repClose"}
    BY <1>5 DEF RepRead, RepClose, At
  <2>2. PICK u \in Threads : u = th[t].sub /\ pc[u] = "await"
    BY <2>1, Calls DEF Calling, Serves
  <2> QED BY <1>5, <2>1, <2>2 DEF RepRead, RepClose
<1>6. ASSUME NEW t \in Threads, RepWrite(t)
      PROVE  stIn' = stIn /\ st' = st /\ Kept
  <2>1. pc[t] = "write" /\ th[t].caller # NoThread
    BY <1>6 DEF RepWrite, At, CallsPaired
  <2>2. PICK k \in Threads : k = th[t].caller /\ pc[k] = "repWrite"
    BY <2>1, Called DEF Calling, Serves, Opening
  <2> QED BY <1>6, <2>1, <2>2 DEF RepWrite
<1>7. ASSUME NEW t \in Threads, OpenForReplica(t)
      PROVE  /\ stIn' = stIn /\ Kept
             /\ \E fd : st' = [st EXCEPT ![Srv(t)] = SetFd(@, Srv(t), th[t].f, fd)]
  <2>1. pc[t] = "serve" /\ th[t].caller # NoThread
    BY <1>7 DEF OpenForReplica, At, CallsPaired, Opening
  <2>2. PICK k \in Threads : k = th[t].caller /\ pc[k] = "repOpen"
    BY <2>1, Called DEF Calling, Serves, Opening
  <2>3. /\ stIn' = stIn
        /\ \E fd : st' = [st EXCEPT ![Srv(t)] = SetFd(@, Srv(t), th[t].f, fd)]
    BY <1>7 DEF OpenForReplica
  <2>4. Kept
    BY <1>7, <2>1, <2>2 DEF OpenForReplica
  <2> QED BY <2>3, <2>4
<1>8. ASSUME NEW t \in Threads, CloseFound(t)
      PROVE  /\ stIn' = stIn /\ Kept
             /\ \E f \in Files : st' = [st EXCEPT ![Srv(t)] = SetFd(@, Srv(t), f, NoFd)]
  BY <1>8 DEF CloseFound, Matches, At
<1>9. ASSUME NEW t \in Threads, CloseNext(t)
      PROVE  stIn' = stIn /\ st' = st /\ Kept
  BY <1>9 DEF CloseNext, At
<1>10. ASSUME NEW c \in Clients, LibraryStep(c) \/ AppStep(c)
       PROVE  stIn' = stIn /\ st' = st /\ Kept
  BY <1>10 DEF LibraryStep, AppStep, ClientFollowFails, ClientFollow, ClientOpen,
     ClientWrite, ClientClose, Ends, Fresh, At
<1>11. CASE UNCHANGED vars
  BY <1>11
<1>12. ASSUME NEW t \in Threads, NEW f \in Files, NEW fd,
              st' = [st EXCEPT ![Srv(t)] = SetFd(@, Srv(t), f, fd)]
       PROVE  \A s \in Servers, i \in Servers : st'[s][i].free = st[s][i].free
  <2> SUFFICES ASSUME NEW s \in Servers
               PROVE  \A i \in Servers : st'[s][i].free = st[s][i].free
    OBVIOUS
  <2>1. Srv(t) \in Servers /\ st[s] \in ServerTable
    BY ThFields DEF Srv, TypeOK
  <2>2. CASE s = Srv(t)
    <3>1. st'[s] = SetFd(st[s], s, f, fd)
      BY <1>12, <2>2 DEF TypeOK
    <3> QED BY <2>1, <3>1, SetFdKeepsFree
  <2>3. CASE s # Srv(t)
    BY <1>12, <2>3 DEF TypeOK
  <2> QED BY <2>2, <2>3
<1>13. \A t \in Threads : th[t].f \in Files
  BY ThFields
<1> HIDE DEF Kept
<1>14. /\ stIn' = stIn /\ Kept
       /\ \/ st' = st
          \/ \A s \in Servers, i \in Servers : st'[s][i].free = st[s][i].free
  <2>1. ASSUME NEW t \in Threads, OpenForReplica(t) \/ CloseFound(t)
        PROVE  /\ stIn' = stIn /\ Kept
               /\ \A s \in Servers, i \in Servers : st'[s][i].free = st[s][i].free
    <3>1. CASE OpenForReplica(t)
      BY <1>7, <1>12, <1>13, <3>1
    <3>2. CASE CloseFound(t)
      BY <1>8, <1>12, <3>2
    <3> QED BY <2>1, <3>1, <3>2
  <2>2. CASE UNCHANGED vars
    BY <2>2 DEF Kept
  <2> QED
    BY <1>1, <1>2, <1>3, <1>4, <1>5, <1>6, <1>9, <1>10, <2>1, <2>2
       DEF Next, Finished, ThreadStep
<1> QED
  BY <1>14 DEF Kept

\* Two things decide who else may be in a push or in its handler: t is the one
\* that pushes, and who is not t or u is as it was.
LEMMA PushFrame ==
  ASSUME TypeOK, CallsPaired, PushCalls, NEW t \in Threads, NEW u \in Threads, Only2(t, u),
         \A x \in Threads : pc'[x] \in PushPcs => x = t,
         pc'[t] \notin Pushed,
         pc'[u] \in Pushed => th'[u].caller # NoThread,
         pc'[t] = "pushFt" => th'[th'[t].sub].srv = th'[t].j /\ th'[t].j \in Servers
  PROVE  PushCalls'
BY DEF PushCalls, Only2, Srv, PushPcs

LEMMA PushesFrame ==
  ASSUME NEW t \in Threads, \A x \in Threads : pc'[x] \in PushPcs => x = t,
         NEW j, th'[t].j = j, \A s \in Servers : s < j => SameFree(st[s])',
         pc'[t] = "pushFt" => \E u \in Threads :
           /\ th'[t].sub = u
           /\ \/ pc'[u] = "setSt" /\ SameFree(stIn[u])'
              \/ pc'[u] # "setSt" /\ SameFree(st[j])'
  PROVE  PushesFree'
<1> SUFFICES ASSUME NEW x \in Threads, pc'[x] \in PushPcs
             PROVE  /\ \A s \in Servers : s < th'[x].j => SameFree(st[s])'
                    /\ pc'[x] = "pushFt" =>
                         IF pc'[th'[x].sub] = "setSt" THEN SameFree(stIn[th[x].sub])'
                                                     ELSE SameFree(st[th[x].j])'
  BY DEF PushesFree, PushPcs
<1>1. x = t
  OBVIOUS
<1>2. ASSUME pc'[t] = "pushFt"
      PROVE  IF pc'[th'[t].sub] = "setSt" THEN SameFree(stIn[th[t].sub])'
                                          ELSE SameFree(st[th[t].j])'
  BY <1>2 DEF SameFree
<1> QED
  BY <1>1, <1>2 DEF SameFree

LEMMA FreeUntouched ==
  ASSUME TypeOK, CallsPaired, FreeInv, [Next]_vars,
         ~ \E t \in Threads : \/ OpenForClient(t) \/ PushUnreachable(t) \/ PushFt(t)
                              \/ PushEnd(t) \/ SetSt(t)
                              \/ \E u \in Threads : PushSt(t, u)
  PROVE  FreeInv'
<1>1. /\ stIn' = stIn
      /\ \A x \in Threads : pc[x] \in PushPcs \cup Pushed \/ pc'[x] \in PushPcs \cup Pushed
                              => pc'[x] = pc[x] /\ th'[x] = th[x]
      /\ \A s \in Servers, i \in Servers : st'[s][i].free = st[s][i].free
  BY PushUntouched
<1>2. 0 \in Servers
  BY SizesAssumption DEF Servers
<1>3. /\ \A s \in Servers : SameFree(st[s])' <=> SameFree(st[s])
      /\ \A x \in Threads : SameFree(stIn[x])' <=> SameFree(stIn[x])
  BY <1>1, <1>2 DEF SameFree
<1>4. ASSUME NEW x \in Threads, pc[x] = "pushFt"
      PROVE  /\ th[x].sub \in Threads /\ pc[th[x].sub] \in Pushed /\ th[x].j \in Servers
             /\ pc'[th[x].sub] = pc[th[x].sub] /\ th'[th[x].sub] = th[th[x].sub]
  <2>1. th[x].sub \in Threads /\ pc[th[x].sub] \in Pushed
    BY <1>4, Calls DEF Calling, Serves, Pushed
  <2> QED BY <1>1, <1>4, <2>1 DEF FreeInv, PushCalls
<1>5. PushCalls'
  BY <1>1, <1>4 DEF FreeInv, PushCalls, PushPcs, Srv
<1>6. PushesFree'
  <2> SUFFICES ASSUME NEW x \in Threads, pc'[x] \in PushPcs
               PROVE  /\ \A s \in Servers : s < th'[x].j => SameFree(st[s])'
                      /\ pc'[x] = "pushFt" =>
                           IF pc'[th'[x].sub] = "setSt" THEN SameFree(stIn[th[x].sub])'
                                                       ELSE SameFree(st[th[x].j])'
    BY <1>1 DEF PushesFree, PushPcs
  <2>1. pc'[x] = pc[x] /\ th'[x] = th[x]
    BY <1>1
  <2>2. /\ \A s \in Servers : s < th[x].j => SameFree(st[s])
        /\ pc[x] = "pushFt" => IF pc[th[x].sub] = "setSt" THEN SameFree(stIn[th[x].sub])
                                                         ELSE SameFree(st[th[x].j])
    BY <2>1 DEF FreeInv, PushesFree
  <2>3. \A s \in Servers : s < th'[x].j => SameFree(st[s])'
    BY <1>3, <2>1, <2>2
  <2>4. ASSUME pc[x] = "pushFt"
        PROVE  IF pc[th[x].sub] = "setSt" THEN SameFree(stIn[th[x].sub])'
                                          ELSE SameFree(st[th[x].j])'
    <3>1. PICK u \in Threads : u = th[x].sub /\ th'[x].sub = u
      BY <1>4, <2>1, <2>4
    <3>2. PICK j \in Servers : j = th[x].j /\ th'[x].j = j
      BY <1>4, <2>1, <2>4
    <3>3. IF pc[u] = "setSt" THEN SameFree(stIn[u])' ELSE SameFree(st[j])'
      BY <1>3, <2>2, <2>4, <3>1, <3>2
    <3> QED BY <3>1, <3>2, <3>3 DEF SameFree
  <2> QED BY <1>4, <2>1, <2>3, <2>4
<1>7. SettledFree'
  BY <1>1, <1>3 DEF FreeInv, SettledFree
<1> QED
  BY <1>5, <1>6, <1>7 DEF FreeInv

\* An open is counted: only server 0 knows, and its push begins.
LEMMA OpenCounts ==
  ASSUME TypeOK, Protocol, FreeInv, OnlyZeroPushes, OnlyZeroPushes', NEW t \in Threads,
         OpenForClient(t)
  PROVE  FreeInv'
<1>1. /\ pc[t] = "serve" /\ pc'[t] = "push" /\ Only2(t, t) /\ stIn' = stIn
      /\ \A s \in Servers \ {Srv(t)} : st'[s] = st[s]
  BY DEF OpenForClient, At, TypeOK, Only2
<1>2. th'[t].srv = th[t].srv /\ th'[t].j = SkipSelf(th[t].srv, 0)
  BY ThCalls DEF OpenForClient, TypeOK, ThType, Srv
<1>3. Srv(t) = 0 /\ th'[t].j = 1
  BY <1>1, <1>2 DEF OnlyZeroPushes, PushPcs, Srv, SkipSelf
<1>4. \A x \in Threads : pc[x] \notin PushPcs
  BY <1>1, <1>3, OnePusher DEF Protocol, UnderBoth, PushPcs
<1>5. \A x \in Threads : pc'[x] \in PushPcs => x = t
  BY <1>1, <1>4 DEF Only2
<1>6. PushCalls'
  BY <1>1, <1>5, PushFrame DEF FreeInv, Protocol, Pushed
<1>7. \A s \in Servers : s < 1 => SameFree(st[s])'
  BY DEF Servers, SameFree
<1>8. PushesFree'
  BY <1>1, <1>3, <1>5, <1>7, PushesFrame
<1>9. SettledFree'
  BY <1>1 DEF SettledFree, PushPcs
<1> QED
  BY <1>6, <1>8, <1>9 DEF FreeInv

\* The next server is told ...
LEMMA PushGoesOut ==
  ASSUME TypeOK, Protocol, FreeInv, OnlyZeroPushes, NEW t \in Threads, NEW u \in Threads,
         PushSt(t, u)
  PROVE  FreeInv'
<1>1. /\ pc[t] = "push" /\ pc[u] = "idle" /\ t # u /\ Srv(t) = 0
      /\ pc'[t] = "pushFt" /\ pc'[u] = "setSt" /\ Only2(t, u)
      /\ st' = st /\ stIn'[u] = st[0] /\ th[t].j \in Servers
  BY DEF PushSt, At, Fresh, Only2, TypeOK, OnlyZeroPushes, PushPcs, tables
<1>2. /\ th'[t].sub = u /\ th'[t].j = th[t].j
      /\ th'[u].caller = t /\ th'[u].srv = th[t].j
  <2>1. /\ th'[t] = [th[t] EXCEPT !.sub = u] /\ th[t] \in ThType
        /\ th'[u] = Handler(th[t].j, t, 0, "none", "read")
    BY <1>1, ThCalls DEF PushSt, TypeOK
  <2> QED
    BY <2>1 DEF ThType, Handler
<1>3. \A x \in Threads : pc[x] \in PushPcs => x = t
  BY <1>1, OnePusher DEF Protocol, UnderBoth
<1>4. \A x \in Threads : pc'[x] \in PushPcs => x = t
  BY <1>1, <1>3 DEF Only2, PushPcs
<1>5. PushCalls'
  BY <1>1, <1>2, <1>4, PushFrame, NoThreadApart DEF FreeInv, Protocol, Pushed
<1>6. \A s \in Servers : s < th[t].j => SameFree(st[s])'
  BY <1>1 DEF FreeInv, PushesFree, SameFree, PushPcs
<1>7. SameFree(stIn[u])'
  BY <1>1 DEF SameFree
<1>8. PushesFree'
  BY <1>1, <1>2, <1>4, <1>6, <1>7, PushesFrame
<1>9. SettledFree'
  BY <1>1 DEF SettledFree, PushPcs
<1> QED
  BY <1>5, <1>8, <1>9 DEF FreeInv

\* ... and stores what it was sent ...
LEMMA PushArrives ==
  ASSUME TypeOK, Protocol, FreeInv, OnlyZeroPushes, NEW u \in Threads, SetSt(u)
  PROVE  FreeInv'
<1>1. /\ pc[u] = "setSt" /\ pc'[u] = "ackFt" /\ th' = th
      /\ st' = [st EXCEPT ![th[u].srv] = stIn[u]]
  BY DEF SetSt, At, TypeOK, Srv
<1>2. th[u].caller # NoThread
  BY <1>1 DEF FreeInv, PushCalls, Pushed
<1>3. PICK t \in Threads \ {u} : t = th[u].caller /\ pc[t] = "pushFt" /\ th[t].sub = u
  BY <1>1, <1>2, Called DEF Protocol, Serves, Calling, Opening
<1>4. /\ Srv(t) = 0 /\ th[t].j \in Servers /\ th[u].srv = th[t].j
      /\ SameFree(stIn[u])
      /\ \A s \in Servers : s < th[t].j => SameFree(st[s])
  BY <1>1, <1>3 DEF FreeInv, PushCalls, PushesFree, OnlyZeroPushes, PushPcs, Srv
<1>5. Only2(t, u) /\ pc'[t] = "pushFt"
  BY <1>1, <1>3 DEF SetSt, TypeOK, Only2
<1>6. \A x \in Threads : pc[x] \in PushPcs => x = t
  BY <1>3, <1>4, OnePusher DEF Protocol, UnderBoth
<1>7. \A x \in Threads : pc'[x] \in PushPcs => x = t
  BY <1>1, <1>5, <1>6 DEF Only2, PushPcs
<1>8. PushCalls'
  BY <1>1, <1>2, <1>3, <1>4, <1>5, <1>7, PushFrame DEF FreeInv, Protocol, Pushed
<1>9. PICK j \in Servers : j = th[t].j
  BY <1>4
<1>10. 0 \in Servers /\ \A s \in Servers : st'[s] = IF s = j THEN stIn[u] ELSE st[s]
  BY <1>1, <1>4, <1>9, SizesAssumption DEF TypeOK, Servers
<1>11. \A i \in Servers : st'[0][i].free = st[0][i].free
  BY <1>4, <1>10 DEF SameFree
<1>12. SameFree(st[j])'
  BY <1>4, <1>10, <1>11 DEF SameFree
<1>13. ASSUME NEW s \in Servers, s < j PROVE SameFree(st[s])'
  BY <1>4, <1>9, <1>10, <1>11, <1>13 DEF SameFree
<1>14. PushesFree'
  <2>1. th'[t].j = j /\ th'[t].sub = u /\ pc'[u] # "setSt"
    BY <1>1, <1>3, <1>9
  <2> QED BY <1>7, <1>12, <1>13, <2>1, PushesFrame
<1>15. SettledFree'
  BY <1>5 DEF SettledFree, PushPcs
<1> QED
  BY <1>8, <1>14, <1>15 DEF FreeInv

\* ... before the push turns to the one after it ...
LEMMA PushAnswered ==
  ASSUME TypeOK, Protocol, FreeInv, OnlyZeroPushes, NEW t \in Threads, PushFt(t)
  PROVE  FreeInv'
<1>0. pc[t] = "pushFt"
  BY DEF PushFt, At
<1>1. PICK u \in Threads \ {t} : u = th[t].sub /\ pc[u] = "ackFt"
  BY <1>0, Calls DEF PushFt, Calling, Protocol
<1>2. /\ pc'[t] = "push" /\ pc'[u] = "setFt" /\ Only2(t, u) /\ st' = st /\ Srv(t) = 0
  BY <1>0, <1>1 DEF PushFt, TypeOK, Only2, OnlyZeroPushes, PushPcs, tables
<1>3. PICK j \in Servers : j = th[t].j
  BY <1>0 DEF FreeInv, PushCalls
<1>4. th'[t].j = j + 1
  <2>1. th'[t] = [th[t] EXCEPT !.sub = NoThread, !.j = SkipSelf(0, j + 1)]
    BY <1>1, <1>2, <1>3 DEF PushFt, TypeOK
  <2>2. SkipSelf(0, j + 1) = j + 1
    BY DEF SkipSelf, Servers
  <2> QED BY <2>1, <2>2, ThCalls DEF ThType
<1>5. \A x \in Threads : pc[x] \in PushPcs => x = t
  BY <1>0, <1>2, OnePusher DEF Protocol, UnderBoth
<1>6. \A x \in Threads : pc'[x] \in PushPcs => x = t
  BY <1>2, <1>5 DEF Only2, PushPcs
<1>7. PushCalls'
  BY <1>2, <1>6, PushFrame DEF FreeInv, Protocol, Pushed
<1>8. /\ SameFree(st[j])
      /\ \A s \in Servers : s < j => SameFree(st[s])
  BY <1>0, <1>1, <1>3 DEF FreeInv, PushesFree, PushPcs
<1>9. \A s \in Servers : s < j + 1 => s < j \/ s = j
  BY DEF Servers
<1>10. \A s \in Servers : s < j + 1 => SameFree(st[s])'
  BY <1>2, <1>8, <1>9 DEF SameFree
<1>11. PushesFree'
  BY <1>2, <1>4, <1>6, <1>10, PushesFrame
<1>12. SettledFree'
  BY <1>2 DEF SettledFree, PushPcs
<1> QED
  BY <1>7, <1>11, <1>12 DEF FreeInv

\* ... and past the last one it ends.
LEMMA PushIsOver ==
  ASSUME TypeOK, Protocol, FreeInv, OnlyZeroPushes, NEW t \in Threads, PushEnd(t)
  PROVE  FreeInv'
<1>1. /\ pc[t] = "push" /\ pc'[t] = "await" /\ Only2(t, t) /\ st' = st /\ Srv(t) = 0
      /\ th[t].j \notin Servers
  BY DEF PushEnd, At, TypeOK, Only2, OnlyZeroPushes, PushPcs, tables
<1>2. \A x \in Threads : pc[x] \in PushPcs => x = t
  BY <1>1, OnePusher DEF Protocol, UnderBoth
<1>3. \A x \in Threads : pc'[x] \notin PushPcs
  BY <1>1, <1>2 DEF Only2, PushPcs
<1>4. PushCalls'
  BY <1>1, <1>3, PushFrame DEF FreeInv, Protocol, Pushed
<1>5. \A s \in Servers : s < th[t].j
  <2>1. th[t].j \in Nat /\ NServers \in Nat
    BY SizesAssumption, ThFields DEF TypeOK
  <2> QED BY <1>1, <2>1 DEF Servers
<1>6. \A s \in Servers : SameFree(st[s])'
  BY <1>1, <1>5 DEF FreeInv, PushesFree, SameFree, PushPcs
<1>7. PushesFree' /\ SettledFree'
  BY <1>3, <1>6 DEF PushesFree, SettledFree, PushPcs
<1> QED
  BY <1>4, <1>7 DEF FreeInv

LEMMA FreeInit == Init => FreeInv
<1> SUFFICES ASSUME Init PROVE FreeInv
  OBVIOUS
<1>1. \A t \in Threads : pc[t] = "idle"
  BY DEF Init
<1>2. 0 \in Servers
  BY SizesAssumption DEF Servers
<1>3. \A s \in Servers : SameFree(st[s])
  BY <1>2 DEF Init, SameFree
<1> QED
  BY <1>1, <1>3 DEF FreeInv, PushCalls, PushesFree, SettledFree, Pushed, PushPcs

\* As long as only server 0 opens files for clients and every server can be
\* reached, all servers agree on every free whenever server 0's mutex is free.
THEOREM FreeAgreesHolds ==
  ASSUME ConnectMayFail = FALSE
  PROVE  Spec /\ []OnlyZeroPushes => []FreeAgrees
<1>1. ASSUME TypeOK, Protocol, FreeInv, OnlyZeroPushes, OnlyZeroPushes', [Next]_vars
      PROVE  FreeInv'
  <2>1. \A t \in Threads : ~ PushUnreachable(t)
    BY DEF PushUnreachable
  <2> QED
    BY <1>1, <2>1, FreeUntouched, OpenCounts, PushGoesOut, PushArrives, PushAnswered,
       PushIsOver DEF Protocol
<1>2. TypeOK /\ Protocol /\ FreeInv /\ OnlyZeroPushes => FreeAgrees
  <2> SUFFICES ASSUME LockDiscipline, FreeInv, OnlyZeroPushes, slock[0] = NoThread,
                      NEW s \in Servers
               PROVE  Frees(s) = Frees(0)
    BY DEF FreeAgrees, Protocol
  <2>1. \A t \in Threads : pc[t] \notin PushPcs
    BY OnePusher, NoThreadApart DEF OnlyZeroPushes, UnderBoth, PushPcs
  <2>2. SameFree(st[s])
    BY <2>1 DEF FreeInv, SettledFree
  <2> QED BY <2>2 DEF SameFree, Frees
<1> QED
  BY <1>1, <1>2, FreeInit, ProtocolInv, PTL DEF Spec

-----------------------------------------------------------------------------
(* Circles of waits                                                        *)

\* In replicate, called by server_open.
RepLocked(t) == pc[t] \in RepPcs /\ th[t].ret = "open"

\* A thread that calls with both mutexes held calls another server.
CallsAway ==
  \A t \in Threads :
    /\ pc[t] = "pushFt" => Srv(th[t].sub) = th[t].j
    /\ pc[t] \in PushPcs \/ RepLocked(t) => th[t].j # Srv(t)

\* replicate keeps to its server while it runs, and begins with another one.
StaysAway(x) ==
  RepLocked(x)' => \/ RepLocked(x) /\ th'[x].j = th[x].j /\ th'[x].srv = th[x].srv
                   \/ th'[x].j # th'[x].srv

LEMMA ReplicatesAway ==
  ASSUME TypeOK, CallsPaired, [Next]_vars
  PROVE  \A x \in Threads : StaysAway(x)
<1> USE DEF tables, locks, threads, clients, history, vars
<1> DEFINE All == \A x \in Threads : StaysAway(x)
<1> pc \in [Threads -> Pcs] /\ th \in [Threads -> ThType]
  BY DEF TypeOK
<1>1. ASSUME NEW t \in Threads, OpenLockS(t) \/ OpenLockF(t) \/ ChooseSelf(t)
      PROVE  All
  <2>1. /\ pc'[t] \in {"lockF", "choose", "serve"} /\ th' = th
        /\ \A x \in Threads \ {t} : pc'[x] = pc[x]
    BY <1>1 DEF OpenLockS, OpenLockF, ChooseSelf
  <2> QED BY <2>1 DEF StaysAway, RepLocked, RepPcs
<1>2. ASSUME NEW t \in Threads, ChooseReplicate(t)
      PROVE  All
  <2>1. /\ th' = [th EXCEPT ![t] = [@ EXCEPT !.j = MostFree(st[Srv(t)]), !.ret = "open"]]
        /\ \A x \in Threads \ {t} : pc'[x] = pc[x] /\ th'[x] = th[x]
        /\ MostFree(st[Srv(t)]) # Srv(t)
    BY <1>2 DEF ChooseReplicate, Replicates, WantsReplica
  <2>2. th[t] \in ThType
    OBVIOUS
  <2>3. th'[t].j # th'[t].srv
    BY <2>1, <2>2 DEF ThType, Srv
  <2> QED BY <2>1, <2>3 DEF StaysAway, RepLocked
<1>3. ASSUME NEW t \in Threads, ChooseRedirect(t) \/ OpenFails(t) \/ SetFt(t)
                                \/ CloseNotFound(t) \/ CloseEnd(t)
      PROVE  All
  BY <1>3 DEF ChooseRedirect, OpenFails, SetFt, CloseNotFound, CloseEnd, Ends, StaysAway,
     RepLocked, RepPcs
<1>4. ASSUME NEW t \in Threads, OpenForClient(t) \/ PushUnreachable(t) \/ PushEnd(t)
                                \/ SetSt(t)
      PROVE  All
  <2>1. /\ pc'[t] \in {"push", "await", "ackFt"}
        /\ \A x \in Threads \ {t} : pc'[x] = pc[x] /\ th'[x] = th[x]
    BY <1>4 DEF OpenForClient, PushUnreachable, PushEnd, SetSt, At
  <2> QED BY <2>1 DEF StaysAway, RepLocked, RepPcs
<1>5. ASSUME NEW t \in Threads, NEW u \in Threads, PushSt(t, u)
      PROVE  All
  BY <1>5 DEF PushSt, StaysAway, RepLocked, RepPcs
<1>6. ASSUME NEW t \in Threads, PushFt(t)
      PROVE  All
  <2>1. PICK u \in Threads \ {t} : u = th[t].sub /\ pc[u] = "ackFt"
    BY <1>6, Calls DEF PushFt, At, Calling
  <2>2. \A x \in Threads \ {t, u} : pc'[x] = pc[x] /\ th'[x] = th[x]
    BY <1>6, <2>1 DEF PushFt
  <2>3. pc'[t] = "push" /\ pc'[u] = "setFt"
    BY <1>6, <2>1 DEF PushFt
  <2> QED BY <2>2, <2>3 DEF StaysAway, RepLocked, RepPcs
<1>7. ASSUME NEW t \in Threads, RepUnreachable(t) \/ RepDone(t)
      PROVE  All
  BY <1>7 DEF RepUnreachable, RepDone, Return, StaysAway, RepLocked, RepPcs
<1>8. ASSUME NEW t \in Threads, NEW u \in Threads, RepNoLocalFile(t, u)
      PROVE  All
  BY <1>8 DEF RepNoLocalFile, At, Fresh, StaysAway, RepLocked, RepPcs
<1>9. ASSUME NEW t \in Threads, NEW u \in Threads, RepOpen(t, u)
      PROVE  All
  <2>1. /\ pc[t] = "repConnect" /\ pc[u] = "idle" /\ t # u
        /\ pc'[u] = "lockS" /\ th'[t] = [th[t] EXCEPT !.sub = u]
        /\ \A x \in Threads \ {t, u} : pc'[x] = pc[x] /\ th'[x] = th[x]
    BY <1>9 DEF RepOpen, At, Fresh
  <2>2. th[t] \in ThType
    OBVIOUS
  <2>3. th'[t].j = th[t].j /\ th'[t].srv = th[t].srv /\ th'[t].ret = th[t].ret
    BY <2>1, <2>2 DEF ThType
  <2>4. StaysAway(t)
    BY <2>1, <2>3 DEF StaysAway, RepLocked, RepPcs
  <2>5. StaysAway(u)
    BY <2>1 DEF StaysAway, RepLocked, RepPcs
  <2> QED BY <2>1, <2>4, <2>5 DEF StaysAway, RepLocked
<1>10. ASSUME NEW t \in Threads, RepRead(t) \/ RepClose(t)
       PROVE  All
  <2>1. pc[t] \in {"repRead", "repClose"}
    BY <1>10 DEF RepRead, RepClose, At
  <2>2. PICK u \in Threads \ {t} : u = th[t].sub /\ pc[u] = "await"
    BY <2>1, Calls DEF Calling, Serves
  <2>3. /\ pc'[u] \in {"write", "search"}
        /\ th'[t] = th[t] \/ th'[t] = [th[t] EXCEPT !.sub = NoThread]
        /\ \A x \in Threads \ {t, u} : pc'[x] = pc[x] /\ th'[x] = th[x]
    BY <1>10, <2>2 DEF RepRead, RepClose
  <2>4. th[t] \in ThType
    OBVIOUS
  <2>5. th'[t].j = th[t].j /\ th'[t].srv = th[t].srv /\ th'[t].ret = th[t].ret
    BY <2>3, <2>4 DEF ThType
  <2>6. StaysAway(t)
    BY <2>1, <2>5 DEF StaysAway, RepLocked, RepPcs
  <2>7. StaysAway(u)
    BY <2>3 DEF StaysAway, RepLocked, RepPcs
  <2> QED BY <2>3, <2>6, <2>7 DEF StaysAway, RepLocked
<1>11. ASSUME NEW t \in Threads, RepWrite(t)
       PROVE  All
  <2>1. pc[t] = "write" /\ th[t].caller # NoThread
    BY <1>11 DEF RepWrite, At, CallsPaired
  <2>2. PICK k \in Threads \ {t} : k = th[t].caller /\ pc[k] = "repWrite"
    BY <2>1, Called DEF Calling, Serves, Opening
  <2>3. /\ pc'[t] = "await" /\ \A x \in Threads \ {t} : th'[x] = th[x]
        /\ \A x \in Threads \ {t, k} : pc'[x] = pc[x]
    BY <1>11, <2>2 DEF RepWrite
  <2> QED BY <2>2, <2>3 DEF StaysAway, RepLocked, RepPcs
<1>12. ASSUME NEW t \in Threads, OpenForReplica(t)
       PROVE  All
  <2>1. pc[t] = "serve" /\ th[t].caller # NoThread
    BY <1>12 DEF OpenForReplica, At, CallsPaired, Opening
  <2>2. PICK k \in Threads \ {t} : k = th[t].caller /\ pc[k] = "repOpen"
    BY <2>1, Called DEF Calling, Serves, Opening
  <2>3. /\ pc'[t] = "await" /\ \A x \in Threads \ {t} : th'[x] = th[x]
        /\ \A x \in Threads \ {t, k} : pc'[x] = pc[x]
    BY <1>12, <2>2 DEF OpenForReplica
  <2> QED BY <2>2, <2>3 DEF StaysAway, RepLocked, RepPcs
<1>13. ASSUME NEW t \in Threads, CloseFound(t) \/ CloseNext(t)
       PROVE  All
  <2>1. CASE CloseFound(t)
    <3>1. /\ pc'[t] = "closeLoop"
          /\ \A x \in Threads \ {t} : pc'[x] = pc[x] /\ th'[x] = th[x]
      BY <2>1 DEF CloseFound
    <3> QED BY <3>1 DEF StaysAway, RepLocked, RepPcs
  <2>2. CASE CloseNext(t)
    <3>1. /\ th'[t] = [th[t] EXCEPT !.ret = "close"] /\ th[t] \in ThType
          /\ \A x \in Threads \ {t} : pc'[x] = pc[x] /\ th'[x] = th[x]
      BY <2>2 DEF CloseNext
    <3>2. th'[t].ret = "close"
      BY <3>1 DEF ThType
    <3> QED BY <3>1, <3>2 DEF StaysAway, RepLocked
  <2> QED BY <1>13, <2>1, <2>2
<1>14. ASSUME NEW c \in Clients, LibraryStep(c) \/ AppStep(c)
       PROVE  All
  BY <1>14 DEF LibraryStep, AppStep, ClientFollowFails, ClientFollow, ClientOpen,
     ClientWrite, ClientClose, Ends, StaysAway, RepLocked, RepPcs
<1>15. ASSUME UNCHANGED <<pc, th>>
       PROVE  All
  BY <1>15 DEF StaysAway, RepLocked
<1> HIDE DEF All, tables, locks, threads, clients, history, vars
<1>16. ASSUME NEW t \in Threads, ThreadStep(t)
       PROVE  All
  BY <1>1, <1>2, <1>3, <1>4, <1>5, <1>6, <1>7, <1>8, <1>9, <1>10, <1>11, <1>12, <1>13,
     <1>16 DEF ThreadStep
<1>17. All
  <2>1. UNCHANGED vars => UNCHANGED <<pc, th>>
    BY DEF vars, threads
  <2>2. \/ \E t \in Threads : ThreadStep(t)
        \/ \E c \in Clients : LibraryStep(c) \/ AppStep(c)
        \/ UNCHANGED vars
    BY DEF Next, Finished
  <2> QED BY <1>14, <1>15, <1>16, <2>1, <2>2
<1> QED
  BY <1>17 DEF All

LEMMA AwayNext ==
  ASSUME TypeOK, CallsPaired, CallsAway, [Next]_vars
  PROVE  CallsAway'
<1> pc \in [Threads -> Pcs] /\ th \in [Threads -> ThType]
  BY DEF TypeOK
<1>1. \A x \in Threads : StaysAway(x)
  BY ReplicatesAway
<1>2. \A x \in Threads : RepLocked(x)' => th'[x].j # th'[x].srv
  BY <1>1 DEF StaysAway, CallsAway, Srv
<1>3. SUFFICES \A x \in Threads :
                 /\ pc'[x] = "pushFt" => th'[th'[x].sub].srv = th'[x].j
                 /\ pc'[x] \in PushPcs => th'[x].j # th'[x].srv
  BY <1>2 DEF CallsAway, Srv, RepLocked
<1> DEFINE Good(x) == /\ pc'[x] = "pushFt" => th'[th'[x].sub].srv = th'[x].j
                      /\ pc'[x] \in PushPcs => th'[x].j # th'[x].srv
\* A push goes on as it was when its thread and its handler stay.
<1>4. ASSUME NEW x \in Threads, pc'[x] = pc[x], th'[x] = th[x],
             pc[x] = "pushFt" => th'[th[x].sub] = th[th[x].sub]
      PROVE  Good(x)
  BY <1>4 DEF CallsAway, Srv
<1>5. \A x \in Threads : pc[x] = "pushFt" => /\ th[x].sub \in Threads \ {x}
                                           /\ pc[th[x].sub] \in Pushed
                                           /\ th[th[x].sub].caller = x
  BY Calls DEF Calling, Serves, Pushed
<1>6. CASE ~ \E t \in Threads : \/ OpenForClient(t) \/ PushUnreachable(t) \/ PushFt(t)
                                \/ PushEnd(t) \/ SetSt(t)
                                \/ \E u \in Threads : PushSt(t, u)
  <2>1. \A x \in Threads : pc[x] \in PushPcs \cup Pushed \/ pc'[x] \in PushPcs \cup Pushed
                             => pc'[x] = pc[x] /\ th'[x] = th[x]
    BY <1>6, PushUntouched
  <2>2. ASSUME NEW x \in Threads PROVE Good(x)
    <3>1. CASE pc'[x] \in PushPcs
      BY <1>4, <1>5, <2>1, <3>1 DEF PushPcs
    <3>2. CASE pc'[x] \notin PushPcs
      BY <3>2 DEF PushPcs
    <3> QED BY <3>1, <3>2
  <2> QED BY <2>2
<1>7. \A s, j \in Nat : SkipSelf(s, j) # s
  BY DEF SkipSelf
<1>8. ASSUME NEW t \in Threads, OpenForClient(t) \/ PushUnreachable(t)
      PROVE  \A x \in Threads : Good(x)
  <2>1. \E j \in Nat, fd \in Threads \cup {NoFd} :
          /\ pc[t] \in {"serve", "push"} /\ pc'[t] = "push"
          /\ th'[t] = [th[t] EXCEPT !.fd = fd, !.j = SkipSelf(Srv(t), j)]
          /\ \A x \in Threads \ {t} : pc'[x] = pc[x] /\ th'[x] = th[x]
    <3>1. CASE OpenForClient(t)
      BY <3>1 DEF OpenForClient, At
    <3>2. CASE PushUnreachable(t)
      <4>1. /\ pc[t] = "push" /\ pc' = pc
            /\ th' = [th EXCEPT ![t].j = SkipSelf(Srv(t), @ + 1)]
        BY <3>2 DEF PushUnreachable, At, threads
      <4>2. th[t].j + 1 \in Nat /\ th[t].fd \in Threads \cup {NoFd} /\ th[t] \in ThType
        BY DEF ThType
      <4>3. th'[t] = [th[t] EXCEPT !.fd = th[t].fd, !.j = SkipSelf(Srv(t), th[t].j + 1)]
        BY <4>1, <4>2 DEF ThType
      <4> QED BY <4>1, <4>2, <4>3
    <3> QED BY <1>8, <3>1, <3>2
  <2>2. Srv(t) \in Nat /\ th[t] \in ThType
    BY ThCalls DEF Srv, Servers
  <2>3. th'[t].j # th'[t].srv
    BY <1>7, <2>1, <2>2 DEF ThType, Srv
  <2>4. ASSUME NEW x \in Threads PROVE Good(x)
    <3>1. CASE x = t
      BY <2>1, <2>3, <3>1
    <3>2. CASE x # t
      <4>1. pc[x] = "pushFt" => th[x].sub # t
        BY <1>5, <2>1 DEF Pushed
      <4> QED BY <1>4, <1>5, <2>1, <3>2, <4>1
    <3> QED BY <3>1, <3>2
  <2> QED BY <2>4
<1>9. ASSUME NEW t \in Threads, NEW u \in Threads, PushSt(t, u)
      PROVE  \A x \in Threads : Good(x)
  <2>1. /\ pc[t] = "push" /\ pc[u] = "idle" /\ t # u
        /\ pc'[t] = "pushFt" /\ pc'[u] = "setSt"
        /\ \A x \in Threads \ {t, u} : pc'[x] = pc[x] /\ th'[x] = th[x]
    BY <1>9 DEF PushSt, At, Fresh
  <2>2. /\ th'[t].sub = u /\ th'[t].j = th[t].j /\ th'[t].srv = th[t].srv
        /\ th'[u].srv = th[t].j
    <3>1. /\ th'[t] = [th[t] EXCEPT !.sub = u] /\ th[t] \in ThType
          /\ th'[u] = Handler(th[t].j, t, 0, "none", "read")
      BY <1>9, <2>1 DEF PushSt
    <3> QED
      BY <3>1 DEF ThType, Handler
  <2>3. Good(t)
    BY <2>1, <2>2 DEF CallsAway, Srv, PushPcs
  <2>4. Good(u)
    BY <2>1 DEF PushPcs
  <2>5. ASSUME NEW x \in Threads \ {t, u} PROVE Good(x)
    <3>1. pc[x] = "pushFt" => th[x].sub \in Threads \ {t, u}
      BY <1>5, <2>1 DEF Pushed
    <3> QED BY <1>4, <2>1, <3>1
  <2> QED BY <2>3, <2>4, <2>5
<1>10. ASSUME NEW t \in Threads, PushFt(t)
       PROVE  \A x \in Threads : Good(x)
  <2>0. pc[t] = "pushFt"
    BY <1>10 DEF PushFt, At
  <2>1. PICK u \in Threads \ {t} : u = th[t].sub /\ pc[u] = "ackFt"
    BY <1>5, <1>10, <2>0 DEF PushFt
  <2>2. /\ pc'[t] = "push" /\ pc'[u] = "setFt"
        /\ th'[t] = [th[t] EXCEPT !.sub = NoThread, !.j = SkipSelf(Srv(t), th[t].j + 1)]
        /\ \A x \in Threads \ {t, u} : pc'[x] = pc[x] /\ th'[x] = th[x]
    BY <1>10, <2>1 DEF PushFt
  <2>3. Srv(t) \in Nat /\ th[t] \in ThType /\ th[t].j + 1 \in Nat
    BY ThCalls DEF Srv, Servers, ThType
  <2>4. Good(t)
    <3>1. th'[t].j # th'[t].srv
      BY <1>7, <2>2, <2>3 DEF ThType, Srv
    <3> QED BY <2>2, <3>1
  <2>5. Good(u)
    BY <2>2 DEF PushPcs
  <2>6. ASSUME NEW x \in Threads \ {t, u} PROVE Good(x)
    <3>1. pc[x] = "pushFt" => th[x].sub \in Threads \ {t, u}
      BY <1>5, <2>0, <2>1 DEF Pushed
    <3> QED BY <1>4, <2>2, <3>1
  <2> QED BY <2>4, <2>5, <2>6
<1>11. ASSUME NEW t \in Threads, PushEnd(t) \/ SetSt(t)
       PROVE  \A x \in Threads : Good(x)
  <2>1. /\ pc'[t] \in {"await", "ackFt"} /\ th' = th
        /\ \A x \in Threads \ {t} : pc'[x] = pc[x]
    BY <1>11 DEF PushEnd, SetSt
  <2> QED BY <1>4, <2>1 DEF PushPcs
<1> QED
  BY <1>6, <1>8, <1>9, <1>10, <1>11

\* A mutex that somebody in a circle waits for is held by a thread that calls.
LEMMA HolderCalls ==
  ASSUME TypeOK, Protocol, NEW C \in SUBSET Threads, \A x \in C : WaitsFor(x) \in C,
         NEW h \in C, UnderS(h)
  PROVE  CallsLocked(h)
<1>1. h \in Threads /\ WaitsFor(h) \in C /\ Srv(h) \in Servers
  BY ThCalls DEF Srv
<1>2. WaitsFor(h) # NoThread
  BY <1>1, NoThreadApart
<1>3. CASE pc[h] = "lockF"
  <2>1. PICK g \in C : g = flock[Srv(h)]
    BY <1>1, <1>3 DEF WaitsFor
  <2>2. UnderBoth(g) /\ Srv(g) = Srv(h)
    BY <1>1, <2>1 DEF Protocol, LockDiscipline
  <2>3. g = h
    BY <1>1, <2>2 DEF Protocol, LockDiscipline, UnderS
  <2> QED BY <1>3, <2>2, <2>3 DEF UnderBoth, RepPcs
<1>4. CASE UnderBoth(h)
  BY <1>2, <1>4 DEF UnderBoth, WaitsFor, CallsLocked, RepPcs, Calling
<1> QED
  BY <1>3, <1>4 DEF UnderS

\* A call in a circle leads to one made with both mutexes held: its handler
\* waits for a mutex, or holds one, of the server it is on.
LEMMA HandlerWaits ==
  ASSUME TypeOK, Protocol, NEW C \in SUBSET Threads, \A x \in C : WaitsFor(x) \in C,
         NEW t \in C, pc[t] \in Calling
  PROVE  /\ th[t].sub \in C
         /\ pc[th[t].sub] = "setSt" <=> pc[t] = "pushFt"
         /\ \E p \in C : CallsLocked(p) /\ Srv(p) = Srv(th[t].sub)
<1>1. t \in Threads /\ WaitsFor(t) \in C /\ WaitsFor(t) # NoThread
  BY NoThreadApart
<1>2. pc[t] \in {"pushFt", "repOpen", "repWrite"} /\ WaitsFor(t) = th[t].sub
  BY <1>1 DEF WaitsFor, Calling
<1>3. PICK u \in C : u = th[t].sub
  BY <1>1, <1>2
<1>4. u \in Threads /\ WaitsFor(u) \in C /\ WaitsFor(u) # NoThread /\ Srv(u) \in Servers
  BY NoThreadApart, ThCalls DEF Srv
<1>5. Serves(u, t)
  BY <1>1, <1>3, Calls DEF Protocol
<1>6. /\ pc[u] \in Opening \cup {"setSt"}
      /\ pc[u] = "setSt" <=> pc[t] = "pushFt"
  <2>1. CASE pc[t] = "pushFt"
    BY <1>1, <1>3, <1>5, <2>1 DEF Serves, WaitsFor
  <2>2. CASE pc[t] = "repOpen"
    BY <1>5, <2>2 DEF Serves, Opening
  <2>3. CASE pc[t] = "repWrite"
    BY <1>4, <1>5, <2>3 DEF Serves, WaitsFor
  <2> QED BY <1>2, <2>1, <2>2, <2>3
<1>7. CASE pc[u] \in {"lockS", "setSt"}
  <2>1. PICK h \in C : h = slock[Srv(u)]
    BY <1>4, <1>7 DEF WaitsFor
  <2>2. UnderS(h) /\ Srv(h) = Srv(u)
    BY <1>4, <2>1 DEF Protocol, LockDiscipline
  <2> QED BY <1>3, <1>6, <2>2, HolderCalls
<1>8. CASE pc[u] \in {"lockF", "choose", "serve"}
  <2>1. UnderS(u)
    BY <1>8 DEF UnderS, UnderBoth
  <2> QED BY <1>3, <1>6, <2>1, HolderCalls
<1> QED
  BY <1>6, <1>7, <1>8 DEF Opening

\* Whatever the servers and their threads do, threads that wait in a circle
\* include two of different servers that call with both mutexes held.
THEOREM DeadlockNeedsTwoHolds == Spec => []DeadlockNeedsTwo
<1>1. ASSUME TypeOK, Protocol, CallsAway
      PROVE  DeadlockNeedsTwo
  <2> SUFFICES ASSUME NEW C \in SUBSET Threads, C # {}, \A x \in C : WaitsFor(x) \in C
               PROVE  \E p, q \in C : CallsLocked(p) /\ CallsLocked(q) /\ Srv(p) # Srv(q)
    BY DEF DeadlockNeedsTwo
  <2>1. PICK t \in C : TRUE
    OBVIOUS
  <2>2. /\ t \in Threads /\ WaitsFor(t) \in C /\ WaitsFor(t) # NoThread
        /\ Srv(t) \in Servers
    <3>1. t \in Threads /\ WaitsFor(t) \in C
      OBVIOUS
    <3>2. Srv(t) \in Servers
      BY <1>1, <3>1, ThCalls DEF Srv
    <3> QED BY <3>1, <3>2, NoThreadApart
  <2>3. \E p \in C : CallsLocked(p)
    <3>1. CASE pc[t] \in {"lockS", "setSt"}
      <4>1. PICK h \in C : h = slock[Srv(t)]
        BY <2>2, <3>1 DEF WaitsFor
      <4>2. UnderS(h)
        BY <2>2, <4>1, <1>1 DEF Protocol, LockDiscipline
      <4> QED BY <1>1, <4>2, HolderCalls
    <3>2. CASE pc[t] \in {"lockF", "setFt"}
      <4>1. PICK h \in C : h = flock[Srv(t)]
        BY <2>2, <3>2 DEF WaitsFor
      <4>2. UnderS(h)
        BY <2>2, <4>1, <1>1 DEF Protocol, LockDiscipline, UnderS
      <4> QED BY <1>1, <4>2, HolderCalls
    <3>3. CASE pc[t] \in Calling
      BY <1>1, <3>3, HandlerWaits
    <3>4. CASE pc[t] \in {"ackFt", "await"}
      <4>1. PICK k \in C : k = th[t].caller
        BY <2>2, <3>4 DEF WaitsFor
      <4>2. k \in Threads /\ k # NoThread
        BY NoThreadApart
      <4>3. pc[k] \in Calling
        BY <1>1, <2>2, <4>1, <4>2, Called DEF Protocol
      <4> QED BY <1>1, <4>3, HandlerWaits
    <3> QED BY <2>2, <3>1, <3>2, <3>3, <3>4 DEF WaitsFor, Calling
  <2>4. PICK p \in C : CallsLocked(p)
    BY <2>3
  <2>5. p \in Threads /\ pc[p] \in Calling /\ UnderBoth(p)
    BY <2>4 DEF CallsLocked
  <2>6. PICK q \in C : CallsLocked(q) /\ Srv(q) = Srv(th[p].sub)
    BY <1>1, <2>5, HandlerWaits
  <2>7. Srv(th[p].sub) # Srv(p)
    <3>1. CASE pc[p] = "pushFt"
      BY <1>1, <2>5, <3>1 DEF CallsAway, PushPcs
    <3>2. CASE pc[p] # "pushFt"
      <4>1. RepLocked(p)
        BY <2>5, <3>2 DEF RepLocked, UnderBoth, Calling
      <4>2. Srv(th[p].sub) = th[p].j
        BY <1>1, <2>5, <3>2, Calls DEF Protocol, Serves, Srv
      <4> QED BY <1>1, <2>5, <4>1, <4>2 DEF CallsAway
    <3> QED BY <3>1, <3>2
  <2> QED BY <2>4, <2>6, <2>7
<1>2. Init => CallsAway
  BY DEF Init, CallsAway, PushPcs, RepLocked, RepPcs
<1>3. TypeOK /\ Protocol /\ CallsAway /\ [Next]_vars => CallsAway'
  BY AwayNext DEF Protocol
<1> QED
  BY <1>1, <1>2, <1>3, ProtocolInv, PTL DEF Spec
=============================================================================
