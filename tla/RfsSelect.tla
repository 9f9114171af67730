----------------------------- MODULE RfsSelect -----------------------------
(***************************************************************************)
(* The tables of one server process as a sequence of opens and             *)
(* replications of its files change them, to compare the description of    *)
(* select_peer that RfsTables gives with the two loops of the code, over   *)
(* every table such a sequence can reach.                                  *)
(***************************************************************************)
EXTENDS RfsTables

CONSTANT MaxRequest   \* bound: opens counted in the popularity of a file

VARIABLES st,     \* server_list
          ft      \* file_list

(* The loops of select_peer, each as the function from the number of passes *)
(* made to the locals they leave.                                           *)
MaxFreeAfter(table) ==
  LET loop[i \in 0 .. NServers] ==
        IF i = 0 THEN 0
        ELSE IF table[i - 1].free > table[loop[i - 1]].free THEN i - 1
        ELSE loop[i - 1]
  IN  loop[NServers]

SelectPeerAfter(table, row) ==
  LET loop[j \in 0 .. Len(row.index)] ==
        IF j = 0 THEN [max_pair |-> 0, s_idx |-> -1]
        ELSE LET tmp == table[j - 1].free + row.request
             IN  IF tmp > loop[j - 1].max_pair
                 THEN [max_pair |-> tmp, s_idx |-> j - 1]
                 ELSE loop[j - 1]
  IN  loop[Len(row.index)].s_idx

-----------------------------------------------------------------------------

Init == /\ st = [i \in Slots |-> [ZeroServer EXCEPT
                                    !.free = IF i \in Servers THEN MAX_FREE
                                                              ELSE 0]]
        /\ \E s \in [Files -> Servers] :
             ft = [f \in Files |-> [request |-> 0, index |-> <<s[f]>>]]

\* on_fopen for an open that server s served, here or in a table it pushed.
Open(s, f) == /\ ft[f].request < MaxRequest
              /\ st' = FreeAfterOpen(st, s)
              /\ ft' = Popular(ft, f)

\* The end of a replication to server "to".
Replicated(to, f) == /\ Len(ft[f].index) < MAX_SERVERS
                     /\ ft' = AddReplica(ft, f, to)
                     /\ UNCHANGED st

Next == \E s \in Servers, f \in Files : Open(s, f) \/ Replicated(s, f)

Spec == Init /\ [][Next]_<<st, ft>>

-----------------------------------------------------------------------------

\* select_peer's loops find what RfsTables says they find: the first most
\* free server, and the first position of largest free + request, or -1.
LoopsAgree == /\ MaxFreeAfter(st) = MostFree(st)
              /\ \A f \in Files :
                   SelectPeerAfter(st, ft[f]) = SelectPeer(st, ft[f])
=============================================================================
