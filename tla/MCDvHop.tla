------------------------------ MODULE MCDvHop ------------------------------
(* Small networks for DvHop. *)
EXTENDS DvHop, TLC

CONSTANTS n1, n2, n3, n4

Both(a, b) == {<<a, b>>, <<b, a>>}
Ring == Both(n1, n2) \cup Both(n2, n3) \cup Both(n3, n4) \cup Both(n4, n1)

\* No two motes of the ring are more than two hops apart.
RingHops == (n1 :> ((n1 :> 0) @@ (n2 :> 1) @@ (n3 :> 2) @@ (n4 :> 1)))
         @@ (n2 :> ((n1 :> 1) @@ (n2 :> 0) @@ (n3 :> 1) @@ (n4 :> 2)))
         @@ (n3 :> ((n1 :> 2) @@ (n2 :> 1) @@ (n3 :> 0) @@ (n4 :> 1)))
         @@ (n4 :> ((n1 :> 1) @@ (n2 :> 2) @@ (n3 :> 1) @@ (n4 :> 0)))
=============================================================================
