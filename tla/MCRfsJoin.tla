----------------------------- MODULE MCRfsJoin -----------------------------
(* A small instance of RfsJoin: a file that two hosts have, one that the     *)
(* third has.                                                                *)
EXTENDS RfsJoin, TLC

CONSTANTS h1, h2, h3, f1, f2

TwoShareOne == (h1 :> {f1}) @@ (h2 :> {f1}) @@ (h3 :> {f2})
=============================================================================
