---------------------------- MODULE MCRfsServer ----------------------------
(* Small instances of RfsServer: the file placements and the requests of   *)
(* the configurations.                                                     *)
EXTENDS RfsServer, TLC

CONSTANTS c1, c2

Ask(s, f, m) == [srv |-> s, f |-> f, mode |-> m]

\* Where the files are: one file, on server 0, on server 1, on both; two
\* files, both on server 0, or one on both servers and one on server 1 or 0.
OnZero == [f \in {0} |-> <<0>>]
OnOne  == [f \in {0} |-> <<1>>]
OnBoth == [f \in {0} |-> <<0, 1>>]
TwoOnZero == [f \in {0, 1} |-> <<0>>]
OneAndBoth == [f \in {0, 1} |-> IF f = 0 THEN <<0>> ELSE <<0, 1>>]
BothAndOne == [f \in {0, 1} |-> IF f = 0 THEN <<0, 1>> ELSE <<1>>]

\* What the two clients ask for.
HomeZero    == (c1 :> {Ask(0, 0, "read")}) @@ (c2 :> {Ask(0, 0, "write")})
ReadersEach == (c1 :> {Ask(0, 0, "read")}) @@ (c2 :> {Ask(1, 0, "read")})
TwoFilesEach == (c1 :> {Ask(0, 0, "read")}) @@ (c2 :> {Ask(1, 1, "read")})
WritersEach == (c1 :> {Ask(0, 0, "write")}) @@ (c2 :> {Ask(1, 0, "write")})
WriterAndReader == (c1 :> {Ask(0, 0, "write"), Ask(0, 1, "read")})
                 @@ (c2 :> {Ask(1, 0, "read")})
OneWriter   == (c1 :> {Ask(0, 0, "write")}) @@ (c2 :> {})
ReadThenWrite == (c1 :> {Ask(0, 0, "read"), Ask(0, 1, "write")}) @@ (c2 :> {})

\* How often.
OnlyOne   == (c1 :> 1) @@ (c2 :> 0)
OneEach   == (c1 :> 1) @@ (c2 :> 1)
TwoAndOne == (c1 :> 2) @@ (c2 :> 1)
OneAndTwo == (c1 :> 1) @@ (c2 :> 2)
ThreeAndOne == (c1 :> 3) @@ (c2 :> 1)
=============================================================================
