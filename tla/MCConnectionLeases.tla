------------------------- MODULE MCConnectionLeases -------------------------
(* Instances of ConnectionLeases for TLC.                                  *)
EXTENDS ConnectionLeases, TLC

CONSTANTS c1, c2, r1, r2, i1, i2

Homes == (c1 :> i1) @@ (c2 :> i2)

\* The two connections compete for one room, or are in different ones.
OneOrTwoRooms == {(c1 :> r1) @@ (c2 :> r1), (c1 :> r1) @@ (c2 :> r2)}
=============================================================================
