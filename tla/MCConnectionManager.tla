------------------------ MODULE MCConnectionManager ------------------------
(* Instances of ConnectionManager for TLC.                                 *)
EXTENDS ConnectionManager

\* All sockets join one room, each for a subject of its own, so any
\* permutation of the sockets is a symmetry of the specification.
OneRoom == [s \in Sockets |-> "general"]
OwnSubjects == [s \in Sockets |-> s]
SocketSymmetry == Permutations(Sockets)

\* The second event is larger than the others.
Sizes == [e \in 1..MaxEvents |-> IF e = 2 THEN 2 ELSE 1]
=============================================================================
