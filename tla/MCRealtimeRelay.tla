-------------------------- MODULE MCRealtimeRelay --------------------------
(* Instances of RealtimeRelay for TLC. *)
EXTENDS RealtimeRelay

Message == [type |-> "message", to |-> Conns]
Archive == [type |-> "archived", to |-> Conns]
Reopen  == [type |-> "reopened", to |-> Conns]
Ban(c)  == [type |-> "banned", to |-> {c}]

\* Messages only; or with the room's lifecycle and the ban of one member.
MessageShapes == {Message}
RevocationShapes ==
    LET c == CHOOSE c \in Conns : TRUE
    IN  {Message, Archive, Reopen, Ban(c)}

\* All processes are configured with the one instance id.
SharedId == [p \in Procs |-> CHOOSE i \in Instances : TRUE]
=============================================================================
