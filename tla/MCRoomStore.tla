---------------------------- MODULE MCRoomStore ----------------------------
(* Instance of RoomStore for TLC: two rooms, two members.                  *)
EXTENDS RoomStore, TLC

CONSTANTS r1, r2, a, b, k, e, null

\* Room r1 has message 1 and its reply 2, room r2 has message 3.
Stored ==
    LET row(room, by, key, parent) ==
            [room |-> room, by |-> by, key |-> key, parent |-> parent, text |-> "old",
             reacts |-> {}, pin |-> null, deleted |-> FALSE]
    IN  [rooms |-> {r1, r2}, flags |-> [x \in Rooms |-> {}],
         msg |-> <<row(r1, a, k, 0), row(r1, b, null, 1), row(r2, a, null, 0)>>, last |-> 3,
         control |-> [x \in Rooms |-> [m \in Members |-> {}]],
         cursor |-> [x \in Rooms |-> [m \in Members |-> IF x = r1 /\ m = a THEN 2 ELSE 0]]]

\* The same room frozen and archived, for unarchiving and deletion.
Databases == {Stored, [Stored EXCEPT !.flags[r1] = {"archived", "frozen"}]}

Ask(op, room, by, msg) ==
    [op |-> op, room |-> room, by |-> by, admin |-> FALSE, msg |-> msg, key |-> null, emoji |-> e,
     on |-> TRUE, text |-> "new", cut |-> 0, flags |-> <<>>, socket |-> "no"]
Admin(q) == [q EXCEPT !.admin = TRUE]
Set(q, f, v) == [q EXCEPT !.admin = TRUE, !.flags = [x \in {f} |-> v]]

Messages ==
    {[Ask("create", r1, b, 0) EXCEPT !.key = k], Ask("create", r1, b, 1), Ask("create", r1, b, 2),
     [Ask("create", r1, a, 0) EXCEPT !.socket = "typing", !.cut = 1], Ask("create", r2, b, 0)}
Rewrites ==
    {Ask("update", r1, a, 4), Ask("delete", r1, a, 1), Admin(Ask("delete", r1, b, 2)),
     Ask("react", r1, b, 1), [Ask("react", r1, b, 1) EXCEPT !.on = FALSE], Ask("pin", r1, b, 2)}
Administration ==
    {Set(Ask("setRoomState", r1, a, 0), "archived", TRUE), Set(Ask("setRoomState", r1, a, 0), "archived", FALSE),
     Admin(Ask("deleteRoom", r1, a, 0)), Admin(Ask("createRoom", r1, a, 0)),
     Set(Ask("moderate", r1, b, 0), "muted", TRUE)}
Others ==
    {Ask("read", r1, a, 0), Ask("read", r1, b, 2), Ask("clear", r1, a, 0),
     [Admin(Ask("retain", r1, a, 0)) EXCEPT !.cut = 2]}

AllRequests == Messages \cup Rewrites \cup Administration \cup Others

\* The processes are interchangeable.
ProcSymmetry == Permutations(Procs)
=============================================================================
