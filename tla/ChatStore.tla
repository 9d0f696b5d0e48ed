----------------------------- MODULE ChatStore -----------------------------
(***************************************************************************)
(* What the storage protocol promises its callers (store.py, ChatStorage): *)
(* every request that is accepted takes effect at one instant, on the      *)
(* database as it is at that instant, whatever else is being served.       *)
(*                                                                         *)
(* Reading is the one exception: mark_read looks a message up without      *)
(* locking it, so the cursor may move to a message that retention removes  *)
(* before the cursor is written.                                           *)
(***************************************************************************)
EXTENDS ChatRows

VARIABLE db

Accepts(q) == RoomAllows(db, q) /\ RowAllows(db, q) /\ Changes(db, q)

Init == db \in Initial

CreateMessage(q) ==
    /\ q.op = "create" /\ db.last < MaxIds
    /\ Accepts(q)
    /\ db' = Effect(db, q, Victims(db, q), 0)

\* update_message, delete_message, set_message_reaction, set_message_pin.
RewriteMessage(q) ==
    /\ q.op \in {"update", "delete", "react", "pin"}
    /\ Accepts(q)
    /\ db' = Effect(db, q, {}, 0)

\* create_room, set_room_state, delete_room and set_member_moderation.
Administer(q) ==
    /\ q.op \in {"createRoom", "setRoomState", "deleteRoom", "moderate"}
    /\ Accepts(q)
    /\ db' = Effect(db, q, Victims(db, q), 0)

RunRetention(q) ==
    /\ q.op = "retain"
    /\ db' = Effect(db, q, Victims(db, q), 0)

\* The positions a read may have found: a message of the room, or one that
\* is no longer stored.
Found(q) ==
    LET seen == {i \in 1..db.last : i \in DOMAIN db.msg => db.msg[i].room = q.room}
    IN  IF q.msg # 0 THEN {2 * i : i \in seen \cap {q.msg}}
        ELSE {2 * i : i \in seen} \cup {2 * i + 1 : i \in 0..db.last}

MarkRead(q) ==
    /\ q.op = "read"
    /\ q.room \in db.rooms
    /\ db.cursor[q.room][q.by] # 0 \/ Cardinality(HasCursor(db, q.room)) < MaxCursors
    /\ \E pos \in Found(q) : /\ pos > db.cursor[q.room][q.by]
                             /\ db' = Effect(db, q, {}, pos)

ClearReadState(q) ==
    /\ q.op = "clear"
    /\ Accepts(q)
    /\ db' = Effect(db, q, {}, 0)

\* A mute or a ban reaches its end.
Lapse(r, m) ==
    \E c \in db.control[r][m] : db' = [db EXCEPT !.control = Put(@, r, m, db.control[r][m] \ {c})]

Next ==
    \/ \E q \in Requests : \/ CreateMessage(q) \/ RewriteMessage(q) \/ Administer(q)
                           \/ RunRetention(q) \/ MarkRead(q) \/ ClearReadState(q)
    \/ \E r \in Rooms, m \in Members : Lapse(r, m)

Spec == Init /\ [][Next]_db
=============================================================================
