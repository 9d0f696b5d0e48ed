------------------------------ MODULE ChatRows ------------------------------
(***************************************************************************)
(* The rows of the chat store (store.py, postgres_store.py) and what each  *)
(* operation checks and writes.  A database d is a record:                 *)
(*                                                                         *)
(*   rooms, flags   the rooms, and archived_at / frozen_at of each         *)
(*   msg, last      the stored messages by creation order, and the last    *)
(*                  position used; (created_at, id) only orders them       *)
(*   control        muted_until and banned_until that are in the future    *)
(*   cursor         the read cursor of a member: 0 without a row, 2 * i    *)
(*                  at message i, odd for the time of a read of an empty   *)
(*                  room                                                   *)
(*                                                                         *)
(* Content, metadata, attachments and mentions are one text, a reaction    *)
(* is a member with an emoji, and an instant is its order among messages:  *)
(* cut is the newest message that is older than message_retention_days     *)
(* when the request is served.                                             *)
(***************************************************************************)
EXTENDS Integers, FiniteSets, Functions

CONSTANTS
    Rooms, Members, Texts, Keys, Emojis,
    None,           \* NULL
    Requests,       \* the requests handlers may be asked to serve
    Initial,        \* the databases the service may be started on
    MaxIds,         \* bound: messages ever created
    MaxRooms,       \* max_rooms
    MaxPerRoom,     \* max_stored_messages_per_room
    MaxStored,      \* max_stored_messages
    MaxCursors,     \* max_read_states_per_room
    MaxEmojis       \* distinct reaction keys of a message (20 in the code)

Ids == 1..MaxIds
RoomFlags == {"archived", "frozen"}
Controls == {"muted", "banned"}

Row == [room: Rooms, by: Members, key: Keys \cup {None}, parent: 0..MaxIds,
        text: Texts \cup {None}, reacts: SUBSET (Members \X Emojis),
        pin: Members \cup {None}, deleted: BOOLEAN]

Operations == {"createRoom", "setRoomState", "deleteRoom", "create", "update", "delete",
               "react", "pin", "moderate", "read", "clear", "retain"}

\* by is the member the request is about: the author, the reactor, the
\* reader or the member who is moderated.  msg is the parent of a new
\* message, otherwise the message acted on (0 for none).  flags are the room
\* flags or controls the request sets, with their new values.  socket tells
\* a WebSocket command: "no", "quiet" or, from a typing socket, "typing".
Request == [op: Operations, room: Rooms, by: Members, admin: BOOLEAN, msg: 0..MaxIds,
            key: Keys \cup {None}, emoji: Emojis, on: BOOLEAN, text: Texts, cut: 0..MaxIds,
            flags: UNION {[S -> BOOLEAN] : S \in SUBSET (RoomFlags \cup Controls)},
            socket: {"no", "quiet", "typing"}]

Positions == 0..2 * MaxIds + 1

IsDatabase(d) ==
    /\ d = [rooms |-> d.rooms, flags |-> d.flags, msg |-> d.msg, last |-> d.last,
            control |-> d.control, cursor |-> d.cursor]
    /\ d.rooms \subseteq Rooms /\ IsFiniteSet(d.rooms)
    /\ d.flags \in [Rooms -> SUBSET RoomFlags]
    /\ d.last \in 0..MaxIds
    /\ DOMAIN d.msg \subseteq 1..d.last
    /\ d.msg \in [DOMAIN d.msg -> Row]
    /\ d.control \in [Rooms -> [Members -> SUBSET Controls]]
    /\ d.cursor \in [Rooms -> [Members -> Positions]]

\* What every database must satisfy: no client message id twice in a room,
\* threads of depth one inside a room, nothing left in a tombstone, no
\* message without its room.
UniqueKeys(d) ==
    \A i, j \in DOMAIN d.msg :
        d.msg[i].key # None /\ d.msg[i].key = d.msg[j].key /\ d.msg[i].room = d.msg[j].room => i = j
FlatThreads(d) ==
    \A i \in DOMAIN d.msg : LET p == d.msg[i].parent IN
        p # 0 => p \in DOMAIN d.msg /\ d.msg[p].room = d.msg[i].room /\ d.msg[p].parent = 0
BareTombstones(d) ==
    \A i \in DOMAIN d.msg :
        d.msg[i].deleted => d.msg[i].text = None /\ d.msg[i].reacts = {} /\ d.msg[i].pin = None
Housed(d) == \A i \in DOMAIN d.msg : d.msg[i].room \in d.rooms
Integrity(d) == UniqueKeys(d) /\ FlatThreads(d) /\ BareTombstones(d) /\ Housed(d)

ASSUME ConstantsAssumption ==
    /\ {MaxIds, MaxRooms, MaxPerRoom, MaxStored, MaxCursors, MaxEmojis} \subseteq Nat
    /\ MaxPerRoom > 0 /\ MaxStored > 0
    /\ None \notin Texts \cup Keys \cup Members
    /\ Requests \subseteq Request
    /\ \A q \in Requests : /\ q.op = "setRoomState" => DOMAIN q.flags \subseteq RoomFlags
                           /\ q.op = "moderate" => DOMAIN q.flags \subseteq Controls
                           /\ q.socket # "no" => q.op = "create"
    /\ \A d \in Initial : IsDatabase(d) /\ Integrity(d)

-----------------------------------------------------------------------------
(* What a request is refused for, in the order of the code.                *)

\* _lock_writable_room and _enforce_member_write_sync.
Writable(d, q) ==
    /\ q.room \in d.rooms
    /\ "archived" \in d.flags[q.room] => q.op = "delete" /\ q.admin
    /\ "frozen" \in d.flags[q.room] => q.admin
    /\ q.admin \/ d.control[q.room][q.by] = {}

\* The room is fit for the request.
RoomAllows(d, q) ==
    CASE q.op = "createRoom" -> Cardinality(d.rooms) < MaxRooms /\ q.room \notin d.rooms
      [] q.op = "deleteRoom" -> q.room \in d.rooms /\ "archived" \in d.flags[q.room]
      [] q.op \in {"setRoomState", "moderate", "read", "clear"} -> q.room \in d.rooms
      [] q.op = "retain" -> TRUE
      [] OTHER -> Writable(d, q)

InRoom(d, r) == {i \in DOMAIN d.msg : d.msg[i].room = r}
Target(d, q) == q.msg \in InRoom(d, q.room)
Live(d, q) == Target(d, q) /\ ~d.msg[q.msg].deleted
Owned(d, q) == q.admin \/ d.msg[q.msg].by = q.by

\* client_message_id was used before in the room: creation is a replay.
Replayed(d, q) == q.key # None /\ \E i \in InRoom(d, q.room) : d.msg[i].key = q.key

Reacted(d, q) == <<q.by, q.emoji>> \in d.msg[q.msg].reacts
UsedEmojis(d, q) == {r[2] : r \in d.msg[q.msg].reacts}
HasCursor(d, r) == {m \in Members : d.cursor[r][m] # 0}

\* A parent is live and is not itself a reply.
ParentAllows(d, q) == q.msg = 0 \/ (Live(d, q) /\ d.msg[q.msg].parent = 0)

\* The message, the reactions or the cursors are fit for the request.
RowAllows(d, q) ==
    CASE q.op = "create" -> ParentAllows(d, q)
      [] q.op = "update" -> Live(d, q) /\ Owned(d, q)
      [] q.op = "delete" -> Target(d, q) /\ Owned(d, q)
      [] q.op = "react" -> /\ Live(d, q)
                           /\ \/ ~q.on \/ Reacted(d, q) \/ q.emoji \in UsedEmojis(d, q)
                              \/ Cardinality(UsedEmojis(d, q)) < MaxEmojis
      [] q.op = "pin" -> Live(d, q)
      [] q.op = "read" -> /\ q.msg # 0 => Target(d, q)
                          /\ \/ d.cursor[q.room][q.by] # 0
                             \/ Cardinality(HasCursor(d, q.room)) < MaxCursors
      [] OTHER -> TRUE

-----------------------------------------------------------------------------
(* What a request writes.                                                  *)

\* The messages that leave S when only its newest n are kept.
Beyond(S, n) == {i \in S : Cardinality({j \in S : j > i}) >= n}

\* _trim_messages, just after message d.last + 1 was inserted: by age, then
\* by the cap of the room, then by the cap of the store.
Trimmed(d, q) ==
    LET new   == d.last + 1
        aged  == {i \in DOMAIN d.msg : i <= q.cut}
        room  == Beyond((InRoom(d, q.room) \cup {new}) \ aged, MaxPerRoom)
        total == Beyond((DOMAIN d.msg \cup {new}) \ (aged \cup room), MaxStored)
    IN  aged \cup room \cup total

\* The stored messages a request removes.
Victims(d, q) ==
    CASE q.op = "create" -> Trimmed(d, q)
      [] q.op = "retain" -> {i \in DOMAIN d.msg : i <= q.cut}
      [] q.op = "deleteRoom" -> InRoom(d, q.room)
      [] OTHER -> {}

\* Removing messages; parent_message_id is ON DELETE SET NULL.
Without(msg, V) ==
    [i \in DOMAIN msg \ V |-> [msg[i] EXCEPT !.parent = IF @ \in V THEN 0 ELSE @]]

NewRow(q) == [room |-> q.room, by |-> q.by, key |-> q.key, parent |-> q.msg, text |-> q.text,
              reacts |-> {}, pin |-> None, deleted |-> FALSE]

\* mutant: a tombstone keeps its reactions and its pin
TombstoneTextOnly(row) == [row EXCEPT !.text = None, !.deleted = TRUE]

\* _DELETE_MESSAGE_SQL and the deletion of the reactions.
Tombstone(row) == [row EXCEPT !.text = None, !.reacts = {}, !.pin = None, !.deleted = TRUE]

\* The message row after update, delete, react or pin.
Rewritten(row, q) ==
    CASE q.op = "update" -> [row EXCEPT !.text = q.text]
      [] q.op = "delete" -> Tombstone(row)
      [] q.op = "react" ->
            [row EXCEPT !.reacts = IF q.on THEN @ \cup {<<q.by, q.emoji>>}
                                           ELSE @ \ {<<q.by, q.emoji>>}]
      [] q.op = "pin" -> [row EXCEPT !.pin = IF q.on THEN q.by ELSE None]

\* Flags or controls after a request that names some of them.
Patched(old, flags) ==
    (old \ DOMAIN flags) \cup {f \in DOMAIN flags : flags[f]}

\* The control or the cursor of member m in room r becomes v.
Put(f, r, m, v) == [f EXCEPT ![r] = [@ EXCEPT ![m] = v]]

\* The position a read moves to: the named message, else the newest one,
\* else the time of the read.
ReadPosition(d, q) ==
    LET room == InRoom(d, q.room)
    IN  IF q.msg # 0 THEN 2 * q.msg
        ELSE IF room = {} THEN 2 * d.last + 1
        ELSE 2 * (CHOOSE i \in room : \A j \in room : j <= i)

\* The row that was read still differs from what is asked for; otherwise
\* the request succeeds without a write and without an event.
Changes(d, q) ==
    CASE q.op = "create" -> ~Replayed(d, q)
      [] q.op = "delete" -> ~d.msg[q.msg].deleted
      [] q.op = "react" -> Reacted(d, q) # q.on
      [] q.op = "pin" -> (d.msg[q.msg].pin # None) # q.on
      [] q.op = "read" -> ReadPosition(d, q) > d.cursor[q.room][q.by]
      [] q.op = "clear" -> d.cursor[q.room][q.by] # 0
      [] q.op = "setRoomState" -> Patched(d.flags[q.room], q.flags) # d.flags[q.room]
      [] OTHER -> TRUE

\* The database after a request, when it removes V and reads up to pos.
Effect(d, q, V, pos) ==
    CASE q.op = "createRoom" -> [d EXCEPT !.rooms = @ \cup {q.room}]
      [] q.op = "setRoomState" ->
            [d EXCEPT !.flags = [@ EXCEPT ![q.room] = Patched(d.flags[q.room], q.flags)]]
      [] q.op = "deleteRoom" ->
            [d EXCEPT !.rooms = @ \ {q.room}, !.msg = Without(@, V),
                      !.flags = [@ EXCEPT ![q.room] = {}],
                      !.control = [@ EXCEPT ![q.room] = [m \in Members |-> {}]],
                      !.cursor = [@ EXCEPT ![q.room] = [m \in Members |-> 0]]]
      [] q.op = "create" ->
            [d EXCEPT !.last = @ + 1,
                      !.msg = Without([i \in DOMAIN @ \cup {d.last + 1} |->
                                          IF i = d.last + 1 THEN NewRow(q) ELSE @[i]], V)]
      [] q.op = "retain" -> [d EXCEPT !.msg = Without(@, V)]
      [] q.op = "moderate" ->
            [d EXCEPT !.control = Put(@, q.room, q.by, Patched(d.control[q.room][q.by], q.flags))]
      [] q.op = "read" -> [d EXCEPT !.cursor = Put(@, q.room, q.by, pos)]
      [] q.op = "clear" -> [d EXCEPT !.cursor = Put(@, q.room, q.by, 0)]
      [] OTHER -> [d EXCEPT !.msg = [i \in DOMAIN @ |->
                                        IF i = q.msg THEN Rewritten(@[i], q) ELSE @[i]]]
=============================================================================
